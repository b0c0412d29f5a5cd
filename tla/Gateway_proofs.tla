----------------------------- MODULE Gateway_proofs -----------------------------
(***************************************************************************)
(* Proofs about Gateway, for any number of users, domains, documents and    *)
(* calls and whatever meets in a behaviour: a call is given documents that  *)
(* its caller could read, and changes what its caller could change, at some *)
(* time while it was in progress.  And, for any answer cut anywhere: a       *)
(* stream has one end, and one that says it has finished is complete.        *)
(***************************************************************************)
EXTENDS Gateway, ChatStream_proofs, TLAPS

Pcs == {"idle", "listing", "context", "forward", "connected", "sidecar", "answered", "streaming"}
Ops == {"none", "chat", "search", "ask", "capture", "upload", "delete", "create", "drop",
        "restore", "export", "download"}

\* The level that a call needs on its domains.
Need(op) == IF op \in {"capture", "upload"} THEN 2
            ELSE IF op \in {"delete", "create", "drop", "restore", "export"} THEN 3
            ELSE 1

\* The changes that name one domain.
Changing == {"capture", "upload", "delete", "create", "drop", "restore"}

\* The copy is that of the file, once it has been read and could be.
AInv ==
    /\ file \in Files \cup {Unreadable} /\ users \in Files \cup {NoUsers}
    /\ copy \in {"due", "current", "behind"}
    /\ copy = "current" /\ file \in Files => users = file

\* The types, field by field, and that of mix.
MInv ==
    /\ conn \in Calls \cup {Nobody} /\ to \in [Calls -> Calls \cup {Nobody}]
    /\ handed \in [Calls -> SUBSET Docs]
WInv ==
    /\ AInv /\ MInv
    /\ seeds \subseteq Domains /\ held \subseteq Docs /\ files \subseteq Docs
    /\ mix \in Mixes

CallOK(k) ==
    /\ DOMAIN k = {"pc", "op", "who", "service", "in", "ctx"}
    /\ k.pc \in Pcs /\ k.op \in Ops /\ k.in \subseteq Domains /\ k.ctx \subseteq Docs
    /\ k.pc \in {"idle", "streaming"} => k.in = {} /\ k.ctx = {}
    /\ k.pc \in {"listing", "context"} => k.op = "chat"
    /\ k.pc \in {"connected", "sidecar"} /\ k.op \in Changing => \E d \in Domains : k.in = {d}

\* What a call may still need: its levels on its domains, to read all domains
\* while they are listed, and to read what it has been given.
Entitled(k, rights) ==
    /\ \A d \in k.in : \A n \in 1 .. Need(k.op) : <<d, n>> \in rights
    /\ k.pc = "listing" => \A d \in Domains : <<d, 1>> \in rights
    /\ \A x \in k.ctx : <<Home[x], 1>> \in rights

KInv ==
    /\ DOMAIN call = Calls /\ DOMAIN may = Calls
    /\ \A r \in Calls : CallOK(call[r]) /\ Entitled(call[r], may[r])

GInv == WInv /\ KInv

LEMMA MixTypes == ASSUME WInv PROVE mix.calls \subseteq Calls /\ mix.domains \subseteq Domains
BY FilesAssumption DEF WInv

LEMMA NeedLevels == ASSUME NEW op PROVE Need(op) \in 1 .. 3
BY DEF Need

LEMMA MoreRights ==
    ASSUME NEW k, NEW R, NEW S, R \subseteq S, Entitled(k, R)
    PROVE  Entitled(k, S)
BY DEF Entitled

\* Rights only come to a call that goes on.
LEMMA Kept ==
    ASSUME KInv, NoteRights, NEW r \in Calls, call'[r] = call[r]
    PROVE  CallOK(call'[r]) /\ Entitled(call'[r], may'[r])
<1>1. CASE call[r].pc \in {"idle", "streaming"}
  <2>1. call[r].in = {} /\ call[r].ctx = {} /\ call[r].pc # "listing"
    BY <1>1 DEF KInv, CallOK
  <2> QED  BY <2>1 DEF KInv, Entitled
<1>2. CASE call[r].pc \notin {"idle", "streaming"}
  <2>1. may[r] \subseteq may'[r]
    BY <1>2 DEF NoteRights
  <2> QED  BY <2>1, MoreRights DEF KInv
<1> QED  BY <1>1, <1>2

\* A step of one call keeps the invariant of all if it keeps that call's.
LEMMA OneCall ==
    ASSUME KInv, NoteRights, NEW r \in Calls,
           DOMAIN call' = Calls, \A s \in Calls \ {r} : call'[s] = call[s],
           CallOK(call'[r]), Entitled(call'[r], may'[r])
    PROVE  KInv'
<1>1. DOMAIN may' = Calls
  BY DEF NoteRights
<1>2. ASSUME NEW s \in Calls PROVE CallOK(call'[s]) /\ Entitled(call'[s], may'[s])
  BY <1>2, Kept
<1> QED  BY <1>1, <1>2 DEF KInv

\* A call that has returned, or that is a stream by now, needs nothing.
LEMMA Returns ==
    ASSUME KInv, NoteRights, NEW r \in Calls, Return(r)
    PROVE  KInv'
<1>1. /\ DOMAIN call' = Calls /\ \A s \in Calls \ {r} : call'[s] = call[s]
      /\ call'[r] = Idle
  BY DEF KInv, Return
<1>2. CallOK(call'[r]) /\ Entitled(call'[r], may'[r])
  BY <1>1 DEF Idle, CallOK, Entitled, Pcs, Ops, Changing
<1> QED  BY <1>1, <1>2, OneCall

\* A call that goes on has the rights it had.
LEMMA GoesOn ==
    ASSUME KInv, NoteRights, NEW r \in Calls, NEW k,
           call' = [call EXCEPT ![r] = k], k.pc \notin {"idle", "streaming"},
           CallOK(k), Entitled(k, may[r])
    PROVE  KInv'
<1>1. /\ DOMAIN call' = Calls /\ \A s \in Calls \ {r} : call'[s] = call[s]
      /\ call'[r] = k
  BY DEF KInv
<1>2. may[r] \subseteq may'[r]
  BY <1>1 DEF NoteRights
<1> QED  BY <1>1, <1>2, MoreRights, OneCall

-----------------------------------------------------------------------------
(* The doors.                                                                *)

\* The rights that an authentication stands for.
Covers(a, rights) ==
    /\ a.admin \in BOOLEAN /\ a.level \in [Domains -> 0 .. 3]
    /\ \A d \in Domains : \A n \in 1 .. 4 :
           a.admin \/ n <= a.level[d] => <<d, n>> \in rights

\* What a request authenticates against is what is in force.
LEMMA ReloadedIsLaw ==
    ASSUME AInv, Reloads
    PROVE  Reloaded \in Files \cup {NoUsers} /\ Law' = Reloaded
BY DEF AInv, Reloads, Reloaded, Law

\* The record of a user is one that users.json may hold, or nobody's.
LEMMA RecordTypes ==
    ASSUME NEW f \in Files \cup {NoUsers}, NEW p \in People
    PROVE  /\ f[p].enabled \in BOOLEAN /\ f[p].admin \in BOOLEAN
           /\ f[p].level \in [Domains -> 0 .. 3] /\ f[p].named \subseteq Domains
<1>1. f[p] \in Record
  <2>1. CASE f \in Files
    BY <2>1, FilesAssumption
  <2>2. CASE f = NoUsers
    BY <2>2 DEF NoUsers, Gone, Record
  <2> QED  BY <2>1, <2>2
<1> QED  BY <1>1 DEF Record

\* A chat may look into what its caller's entry names.
Names(a, k) ==
    a.named \subseteq Domains /\ (k.op = "chat" => \A d \in a.named : <<d, 1>> \in Rights(k))

\* A user who is enabled has the rights that the record says.
LEMMA UserRights ==
    ASSUME AInv, Reloads, NEW p \in People, Reloaded[p].enabled, NEW k, k.who = p
    PROVE  Covers(AuthOf(Reloaded[p]), Rights(k)) /\ Names(AuthOf(Reloaded[p]), k)
<1> DEFINE u == Reloaded[p]
           a == AuthOf(Reloaded[p])
<1>1. a.admin = u.admin /\ a.level = u.level /\ a.named = u.named
  BY DEF AuthOf
<1>2. Rights(k) = {right \in Domains \X (1 .. 4) :
                     /\ u.enabled
                     /\ \/ u.admin \/ right[2] <= u.level[right[1]]
                        \/ k.op = "chat" /\ right[2] = 1 /\ right[1] \in u.named}
  BY ReloadedIsLaw DEF Rights
<1>3. /\ u.enabled /\ u.admin \in BOOLEAN
      /\ u.level \in [Domains -> 0 .. 3] /\ u.named \subseteq Domains
  BY ReloadedIsLaw, RecordTypes
<1> HIDE DEF u, a
<1>4. ASSUME NEW d \in Domains, NEW n \in 1 .. 4, u.admin \/ n <= u.level[d]
      PROVE  <<d, n>> \in Rights(k)
  BY <1>2, <1>3, <1>4
<1>5. ASSUME NEW d \in u.named, k.op = "chat" PROVE <<d, 1>> \in Rights(k)
  <2>1. <<d, 1>> \in Domains \X (1 .. 4)
    BY <1>3
  <2> QED  BY <1>2, <1>3, <1>5, <2>1
<1>6. Covers(a, Rights(k))
  BY <1>1, <1>3, <1>4 DEF Covers
<1>7. Names(a, k)
  BY <1>1, <1>3, <1>5 DEF Names
<1> QED  BY <1>6, <1>7 DEF a

\* The brain key, and the service token alone, stand for everything.
LEMMA KeyRights ==
    ASSUME AInv, Reloads, NEW service \in BOOLEAN, NEW k, k.who = Nobody, k.service = service,
           IF service THEN k.op # "chat" ELSE ~hasRealGlobalAdmin
    PROVE  Covers(Admin(service), Rights(k)) /\ Names(Admin(service), k)
<1>1. Rights(k) = Domains \X (1 .. 4)
  BY HomeAssumption, ReloadedIsLaw DEF Rights, hasRealGlobalAdmin
<1>2. /\ Admin(service).admin = TRUE /\ Admin(service).level = [d \in Domains |-> 0]
      /\ Admin(service).named = {}
  BY DEF Admin
<1>3. Admin(service).level \in [Domains -> 0 .. 3]
  BY <1>2
<1>4. \A d \in Domains : \A n \in 1 .. 4 : <<d, n>> \in Rights(k)
  BY <1>1
<1> QED  BY <1>2, <1>3, <1>4 DEF Covers, Names

LEMMA DoorRights ==
    ASSUME AInv, Reloads, NEW c \in Callers, NEW a \in Bearer(c[1], c[2]),
           NEW k, k.who = c[2], k.service = (c = <<"service", Nobody>>),
           k.op # "chat" \/ ~a.service
    PROVE  Covers(a, Rights(k)) /\ Names(a, k)
<1>0. c[1] \in {"cookie", "key", "service"} /\ c[2] \in People \cup {Nobody} /\ c = <<c[1], c[2]>>
  BY DEF Callers
<1>1. CASE c[2] # Nobody
  <2>1. c[2] \in People
    BY <1>0, <1>1
  <2>2. a \in AuthByUsername(c[2]) \/ a \in AuthByKey(c[2])
    BY <1>0, <1>1 DEF Bearer
  <2>3. Reloaded[c[2]].enabled /\ a = AuthOf(Reloaded[c[2]])
    BY <1>1, <2>2 DEF AuthByUsername, AuthByKey
  <2> QED  BY <2>1, <2>3, UserRights
<1>2. CASE c[2] = Nobody /\ c[1] = "service"
  <2>1. a = Admin(TRUE)
    BY <1>2 DEF Bearer
  <2>2. a.service = TRUE
    BY <2>1 DEF Admin
  <2>3. k.who = Nobody /\ k.service = TRUE /\ k.op # "chat"
    BY <1>0, <1>2, <2>2
  <2> QED  BY <2>1, <2>3, KeyRights
<1>3. CASE c[2] = Nobody /\ c[1] # "service"
  <2>1. a \in AuthByKey(Nobody)
    BY <1>0, <1>3 DEF Bearer
  <2>2. ~hasRealGlobalAdmin /\ a = Admin(FALSE)
    BY <2>1 DEF AuthByKey
  <2>3. c # <<"service", Nobody>>
    BY <1>3
  <2>4. k.who = Nobody /\ k.service = FALSE
    BY <1>3, <2>3, Zenon
  <2> QED  BY <2>2, <2>4, KeyRights
<1> QED  BY <1>1, <1>2, <1>3

\* What is named are domains.
LEMMA AuthTypes ==
    ASSUME AInv, NEW c \in Callers, NEW a \in Bearer(c[1], c[2])
    PROVE  a.named \subseteq Domains
<1>1. Reloaded \in Files \cup {NoUsers}
  BY DEF AInv, Reloaded
<1>2. \A p \in People : AuthOf(Reloaded[p]).named \subseteq Domains
  BY <1>1, RecordTypes DEF AuthOf
<1>3. \A s \in BOOLEAN : Admin(s).named \subseteq Domains
  BY DEF Admin
<1>4. c[2] \in People \cup {Nobody}
  BY DEF Callers
<1> QED  BY <1>2, <1>3, <1>4 DEF Bearer, AuthByUsername, AuthByKey

\* A permission is a level, or that of an admin.
LEMMA PermissionCovers ==
    ASSUME NEW a, NEW rights, Covers(a, rights), NEW d \in Domains, NEW n \in 1 .. 3,
           hasPermission(a, d, n)
    PROVE  \A m \in 1 .. n : <<d, m>> \in rights
<1>1. a.level[d] \in 0 .. 3
  BY DEF Covers
<1>2. ASSUME NEW m \in 1 .. n PROVE a.admin \/ m <= a.level[d]
  BY <1>1, <1>2 DEF hasPermission
<1>3. ASSUME NEW m \in 1 .. n PROVE m \in 1 .. 4
  BY <1>3
<1> QED  BY <1>2, <1>3 DEF Covers

-----------------------------------------------------------------------------
(* Calls that come.                                                          *)

LEMMA ComesFields ==
    ASSUME KInv, NEW r \in Calls, NEW c \in Callers, NEW next, CallOK(next), Comes(r, c, next)
    PROVE  /\ DOMAIN call' = Calls /\ \A s \in Calls \ {r} : call'[s] = call[s]
           /\ DOMAIN call'[r] = DOMAIN next
           /\ call'[r].pc = next.pc /\ call'[r].op = next.op
           /\ call'[r].in = next.in /\ call'[r].ctx = next.ctx
           /\ call'[r].who = c[2] /\ call'[r].service = (c = <<"service", Nobody>>)
           /\ Reloads
BY DEF KInv, Comes, CallOK

LEMMA ComesSound ==
    ASSUME KInv, NoteRights, NEW r \in Calls, NEW c \in Callers, NEW next, CallOK(next),
           next.pc \notin {"idle", "streaming"}, Comes(r, c, next),
           Entitled(next, Rights(call'[r]))
    PROVE  KInv'
<1>1. CallOK(call'[r])
  BY ComesFields DEF CallOK
<1>2. Rights(call'[r]) \subseteq may'[r]
  BY ComesFields DEF NoteRights
<1>3. Entitled(call'[r], Rights(call'[r]))
  BY ComesFields DEF Entitled
<1>4. Entitled(call'[r], may'[r])
  BY <1>2, <1>3, MoreRights
<1> QED  BY <1>1, <1>4, ComesFields, OneCall

\* A tool or a route, whose caller has what it needs on each of its domains.
LEMMA CallingSound ==
    ASSUME GInv, NoteRights, NEW r \in Calls, NEW c \in Callers, NEW a \in Bearer(c[1], c[2]),
           NEW op \in Ops \ {"none", "chat"}, NEW ds \in SUBSET Domains,
           op \in Changing => \E d \in Domains : ds = {d},
           \A d \in ds : hasPermission(a, d, Need(op)),
           Asks(r, c, Calling(op, ds)) \/ Connects(r, c, Calling(op, ds))
    PROVE  KInv'
<1>1. PICK k : /\ Comes(r, c, k)
               /\ DOMAIN k = {"pc", "op", "who", "service", "in", "ctx"}
               /\ k.pc \in {"connected", "sidecar"} /\ k.op = op /\ k.in = ds /\ k.ctx = {}
  <2>1. CASE Asks(r, c, Calling(op, ds))
    <3> DEFINE k == Calling(op, ds)
    <3>1. Comes(r, c, k)
      BY <2>1 DEF Asks
    <3>2. /\ DOMAIN k = {"pc", "op", "who", "service", "in", "ctx"}
          /\ k.pc = "sidecar" /\ k.op = op /\ k.in = ds /\ k.ctx = {}
      BY DEF Calling, Idle
    <3> HIDE DEF k
    <3> QED  BY <3>1, <3>2
  <2>2. CASE Connects(r, c, Calling(op, ds))
    <3> DEFINE k == [Calling(op, ds) EXCEPT !.pc = "connected"]
    <3>1. Comes(r, c, k)
      BY <2>2 DEF Connects
    <3>2. /\ DOMAIN k = {"pc", "op", "who", "service", "in", "ctx"}
          /\ k.pc = "connected" /\ k.op = op /\ k.in = ds /\ k.ctx = {}
      BY DEF Calling, Idle
    <3> HIDE DEF k
    <3> QED  BY <3>1, <3>2
  <2> QED  BY <2>1, <2>2
<1>3. CallOK(k)
  BY <1>1 DEF CallOK, Pcs, Ops
<1>4. Covers(a, Rights(call'[r]))
  BY <1>1, <1>3, ComesFields, DoorRights DEF GInv, WInv
<1>5. ASSUME NEW d \in ds, NEW n \in 1 .. Need(op) PROVE <<d, n>> \in Rights(call'[r])
  BY <1>4, <1>5, NeedLevels, PermissionCovers
<1>6. Entitled(k, Rights(call'[r]))
  BY <1>1, <1>5 DEF Entitled
<1> QED  BY <1>1, <1>3, <1>6, ComesSound DEF GInv

LEMMA OneDomain ==
    ASSUME GInv, NoteRights, NEW r \in Calls, NEW c \in Callers, NEW a \in Bearer(c[1], c[2]),
           NEW op \in Ops \ {"none", "chat"}, NEW d \in Domains, hasPermission(a, d, Need(op)),
           Asks(r, c, Calling(op, {d})) \/ Connects(r, c, Calling(op, {d}))
    PROVE  KInv'
BY CallingSound

LEMMA AdminMay == ASSUME NEW a, a.admin, NEW d, NEW n PROVE hasPermission(a, d, n)
BY DEF hasPermission

LEMMA McpIsBearer == ASSUME NEW c, NEW a \in Mcp(c[1], c[2]) PROVE a \in Bearer(c[1], c[2])
BY DEF Mcp, Bearer

LEMMA ToolSound ==
    ASSUME GInv, NoteRights, NEW r \in Calls, NEW c \in Callers, ReadStep(r, c) \/ WriteStep(r, c)
    PROVE  KInv'
<1>0. mix.domains \subseteq Domains
  BY MixTypes DEF GInv
<1>1. ASSUME NEW d \in Domains, NEW op \in Ops \ {"none", "chat"}, Tool(r, c, op, d, Need(op))
      PROVE  KInv'
  BY <1>1, OneDomain, McpIsBearer DEF Tool
<1>2. ASSUME NEW d \in Domains, NEW op \in Ops \ {"none", "chat"}, AdminTool(r, c, op, d)
      PROVE  KInv'
  BY <1>2, OneDomain, McpIsBearer, AdminMay DEF AdminTool
<1>3. ASSUME NEW d \in Domains,
             ToolSearch(r, c, d) \/ ToolChat(r, c, d) \/ ToolCapture(r, c, d)
             \/ ToolCaptureFile(r, c, d) \/ ToolDelete(r, c, d)
      PROVE  KInv'
  BY <1>1, <1>3 DEF ToolSearch, ToolChat, ToolCapture, ToolCaptureFile, ToolDelete, Need, Ops
<1>4. ASSUME NEW d \in Domains, ToolCreate(r, c, d) \/ ToolDrop(r, c, d)
      PROVE  KInv'
  BY <1>2, <1>4 DEF ToolCreate, ToolDrop, Ops
<1>5. CASE ToolStats(r, c)
  <2>1. PICK a \in Mcp(c[1], c[2]) : Connects(r, c, Calling("search", {}))
    BY <1>5 DEF ToolStats
  <2>2. "search" \in Ops \ {"none", "chat"} /\ "search" \notin Changing
    BY DEF Ops, Changing
  <2>3. a \in Bearer(c[1], c[2])
    BY McpIsBearer
  <2> QED  BY <2>1, <2>2, <2>3, CallingSound
<1> QED  BY <1>0, <1>3, <1>4, <1>5 DEF ReadStep, WriteStep

LEMMA RouteSound ==
    ASSUME GInv, NoteRights, NEW r \in Calls, NEW c \in Callers, RouteStep(r, c)
    PROVE  KInv'
<1>0. mix.domains \subseteq Domains
  BY MixTypes DEF GInv
<1>1. ASSUME NEW d \in Domains, NEW op \in Ops \ {"none", "chat"},
             requirePerm(r, c, op, d, Need(op))
      PROVE  KInv'
  BY <1>1, OneDomain DEF requirePerm
<1>2. ASSUME NEW d \in Domains, NEW op \in Ops \ {"none", "chat"}, requireGlobalAdmin(r, c, op, d)
      PROVE  KInv'
  BY <1>2, OneDomain, AdminMay DEF requireGlobalAdmin
<1>3. ASSUME NEW d \in Domains, RouteCreate(r, c, d) \/ RouteRestore(r, c, d)
      PROVE  KInv'
  BY <1>2, <1>3 DEF RouteCreate, RouteRestore, Ops
<1>4. ASSUME NEW d \in Domains,
             RouteUpload(r, c, d) \/ RouteUrl(r, c, d) \/ RouteDownload(r, c, d)
             \/ RouteDocs(r, c, d) \/ RouteGraph(r, c, d) \/ RouteGexf(r, c, d)
      PROVE  KInv'
  BY <1>1, <1>4 DEF RouteUpload, RouteUrl, RouteDownload, RouteDocs, RouteGraph, RouteGexf, Need, Ops
<1>5. ASSUME NEW d \in Domains,
             RouteDelete(r, c, d) \/ RouteExport(r, c, d) \/ RouteDrop(r, c, d)
             \/ RouteDescribe(r, c, d)
      PROVE  KInv'
  BY <1>1, <1>5 DEF RouteDelete, RouteExport, RouteDrop, RouteDescribe, Need, Ops
<1>6. ASSUME NEW ds \in SUBSET Domains, RouteOverlap(r, c, ds)
      PROVE  KInv'
  <2>1. PICK a \in Bearer(c[1], c[2]) :
            Asks(r, c, Calling("search", {d \in ds : hasPermission(a, d, 1)}))
    BY <1>6 DEF RouteOverlap
  <2>2. Need("search") = 1 /\ "search" \in Ops \ {"none", "chat"} /\ "search" \notin Changing
    BY DEF Need, Ops, Changing
  <2> QED  BY <2>1, <2>2, CallingSound
<1> QED  BY <1>0, <1>3, <1>4, <1>5, <1>6 DEF RouteStep

\* A chat has what it is going to look up: one domain, those that are granted,
\* or all that there will be when an admin's are listed.
LEMMA ChatSound ==
    ASSUME GInv, NoteRights, NEW r \in Calls, NEW c \in Callers, ChatStep(r, c)
    PROVE  KInv'
<1>0. mix.domains \subseteq Domains
  BY MixTypes DEF GInv
<1>1. ASSUME NEW d \in Domains, DomainChat(r, c, d) PROVE KInv'
  <2> DEFINE k == [Idle EXCEPT !.pc = "context", !.op = "chat", !.in = {d}]
  <2>1. PICK a \in Bearer(c[1], c[2]) : ~a.service /\ hasPermission(a, d, 1)
    BY <1>1 DEF DomainChat
  <2>2. Comes(r, c, k)
    BY <1>1 DEF DomainChat, Asks
  <2>3. /\ DOMAIN k = {"pc", "op", "who", "service", "in", "ctx"}
        /\ k.pc = "context" /\ k.op = "chat" /\ k.in = {d} /\ k.ctx = {}
    BY DEF Idle
  <2> HIDE DEF k
  <2>4. CallOK(k)
    BY <2>3 DEF CallOK, Pcs, Ops
  <2>5. Covers(a, Rights(call'[r]))
    BY <2>1, <2>2, <2>4, ComesFields, DoorRights DEF GInv, WInv
  <2>6. Need("chat") = 1 /\ <<d, 1>> \in Rights(call'[r])
    <3>1. 1 \in 1 .. 3 /\ 1 \in 1 .. 1
      OBVIOUS
    <3>2. \A m \in 1 .. 1 : <<d, m>> \in Rights(call'[r])
      BY <2>1, <2>5, <3>1, PermissionCovers
    <3> QED  BY <3>1, <3>2 DEF Need
  <2>7. Entitled(k, Rights(call'[r]))
    BY <2>3, <2>6 DEF Entitled
  <2> QED  BY <2>2, <2>3, <2>4, <2>7, ComesSound DEF GInv
<1>2. ASSUME OpenChat(r, c) PROVE KInv'
  <2>1. PICK a \in Bearer(c[1], c[2]) :
            LET granted == a.named
            IN  /\ ~a.service /\ (a.admin \/ granted # {})
                /\ Asks(r, c, [Idle EXCEPT !.pc = IF a.admin THEN "listing" ELSE "context",
                                           !.op = "chat", !.in = IF a.admin THEN {} ELSE granted])
    BY <1>2 DEF OpenChat
  <2> DEFINE granted == a.named
             pc      == IF a.admin THEN "listing" ELSE "context"
             in      == IF a.admin THEN {} ELSE granted
             k       == [Idle EXCEPT !.pc = pc, !.op = "chat", !.in = in]
  <2>2. Comes(r, c, k)
    BY <2>1 DEF Asks
  <2>3. /\ DOMAIN k = {"pc", "op", "who", "service", "in", "ctx"}
        /\ k.pc = pc /\ k.op = "chat" /\ k.in = in /\ k.ctx = {}
    BY DEF Idle
  <2> HIDE DEF k
  <2>4. CallOK(k)
    <3>1. granted \subseteq Domains
      BY <2>1, AuthTypes DEF GInv, WInv
    <3> QED  BY <2>3, <3>1 DEF CallOK, Pcs, Ops, Changing
  <2>5. Covers(a, Rights(call'[r])) /\ Names(a, call'[r]) /\ call'[r].op = "chat"
    BY <2>1, <2>2, <2>3, <2>4, ComesFields, DoorRights DEF GInv, WInv
  <2>6. ASSUME NEW d \in Domains, a.admin \/ d \in granted PROVE <<d, 1>> \in Rights(call'[r])
    <3>1. CASE a.admin
      <4>1. 1 \in 1 .. 4
        OBVIOUS
      <4> QED  BY <2>5, <2>6, <3>1, <4>1 DEF Covers
    <3>2. CASE d \in granted
      BY <2>5, <3>2 DEF Names
    <3> QED  BY <2>6, <3>1, <3>2
  <2>7. Need("chat") = 1
    BY DEF Need
  <2>8. Entitled(k, Rights(call'[r]))
    <3>1. granted \subseteq Domains
      BY <2>1, AuthTypes DEF GInv, WInv
    <3>2. ASSUME NEW d \in k.in PROVE d \in granted
      BY <2>3, <3>2
    <3>3. ASSUME NEW d \in k.in, NEW n \in 1 .. Need(k.op) PROVE <<d, n>> \in Rights(call'[r])
      <4>1. n = 1 /\ d \in Domains /\ d \in granted
        BY <2>3, <2>7, <3>1, <3>2, <3>3
      <4> QED  BY <2>6, <4>1
    <3>4. k.pc = "listing" => a.admin
      BY <2>3
    <3>5. k.pc = "listing" => \A d \in Domains : <<d, 1>> \in Rights(call'[r])
      BY <2>6, <3>4
    <3> QED  BY <2>3, <3>3, <3>5 DEF Entitled
  <2> QED  BY <2>2, <2>3, <2>4, <2>8, ComesSound DEF GInv
<1> QED  BY <1>0, <1>1, <1>2 DEF ChatStep, resolveDomain

-----------------------------------------------------------------------------
(* Calls that go on.                                                         *)

LEMMA KnownDomains == ASSUME WInv PROVE Known \subseteq Domains
BY HomeAssumption DEF WInv, Known

\* What is found in the domains of a call is from domains it may read.
LEMMA FoundIsReadable ==
    ASSUME KInv, NEW r \in Calls, NEW x \in Docs, Home[x] \in call[r].in
    PROVE  <<Home[x], 1>> \in may[r]
BY NeedLevels DEF KInv, Entitled

\* A call that is given what was found.
LEMMA FindsSound ==
    ASSUME KInv, NoteRights, NEW r \in Calls, NEW found \in SUBSET Docs,
           \A x \in found : Home[x] \in call[r].in,
           NEW pc \in {"forward", "answered"},
           call' = [call EXCEPT ![r].ctx = found, ![r].pc = pc]
    PROVE  KInv'
<1> DEFINE k == [call[r] EXCEPT !.ctx = found, !.pc = pc]
<1>1. call' = [call EXCEPT ![r] = k]
  OBVIOUS
<1>2. /\ DOMAIN k = DOMAIN call[r] /\ k.pc = pc /\ k.op = call[r].op
      /\ k.in = call[r].in /\ k.ctx = found
  BY DEF KInv, CallOK
<1> HIDE DEF k
<1>3. CallOK(k)
  BY <1>2 DEF KInv, CallOK, Pcs
<1>4. Entitled(k, may[r])
  BY <1>2, FoundIsReadable DEF KInv, Entitled
<1> QED  BY <1>1, <1>2, <1>3, <1>4, GoesOn

LEMMA ListSound ==
    ASSUME GInv, NoteRights, NEW r \in Calls, ListDomains(r)
    PROVE  KInv'
<1>1. PICK ds \in {{}, Known} :
          call' = [call EXCEPT ![r].in = ds, ![r].pc = IF ds = {} THEN "forward" ELSE "context"]
  BY DEF ListDomains
<1> DEFINE pc == IF ds = {} THEN "forward" ELSE "context"
           k  == [call[r] EXCEPT !.in = ds, !.pc = pc]
<1>2. call' = [call EXCEPT ![r] = k]
  BY <1>1
<1>3. /\ DOMAIN k = DOMAIN call[r] /\ k.pc = pc /\ k.op = call[r].op
      /\ k.in = ds /\ k.ctx = call[r].ctx
  BY DEF GInv, KInv, CallOK
<1> HIDE DEF k
<1>4. call[r].pc = "listing" /\ call[r].op = "chat" /\ ds \subseteq Domains
  BY KnownDomains DEF ListDomains, At, GInv, KInv, CallOK
<1>5. CallOK(k)
  BY <1>3, <1>4 DEF GInv, KInv, CallOK, Pcs
<1>6. Need("chat") = 1
  BY DEF Need
<1>7. Entitled(k, may[r])
  BY <1>3, <1>4, <1>6 DEF GInv, KInv, Entitled
<1> QED  BY <1>2, <1>3, <1>5, <1>7, GoesOn DEF GInv

LEMMA LooksSound ==
    ASSUME GInv, NoteRights, NEW r \in Calls, BuildContext(r) \/ Looks(r)
    PROVE  KInv'
<1>1. ASSUME NEW found \in SUBSET DocsIn(call[r].in)
      PROVE  found \subseteq Docs /\ \A x \in found : Home[x] \in call[r].in
  BY DEF GInv, WInv, DocsIn
<1>2. ASSUME NEW found \in SUBSET {x \in files : Home[x] \in call[r].in}
      PROVE  found \subseteq Docs /\ \A x \in found : Home[x] \in call[r].in
  BY DEF GInv, WInv
<1>3. CASE BuildContext(r)
  <2>1. PICK found \in SUBSET DocsIn(call[r].in) :
            call' = [call EXCEPT ![r] = [@ EXCEPT !.ctx = found, !.pc = "forward"]]
    BY <1>3 DEF BuildContext, augmentWithContext
  <2>2. call' = [call EXCEPT ![r].ctx = found, ![r].pc = "forward"]
    BY <2>1
  <2> QED  BY <1>1, <2>2, FindsSound DEF GInv
<1>4. CASE Looks(r)
  <2>1. PICK found \in SUBSET Docs, pc \in {"forward", "answered"} :
            /\ \A x \in found : Home[x] \in call[r].in
            /\ call' = [call EXCEPT ![r].ctx = found, ![r].pc = pc]
    BY <1>1, <1>2, <1>4 DEF Looks, Found
  <2> QED  BY <2>1, FindsSound DEF GInv
<1> QED  BY <1>3, <1>4

\* A tool's message that has been read, and the answer of chat_knowledge.
LEMMA GoesSound ==
    ASSUME GInv, NoteRights, NEW r \in Calls, HandleRequest(r) \/ (Forward(r) /\ ~Return(r))
    PROVE  KInv'
<1>1. CASE HandleRequest(r)
  <2> DEFINE k == [call[r] EXCEPT !.pc = "sidecar"]
  <2>1. call' = [call EXCEPT ![r] = k] /\ call[r].pc = "connected"
    BY <1>1 DEF HandleRequest, At
  <2>2. /\ DOMAIN k = DOMAIN call[r] /\ k.pc = "sidecar" /\ k.op = call[r].op
        /\ k.in = call[r].in /\ k.ctx = call[r].ctx
    BY DEF GInv, KInv, CallOK
  <2> HIDE DEF k
  <2>3. CallOK(k)
    BY <2>1, <2>2 DEF GInv, KInv, CallOK, Pcs
  <2>4. Entitled(k, may[r])
    BY <2>2 DEF GInv, KInv, Entitled
  <2> QED  BY <2>1, <2>2, <2>3, <2>4, GoesOn DEF GInv
<1>2. CASE Forward(r) /\ ~Return(r)
  <2>1. PICK told \in {call[r].ctx, {}} :
            call' = [call EXCEPT ![r].ctx = told, ![r].pc = "answered"]
    BY <1>2 DEF Forward
  <2> DEFINE k == [call[r] EXCEPT !.ctx = told, !.pc = "answered"]
  <2>2. call' = [call EXCEPT ![r] = k]
    BY <2>1
  <2>3. /\ DOMAIN k = DOMAIN call[r] /\ k.pc = "answered" /\ k.op = call[r].op
        /\ k.in = call[r].in /\ k.ctx = told
    BY DEF GInv, KInv, CallOK
  <2> HIDE DEF k
  <2>4. CallOK(k)
    BY <2>3 DEF GInv, KInv, CallOK, Pcs
  <2>5. Entitled(k, may[r])
    BY <2>3 DEF GInv, KInv, Entitled
  <2> QED  BY <2>2, <2>3, <2>4, <2>5, GoesOn DEF GInv
<1> QED  BY <1>1, <1>2

LEMMA GoOnSound ==
    ASSUME GInv, NoteRights, NEW r \in Calls, GoOn(r)
    PROVE  KInv'
<1>1. ASSUME Return(r) PROVE KInv'
  BY <1>1, Returns DEF GInv
<1>2. ASSUME Found(r, {}) PROVE KInv'
  BY <1>2, FindsSound DEF GInv, Found
<1> QED  BY <1>1, <1>2, ListSound, LooksSound, GoesSound DEF GoOn, Changes, Fails, Given

\* A chat that has become a stream holds nothing any more.
LEMMA StreamSound ==
    ASSUME GInv, NoteRights, NEW r \in Calls, ForwardStream(r) \/ StreamOver(r)
    PROVE  KInv'
<1>1. CASE ForwardStream(r)
  <2> DEFINE k == [Idle EXCEPT !.pc = "streaming"]
  <2>1. /\ DOMAIN call' = Calls /\ \A s \in Calls \ {r} : call'[s] = call[s]
        /\ call'[r] = k
    BY <1>1 DEF ForwardStream, GInv, KInv
  <2>2. /\ DOMAIN k = {"pc", "op", "who", "service", "in", "ctx"}
        /\ k.pc = "streaming" /\ k.op = "none" /\ k.in = {} /\ k.ctx = {}
    BY DEF Idle
  <2> HIDE DEF k
  <2>3. CallOK(k) /\ Entitled(k, may'[r])
    BY <2>2 DEF CallOK, Entitled, Pcs, Ops
  <2> QED  BY <2>1, <2>3, OneCall DEF GInv
<1>2. CASE StreamOver(r)
  BY <1>2, Returns DEF StreamOver, GInv
<1> QED  BY <1>1, <1>2

-----------------------------------------------------------------------------
(* The invariant of the specification.                                       *)

\* A call that comes reloads the copy and may be connected; it leaves everything else.
LEMMA ComersLeaveWorld ==
    ASSUME NEW r \in Calls, NEW c \in Callers,
           ChatStep(r, c) \/ ReadStep(r, c) \/ WriteStep(r, c) \/ RouteStep(r, c)
    PROVE  Reloads /\ UNCHANGED <<world, to, handed>> /\ conn' \in {conn, r}
<1>1. ASSUME NEW next, Asks(r, c, next) \/ Connects(r, c, next)
      PROVE  Reloads /\ UNCHANGED <<world, to, handed>> /\ conn' \in {conn, r}
  BY <1>1 DEF Asks, Connects, Comes, mcp
<1>2. CASE ChatStep(r, c)
  BY <1>1, <1>2 DEF ChatStep, OpenChat, DomainChat
<1>3. CASE ReadStep(r, c) \/ WriteStep(r, c)
  BY <1>1, <1>3 DEF ReadStep, WriteStep, ToolStats, ToolSearch, ToolChat, ToolCapture,
              ToolCaptureFile, ToolCreate, ToolDelete, ToolDrop, Tool, AdminTool
<1>4. CASE RouteStep(r, c)
  BY <1>1, <1>4 DEF RouteStep, RouteCreate, RouteUpload, RouteUrl, RouteDelete, RouteExport, RouteDrop,
              RouteRestore, RouteDownload, RouteDescribe, RouteDocs, RouteGraph, RouteGexf,
              RouteOverlap, requirePerm, requireGlobalAdmin
<1> QED  BY <1>2, <1>3, <1>4

\* A call that goes on, without a change, or that streams leaves it too.
LEMMA GoersLeaveWorld ==
    ASSUME NEW r \in Calls, (GoOn(r) /\ ~Changes(r)) \/ ForwardStream(r) \/ StreamOver(r)
    PROVE  UNCHANGED <<acl, world>>
BY DEF GoOn, ListDomains, BuildContext, Forward, Looks, Fails, Given, HandleRequest,
       ForwardStream, StreamOver

\* Nor does it leave the types of what the McpServer knows.
LEMMA GoersKeepMcp ==
    ASSUME GInv, NEW r \in Calls, GoOn(r) \/ ForwardStream(r) \/ StreamOver(r)
    PROVE  MInv'
<1>1. CASE UNCHANGED mcp
  BY <1>1 DEF GInv, WInv, MInv, mcp
<1>2. CASE HandleRequest(r)
  BY <1>2 DEF GInv, WInv, MInv, HandleRequest
<1>3. CASE Given(r)
  <2>1. call[r].ctx \subseteq Docs
    BY DEF GInv, KInv, CallOK
  <2> QED  BY <1>3, <2>1 DEF GInv, WInv, MInv, Given
<1> QED
  BY <1>1, <1>2, <1>3 DEF GoOn, ListDomains, BuildContext, Forward, Looks, Changes, Fails,
                          ForwardStream, StreamOver

LEMMA ReloadsSound == AInv /\ Reloads => AInv'
BY DEF AInv, Reloads, Reloaded

\* Saves, edits and refused requests keep what is known of users.json.
LEMMA GrantsSound ==
    ASSUME AInv, GrantStep
    PROVE  AInv' /\ UNCHANGED <<world, mcp, call>>
<1>1. ASSUME NEW f \in Files, SaveUsers(f) PROVE AInv' /\ UNCHANGED <<world, mcp, call>>
  BY <1>1 DEF AInv, SaveUsers
<1>2. ASSUME NEW f \in Edits, EditFile(f) PROVE AInv' /\ UNCHANGED <<world, mcp, call>>
  <2>1. f \in Files \cup {Unreadable}
    BY FilesAssumption
  <2> QED  BY <1>2, <2>1 DEF AInv, EditFile
<1>3. CASE Refused
  BY <1>3, ReloadsSound DEF AInv, Refused
<1> QED  BY <1>1, <1>2, <1>3 DEF GrantStep

\* Nobody's step leaves the types.
LEMMA WorldSound ==
    ASSUME GInv, GNext
    PROVE  WInv'
<1>1. ASSUME UNCHANGED <<world, mix>>, AInv', MInv' PROVE WInv'
  BY <1>1 DEF GInv, WInv, world
<1>2. ASSUME GrantStep, UNCHANGED mix PROVE WInv'
  <2>1. AInv' /\ UNCHANGED <<world, mcp>>
    BY <1>2, GrantsSound DEF GInv, WInv
  <2>2. MInv'
    BY <2>1 DEF GInv, WInv, MInv, mcp
  <2> QED  BY <1>1, <1>2, <2>1, <2>2
<1>3. ASSUME UNCHANGED <<acl, world, mix>>, MInv' PROVE WInv'
  <2>1. AInv'
    BY <1>3 DEF GInv, WInv, AInv, acl
  <2> QED  BY <1>1, <1>3, <2>1
<1>4. ASSUME NEW r \in Calls, Changes(r), UNCHANGED mix PROVE WInv'
  <2>1. call[r].op \in Changing
    BY <1>4 DEF Changes, Changing
  <2>2. PICK d \in Domains : d \in call[r].in
    BY <1>4, <2>1 DEF GInv, KInv, CallOK, Changes, At
  <2>3. (CHOOSE e \in Domains : e \in call[r].in) \in Domains
    BY <2>2
  <2>4. seeds' \subseteq Domains /\ held' \subseteq Docs /\ files' \subseteq Docs
    BY <1>4, <2>3 DEF GInv, WInv, Changes, DocsIn
  <2>5. AInv' /\ MInv'
    BY <1>4 DEF GInv, WInv, AInv, MInv, Changes, acl, mcp
  <2> QED  BY <1>4, <2>4, <2>5 DEF GInv, WInv
<1>5. ASSUME NEW r \in Calls, GoOn(r) \/ ForwardStream(r) \/ StreamOver(r), UNCHANGED mix
      PROVE  WInv'
  BY <1>3, <1>4, <1>5, GoersLeaveWorld, GoersKeepMcp
<1>6. ASSUME NEW r \in Calls, NEW c \in Callers,
             ChatStep(r, c) \/ ReadStep(r, c) \/ WriteStep(r, c) \/ RouteStep(r, c), UNCHANGED mix
      PROVE  WInv'
  <2>1. Reloads /\ UNCHANGED <<world, to, handed>> /\ conn' \in {conn, r}
    BY <1>6, ComersLeaveWorld
  <2>2. MInv'
    BY <2>1 DEF GInv, WInv, MInv
  <2>3. AInv'
    BY <2>1, ReloadsSound DEF GInv, WInv
  <2> QED  BY <1>1, <1>6, <2>1, <2>2, <2>3
<1>7. ASSUME UNCHANGED <<acl, world, mcp, mix>> PROVE WInv'
  <2>1. MInv'
    BY <1>7 DEF GInv, WInv, MInv, mcp
  <2> QED  BY <1>3, <1>7, <2>1
<1>8. mix.calls \subseteq Calls /\ UNCHANGED mix
  BY MixTypes DEF GInv, GNext
<1> QED  BY <1>2, <1>5, <1>6, <1>7, <1>8 DEF GNext, GStep

LEMMA CallsSound ==
    ASSUME GInv, GNext
    PROVE  KInv'
<1>1. mix.calls \subseteq Calls /\ NoteRights
  BY MixTypes DEF GInv, GNext
<1>2. ASSUME UNCHANGED call PROVE KInv'
  <2>1. DOMAIN call' = Calls /\ DOMAIN may' = Calls
    BY <1>1, <1>2 DEF NoteRights, GInv, KInv
  <2> QED  BY <1>1, <1>2, <2>1, Kept DEF GInv, KInv
<1>3. ASSUME GrantStep PROVE KInv'
  BY <1>2, <1>3, GrantsSound DEF GInv, WInv
<1> QED  BY <1>1, <1>2, <1>3, ChatSound, ToolSound, RouteSound, GoOnSound, StreamSound
         DEF GNext, GStep

LEMMA GInvInit == GInit => GInv
<1> SUFFICES ASSUME GInit PROVE GInv
  OBVIOUS
<1>1. WInv
  <2>1. mix.file \in Files \cup {Unreadable}
    BY FilesAssumption DEF GInit
  <2>2. AInv
    BY <2>1 DEF GInit, AInv
  <2>3. MInv
    BY DEF GInit, MInv
  <2> QED  BY <2>2, <2>3 DEF GInit, WInv
<1>2. KInv
  BY DEF GInit, KInv, CallOK, Entitled, Idle, Pcs, Ops, Changing
<1> QED  BY <1>1, <1>2 DEF GInv

LEMMA GInvNext == GInv /\ [GNext]_gvars => GInv'
<1> SUFFICES ASSUME GInv, [GNext]_gvars PROVE GInv'
  OBVIOUS
<1>1. CASE GNext
  BY <1>1, WorldSound, CallsSound DEF GInv
<1>2. CASE UNCHANGED gvars
  BY <1>2 DEF gvars, acl, world, mcp, GInv, WInv, AInv, MInv, KInv, CallOK, Entitled
<1> QED  BY <1>1, <1>2

\* The invariant that the theorems below rest on: every call that waits has, or
\* had while it was in progress, the rights that it may still use.
THEOREM CallsStayEntitled == GSpec => []GInv
<1> QED  BY GInvInit, GInvNext, PTL DEF GSpec

\* users.json, the domains, the documents and the calls keep their types.
THEOREM GatewayTypes == GSpec => []GTypeOK
<1>1. GInv => GTypeOK
  BY DEF GInv, WInv, AInv, MInv, KInv, CallOK, GTypeOK, Pcs
<1> QED  BY <1>1, CallsStayEntitled, PTL

\* What a call is given, or what is put before the model for it, is from domains
\* its caller could read at some time during the call (augmentWithContext, the
\* tools of mcp.ts and the reads of admin.ts).
THEOREM OnlyReadableIsGiven == GSpec => []GroundedInReadable
<1>1. GInv => GroundedInReadable
  BY DEF GInv, KInv, Entitled, GroundedInReadable
<1> QED  BY <1>1, CallsStayEntitled, PTL

\* A change is that of a call, on its one domain.
LEMMA ChangesOneDomain ==
    ASSUME GInv, NEW r \in Calls, Changes(r)
    PROVE  \E d \in Domains :
               /\ call[r].in = {d} /\ call'[r] # call[r]
               /\ (CHOOSE e \in Domains : e \in call[r].in) = d
               /\ \A n \in 1 .. Need(call[r].op) : <<d, n>> \in may[r]
<1>1. call[r].op \in Changing /\ call[r].pc = "sidecar"
  BY DEF Changes, Changing, At
<1>2. PICK d \in Domains : call[r].in = {d}
  BY <1>1 DEF GInv, KInv, CallOK
<1>3. call'[r].pc = "answered"
  BY DEF Changes, Found, GInv, KInv, CallOK
<1> QED  BY <1>1, <1>2, <1>3 DEF GInv, KInv, Entitled

\* A document comes to a domain only by a call whose caller could write to it at
\* some time during the call, and a document or the domain goes, or the domain
\* comes, only by one whose caller could administer it (mcp.ts, admin.ts).
THEOREM OnlyAllowedChanges == GSpec => ChangesAreAllowed
<1> DEFINE Allowed ==
      \A d \in Domains :
          LET Before == DocsIn({d})
              After  == {x \in held' : Home[x] = d}
              By(n)  == \E r \in Calls : call'[r] # call[r] /\ call[r].in = {d} /\ <<d, n>> \in may[r]
          IN  /\ (After \ Before # {} \/ {x \in files' \ files : Home[x] = d} # {}) => By(2)
              /\ (Before \ After # {} \/ (d \in seeds) # (d \in seeds')) => By(3)
<1>1. ASSUME UNCHANGED world PROVE Allowed
  BY <1>1 DEF world, DocsIn
<1>2. ASSUME GInv, NEW r \in Calls, Changes(r) PROVE Allowed
  <2>1. PICK d \in Domains :
            /\ call[r].in = {d} /\ call'[r] # call[r]
            /\ (CHOOSE e \in Domains : e \in call[r].in) = d
            /\ \A n \in 1 .. Need(call[r].op) : <<d, n>> \in may[r]
    BY <1>2, ChangesOneDomain
  <2>2. \A e \in Domains \ {d} :
            /\ {x \in held' : Home[x] = e} = DocsIn({e})
            /\ {x \in files' \ files : Home[x] = e} = {}
            /\ (e \in seeds') = (e \in seeds)
    BY <1>2, <2>1 DEF Changes, DocsIn
  <2>3. call[r].op \in {"capture", "upload"} =>
            /\ <<d, 2>> \in may[r]
            /\ DocsIn({d}) \ {x \in held' : Home[x] = d} = {} /\ UNCHANGED seeds
    BY <1>2, <2>1 DEF Changes, DocsIn, Need
  <2>4. call[r].op \in {"delete", "create", "drop", "restore"} =>
            <<d, 2>> \in may[r] /\ <<d, 3>> \in may[r]
    BY <2>1 DEF Need
  <2>5. call[r].op \in {"capture", "upload", "delete", "create", "drop", "restore"}
    BY <1>2 DEF Changes
  <2>6. /\ <<d, 2>> \in may[r]
        /\ \/ <<d, 3>> \in may[r]
           \/ DocsIn({d}) \ {x \in held' : Home[x] = d} = {} /\ UNCHANGED seeds
    BY <2>3, <2>4, <2>5
  <2> DEFINE Before(e) == DocsIn({e})
             After(e)  == {x \in held' : Home[x] = e}
             Onto(e)   == {x \in files' \ files : Home[x] = e}
             By(e, n)  == \E q \in Calls : call'[q] # call[q] /\ call[q].in = {e} /\ <<e, n>> \in may[q]
  <2>7. By(d, 2) /\ (<<d, 3>> \in may[r] => By(d, 3))
    BY <2>1, <2>6
  <2>8. \A e \in Domains : e # d => After(e) = Before(e) /\ Onto(e) = {} /\ (e \in seeds') = (e \in seeds)
    BY <2>2
  <2>9. <<d, 3>> \in may[r] \/ (Before(d) \ After(d) = {} /\ (d \in seeds) = (d \in seeds'))
    BY <2>6
  <2> HIDE DEF Before, After, Onto, By
  <2>10. \A e \in Domains :
            /\ (After(e) \ Before(e) # {} \/ Onto(e) # {}) => By(e, 2)
            /\ (Before(e) \ After(e) # {} \/ (e \in seeds) # (e \in seeds')) => By(e, 3)
    <3>1. ASSUME NEW e \in Domains, e # d
          PROVE  After(e) \ Before(e) = {} /\ Before(e) \ After(e) = {}
      BY <2>8, <3>1
    <3> QED  BY <2>7, <2>8, <2>9, <3>1
  <2> QED  BY <2>10 DEF Before, After, Onto, By
<1>3. ASSUME GInv, GrantStep PROVE UNCHANGED world
  BY <1>3, GrantsSound DEF GInv, WInv
<1>4. ASSUME GInv, GNext PROVE Allowed
  <2>1. mix.calls \subseteq Calls
    BY <1>4, MixTypes DEF GInv
  <2> QED  BY <1>1, <1>2, <1>3, <1>4, <2>1, ComersLeaveWorld, GoersLeaveWorld DEF GNext, GStep
<1>5. GInv /\ [GNext]_gvars => [Allowed]_gvars
  BY <1>4
<1> QED  BY <1>5, CallsStayEntitled, PTL DEF GSpec, ChangesAreAllowed

-----------------------------------------------------------------------------
(* The streams: what the client's end of a stream knows of the parser's.     *)

Chunks == [text : Nat, done : BOOLEAN]
Frames == [f : {"role", "text", "finish", "error", "DONE"}, text : Nat]
Unmarked(s) == \A i \in DOMAIN s : s[i].f # "DONE"
Marked(s) ==
    /\ Len(s) > 1 /\ s[Len(s)].f = "DONE" /\ s[Len(s) - 1].f \in {"finish", "error"}
    /\ \A i \in 1 .. Len(s) - 1 : s[i].f # "DONE"

StreamTypes ==
    /\ provider \in {"openai", "anthropic", "gemini", "ollama"} /\ answer \in Seq(Payloads)
    /\ chunks \in Seq(Chunks) /\ out \in Seq(Frames)
    /\ terminal \in BOOLEAN /\ gone \in BOOLEAN
    /\ parser = "off" => encoder = "off" /\ ~terminal /\ ~gone /\ chunks = <<>> /\ out = <<>>

\* The chunk that says done waits as long as the encoder has not met it; an encoder
\* that has closed for a client who stayed has marked the end, or its source has
\* closed without one.
MarkInv ==
    /\ Unmarked(out) \/ (encoder = "closed" /\ Marked(out))
    /\ encoder = "open" /\ terminal /\ parser # "failed" => IsDone(chunks)
    /\ encoder = "closed" /\ ~gone => Marked(out) \/ (parser = "closed" /\ ~terminal)

StreamInv == StreamTypes /\ MarkInv

LEMMA NoSequence == ASSUME NEW S PROVE <<>> \in Seq(S)
OBVIOUS

LEMMA ParsedTypes ==
    ASSUME provider \in {"openai", "anthropic", "gemini", "ollama"}, NEW d \in Payloads
    PROVE  Parsed(d).chunks \in Seq(Chunks)
<1>1. d.text \in Nat
  BY DEF Payloads
<1>2. ASSUME NEW t \in Nat PROVE Text(t) \in Seq(Chunks) /\ Done(t) \in Seq(Chunks) /\ <<[text |-> t, done |-> FALSE]>> \in Seq(Chunks)
  <2>1. [text |-> t, done |-> FALSE] \in Chunks /\ [text |-> t, done |-> TRUE] \in Chunks
    BY DEF Chunks
  <2>2. <<[text |-> t, done |-> FALSE]>> \in Seq(Chunks) /\ <<[text |-> t, done |-> TRUE]>> \in Seq(Chunks)
    BY <2>1
  <2>3. Text(t) \in Seq(Chunks)
    BY <2>2 DEF Text
  <2> QED  BY <2>2, <2>3 DEF Done
<1>3. Text(d.text) \in Seq(Chunks) /\ Done(d.text) \in Seq(Chunks) /\ Done(0) \in Seq(Chunks)
      /\ Text(d.text) \o Done(0) \in Seq(Chunks) /\ <<>> \in Seq(Chunks)
      /\ <<[text |-> d.text, done |-> FALSE]>> \in Seq(Chunks)
  <2>1. 0 \in Nat
    OBVIOUS
  <2>2. Text(d.text) \in Seq(Chunks) /\ Done(d.text) \in Seq(Chunks) /\ Done(0) \in Seq(Chunks)
        /\ <<[text |-> d.text, done |-> FALSE]>> \in Seq(Chunks)
    BY <1>1, <1>2, <2>1
  <2> QED  BY <2>2, NoSequence
<1>4. OpenAi(d).chunks \in Seq(Chunks)
  BY <1>3 DEF OpenAi
<1>5. Anthropic(d).chunks \in Seq(Chunks)
  BY <1>3 DEF Anthropic
<1>6. Gemini(d).chunks \in Seq(Chunks)
  BY <1>3 DEF Gemini
<1>7. Ollama(d).chunks \in Seq(Chunks)
  BY <1>3 DEF Ollama
<1> QED  BY <1>4, <1>5, <1>6, <1>7 DEF Parsed

LEMMA DoneConcat ==
    ASSUME NEW cs \in Seq(Chunks), NEW ds \in Seq(Chunks), IsDone(cs) \/ IsDone(ds)
    PROVE  IsDone(cs \o ds)
<1>1. CASE IsDone(cs)
  BY <1>1 DEF IsDone
<1>2. CASE IsDone(ds)
  <2>1. PICK i \in DOMAIN ds : ds[i].done
    BY <1>2 DEF IsDone
  <2>2. Len(cs) + i \in DOMAIN (cs \o ds) /\ (cs \o ds)[Len(cs) + i] = ds[i]
    OBVIOUS
  <2> QED  BY <2>1, <2>2 DEF IsDone
<1> QED  BY <1>1, <1>2

LEMMA DoneTail ==
    ASSUME NEW cs \in Seq(Chunks), IsDone(cs), ~Head(cs).done
    PROVE  IsDone(Tail(cs))
<1>1. PICK i \in DOMAIN cs : cs[i].done
  BY DEF IsDone
<1>2. i # 1 /\ i - 1 \in DOMAIN Tail(cs) /\ Tail(cs)[i - 1] = cs[i]
  BY <1>1
<1> QED  BY <1>1, <1>2 DEF IsDone

LEMMA UnmarkedConcat ==
    ASSUME NEW s \in Seq(Frames), NEW t \in Seq(Frames), Unmarked(s), Unmarked(t)
    PROVE  s \o t \in Seq(Frames) /\ Unmarked(s \o t)
BY DEF Unmarked

LEMMA Concat ==
    ASSUME NEW S, NEW s \in Seq(S), NEW t \in Seq(S)
    PROVE  /\ s \o t \in Seq(S) /\ Len(s \o t) = Len(s) + Len(t) /\ Len(s) \in Nat /\ Len(t) \in Nat
           /\ \A i \in 1 .. Len(s) + Len(t) : (s \o t)[i] = IF i <= Len(s) THEN s[i] ELSE t[i - Len(s)]
OBVIOUS

LEMMA MarkedConcat ==
    ASSUME NEW s \in Seq(Frames), Unmarked(s), NEW f \in {"finish", "error"}
    PROVE  LET t == s \o <<Frame(f, 0), Frame("DONE", 0)>>
           IN  t \in Seq(Frames) /\ Marked(t)
<1> DEFINE m == <<Frame(f, 0), Frame("DONE", 0)>>
           t == s \o m
<1>1. Frame(f, 0) \in Frames /\ Frame("DONE", 0) \in Frames
      /\ Frame(f, 0).f = f /\ Frame("DONE", 0).f = "DONE"
  BY DEF Frame, Frames
<1>2. m \in Seq(Frames) /\ Len(m) = 2 /\ m[1].f = f /\ m[2].f = "DONE"
  BY <1>1
<1> HIDE DEF m
<1>3. /\ t \in Seq(Frames) /\ Len(t) = Len(s) + 2 /\ Len(s) \in Nat
      /\ t[Len(s) + 1] = m[1] /\ t[Len(s) + 2] = m[2]
      /\ \A i \in 1 .. Len(s) : t[i] = s[i]
  <2>1. /\ t \in Seq(Frames) /\ Len(t) = Len(s) + Len(m) /\ Len(s) \in Nat
        /\ \A i \in 1 .. Len(s) + Len(m) : t[i] = IF i <= Len(s) THEN s[i] ELSE m[i - Len(s)]
    BY <1>2, Concat DEF t
  <2> HIDE DEF t
  <2>2. Len(t) = Len(s) + 2 /\ t[Len(s) + 1] = m[1] /\ t[Len(s) + 2] = m[2]
    BY <1>2, <2>1
  <2>3. \A i \in 1 .. Len(s) : t[i] = s[i]
    BY <1>2, <2>1
  <2> QED  BY <2>1, <2>2, <2>3
<1>4. ASSUME NEW i \in 1 .. Len(t) - 1 PROVE t[i].f # "DONE"
  <2>1. CASE i \in 1 .. Len(s)
    BY <1>3, <2>1 DEF Unmarked
  <2>2. CASE i = Len(s) + 1
    BY <1>2, <1>3, <2>2
  <2> QED  BY <1>3, <2>1, <2>2
<1>5. t[Len(t) - 1].f = f /\ Len(t) > 1 /\ t[Len(t)].f = "DONE"
  BY <1>2, <1>3
<1>6. t \in Seq(Frames) /\ Marked(t)
  BY <1>3, <1>4, <1>5 DEF Marked
<1> QED  BY <1>6 DEF m

\* A chunk marks the end if it says done, and only then.
LEMMA EncodedMarks ==
    ASSUME out \in Seq(Frames), Unmarked(out), NEW c \in Chunks
    PROVE  /\ out \o Encoded(c) \in Seq(Frames)
           /\ IF c.done THEN Marked(out \o Encoded(c)) ELSE Unmarked(out \o Encoded(c))
<1> DEFINE a == IF out = <<>> THEN <<Frame("role", 0)>> ELSE <<>>
           b == IF c.text # 0 THEN <<Frame("text", c.text)>> ELSE <<>>
           m == IF c.done THEN <<Frame("finish", 0), Frame("DONE", 0)>> ELSE <<>>
<1>1. Frame("role", 0) \in Frames /\ Frame("role", 0).f # "DONE"
      /\ Frame("text", c.text) \in Frames /\ Frame("text", c.text).f # "DONE"
      /\ Frame("finish", 0) \in Frames /\ Frame("DONE", 0) \in Frames
  BY DEF Frame, Frames, Chunks
<1>2. a \in Seq(Frames) /\ Unmarked(a) /\ b \in Seq(Frames) /\ Unmarked(b) /\ m \in Seq(Frames)
  BY <1>1 DEF Unmarked
<1>3. Encoded(c) = (a \o b) \o m
  BY DEF Encoded
<1>4. c.done \in BOOLEAN /\ m = (IF c.done THEN <<Frame("finish", 0), Frame("DONE", 0)>> ELSE <<>>)
  BY DEF Chunks
<1> HIDE DEF a, b, m
<1> DEFINE s == out \o (a \o b)
<1>5. s \in Seq(Frames) /\ Unmarked(s)
  BY <1>2, UnmarkedConcat
<1>6. out \o Encoded(c) = s \o m
  <2>1. (out \o (a \o b)) \o m = out \o ((a \o b) \o m)
    <3>1. a \o b \in Seq(Frames)
      BY <1>2, ConcatProperties
    <3> DEFINE ab == a \o b
    <3>2. ab \in Seq(Frames)
      BY <3>1
    <3> HIDE DEF ab
    <3>3. (out \o ab) \o m = out \o (ab \o m)
      BY <1>2, <3>2, ConcatAssociative, SMTT(60)
    <3> QED  BY <3>3 DEF ab
  <2> QED  BY <1>3, <2>1
<1> HIDE DEF s
<1>7. CASE c.done
  BY <1>4, <1>5, <1>6, <1>7, MarkedConcat
<1>8. CASE ~c.done
  BY <1>4, <1>5, <1>6, <1>8
<1> QED  BY <1>4, <1>7, <1>8

LEMMA PayloadTypes ==
    ASSUME answer \in Seq(Payloads), NEW frame, Payload(frame) # 0
    PROVE  answer[Payload(frame)] \in Payloads
<1> DEFINE whole == {k \in DOMAIN answer : Range(Halves(k)) \subseteq Range(frame)}
<1>1. Payload(frame) = IF \E k \in whole : whole = {k} THEN CHOOSE k \in whole : TRUE ELSE 0
  BY DEF Payload
<1>2. whole \subseteq DOMAIN answer
  OBVIOUS
<1> HIDE DEF whole
<1>3. Payload(frame) \in whole
  BY <1>1
<1> QED  BY <1>2, <1>3

LEMMA StreamForgotten == SInit => StreamInv
<1> SUFFICES ASSUME SInit PROVE StreamInv
  OBVIOUS
<1>1. StreamTypes
  BY NoSequence DEF SInit, StreamTypes
<1>2. Unmarked(out)
  BY DEF SInit, Unmarked
<1> QED  BY <1>1, <1>2 DEF SInit, StreamInv, MarkInv

LEMMA OpenSound ==
    ASSUME StreamInv, NEW p \in DOMAIN Answers, NEW a \in Answers[p], NEW nl, OpenStream(p, a, nl)
    PROVE  StreamInv'
<1>1. p \in {"openai", "anthropic", "gemini", "ollama"} /\ a \in Seq(Payloads)
  BY AnswersAssumption
<1>2. /\ provider' = p /\ answer' = a /\ parser' = "reading" /\ encoder' = "open"
      /\ UNCHANGED <<terminal, chunks, out, gone>>
      /\ encoder = "off" /\ ~terminal /\ ~gone /\ chunks = <<>> /\ out = <<>>
  BY DEF OpenStream, StreamInv, StreamTypes
<1>3. StreamTypes'
  BY <1>1, <1>2 DEF StreamInv, StreamTypes
<1>4. Unmarked(out)'
  BY <1>2 DEF Unmarked
<1> QED  BY <1>2, <1>3, <1>4 DEF StreamInv, MarkInv

LEMMA ForgetSound == Forget => StreamInv'
<1> SUFFICES ASSUME Forget PROVE StreamInv'
  OBVIOUS
<1>1. StreamTypes'
  BY NoSequence DEF Forget, StreamTypes
<1>2. Unmarked(out)'
  BY DEF Forget, Unmarked
<1> QED  BY <1>1, <1>2 DEF Forget, StreamInv, MarkInv

\* What the parser does: it queues chunks, and knows whether one says done.
LEMMA QueuesSound ==
    ASSUME StreamInv, parser = "reading", NEW cs \in Seq(Chunks), NEW ds \in Seq(Chunks),
           chunks' = (chunks \o cs) \o ds, terminal' = (terminal \/ IsDone(cs)),
           parser' \in {"reading", "closed"},
           UNCHANGED <<provider, answer, encoder, out, gone>>
    PROVE  StreamInv'
<1>1. chunks \o cs \in Seq(Chunks) /\ chunks' \in Seq(Chunks)
  BY Concat DEF StreamInv, StreamTypes
<1>2. StreamTypes'
  <2>1. IsDone(cs) \in BOOLEAN
    BY DEF IsDone
  <2> QED  BY <1>1, <2>1 DEF StreamInv, StreamTypes
<1>3. ASSUME encoder = "open", terminal \/ IsDone(cs) PROVE IsDone(chunks')
  <2>1. IsDone(chunks) \/ IsDone(cs)
    BY <1>3 DEF StreamInv, MarkInv
  <2>2. IsDone(chunks \o cs)
    BY <2>1, DoneConcat DEF StreamInv, StreamTypes
  <2> QED  BY <1>1, <2>2, DoneConcat
<1>4. IsDone(chunks)' <=> IsDone(chunks')
  BY DEF IsDone
<1> QED  BY <1>2, <1>3, <1>4 DEF StreamInv, MarkInv, Unmarked, Marked

LEMMA TakeFrameSound ==
    ASSUME StreamInv, TakeFrame
    PROVE  StreamInv'
<1> DEFINE at == CHOOSE i \in Ends(buf) : \A j \in Ends(buf) : i <= j
           k  == Payload(SubSeq(buf, 1, at - 1))
           r  == IF k = 0 THEN [chunks |-> <<>>, closes |-> FALSE] ELSE Parsed(answer[k])
<1>1. /\ parser = "reading" /\ chunks' = chunks \o r.chunks /\ terminal' = (terminal \/ IsDone(r.chunks))
      /\ parser' = (IF r.closes THEN "closed" ELSE "reading")
      /\ UNCHANGED <<provider, answer, encoder, out, gone>>
  BY Zenon DEF TakeFrame
<1>2. r.chunks \in Seq(Chunks)
  <2>1. CASE k = 0
    BY <2>1, NoSequence
  <2>2. CASE k # 0
    <3>1. answer[k] \in Payloads
      BY <2>2, PayloadTypes DEF StreamInv, StreamTypes
    <3>2. Parsed(answer[k]).chunks \in Seq(Chunks)
      BY <3>1, ParsedTypes DEF StreamInv, StreamTypes
    <3> QED  BY <2>2, <3>2
  <2> QED  BY <2>1, <2>2
<1> HIDE DEF r
<1>3. chunks' = (chunks \o r.chunks) \o <<>>
  BY <1>1, <1>2 DEF StreamInv, StreamTypes
<1> QED  BY <1>1, <1>2, <1>3, NoSequence, QueuesSound

LEMMA EofSound ==
    ASSUME StreamInv, Eof
    PROVE  StreamInv'
<1> DEFINE k == Payload(buf)
           r == IF k = 0 \/ provider \notin {"gemini", "ollama"}
                THEN [chunks |-> <<>>, closes |-> TRUE] ELSE Parsed(answer[k])
           last == IF provider = "gemini" /\ ~terminal /\ ~IsDone(r.chunks) THEN Done(0) ELSE <<>>
<1>1. /\ parser = "reading" /\ chunks' = chunks \o r.chunks \o last /\ terminal' = (terminal \/ IsDone(r.chunks))
      /\ parser' = "closed" /\ UNCHANGED <<provider, answer, encoder, out, gone>>
  BY Zenon DEF Eof
<1>2. r.chunks \in Seq(Chunks)
  <2>1. CASE k = 0 \/ provider \notin {"gemini", "ollama"}
    BY <2>1, NoSequence
  <2>2. CASE k # 0 /\ provider \in {"gemini", "ollama"}
    <3>1. answer[k] \in Payloads
      BY <2>2, PayloadTypes DEF StreamInv, StreamTypes
    <3>2. Parsed(answer[k]).chunks \in Seq(Chunks)
      BY <3>1, ParsedTypes DEF StreamInv, StreamTypes
    <3> QED  BY <2>2, <3>2
  <2> QED  BY <2>1, <2>2
<1>3. last \in Seq(Chunks)
  <2>1. [text |-> 0, done |-> TRUE] \in Chunks
    BY DEF Chunks
  <2>2. Done(0) \in Seq(Chunks)
    BY <2>1 DEF Done
  <2> QED  BY <2>2, NoSequence
<1> HIDE DEF r, last
<1> QED  BY <1>1, <1>2, <1>3, QueuesSound

\* A connection that breaks throws the chunks away, and the encoder hears of it.
LEMMA BreakSound ==
    ASSUME StreamInv, Break
    PROVE  StreamInv'
<1>1. /\ parser = "reading" /\ parser' = "failed" /\ chunks' = <<>>
      /\ UNCHANGED <<provider, answer, terminal, encoder, out, gone>>
  BY DEF Break
<1>2. StreamTypes'
  BY <1>1, NoSequence DEF StreamInv, StreamTypes
<1> QED  BY <1>1, <1>2 DEF StreamInv, MarkInv, Unmarked, Marked

LEMMA EncodeSound ==
    ASSUME StreamInv, Encode
    PROVE  StreamInv'
<1> DEFINE c == Head(chunks)
<1>1. /\ encoder = "open" /\ chunks # <<>> /\ chunks' = Tail(chunks)
      /\ out' = (IF gone THEN out ELSE out \o Encoded(c))
      /\ encoder' = (IF c.done \/ (gone /\ Encoded(c) # <<>>) THEN "closed" ELSE "open")
      /\ UNCHANGED <<provider, answer, parser, terminal, gone>>
  BY DEF Encode
<1>2. c \in Chunks /\ Tail(chunks) \in Seq(Chunks) /\ out \in Seq(Frames) /\ Unmarked(out) /\ gone \in BOOLEAN
  BY <1>1 DEF StreamInv, StreamTypes, MarkInv
<1>3. c.done \in BOOLEAN
  BY <1>2 DEF Chunks
<1> HIDE DEF c
<1>4. /\ out \o Encoded(c) \in Seq(Frames)
      /\ IF c.done THEN Marked(out \o Encoded(c)) ELSE Unmarked(out \o Encoded(c))
  BY <1>2, EncodedMarks
<1>5. StreamTypes'
  BY <1>1, <1>2, <1>4 DEF StreamInv, StreamTypes
<1>6. ASSUME encoder' = "open", terminal, parser # "failed" PROVE IsDone(chunks')
  <2>1. ~c.done /\ IsDone(chunks)
    BY <1>1, <1>6 DEF StreamInv, MarkInv
  <2> QED  BY <1>1, <2>1, DoneTail DEF c, StreamInv, StreamTypes
<1>7. IsDone(chunks)' <=> IsDone(chunks')
  BY DEF IsDone
<1>8. (Unmarked(out)' <=> Unmarked(out')) /\ (Marked(out)' <=> Marked(out'))
  BY DEF Unmarked, Marked
<1>9. CASE gone
  BY <1>1, <1>2, <1>5, <1>6, <1>7, <1>8, <1>9 DEF StreamInv, MarkInv
<1>10. CASE ~gone
  BY <1>1, <1>3, <1>4, <1>5, <1>6, <1>7, <1>8, <1>10 DEF StreamInv, MarkInv
<1> QED  BY <1>9, <1>10

LEMMA EncodeEndSound ==
    ASSUME StreamInv, EncodeEnd
    PROVE  StreamInv'
<1>1. /\ encoder = "open" /\ chunks = <<>> /\ parser = "closed" /\ encoder' = "closed"
      /\ UNCHANGED <<provider, answer, parser, terminal, chunks, out, gone>>
  BY DEF EncodeEnd
<1>2. ~terminal
  BY <1>1 DEF StreamInv, MarkInv, IsDone
<1>3. StreamTypes'
  BY <1>1 DEF StreamInv, StreamTypes
<1> QED  BY <1>1, <1>2, <1>3 DEF StreamInv, MarkInv, Unmarked, Marked

LEMMA EncodeErrorSound ==
    ASSUME StreamInv, EncodeError
    PROVE  StreamInv'
<1>1. /\ encoder = "open" /\ parser = "failed" /\ encoder' = "closed"
      /\ out' = (IF gone THEN out ELSE out \o <<Frame("error", 0), Frame("DONE", 0)>>)
      /\ UNCHANGED <<provider, answer, parser, terminal, chunks, gone>>
  BY DEF EncodeError
<1>2. out \in Seq(Frames) /\ Unmarked(out) /\ gone \in BOOLEAN
  BY <1>1 DEF StreamInv, StreamTypes, MarkInv
<1>3. (Unmarked(out)' <=> Unmarked(out')) /\ (Marked(out)' <=> Marked(out'))
  BY DEF Unmarked, Marked
<1>4. CASE gone
  <2>1. StreamTypes'
    BY <1>1, <1>4 DEF StreamInv, StreamTypes
  <2> QED  BY <1>1, <1>2, <1>3, <1>4, <2>1 DEF StreamInv, MarkInv
<1>5. CASE ~gone
  <2>1. out' \in Seq(Frames) /\ Marked(out')
    BY <1>1, <1>2, <1>5, MarkedConcat
  <2>2. StreamTypes'
    BY <1>1, <1>5, <2>1 DEF StreamInv, StreamTypes
  <2> QED  BY <1>1, <1>3, <1>5, <2>1, <2>2 DEF StreamInv, MarkInv
<1> QED  BY <1>4, <1>5

LEMMA StreamFrame ==
    ASSUME StreamInv, UNCHANGED <<provider, answer, parser, terminal, chunks, encoder, out>>,
           gone' = gone \/ (gone' = TRUE /\ encoder = "open")
    PROVE  StreamInv'
<1>1. StreamTypes'
  <2>1. CASE gone' = gone
    BY <2>1 DEF StreamInv, StreamTypes
  <2>2. CASE gone' = TRUE /\ encoder = "open"
    <3>1. parser # "off" /\ gone' \in BOOLEAN
      BY <2>2 DEF StreamInv, StreamTypes
    <3> QED  BY <3>1 DEF StreamInv, StreamTypes
  <2> QED  BY <2>1, <2>2
<1> QED  BY <1>1 DEF StreamInv, MarkInv, Unmarked, Marked, IsDone

\* What comes by a door does not touch the stream.
LEMMA NotAStream ==
    ASSUME NEW r, NEW c, ChatStep(r, c) \/ ReadStep(r, c) \/ WriteStep(r, c) \/ RouteStep(r, c)
    PROVE  UNCHANGED svars
<1>1. ASSUME NEW next, Asks(r, c, next) \/ Connects(r, c, next) PROVE UNCHANGED svars
  BY <1>1 DEF Asks, Connects, Comes
<1>2. ASSUME NEW op, NEW d, NEW n, Tool(r, c, op, d, n) \/ AdminTool(r, c, op, d)
                                 \/ requirePerm(r, c, op, d, n) \/ requireGlobalAdmin(r, c, op, d)
      PROVE UNCHANGED svars
  BY <1>1, <1>2 DEF Tool, AdminTool, requirePerm, requireGlobalAdmin
<1>3. CASE ChatStep(r, c)
  BY <1>1, <1>3 DEF ChatStep, OpenChat, DomainChat
<1>4. CASE ReadStep(r, c) \/ WriteStep(r, c)
  BY <1>1, <1>2, <1>4 DEF ReadStep, WriteStep, ToolStats, ToolSearch, ToolChat, ToolCapture, ToolCaptureFile,
     ToolCreate, ToolDelete, ToolDrop
<1>5. CASE RouteStep(r, c)
  BY <1>1, <1>2, <1>5 DEF RouteStep, RouteCreate, RouteUpload, RouteUrl, RouteDelete, RouteExport, RouteDrop,
     RouteRestore, RouteDownload, RouteDescribe, RouteDocs, RouteGraph, RouteGexf, RouteOverlap
<1> QED  BY <1>3, <1>4, <1>5

LEMMA StreamNext == StreamInv /\ [GNext]_gvars => StreamInv'
<1> SUFFICES ASSUME StreamInv, [GNext]_gvars PROVE StreamInv'
  OBVIOUS
<1>1. CASE UNCHANGED svars
  BY <1>1, StreamFrame DEF svars
<1>2. ASSUME NEW r \in Calls, ForwardStream(r) PROVE StreamInv'
  BY <1>2, OpenSound DEF ForwardStream
<1>3. ASSUME NEW r \in Calls, StreamOver(r) PROVE StreamInv'
  BY <1>3, ForgetSound DEF StreamOver
<1>4. CASE StreamStep
  <2>1. ASSUME NEW n \in DOMAIN wire, Read(n) PROVE StreamInv'
    BY <2>1, StreamFrame DEF Read
  <2>2. ASSUME ClientLeaves PROVE StreamInv'
    BY <2>2, StreamFrame DEF ClientLeaves
  <2> QED  BY <1>4, <2>1, <2>2, TakeFrameSound, EofSound, BreakSound, EncodeSound, EncodeEndSound,
             EncodeErrorSound DEF StreamStep
<1>5. ASSUME NEW r \in Calls, GoOn(r) PROVE UNCHANGED svars
  BY <1>5 DEF GoOn, ListDomains, BuildContext, Forward, HandleRequest, Looks, Changes, Fails, Given
<1>6. ASSUME NEW r, NEW c, ChatStep(r, c) \/ ReadStep(r, c) \/ WriteStep(r, c) \/ RouteStep(r, c) PROVE UNCHANGED svars
  BY <1>6, NotAStream
<1> QED  BY <1>1, <1>2, <1>3, <1>4, <1>5, <1>6 DEF GNext, GStep, GrantStep, SaveUsers, EditFile, Refused, gvars

\* The end of a stream and its marks go together (openai_sse.ts, sse_parsers.ts).
THEOREM StreamInvariant == GSpec => []StreamInv
<1>1. GInit => StreamInv
  BY StreamForgotten DEF GInit
<1> QED  BY <1>1, StreamNext, PTL DEF GSpec

\* [DONE] comes once, at the very end of what the client gets, after a finish or an
\* error; and a client that stays gets it, unless the provider has closed without an
\* ending (openai_sse.ts).
THEOREM EndIsMarked == GSpec => []MarkedOnce
<1>1. ASSUME StreamInv PROVE MarkedOnce
  <2>1. ASSUME NEW i \in DOMAIN out, out[i].f = "DONE"
        PROVE  i = Len(out) /\ out[i - 1].f \in {"finish", "error"}
    <3>1. Marked(out)
      BY <1>1, <2>1 DEF StreamInv, MarkInv, Unmarked
    <3>2. PICK n \in Nat : n = Len(out) /\ DOMAIN out = 1 .. n
      BY <1>1 DEF StreamInv, StreamTypes
    <3>3. i \notin 1 .. n - 1
      BY <2>1, <3>1, <3>2 DEF Marked
    <3>4. i = n
      BY <2>1, <3>2, <3>3
    <3> QED  BY <3>1, <3>2, <3>4 DEF Marked
  <2>2. ASSUME encoder = "closed", ~gone, terminal \/ parser = "failed"
        PROVE  out # <<>> /\ Last(out).f = "DONE"
    BY <1>1, <2>2 DEF StreamInv, StreamTypes, MarkInv, Marked, Last
  <2> QED  BY <2>1, <2>2 DEF MarkedOnce
<1> QED  BY <1>1, StreamInvariant, PTL

-----------------------------------------------------------------------------
(* The texts, of payloads, of chunks and of frames.                          *)

Spoken(s) == [i \in DOMAIN s |-> IF s[i].text = 0 THEN <<>> ELSE <<s[i].text>>]

LEMMA SpokenSeq ==
    ASSUME NEW S, \A x \in S : x.text \in Nat, NEW s \in Seq(S)
    PROVE  Spoken(s) \in Seq(Seq(Nat)) /\ Len(Spoken(s)) = Len(s)
<1>1. PICK n \in Nat : n = Len(s) /\ DOMAIN s = 1 .. n
  OBVIOUS
<1>2. \A i \in 1 .. n : s[i].text \in Nat
  BY <1>1
<1>3. \A x \in Nat : (IF x = 0 THEN <<>> ELSE <<x>>) \in Seq(Nat)
  OBVIOUS
<1>4. Spoken(s) \in [1 .. n -> Seq(Nat)]
  BY <1>1, <1>2, <1>3 DEF Spoken
<1> QED  BY <1>1, <1>4

LEMMA TextsConcat ==
    ASSUME NEW S, \A x \in S : x.text \in Nat, NEW s \in Seq(S), NEW t \in Seq(S)
    PROVE  Texts(s) \in Seq(Nat) /\ Texts(s \o t) = Texts(s) \o Texts(t)
<1>1. PICK w : w = s \o t
  OBVIOUS
<1>2. PICK m, n : Joins(S, s, t, m, n, w)
  BY <1>1, Joined
<1>3. w \in Seq(S) /\ m \in Nat /\ n \in Nat /\ Len(s) = m /\ Len(t) = n /\ Len(w) = m + n
  BY <1>2 DEF Joins
<1>4. /\ Spoken(s) \in Seq(Seq(Nat)) /\ Len(Spoken(s)) = m
      /\ Spoken(t) \in Seq(Seq(Nat)) /\ Len(Spoken(t)) = n
      /\ Spoken(w) \in Seq(Seq(Nat)) /\ Len(Spoken(w)) = m + n
  BY <1>3, SpokenSeq
<1>5. PICK v : v = Spoken(s) \o Spoken(t)
  OBVIOUS
<1>6. PICK a, b : Joins(Seq(Nat), Spoken(s), Spoken(t), a, b, v)
  BY <1>4, <1>5, Joined
<1>7. a = m /\ b = n /\ v \in Seq(Seq(Nat)) /\ Len(v) = m + n
  BY <1>4, <1>6 DEF Joins
<1>8. ASSUME NEW i \in 1 .. m + n PROVE Spoken(w)[i] = v[i]
  <2>1. CASE i \in 1 .. m
    <3>1. w[i] = s[i] /\ v[i] = Spoken(s)[i]
      BY <1>2, <1>3, <1>6, <1>7, <2>1 DEF Joins
    <3> QED  BY <1>3, <2>1, <3>1 DEF Spoken
  <2>2. CASE \E j \in 1 .. n : i = m + j
    <3>1. PICK j \in 1 .. n : i = m + j
      BY <2>2
    <3>2. w[i] = t[j] /\ v[i] = Spoken(t)[j]
      BY <1>2, <1>3, <1>6, <1>7, <3>1 DEF Joins
    <3> QED  BY <1>3, <3>1, <3>2 DEF Spoken
  <2>3. i \in 1 .. m \/ \E j \in 1 .. n : i = m + j
    BY <1>2, <1>3 DEF Joins
  <2> QED  BY <2>1, <2>2, <2>3
<1>9. Spoken(w) = v
  BY <1>3, <1>4, <1>7, <1>8, SeqEqual
<1>10. \A x : Texts(x) = FlattenSeq(Spoken(x))
  BY DEF Texts, Spoken
<1>11. FlattenSeq(v) = FlattenSeq(Spoken(s)) \o FlattenSeq(Spoken(t)) /\ FlattenSeq(Spoken(s)) \in Seq(Nat)
  BY <1>4, <1>5, FlattenConcat, Flattened
<1> QED  BY <1>1, <1>9, <1>10, <1>11

LEMMA TextsOne ==
    ASSUME NEW x, x.text \in Nat
    PROVE  /\ Texts(<<>>) = <<>>
           /\ Texts(<<x>>) = IF x.text = 0 THEN <<>> ELSE <<x.text>>
<1>1. PICK y : y = IF x.text = 0 THEN <<>> ELSE <<x.text>>
  OBVIOUS
<1>2. y \in Seq(Nat) /\ <<>> \in Seq(Seq(Nat))
  <2>1. <<>> \in Seq(Nat) /\ <<x.text>> \in Seq(Nat) /\ <<>> \in Seq(Seq(Nat))
    OBVIOUS
  <2> QED  BY <1>1, <2>1
<1>3. FlattenSeq(<<>>) = <<>> /\ FlattenSeq(Append(<<>>, y)) = FlattenSeq(<<>>) \o y
  BY <1>2, FlattenAppend
<1>4. Append(<<>>, y) = <<y>> /\ <<>> \o y = y
  BY <1>2
<1>5. Spoken(<<x>>) = <<y>> /\ Spoken(<<>>) = <<>>
  BY <1>1 DEF Spoken
<1>6. \A z : Texts(z) = FlattenSeq(Spoken(z))
  BY DEF Texts, Spoken
<1> QED  BY <1>1, <1>3, <1>4, <1>5, <1>6

\* Chunks, payloads and frames have texts.
LEMMA AllSpeak ==
    /\ \A x \in Chunks : x.text \in Nat /\ x.done \in BOOLEAN
    /\ \A x \in Payloads : x.text \in Nat
    /\ \A x \in Frames : x.text \in Nat
BY DEF Chunks, Payloads, Frames

LEMMA PrefixConcat ==
    ASSUME NEW S, NEW s \in Seq(S), NEW t \in Seq(S), NEW u \in Seq(S)
    PROVE  IsPrefix(s, s) /\ IsPrefix(s, s \o t) /\ (IsPrefix(s \o t, u) => IsPrefix(s, u))
<1>1. PICK m \in Nat : m = Len(s)
  OBVIOUS
<1>2. PICK n \in Nat : n = Len(t)
  OBVIOUS
<1>3. PICK w : w = s \o t
  OBVIOUS
<1>4. w \in Seq(S) /\ Len(w) = m + n /\ \A i \in 1 .. m : w[i] = s[i]
  <2>1. PICK a, b : Joins(S, s, t, a, b, w)
    BY <1>3, Joined
  <2> QED  BY <1>1, <1>2, <2>1 DEF Joins
<1>5. ASSUME NEW x \in Seq(S), m <= Len(x), \A i \in 1 .. m : s[i] = x[i] PROVE IsPrefix(s, x)
  <2>1. SubSeq(s, 1, m) \in Seq(S) /\ Len(SubSeq(s, 1, m)) = m /\ \A i \in 1 .. m : SubSeq(s, 1, m)[i] = s[i]
    BY <1>1, SplitAt
  <2>2. SubSeq(x, 1, m) \in Seq(S) /\ Len(SubSeq(x, 1, m)) = m /\ \A i \in 1 .. m : SubSeq(x, 1, m)[i] = x[i]
    BY <1>5, SplitAt
  <2>3. SubSeq(s, 1, m) = SubSeq(x, 1, m)
    BY <1>5, <2>1, <2>2, SeqEqual
  <2> QED  BY <1>1, <1>5, <2>3 DEF IsPrefix
<1>6. IsPrefix(s, s) /\ IsPrefix(s, w)
  <2>1. m <= Len(s) /\ m <= Len(w)
    <3>1. PICK k \in Nat : k = Len(w)
      BY <1>4
    <3>2. k = m + n /\ m <= k
      BY <1>4, <3>1
    <3> QED  BY <1>1, <3>1, <3>2
  <2>2. IsPrefix(s, s)
    BY <1>5, <2>1
  <2>3. IsPrefix(s, w)
    BY <1>4, <1>5, <2>1
  <2> QED  BY <2>2, <2>3
<1>7. ASSUME IsPrefix(w, u) PROVE IsPrefix(s, u)
  <2>1. PICK k \in Nat : k = m + n /\ m <= k /\ Len(w) = k
    BY <1>4
  <2>2. k <= Len(u) /\ SubSeq(w, 1, k) = SubSeq(u, 1, k)
    BY <1>7, <2>1 DEF IsPrefix
  <2>3. \A i \in 1 .. k : SubSeq(w, 1, k)[i] = w[i]
    BY <1>4, <2>1, SplitAt
  <2>4. \A i \in 1 .. k : SubSeq(u, 1, k)[i] = u[i]
    BY <2>2, SplitAt
  <2>5. \A i \in 1 .. m : s[i] = u[i]
    BY <1>4, <2>1, <2>2, <2>3, <2>4
  <2>6. m <= Len(u)
    BY <2>1, <2>2
  <2> QED  BY <1>5, <2>5, <2>6
<1> QED  BY <1>3, <1>6, <1>7

LEMMA SaidOn ==
    ASSUME NEW x \in Seq(Nat), NEW y \in Seq(Nat), NEW z \in Seq(Nat)
    PROVE  (x \o y) \o z = x \o (y \o z)
BY ConcatAssociative, SMTT(60)

LEMMA PrefixOnly ==
    ASSUME NEW S, NEW s \in Seq(S), NEW t \in Seq(S), NEW u, IsPrefix(s \o t, u), u \in Seq(S)
    PROVE  IsPrefix(s, u)
BY PrefixConcat

-----------------------------------------------------------------------------
(* The chunks that the encoder will still take: it stops at one that says    *)
(* done, and what waits behind it is never seen.                             *)

FirstDone(cs) == {i \in DOMAIN cs : cs[i].done /\ \A j \in 1 .. i - 1 : ~cs[j].done}
Owed(cs) == IF IsDone(cs) THEN SubSeq(cs, 1, CHOOSE i \in FirstDone(cs) : TRUE) ELSE cs

LEMMA OwedIs ==
    ASSUME NEW cs \in Seq(Chunks), IsDone(cs)
    PROVE  \E i \in DOMAIN cs : /\ i \in FirstDone(cs) /\ Owed(cs) = SubSeq(cs, 1, i)
                                /\ cs[i].done /\ \A j \in 1 .. i - 1 : ~cs[j].done
<1> DEFINE D == {i \in DOMAIN cs : cs[i].done}
<1>1. D \in SUBSET Nat /\ D # {}
  BY DEF IsDone
<1>2. PICK i \in D : \A j \in D : i <= j
  <2> HIDE DEF D
  <2> QED  BY <1>1, Least
<1>3. i \in FirstDone(cs)
  <2>1. \A j \in 1 .. i - 1 : j \in DOMAIN cs /\ ~(i <= j)
    OBVIOUS
  <2>2. \A j \in 1 .. i - 1 : ~cs[j].done
    BY <1>2, <2>1
  <2> QED  BY <1>2, <2>2 DEF FirstDone
<1>4. PICK k : k = CHOOSE j \in FirstDone(cs) : TRUE
  OBVIOUS
<1>5. k \in FirstDone(cs)
  BY <1>3, <1>4
<1>6. Owed(cs) = SubSeq(cs, 1, k)
  BY <1>4 DEF Owed
<1> QED  BY <1>5, <1>6 DEF FirstDone

LEMMA OwedUpTo ==
    ASSUME NEW cs \in Seq(Chunks), NEW i \in DOMAIN cs, cs[i].done, \A j \in 1 .. i - 1 : ~cs[j].done
    PROVE  Owed(cs) = SubSeq(cs, 1, i)
<1>1. IsDone(cs)
  BY DEF IsDone
<1>2. PICK k \in DOMAIN cs : Owed(cs) = SubSeq(cs, 1, k) /\ cs[k].done /\ \A j \in 1 .. k - 1 : ~cs[j].done
  BY <1>1, OwedIs
<1>3. i \in Nat /\ k \in Nat /\ 1 <= i /\ 1 <= k
  OBVIOUS
<1>4. ~(k < i) /\ ~(i < k)
  <2>1. k < i => k \in 1 .. i - 1
    BY <1>3
  <2>2. i < k => i \in 1 .. k - 1
    BY <1>3
  <2> QED  BY <1>2, <2>1, <2>2
<1> QED  BY <1>2, <1>3, <1>4

LEMMA OwedConcat ==
    ASSUME NEW cs \in Seq(Chunks), NEW ds \in Seq(Chunks)
    PROVE  /\ Owed(cs) \in Seq(Chunks)
           /\ IsDone(cs \o ds) <=> IsDone(cs) \/ IsDone(ds)
           /\ Owed(cs \o ds) = IF IsDone(cs) THEN Owed(cs) ELSE cs \o Owed(ds)
<1>1. PICK es : es = cs \o ds
  OBVIOUS
<1>2. PICK m, n : Joins(Chunks, cs, ds, m, n, es)
  BY <1>1, Joined
<1>3. /\ m \in Nat /\ n \in Nat /\ Len(cs) = m /\ Len(ds) = n /\ Len(es) = m + n /\ es \in Seq(Chunks)
      /\ \A i \in 1 .. m : es[i] = cs[i]
      /\ \A i \in 1 .. n : es[m + i] = ds[i]
      /\ \A i \in 1 .. m + n : i \in 1 .. m \/ \E j \in 1 .. n : i = m + j
  BY <1>2 DEF Joins
<1>4. DOMAIN cs = 1 .. m /\ DOMAIN ds = 1 .. n /\ DOMAIN es = 1 .. m + n
  BY <1>3
<1>5. \A fs \in Seq(Chunks) : Owed(fs) \in Seq(Chunks)
  <2>1. ASSUME NEW fs \in Seq(Chunks), IsDone(fs) PROVE Owed(fs) \in Seq(Chunks)
    <3>1. PICK i \in DOMAIN fs : Owed(fs) = SubSeq(fs, 1, i)
      BY <2>1, OwedIs
    <3>2. i \in Nat /\ i <= Len(fs)
      OBVIOUS
    <3> QED  BY <3>1, <3>2, SplitAt
  <2> QED  BY <2>1 DEF Owed
<1>6. IsDone(es) <=> IsDone(cs) \/ IsDone(ds)
  <2>1. ASSUME IsDone(es) PROVE IsDone(cs) \/ IsDone(ds)
    <3>1. PICK i \in 1 .. m + n : es[i].done
      BY <1>4, <2>1 DEF IsDone
    <3>2. CASE i \in 1 .. m
      BY <1>3, <1>4, <3>1, <3>2 DEF IsDone
    <3>3. CASE \E j \in 1 .. n : i = m + j
      <4>1. PICK j \in 1 .. n : i = m + j
        BY <3>3
      <4>2. j \in DOMAIN ds /\ ds[j].done
        BY <1>3, <1>4, <3>1, <4>1
      <4> QED  BY <4>2 DEF IsDone
    <3> QED  BY <1>3, <3>2, <3>3
  <2> QED  BY <1>1, <2>1, DoneConcat
<1>7. CASE IsDone(cs)
  <2>1. PICK i \in 1 .. m : Owed(cs) = SubSeq(cs, 1, i) /\ cs[i].done /\ \A j \in 1 .. i - 1 : ~cs[j].done
    BY <1>4, <1>7, OwedIs
  <2>2. i \in DOMAIN es /\ es[i].done
    BY <1>3, <1>4, <2>1
  <2>3. \A j \in 1 .. i - 1 : ~es[j].done
    <3>1. \A j \in 1 .. i - 1 : j \in 1 .. m
      BY <1>3
    <3> QED  BY <1>3, <2>1, <3>1
  <2>4. Owed(es) = SubSeq(es, 1, i)
    BY <1>3, <2>2, <2>3, OwedUpTo
  <2>5. /\ SubSeq(es, 1, i) \in Seq(Chunks) /\ Len(SubSeq(es, 1, i)) = i
        /\ \A j \in 1 .. i : SubSeq(es, 1, i)[j] = es[j]
    BY <1>3, SplitAt
  <2>6. /\ SubSeq(cs, 1, i) \in Seq(Chunks) /\ Len(SubSeq(cs, 1, i)) = i
        /\ \A j \in 1 .. i : SubSeq(cs, 1, i)[j] = cs[j]
    BY <1>3, SplitAt
  <2>7. \A j \in 1 .. i : es[j] = cs[j]
    BY <1>3
  <2>8. SubSeq(es, 1, i) = SubSeq(cs, 1, i)
    BY <2>5, <2>6, <2>7, SeqEqual
  <2> QED  BY <1>1, <1>5, <1>6, <1>7, <2>1, <2>4, <2>8
<1>8. CASE ~IsDone(cs) /\ ~IsDone(ds)
  BY <1>1, <1>5, <1>6, <1>8 DEF Owed
<1>9. CASE ~IsDone(cs) /\ IsDone(ds)
  <2>1. PICK i \in 1 .. n : Owed(ds) = SubSeq(ds, 1, i) /\ ds[i].done /\ \A j \in 1 .. i - 1 : ~ds[j].done
    BY <1>4, <1>9, OwedIs
  <2>2. PICK k \in 1 .. m + n : k = m + i
    BY <1>3
  <2>3. k \in DOMAIN es /\ es[k].done
    BY <1>3, <1>4, <2>1, <2>2
  <2>4. ASSUME NEW j \in 1 .. k - 1 PROVE ~es[j].done
    <3>1. j \in 1 .. m + n
      BY <1>3
    <3>2. CASE j \in 1 .. m
      BY <1>3, <1>4, <1>9, <3>2 DEF IsDone
    <3>3. CASE \E h \in 1 .. n : j = m + h
      <4>1. PICK h \in 1 .. n : j = m + h
        BY <3>3
      <4>2. h \in 1 .. i - 1
        BY <1>3, <2>2, <4>1
      <4> QED  BY <1>3, <2>1, <4>1, <4>2
    <3> QED  BY <1>3, <3>1, <3>2, <3>3
  <2>5. Owed(es) = SubSeq(es, 1, k)
    BY <1>3, <2>3, <2>4, OwedUpTo
  <2>6. /\ SubSeq(es, 1, k) \in Seq(Chunks) /\ Len(SubSeq(es, 1, k)) = k
        /\ \A j \in 1 .. k : SubSeq(es, 1, k)[j] = es[j]
    BY <1>3, SplitAt
  <2>7. PICK fs : fs = SubSeq(ds, 1, i)
    OBVIOUS
  <2>8. fs \in Seq(Chunks) /\ Len(fs) = i /\ \A j \in 1 .. i : fs[j] = ds[j]
    BY <1>3, <2>7, SplitAt
  <2>9. PICK w : w = cs \o fs
    OBVIOUS
  <2>10. PICK x, y : Joins(Chunks, cs, fs, x, y, w)
    BY <2>8, <2>9, Joined
  <2>11. x = m /\ y = i /\ w \in Seq(Chunks) /\ Len(w) = k
    BY <1>3, <2>2, <2>8, <2>10 DEF Joins
  <2>12. ASSUME NEW j \in 1 .. k PROVE w[j] = es[j]
    <3>1. CASE j \in 1 .. m
      BY <1>3, <2>10, <2>11, <3>1 DEF Joins
    <3>2. CASE \E h \in 1 .. i : j = m + h
      <4>1. PICK h \in 1 .. i : j = m + h
        BY <3>2
      <4>2. w[j] = fs[h]
        BY <2>10, <2>11, <4>1 DEF Joins
      <4>3. h \in 1 .. n
        BY <1>3
      <4> QED  BY <1>3, <2>8, <4>1, <4>2, <4>3
    <3> QED  BY <2>2, <2>10, <2>11, <3>1, <3>2 DEF Joins
  <2>13. SubSeq(es, 1, k) = w
    BY <2>6, <2>11, <2>12, SeqEqual
  <2> QED  BY <1>1, <1>5, <1>6, <1>9, <2>1, <2>5, <2>7, <2>9, <2>13
<1> QED  BY <1>7, <1>8, <1>9

LEMMA OwedOne ==
    ASSUME NEW c \in Chunks
    PROVE  /\ <<c>> \in Seq(Chunks) /\ Owed(<<c>>) = <<c>> /\ (IsDone(<<c>>) <=> c.done)
           /\ Owed(<<>>) = <<>> /\ ~IsDone(<<>>) /\ <<>> \in Seq(Chunks)
<1>1. <<c>> \in Seq(Chunks) /\ Len(<<c>>) = 1 /\ <<c>>[1] = c /\ DOMAIN <<c>> = {1} /\ DOMAIN <<>> = {}
  OBVIOUS
<1>2. IsDone(<<c>>) <=> c.done
  BY <1>1 DEF IsDone
<1>3. ~IsDone(<<>>)
  BY <1>1 DEF IsDone
<1>4. SubSeq(<<c>>, 1, 1) = <<c>>
  <2>1. PICK s : s = <<c>>
    OBVIOUS
  <2>2. s \in Seq(Chunks) /\ Len(s) = 1 /\ 1 \in Nat /\ 1 <= 1
    BY <1>1, <2>1
  <2>3. SubSeq(s, 1, 1) \in Seq(Chunks) /\ Len(SubSeq(s, 1, 1)) = 1 /\ \A i \in 1 .. 1 : SubSeq(s, 1, 1)[i] = s[i]
    BY <2>2, SplitAt
  <2> QED  BY <2>1, <2>2, <2>3, SeqEqual
<1>5. c.done => Owed(<<c>>) = <<c>>
  <2>1. \A j \in 1 .. 1 - 1 : ~<<c>>[j].done
    OBVIOUS
  <2> QED  BY <1>1, <1>4, <2>1, OwedUpTo
<1> QED  BY <1>1, <1>2, <1>3, <1>5, NoSequence DEF Owed

\* The first chunk that waits.
LEMMA OwedHead ==
    ASSUME NEW cs \in Seq(Chunks), cs # <<>>
    PROVE  /\ Head(cs) \in Chunks /\ Tail(cs) \in Seq(Chunks)
           /\ IsDone(cs) <=> Head(cs).done \/ IsDone(Tail(cs))
           /\ Owed(cs) = IF Head(cs).done THEN <<Head(cs)>> ELSE <<Head(cs)>> \o Owed(Tail(cs))
           /\ cs = <<Head(cs)>> \o Tail(cs)
<1>1. Head(cs) \in Chunks /\ Tail(cs) \in Seq(Chunks) /\ cs = <<Head(cs)>> \o Tail(cs)
  OBVIOUS
<1>2. PICK c, ds : c = Head(cs) /\ ds = Tail(cs)
  OBVIOUS
<1>3. <<c>> \in Seq(Chunks) /\ Owed(<<c>>) = <<c>> /\ (IsDone(<<c>>) <=> c.done)
  BY <1>1, <1>2, OwedOne
<1>4. /\ IsDone(<<c>> \o ds) <=> IsDone(<<c>>) \/ IsDone(ds)
      /\ Owed(<<c>> \o ds) = IF IsDone(<<c>>) THEN Owed(<<c>>) ELSE <<c>> \o Owed(ds)
  <2>1. <<c>> \in Seq(Chunks) /\ ds \in Seq(Chunks)
    BY <1>1, <1>2, <1>3
  <2> QED  BY <2>1, OwedConcat
<1> QED  BY <1>1, <1>2, <1>3, <1>4

-----------------------------------------------------------------------------
(* What an answer says up to the payload that ends it.                       *)

EndsIt(d) == d.kind \in {"fin", "stop"}
Upto(a, m) == Texts(SubSeq(a, 1, m))
Goes(a, m) == \A k \in 1 .. m : ~EndsIt(a[k])
Ending(a) == Texts(UpToEnd(a))

LEMMA OneMorePayload ==
    ASSUME NEW a \in Seq(Payloads), NEW m \in Nat, m + 1 \in DOMAIN a
    PROVE  /\ Upto(a, m) \in Seq(Nat) /\ Upto(a, m + 1) = Upto(a, m) \o Texts(<<a[m + 1]>>)
           /\ Texts(<<a[m + 1]>>) \in Seq(Nat) /\ a[m + 1] \in Payloads
<1>1. PICK n \in Nat : n = Len(a) /\ m + 1 \in 1 .. n /\ m <= n /\ m + 1 <= n
  OBVIOUS
<1>2. PICK k \in Nat : k = m + 1
  OBVIOUS
<1>3. a[k] \in Payloads
  BY <1>1, <1>2
<1>4. PICK s : s = SubSeq(a, 1, m)
  OBVIOUS
<1>5. PICK t : t = SubSeq(a, 1, k)
  OBVIOUS
<1>6. s \in Seq(Payloads) /\ Len(s) = m /\ \A i \in 1 .. m : s[i] = a[i]
  BY <1>1, <1>4, SplitAt
<1>7. t \in Seq(Payloads) /\ Len(t) = k /\ \A i \in 1 .. k : t[i] = a[i]
  BY <1>1, <1>2, <1>5, SplitAt
<1>8. PICK x : x = <<a[k]>>
  OBVIOUS
<1>9. x \in Seq(Payloads) /\ Len(x) = 1 /\ x[1] = a[k]
  BY <1>3, <1>8
<1>10. PICK w : w = s \o x
  OBVIOUS
<1>11. PICK p, q : Joins(Payloads, s, x, p, q, w)
  BY <1>6, <1>9, <1>10, Joined
<1>12. p = m /\ q = 1 /\ w \in Seq(Payloads) /\ Len(w) = k
  BY <1>2, <1>6, <1>9, <1>11 DEF Joins
<1>13. ASSUME NEW i \in 1 .. k PROVE w[i] = t[i]
  <2>1. CASE i \in 1 .. m
    BY <1>6, <1>7, <1>11, <1>12, <2>1 DEF Joins
  <2>2. CASE i = k
    <3>1. \A j \in 1 .. 1 : w[m + j] = x[j]
      BY <1>11, <1>12 DEF Joins
    <3> QED  BY <1>2, <1>7, <1>9, <2>2, <3>1
  <2> QED  BY <1>2, <2>1, <2>2
<1>14. t = w
  BY <1>7, <1>12, <1>13, SeqEqual
<1>15. Texts(s) \in Seq(Nat) /\ Texts(s \o x) = Texts(s) \o Texts(x) /\ Texts(x) \in Seq(Nat)
  BY <1>6, <1>9, AllSpeak, TextsConcat
<1> QED  BY <1>2, <1>3, <1>4, <1>5, <1>8, <1>10, <1>14, <1>15 DEF Upto

\* As long as no payload has ended the answer, what has been said is its beginning;
\* with the one that ends it, all of it has been said.
LEMMA EndingIs ==
    ASSUME NEW a \in Seq(Payloads), NEW m \in Nat, m <= Len(a), Goes(a, m)
    PROVE  /\ Ending(a) \in Seq(Nat) /\ Upto(a, m) \in Seq(Nat) /\ IsPrefix(Upto(a, m), Ending(a))
           /\ m + 1 \in DOMAIN a /\ EndsIt(a[m + 1]) => Ending(a) = Upto(a, m + 1)
<1>1. PICK n \in Nat : n = Len(a) /\ m <= n /\ DOMAIN a = 1 .. n
  OBVIOUS
<1>2. Enders(a) \subseteq 1 .. n /\ \A k \in 1 .. n : k \in Enders(a) <=> EndsIt(a[k])
  BY <1>1 DEF Enders, EndsIt
<1>3. PICK e \in Nat : e <= n /\ m <= e /\ UpToEnd(a) = SubSeq(a, 1, e)
                       /\ (m + 1 \in 1 .. n /\ EndsIt(a[m + 1]) => e = m + 1)
  <2>1. CASE Enders(a) = {}
    <3>1. SubSeq(a, 1, n) = a
      BY <1>1
    <3>2. UpToEnd(a) = SubSeq(a, 1, n)
      BY <2>1, <3>1 DEF UpToEnd
    <3>3. ~(m + 1 \in 1 .. n /\ EndsIt(a[m + 1]))
      BY <1>2, <2>1
    <3> QED  BY <1>1, <3>2, <3>3
  <2>2. CASE Enders(a) # {}
    <3>1. Enders(a) \in SUBSET Nat
      BY <1>2
    <3>2. \E k \in Enders(a) : \A j \in Enders(a) : k <= j
      BY <2>2, <3>1, Least
    <3>3. PICK e : e = CHOOSE k \in Enders(a) : \A j \in Enders(a) : k <= j
      OBVIOUS
    <3>4. e \in Enders(a) /\ \A j \in Enders(a) : e <= j
      BY <3>2, <3>3
    <3>5. UpToEnd(a) = SubSeq(a, 1, e)
      BY <2>2, <3>3 DEF UpToEnd
    <3>6. e \in 1 .. n /\ EndsIt(a[e])
      BY <1>2, <3>4
    <3>7. ~(e \in 1 .. m)
      BY <3>6 DEF Goes
    <3>8. m + 1 \in 1 .. n /\ EndsIt(a[m + 1]) => e <= m + 1
      BY <1>2, <3>4
    <3> QED  BY <1>1, <3>5, <3>6, <3>7, <3>8
  <2> QED  BY <2>1, <2>2
<1>4. Ending(a) = Upto(a, e)
  BY <1>3 DEF Ending, Upto
<1>5. PICK s : s = SubSeq(a, 1, m)
  OBVIOUS
<1>6. PICK t : t = SubSeq(a, 1, e)
  OBVIOUS
<1>7. s \in Seq(Payloads) /\ Len(s) = m /\ \A i \in 1 .. m : s[i] = a[i]
  BY <1>1, <1>5, SplitAt
<1>8. t \in Seq(Payloads) /\ Len(t) = e /\ \A i \in 1 .. e : t[i] = a[i]
  BY <1>1, <1>3, <1>6, SplitAt
<1>9. PICK b : b = SubSeq(t, m + 1, e)
  OBVIOUS
<1>10. PICK c : c = SubSeq(t, 1, m)
  OBVIOUS
<1>11. c \in Seq(Payloads) /\ Len(c) = m /\ (\A i \in 1 .. m : c[i] = t[i]) /\ b \in Seq(Payloads) /\ c \o b = t
  BY <1>3, <1>8, <1>9, <1>10, SplitAt
<1>12. \A i \in 1 .. m : i \in 1 .. e
  BY <1>3
<1>13. c = s
  BY <1>7, <1>8, <1>11, <1>12, SeqEqual
<1>14. Texts(t) = Texts(s) \o Texts(b) /\ Texts(s) \in Seq(Nat) /\ Texts(b) \in Seq(Nat) /\ Texts(t) \in Seq(Nat)
  BY <1>8, <1>11, <1>13, AllSpeak, TextsConcat
<1>15. IsPrefix(Texts(s), Texts(t))
  BY <1>14, PrefixConcat
<1> QED  BY <1>1, <1>3, <1>4, <1>5, <1>6, <1>14, <1>15 DEF Upto

\* What a parser makes of a payload says what the payload says, and ends it as the payload does.
LEMMA ParsedSays ==
    ASSUME provider \in {"openai", "anthropic", "gemini", "ollama"}, ~terminal,
           NEW d \in Payloads, MeantBy(provider, d)
    PROVE  LET cs == Parsed(d).chunks
           IN  /\ cs \in Seq(Chunks) /\ Texts(Owed(cs)) = Texts(<<d>>)
               /\ IsDone(cs) <=> EndsIt(d)
<1>1. d.text \in Nat
  BY DEF Payloads
<1> DEFINE Says(cs, t) == cs \in Seq(Chunks) /\ Texts(Owed(cs)) = (IF t = 0 THEN <<>> ELSE <<t>>)
<1>2. ASSUME NEW t \in Nat, NEW b \in BOOLEAN, NEW c, c = [text |-> t, done |-> b]
      PROVE  Says(<<c>>, t) /\ Owed(<<c>>) = <<c>> /\ (IsDone(<<c>>) <=> b)
  <2>1. c \in Chunks /\ c.done = b /\ c.text = t
    BY <1>2 DEF Chunks
  <2>2. <<c>> \in Seq(Chunks) /\ Owed(<<c>>) = <<c>> /\ (IsDone(<<c>>) <=> c.done)
    BY <2>1, OwedOne
  <2>3. Texts(<<c>>) = IF c.text = 0 THEN <<>> ELSE <<c.text>>
    BY <2>1, TextsOne
  <2> QED  BY <2>1, <2>2, <2>3
<1>3. Says(<<>>, 0) /\ ~IsDone(<<>>)
  <2>1. [text |-> 0, done |-> TRUE] \in Chunks
    BY DEF Chunks
  <2> QED  BY <1>1, <2>1, OwedOne, TextsOne
<1>4. Texts(<<d>>) = IF d.text = 0 THEN <<>> ELSE <<d.text>>
  BY <1>1, TextsOne
<1>5. ASSUME NEW t \in Nat
      PROVE  /\ Says(Done(t), t) /\ Owed(Done(t)) = Done(t) /\ IsDone(Done(t))
             /\ Says(<<[text |-> t, done |-> FALSE]>>, t) /\ ~IsDone(<<[text |-> t, done |-> FALSE]>>)
  <2>1. TRUE \in BOOLEAN /\ FALSE \in BOOLEAN
    OBVIOUS
  <2>2. PICK c : c = [text |-> t, done |-> TRUE]
    OBVIOUS
  <2>3. PICK e : e = [text |-> t, done |-> FALSE]
    OBVIOUS
  <2>4. Says(<<c>>, t) /\ Owed(<<c>>) = <<c>> /\ (IsDone(<<c>>) <=> TRUE)
    BY <1>2, <2>1, <2>2
  <2>5. Says(<<e>>, t) /\ (IsDone(<<e>>) <=> FALSE)
    BY <1>2, <2>1, <2>3
  <2>6. Done(t) = <<c>>
    BY <2>2 DEF Done
  <2> QED  BY <2>3, <2>4, <2>5, <2>6
<1> HIDE DEF Says
<1>6. ASSUME NEW t \in Nat PROVE Says(Text(t), t) /\ ~IsDone(Text(t))
  BY <1>3, <1>5 DEF Text
<1>7. ASSUME NEW t \in Nat PROVE Says(Text(t) \o Done(0), t) /\ IsDone(Text(t) \o Done(0))
  <2>1. PICK cs, ds : cs = Text(t) /\ ds = Done(0)
    OBVIOUS
  <2>2. Says(cs, t) /\ ~IsDone(cs) /\ Says(ds, 0) /\ Owed(ds) = ds /\ IsDone(ds)
    BY <1>5, <1>6, <2>1
  <2>3. cs \in Seq(Chunks) /\ ds \in Seq(Chunks) /\ Texts(ds) = <<>> /\ Owed(cs) = cs
    BY <2>2 DEF Says, Owed
  <2>4. (IsDone(cs \o ds) <=> IsDone(cs) \/ IsDone(ds)) /\ Owed(cs \o ds) = cs \o ds
    BY <2>2, <2>3, OwedConcat
  <2>5. Texts(cs) \in Seq(Nat) /\ Texts(cs \o ds) = Texts(cs) \o Texts(ds)
    BY <2>3, AllSpeak, TextsConcat
  <2>6. Texts(cs \o ds) = Texts(cs) /\ cs \o ds \in Seq(Chunks)
    BY <2>3, <2>5
  <2> QED  BY <2>1, <2>2, <2>3, <2>4, <2>6 DEF Says
<1>8. PICK cs : cs = Parsed(d).chunks
  OBVIOUS
<1>9. d.kind \in {"text", "fin", "stop", "DONE", "skip"}
  BY DEF Payloads
<1>10. CASE ~EndsIt(d)
  <2>1. cs = Text(d.text) \/ cs = <<[text |-> d.text, done |-> FALSE]>> \/ (cs = <<>> /\ d.text = 0)
    BY <1>8, <1>9, <1>10 DEF EndsIt, MeantBy, Parsed, OpenAi, Anthropic, Gemini, Ollama
  <2> QED  BY <1>1, <1>3, <1>4, <1>5, <1>6, <1>8, <1>10, <2>1 DEF Says
<1>11. CASE EndsIt(d)
  <2>1. cs = Text(d.text) \o Done(0) \/ cs = Done(d.text) \/ (cs = Done(0) /\ d.text = 0)
    BY <1>8, <1>9, <1>11 DEF EndsIt, MeantBy, Parsed, OpenAi, Anthropic, Gemini, Ollama
  <2> QED  BY <1>1, <1>4, <1>5, <1>7, <1>8, <1>11, <2>1 DEF Says
<1> QED  BY <1>10, <1>11

\* What the encoder makes of a chunk.
Finished(s) == Frame("finish", 0) \in Range(s)

LEMMA FinishedConcat ==
    ASSUME NEW s \in Seq(Frames), NEW t \in Seq(Frames)
    PROVE  Finished(s \o t) <=> Finished(s) \/ Finished(t)
<1>1. PICK w : w = s \o t
  OBVIOUS
<1>2. PICK m, n : Joins(Frames, s, t, m, n, w)
  BY <1>1, Joined
<1>3. /\ m \in Nat /\ n \in Nat /\ DOMAIN s = 1 .. m /\ DOMAIN t = 1 .. n /\ DOMAIN w = 1 .. m + n
      /\ \A i \in 1 .. m : w[i] = s[i] /\ i \in 1 .. m + n
      /\ \A i \in 1 .. n : w[m + i] = t[i] /\ m + i \in 1 .. m + n
      /\ \A i \in 1 .. m + n : i \in 1 .. m \/ \E j \in 1 .. n : i = m + j
  BY <1>2 DEF Joins
<1>4. \A x : Range(x) = {x[i] : i \in DOMAIN x}
  BY DEF Range
<1>5. Range(w) = Range(s) \cup Range(t)
  <2>1. ASSUME NEW y \in Range(w) PROVE y \in Range(s) \cup Range(t)
    <3>1. PICK i \in 1 .. m + n : y = w[i]
      BY <1>3, <1>4
    <3>2. CASE i \in 1 .. m
      BY <1>3, <1>4, <3>1, <3>2
    <3>3. CASE \E j \in 1 .. n : i = m + j
      <4>1. PICK j \in 1 .. n : i = m + j
        BY <3>3
      <4>2. y = t[j]
        BY <1>3, <3>1, <4>1
      <4> QED  BY <1>3, <1>4, <4>2
    <3> QED  BY <1>3, <3>2, <3>3
  <2>2. ASSUME NEW y \in Range(s) PROVE y \in Range(w)
    BY <1>3, <1>4
  <2>3. ASSUME NEW y \in Range(t) PROVE y \in Range(w)
    <3>1. PICK j \in 1 .. n : y = t[j]
      BY <1>3, <1>4
    <3>2. y = w[m + j] /\ m + j \in DOMAIN w
      BY <1>3, <3>1
    <3> QED  BY <1>4, <3>2
  <2> QED  BY <2>1, <2>2, <2>3
<1> QED  BY <1>1, <1>5 DEF Finished

LEMMA FramesSay ==
    ASSUME NEW f \in {"role", "text", "finish", "error", "DONE"}, NEW t \in Nat
    PROVE  /\ <<Frame(f, t)>> \in Seq(Frames) /\ Texts(<<Frame(f, t)>>) = (IF t = 0 THEN <<>> ELSE <<t>>)
           /\ Finished(<<Frame(f, t)>>) <=> f = "finish" /\ t = 0
           /\ Texts(<<>>) = <<>> /\ ~Finished(<<>>) /\ <<>> \in Seq(Frames)
<1>1. PICK x : x = Frame(f, t)
  OBVIOUS
<1>2. x \in Frames /\ x.text = t /\ (x = Frame("finish", 0) <=> f = "finish" /\ t = 0)
  BY <1>1 DEF Frame, Frames
<1>3. <<x>> \in Seq(Frames) /\ Range(<<x>>) = {x} /\ Range(<<>>) = {}
  BY <1>2 DEF Range
<1> QED  BY <1>1, <1>2, <1>3, TextsOne, NoSequence DEF Finished

LEMMA TwoFrames ==
    ASSUME NEW f \in {"finish", "error"}
    PROVE  <<Frame(f, 0)>> \o <<Frame("DONE", 0)>> = <<Frame(f, 0), Frame("DONE", 0)>>
<1>1. PICK x, y : x = Frame(f, 0) /\ y = Frame("DONE", 0)
  OBVIOUS
<1>2. x \in Frames /\ y \in Frames
  BY <1>1 DEF Frame, Frames
<1>3. PICK w : w = <<x>> \o <<y>>
  OBVIOUS
<1>4. PICK s, t : s = <<x>> /\ t = <<y>>
  OBVIOUS
<1>5. s \in Seq(Frames) /\ t \in Seq(Frames) /\ Len(s) = 1 /\ Len(t) = 1 /\ s[1] = x /\ t[1] = y
  BY <1>2, <1>4
<1>6. PICK i, j : Joins(Frames, s, t, i, j, w)
  BY <1>3, <1>4, <1>5, Joined
<1>7. /\ i = 1 /\ j = 1 /\ w \in Seq(Frames) /\ Len(w) = 2
      /\ \A k \in 1 .. 1 : w[k] = s[k]
      /\ \A k \in 1 .. 1 : w[1 + k] = t[k]
  BY <1>5, <1>6 DEF Joins
<1>8. PICK z : z = <<x, y>>
  OBVIOUS
<1>9. z \in Seq(Frames) /\ Len(z) = 2 /\ z[1] = x /\ z[2] = y
  BY <1>2, <1>8
<1>10. \A k \in 1 .. 2 : w[k] = z[k]
  BY <1>5, <1>7, <1>9
<1> QED  BY <1>1, <1>3, <1>7, <1>8, <1>9, <1>10, SeqEqual

LEMMA EncodedSays ==
    ASSUME out \in Seq(Frames), NEW c \in Chunks
    PROVE  /\ Encoded(c) \in Seq(Frames)
           /\ Texts(out \o Encoded(c)) = Texts(out) \o Texts(<<c>>)
           /\ Finished(out \o Encoded(c)) <=> Finished(out) \/ c.done
           /\ Encoded(c) = <<>> => Texts(<<c>>) = <<>> /\ ~c.done
<1> DEFINE a == IF out = <<>> THEN <<Frame("role", 0)>> ELSE <<>>
           b == IF c.text # 0 THEN <<Frame("text", c.text)>> ELSE <<>>
           m == IF c.done THEN <<Frame("finish", 0), Frame("DONE", 0)>> ELSE <<>>
<1>1. c.text \in Nat /\ c.done \in BOOLEAN /\ 0 \in Nat
  BY DEF Chunks
<1>2. Texts(<<c>>) = IF c.text = 0 THEN <<>> ELSE <<c.text>>
  BY <1>1, TextsOne
<1>3. a \in Seq(Frames) /\ Texts(a) = <<>> /\ ~Finished(a)
  BY <1>1, FramesSay
<1>4. b \in Seq(Frames) /\ Texts(b) = Texts(<<c>>) /\ ~Finished(b)
  <2>1. CASE c.text = 0
    BY <1>1, <1>2, <2>1, FramesSay
  <2>2. CASE c.text # 0
    BY <1>1, <1>2, <2>2, FramesSay
  <2> QED  BY <2>1, <2>2
<1>5. m \in Seq(Frames) /\ Texts(m) = <<>> /\ (Finished(m) <=> c.done)
  <2>1. PICK x, y : x = <<Frame("finish", 0)>> /\ y = <<Frame("DONE", 0)>>
    OBVIOUS
  <2>2. x \in Seq(Frames) /\ Texts(x) = <<>> /\ Finished(x) /\ y \in Seq(Frames) /\ Texts(y) = <<>>
    BY <1>1, <2>1, FramesSay
  <2>3. x \o y \in Seq(Frames) /\ Texts(x \o y) = Texts(x) \o Texts(y) /\ Finished(x \o y)
    BY <2>2, AllSpeak, TextsConcat, FinishedConcat
  <2>4. x \o y = <<Frame("finish", 0), Frame("DONE", 0)>>
    BY <2>1, TwoFrames
  <2>5. <<>> \o <<>> = <<>>
    OBVIOUS
  <2>6. <<>> \in Seq(Frames) /\ Texts(<<>>) = <<>> /\ ~Finished(<<>>)
    BY <1>1, FramesSay
  <2> QED  BY <2>2, <2>3, <2>4, <2>5, <2>6
<1>6. Encoded(c) = (a \o b) \o m
  BY DEF Encoded
<1>7. Encoded(c) = <<>> => c.text = 0 /\ ~c.done
  <2>1. Len(b) = (IF c.text # 0 THEN 1 ELSE 0) /\ Len(m) = (IF c.done THEN 2 ELSE 0)
    OBVIOUS
  <2> HIDE DEF a, b, m
  <2>2. Len(Encoded(c)) = Len(a) + Len(b) + Len(m) /\ Len(a) \in Nat
    BY <1>3, <1>4, <1>5, <1>6
  <2>3. c.text # 0 \/ c.done => Len(Encoded(c)) # 0
    <3>1. PICK x \in Nat : x = Len(a)
      BY <2>2
    <3>2. CASE c.text # 0
      BY <2>1, <2>2, <3>1, <3>2
    <3>3. CASE c.done
      BY <2>1, <2>2, <3>1, <3>3
    <3> QED  BY <3>2, <3>3
  <2>4. Len(<<>>) = 0
    OBVIOUS
  <2> QED  BY <1>1, <2>3, <2>4
<1> HIDE DEF a, b, m
<1>8. PICK s : s = a \o b
  OBVIOUS
<1>9. s \in Seq(Frames) /\ Texts(s) = Texts(a) \o Texts(b) /\ ~Finished(s) /\ Texts(b) \in Seq(Nat)
  <2>1. s \in Seq(Frames)
    BY <1>3, <1>4, <1>8
  <2>2. Texts(s) = Texts(a) \o Texts(b) /\ Texts(b) \in Seq(Nat)
    BY <1>3, <1>4, <1>8, AllSpeak, TextsConcat
  <2>3. ~Finished(s)
    BY <1>3, <1>4, <1>8, FinishedConcat
  <2> QED  BY <2>1, <2>2, <2>3
<1>10. Texts(s) = Texts(<<c>>)
  BY <1>3, <1>4, <1>9
<1>11. PICK e : e = s \o m
  OBVIOUS
<1>12. e \in Seq(Frames) /\ Texts(e) = Texts(s) \o Texts(m) /\ (Finished(e) <=> c.done) /\ Texts(s) \in Seq(Nat)
  <2>1. e \in Seq(Frames)
    BY <1>5, <1>9, <1>11
  <2>2. Texts(e) = Texts(s) \o Texts(m) /\ Texts(s) \in Seq(Nat)
    BY <1>5, <1>9, <1>11, AllSpeak, TextsConcat
  <2>3. Finished(e) <=> c.done
    BY <1>5, <1>9, <1>11, FinishedConcat
  <2> QED  BY <2>1, <2>2, <2>3
<1>13. Texts(e) = Texts(<<c>>) /\ e = Encoded(c)
  BY <1>5, <1>6, <1>8, <1>10, <1>11, <1>12
<1>14. Texts(out \o e) = Texts(out) \o Texts(e) /\ (Finished(out \o e) <=> Finished(out) \/ Finished(e))
  BY <1>12, AllSpeak, TextsConcat, FinishedConcat
<1> QED  BY <1>2, <1>7, <1>12, <1>13, <1>14

-----------------------------------------------------------------------------
(* What the client has been given and what it is still owed, when the parser *)
(* has taken n payloads of the answer: all that they say, and no more than   *)
(* that until one of them ends it.  Gemini's parser ends what breaks off too. *)

Gives(p, a, n, o, cs, t, ps, en) ==
    LET said == Texts(o) \o Texts(Owed(cs))
    IN  /\ IsPrefix(Texts(o), Ending(a))
        /\ Finished(o) => /\ t \/ (p = "gemini" /\ ps = "closed")
                          /\ t \/ p # "gemini" => Texts(o) = Ending(a)
        /\ en = "open" =>
               /\ ~Finished(o) /\ IsPrefix(said, Ending(a))
               /\ IsDone(cs) => /\ t \/ (p = "gemini" /\ ps = "closed")
                                /\ t \/ p # "gemini" => said = Ending(a)
               /\ ps = "reading" /\ ~IsDone(cs) => Goes(a, n) /\ said = Upto(a, n)

FlowInv ==
    /\ parser = "off" => buf = <<>>
    /\ \A k \in DOMAIN answer : MeantBy(provider, answer[k])
    /\ \E n \in 0 .. Len(answer) :
           /\ parser = "reading" => WireInv(n)
           /\ Gives(provider, answer, n, out, chunks, terminal, parser, encoder)

LEMMA GivesNothing ==
    ASSUME NEW p, NEW a \in Seq(Payloads), NEW ps, NEW en
    PROVE  Gives(p, a, 0, <<>>, <<>>, FALSE, ps, en)
<1>1. 0 \in Nat /\ 0 <= Len(a) /\ Goes(a, 0) /\ SubSeq(a, 1, 0) = <<>>
  BY DEF Goes
<1>2. Ending(a) \in Seq(Nat)
  BY <1>1, EndingIs
<1>3. Texts(<<>>) = <<>> /\ ~Finished(<<>>)
  <2>1. "role" \in {"role", "text", "finish", "error", "DONE"} /\ 0 \in Nat
    OBVIOUS
  <2> QED  BY <2>1, FramesSay
<1>4. Owed(<<>>) = <<>> /\ ~IsDone(<<>>)
  <2>1. [text |-> 0, done |-> TRUE] \in Chunks
    BY DEF Chunks
  <2> QED  BY <2>1, OwedOne
<1>5. Upto(a, 0) = <<>>
  BY <1>1, <1>3 DEF Upto
<1>6. IsPrefix(<<>>, Ending(a))
  <2>1. <<>> \in Seq(Nat) /\ <<>> \o Ending(a) = Ending(a)
    BY <1>2
  <2> QED  BY <1>2, <2>1, PrefixConcat
<1>7. <<>> \o <<>> = <<>>
  OBVIOUS
<1> QED  BY <1>1, <1>3, <1>4, <1>5, <1>6, <1>7 DEF Gives

\* The next payload is parsed: ds is what the parser makes of it.
Adds(a, n, o, cs, ds) ==
    /\ a \in Seq(Payloads) /\ n \in Nat /\ n + 1 \in DOMAIN a
    /\ o \in Seq(Frames) /\ cs \in Seq(Chunks) /\ ds \in Seq(Chunks)
Says(ds, d) == Texts(Owed(ds)) = Texts(<<d>>) /\ (IsDone(ds) <=> EndsIt(d))

LEMMA SaysMore ==
    ASSUME NEW a, NEW n, NEW o, NEW cs, NEW ds, Adds(a, n, o, cs, ds), Says(ds, a[n + 1]),
           ~IsDone(cs), Goes(a, n), Texts(o) \o Texts(cs) = Upto(a, n)
    PROVE  /\ Texts(o) \o Texts(cs \o Owed(ds)) = Upto(a, n + 1)
           /\ IF IsDone(ds) THEN Ending(a) = Upto(a, n + 1) ELSE Goes(a, n + 1)
           /\ IsPrefix(Upto(a, n + 1), Ending(a))
<1>1. /\ a \in Seq(Payloads) /\ n \in Nat /\ n + 1 \in DOMAIN a
      /\ o \in Seq(Frames) /\ cs \in Seq(Chunks) /\ ds \in Seq(Chunks)
  BY DEF Adds
<1>2. PICK d : d = a[n + 1]
  OBVIOUS
<1>3. /\ d \in Payloads /\ Upto(a, n) \in Seq(Nat) /\ Texts(<<d>>) \in Seq(Nat)
      /\ Upto(a, n + 1) = Upto(a, n) \o Texts(<<d>>)
  BY <1>1, <1>2, OneMorePayload
<1>4. Owed(ds) \in Seq(Chunks)
  BY <1>1, OwedConcat
<1>5. Texts(cs) \in Seq(Nat) /\ Texts(cs \o Owed(ds)) = Texts(cs) \o Texts(Owed(ds)) /\ Texts(o) \in Seq(Nat)
  <2>1. Texts(cs) \in Seq(Nat) /\ Texts(cs \o Owed(ds)) = Texts(cs) \o Texts(Owed(ds))
    BY <1>1, <1>4, AllSpeak, TextsConcat
  <2>2. Texts(o) \in Seq(Nat)
    BY <1>1, AllSpeak, TextsConcat
  <2> QED  BY <2>1, <2>2
<1>6. Texts(cs \o Owed(ds)) = Texts(cs) \o Texts(<<d>>) /\ (IsDone(ds) <=> EndsIt(d))
  BY <1>2, <1>5 DEF Says
<1>7. (Texts(o) \o Texts(cs)) \o Texts(<<d>>) = Texts(o) \o (Texts(cs) \o Texts(<<d>>))
  <2>1. PICK x, y, z : x = Texts(o) /\ y = Texts(cs) /\ z = Texts(<<d>>)
    OBVIOUS
  <2>2. x \in Seq(Nat) /\ y \in Seq(Nat) /\ z \in Seq(Nat)
    BY <1>3, <1>5, <2>1
  <2>3. (x \o y) \o z = x \o (y \o z)
    BY <2>2, ConcatAssociative
  <2> QED  BY <2>1, <2>3
<1>8. n <= Len(a) /\ n + 1 <= Len(a) /\ n + 1 \in Nat
  BY <1>1
<1>9. CASE IsDone(ds)
  <2>1. EndsIt(d)
    BY <1>6, <1>9
  <2>2. Ending(a) = Upto(a, n + 1) /\ Ending(a) \in Seq(Nat)
    BY <1>1, <1>2, <1>8, <2>1, EndingIs
  <2>3. IsPrefix(Ending(a), Ending(a))
    BY <2>2, PrefixConcat
  <2> QED  BY <1>3, <1>6, <1>7, <1>9, <2>2, <2>3
<1>10. CASE ~IsDone(ds)
  <2>1. Goes(a, n + 1)
    <3>1. \A k \in 1 .. n + 1 : k \in 1 .. n \/ k = n + 1
      BY <1>1
    <3>2. ~EndsIt(d)
      BY <1>6, <1>10
    <3> QED  BY <1>2, <3>1, <3>2 DEF Goes
  <2>2. IsPrefix(Upto(a, n + 1), Ending(a))
    BY <1>1, <1>8, <2>1, EndingIs
  <2> QED  BY <1>3, <1>6, <1>7, <1>10, <2>1, <2>2
<1> QED  BY <1>9, <1>10

LEMMA GivesMore ==
    ASSUME NEW p, NEW a, NEW n, NEW o, NEW cs, NEW ds, Adds(a, n, o, cs, ds), NEW t, NEW u, NEW en,
           Gives(p, a, n, o, cs, t, "reading", en), t \/ IsDone(ds) => u,
           en = "open" /\ ~IsDone(cs) => Says(ds, a[n + 1]), NEW ps \in {"reading", "closed"}
    PROVE  Gives(p, a, n + 1, o, cs \o ds, u, ps, en)
<1>1. PICK es : es = cs \o ds
  OBVIOUS
<1>2. /\ IsDone(es) <=> IsDone(cs) \/ IsDone(ds)
      /\ Owed(es) = IF IsDone(cs) THEN Owed(cs) ELSE cs \o Owed(ds)
  <2>1. cs \in Seq(Chunks) /\ ds \in Seq(Chunks)
    BY DEF Adds
  <2>2. /\ IsDone(cs \o ds) <=> IsDone(cs) \/ IsDone(ds)
        /\ Owed(cs \o ds) = IF IsDone(cs) THEN Owed(cs) ELSE cs \o Owed(ds)
    BY <2>1, OwedConcat
  <2> QED  BY <1>1, <2>2
<1>3. Finished(o) => t
  BY DEF Gives
<1>4. CASE en # "open"
  BY <1>1, <1>3, <1>4 DEF Gives
<1>5. CASE en = "open" /\ IsDone(cs)
  <2>1. t
    BY <1>5 DEF Gives
  <2> QED  BY <1>1, <1>2, <1>5, <2>1 DEF Gives
<1>6. CASE en = "open" /\ ~IsDone(cs)
  <2>1. Goes(a, n) /\ Texts(o) \o Texts(cs) = Upto(a, n) /\ ~Finished(o) /\ IsPrefix(Texts(o), Ending(a))
    BY <1>6 DEF Gives, Owed
  <2>2. /\ Texts(o) \o Texts(Owed(es)) = Upto(a, n + 1)
        /\ IF IsDone(es) THEN Ending(a) = Upto(a, n + 1) /\ u ELSE Goes(a, n + 1)
        /\ IsPrefix(Upto(a, n + 1), Ending(a))
    BY <1>2, <1>6, <2>1, SaysMore
  <2> QED  BY <1>1, <1>6, <2>1, <2>2 DEF Gives
<1> QED  BY <1>4, <1>5, <1>6

\* The source ends; gemini's parser then says done.
LEMMA GivesAtEof ==
    ASSUME NEW p, NEW a, NEW n, NEW o \in Seq(Frames), NEW cs \in Seq(Chunks), NEW t, NEW en,
           NEW ps \in {"reading", "closed"}, Gives(p, a, n, o, cs, t, ps, en),
           NEW ds, ds = <<>> \/ (ds = Done(0) /\ p = "gemini" /\ ~t)
    PROVE  Gives(p, a, n, o, cs \o ds, t, "closed", en)
<1>1. Gives(p, a, n, o, cs, t, "closed", en)
  BY DEF Gives
<1>2. CASE ds = <<>>
  BY <1>1, <1>2
<1>3. CASE ds = Done(0) /\ p = "gemini" /\ ~t
  <2>1. PICK c : c = [text |-> 0, done |-> TRUE]
    OBVIOUS
  <2>2. c \in Chunks /\ c.text = 0 /\ c.done /\ ds = <<c>>
    BY <1>3, <2>1 DEF Chunks, Done
  <2>3. ds \in Seq(Chunks) /\ Owed(ds) = ds /\ IsDone(ds)
    BY <2>2, OwedOne
  <2>4. Texts(ds) = <<>>
    <3>1. Texts(<<c>>) = IF c.text = 0 THEN <<>> ELSE <<c.text>>
      <4>1. c.text \in Nat
        BY <2>2
      <4> QED  BY <4>1, TextsOne
    <3> QED  BY <2>2, <3>1
  <2>5. /\ IsDone(cs \o ds) <=> IsDone(cs) \/ IsDone(ds)
        /\ Owed(cs \o ds) = IF IsDone(cs) THEN Owed(cs) ELSE cs \o Owed(ds)
    BY <2>3, OwedConcat
  <2>6. Texts(Owed(cs \o ds)) = Texts(Owed(cs))
    <3>1. Texts(cs) \in Seq(Nat) /\ Texts(cs \o ds) = Texts(cs) \o Texts(ds)
      BY <2>3, AllSpeak, TextsConcat
    <3>2. Texts(cs) \o <<>> = Texts(cs)
      BY <3>1
    <3> QED  BY <2>3, <2>4, <2>5, <3>1, <3>2 DEF Owed
  <2> QED  BY <1>1, <1>3, <2>3, <2>5, <2>6 DEF Gives
<1> QED  BY <1>2, <1>3

LEMMA FlowSame ==
    ASSUME FlowInv, UNCHANGED <<provider, answer, wire, buf, parser, terminal, chunks, encoder, out>>
    PROVE  FlowInv'
<1>1. PICK n \in 0 .. Len(answer) : /\ parser = "reading" => WireInv(n)
                                    /\ Gives(provider, answer, n, out, chunks, terminal, parser, encoder)
  BY DEF FlowInv
<1>2. Gives(provider, answer, n, out, chunks, terminal, parser, encoder)'
  BY <1>1
<1>3. (parser = "reading" => WireInv(n))'
  BY <1>1 DEF WireInv
<1> QED  BY <1>2, <1>3 DEF FlowInv

LEMMA PayloadGives ==
    ASSUME StreamInv, parser = "reading", NEW n \in Nat, n + 1 \in DOMAIN answer,
           MeantBy(provider, answer[n + 1]),
           Gives(provider, answer, n, out, chunks, terminal, "reading", encoder),
           NEW u, terminal \/ IsDone(Parsed(answer[n + 1]).chunks) => u, NEW ps \in {"reading", "closed"}
    PROVE  /\ Parsed(answer[n + 1]).chunks \in Seq(Chunks)
           /\ Gives(provider, answer, n + 1, out, chunks \o Parsed(answer[n + 1]).chunks, u, ps, encoder)
<1>1. /\ provider \in {"openai", "anthropic", "gemini", "ollama"} /\ answer \in Seq(Payloads)
      /\ chunks \in Seq(Chunks) /\ out \in Seq(Frames)
      /\ encoder = "open" /\ terminal => IsDone(chunks)
  BY DEF StreamInv, StreamTypes, MarkInv
<1>2. PICK d : d = answer[n + 1]
  OBVIOUS
<1>3. d \in Payloads
  BY <1>1, <1>2
<1>4. PICK ds : ds = Parsed(d).chunks
  OBVIOUS
<1>5. ds \in Seq(Chunks)
  BY <1>1, <1>3, <1>4, ParsedTypes
<1>6. ~terminal => Says(ds, d)
  BY <1>1, <1>2, <1>3, <1>4, ParsedSays DEF Says
<1>7. Adds(answer, n, out, chunks, ds)
  BY <1>1, <1>5 DEF Adds
<1>8. Gives(provider, answer, n + 1, out, chunks \o ds, u, ps, encoder)
  BY <1>1, <1>2, <1>4, <1>6, <1>7, GivesMore
<1> QED  BY <1>2, <1>4, <1>5, <1>8

LEMMA FlowAt ==
    ASSUME StreamInv, FlowInv
    PROVE  /\ DOMAIN answer = 1 .. Len(answer) /\ Len(answer) \in Nat
           /\ \E n \in Nat : /\ n <= Len(answer) /\ (parser = "reading" => WireInv(n))
                             /\ Gives(provider, answer, n, out, chunks, terminal, parser, encoder)
<1>1. answer \in Seq(Payloads)
  BY DEF StreamInv, StreamTypes
<1>2. DOMAIN answer = 1 .. Len(answer) /\ Len(answer) \in Nat
  BY <1>1
<1> QED  BY <1>2 DEF FlowInv

LEMMA FlowOpens ==
    ASSUME StreamInv, FlowInv, NEW p \in DOMAIN Answers, NEW a \in Answers[p],
           NEW nl \in {<<LF>>, <<CR, LF>>}, OpenStream(p, a, nl)
    PROVE  FlowInv'
<1>1. a \in Seq(Payloads) /\ \A k \in DOMAIN a : MeantBy(p, a[k])
  BY AnswersAssumption
<1>2. /\ parser = "off" /\ provider' = p /\ answer' = a /\ parser' = "reading"
      /\ UNCHANGED <<buf, terminal, chunks, out>>
  BY DEF OpenStream
<1>3. buf = <<>> /\ ~terminal /\ terminal \in BOOLEAN /\ chunks = <<>> /\ out = <<>>
  BY <1>2 DEF FlowInv, StreamInv, StreamTypes
<1>4. WireInv(0)'
  BY <1>1, <1>3, OpenInOrder
<1>5. Gives(p, a, 0, <<>>, <<>>, FALSE, parser', encoder')
  BY <1>1, GivesNothing
<1>6. Gives(provider, answer, 0, out, chunks, terminal, parser, encoder)'
  BY <1>2, <1>3, <1>5
<1>7. 0 \in 0 .. Len(answer')
  BY <1>1, <1>2
<1> QED  BY <1>1, <1>2, <1>4, <1>6, <1>7 DEF FlowInv

LEMMA FlowForgotten ==
    ASSUME NEW o, o = <<>>
    PROVE  Gives("openai", o, 0, o, o, FALSE, "off", "off") /\ 0 \in 0 .. Len(o)
<1>1. o \in Seq(Payloads) /\ Len(o) = 0
  BY NoSequence
<1>2. Gives("openai", o, 0, <<>>, <<>>, FALSE, "off", "off")
  BY <1>1, GivesNothing
<1>3. Gives("openai", o, 0, o, o, FALSE, "off", "off")
  BY <1>2
<1>4. 0 \in 0 .. Len(o)
  BY <1>1
<1> QED  BY <1>3, <1>4

LEMMA FlowForgets == Forget => FlowInv'
<1> SUFFICES ASSUME Forget PROVE FlowInv'
  OBVIOUS
<1>1. /\ provider' = "openai" /\ answer' = <<>> /\ buf' = <<>> /\ parser' = "off" /\ terminal' = FALSE
      /\ chunks' = <<>> /\ encoder' = "off" /\ out' = <<>>
  BY DEF Forget
<1>2. Gives(provider', answer', 0, out', chunks', terminal', parser', encoder') /\ 0 \in 0 .. Len(answer')
  BY <1>1, FlowForgotten
<1> QED  BY <1>1, <1>2 DEF FlowInv

LEMMA FlowStarts == SInit => FlowInv
<1> SUFFICES ASSUME SInit PROVE FlowInv
  OBVIOUS
<1>1. /\ provider = "openai" /\ answer = <<>> /\ buf = <<>> /\ parser = "off" /\ terminal = FALSE
      /\ chunks = <<>> /\ encoder = "off" /\ out = <<>>
  BY DEF SInit
<1>2. Gives(provider, answer, 0, out, chunks, terminal, parser, encoder) /\ 0 \in 0 .. Len(answer)
  BY <1>1, FlowForgotten
<1> QED  BY <1>1, <1>2 DEF FlowInv

LEMMA FlowReads ==
    ASSUME StreamInv, FlowInv, NEW k \in DOMAIN wire, Read(k)
    PROVE  FlowInv'
<1>1. PICK n \in Nat : /\ n <= Len(answer) /\ (parser = "reading" => WireInv(n))
                       /\ Gives(provider, answer, n, out, chunks, terminal, parser, encoder)
  BY FlowAt
<1>2. parser = "reading" /\ UNCHANGED <<provider, answer, parser, terminal, chunks, encoder, out>>
  BY DEF Read
<1>3. WireInv(n)'
  BY <1>1, <1>2, ReadKeepsOrder
<1>4. Gives(provider, answer, n, out, chunks, terminal, parser, encoder)'
  BY <1>1, <1>2
<1>5. n \in 0 .. Len(answer')
  BY <1>1, <1>2, FlowAt
<1> QED  BY <1>2, <1>3, <1>4, <1>5 DEF FlowInv

LEMMA FlowTakes ==
    ASSUME StreamInv, FlowInv, TakeFrame
    PROVE  FlowInv'
<1> DEFINE at == CHOOSE i \in Ends(buf) : \A j \in Ends(buf) : i <= j
           k  == Payload(SubSeq(buf, 1, at - 1))
           r  == IF k = 0 THEN [chunks |-> <<>>, closes |-> FALSE] ELSE Parsed(answer[k])
<1>1. /\ parser = "reading" /\ chunks' = chunks \o r.chunks /\ terminal' = (terminal \/ IsDone(r.chunks))
      /\ parser' = (IF r.closes THEN "closed" ELSE "reading")
      /\ UNCHANGED <<provider, answer, encoder, out>>
  BY Zenon DEF TakeFrame
<1>2. PICK n \in Nat : /\ n <= Len(answer) /\ WireInv(n)
                       /\ Gives(provider, answer, n, out, chunks, terminal, "reading", encoder)
  BY <1>1, FlowAt
<1>3. /\ DOMAIN answer = 1 .. Len(answer) /\ Len(answer) \in Nat /\ chunks \in Seq(Chunks)
      /\ terminal \in BOOLEAN /\ \A i \in DOMAIN answer : MeantBy(provider, answer[i])
  BY FlowAt DEF FlowInv, StreamInv, StreamTypes
<1>4. \/ k = 0 /\ WireInv(n)'
      \/ k = n + 1 /\ n + 1 \in DOMAIN answer /\ WireInv(n + 1)'
  BY <1>2, <1>3, FrameKeepsOrder
<1> HIDE DEF k
<1>5. CASE k = 0 /\ WireInv(n)'
  <2>1. r = [chunks |-> <<>>, closes |-> FALSE]
    BY <1>5
  <2>2. r.chunks = <<>> /\ r.closes = FALSE
    BY <2>1
  <2> HIDE DEF r
  <2>3. ~IsDone(<<>>)
    BY DEF IsDone
  <2>4. chunks' = chunks /\ parser' = "reading"
    BY <1>1, <1>3, <2>2
  <2>5. terminal' = terminal
    BY <1>1, <1>3, <2>2, <2>3
  <2>6. Gives(provider, answer, n, out, chunks, terminal, parser, encoder)'
    BY <1>1, <1>2, <2>4, <2>5
  <2>7. n \in 0 .. Len(answer')
    BY <1>1, <1>2, <1>3
  <2> QED  BY <1>1, <1>3, <1>5, <2>4, <2>6, <2>7 DEF FlowInv
<1>6. CASE k = n + 1 /\ n + 1 \in DOMAIN answer /\ WireInv(n + 1)'
  <2>1. k # 0 /\ r = Parsed(answer[n + 1])
    BY <1>6
  <2> HIDE DEF r
  <2>2. parser' \in {"reading", "closed"}
    BY <1>1
  <2>3. terminal \/ IsDone(Parsed(answer[n + 1]).chunks) => terminal'
    BY <1>1, <2>1
  <2>4. Gives(provider, answer, n + 1, out, chunks \o Parsed(answer[n + 1]).chunks, terminal', parser', encoder)
    BY <1>1, <1>2, <1>3, <1>6, <2>2, <2>3, PayloadGives
  <2>5. Gives(provider, answer, n + 1, out, chunks, terminal, parser, encoder)'
    BY <1>1, <2>1, <2>4
  <2>6. n + 1 \in 0 .. Len(answer')
    BY <1>1, <1>3, <1>6
  <2>7. parser' # "off" /\ \A i \in DOMAIN answer' : MeantBy(provider', answer'[i])
    BY <1>1, <1>3, <2>2
  <2> QED  BY <1>6, <2>5, <2>6, <2>7 DEF FlowInv
<1> QED  BY <1>4, <1>5, <1>6

LEMMA FlowEnds ==
    ASSUME StreamInv, FlowInv, Eof
    PROVE  FlowInv'
<1> DEFINE k == Payload(buf)
           r == IF k = 0 \/ provider \notin {"gemini", "ollama"}
                THEN [chunks |-> <<>>, closes |-> TRUE] ELSE Parsed(answer[k])
           last == IF provider = "gemini" /\ ~terminal /\ ~IsDone(r.chunks) THEN Done(0) ELSE <<>>
<1>1. /\ parser = "reading" /\ Ends(buf) = {}
      /\ chunks' = chunks \o r.chunks \o last /\ terminal' = (terminal \/ IsDone(r.chunks))
      /\ parser' = "closed" /\ UNCHANGED <<provider, answer, encoder, out>>
  BY Zenon DEF Eof
<1>2. PICK n \in Nat : /\ n <= Len(answer) /\ WireInv(n)
                       /\ Gives(provider, answer, n, out, chunks, terminal, "reading", encoder)
  BY <1>1, FlowAt
<1>3. /\ DOMAIN answer = 1 .. Len(answer) /\ Len(answer) \in Nat /\ chunks \in Seq(Chunks) /\ out \in Seq(Frames)
      /\ terminal \in BOOLEAN /\ \A i \in DOMAIN answer : MeantBy(provider, answer[i])
  BY FlowAt DEF FlowInv, StreamInv, StreamTypes
<1>4. k = 0 \/ (k = n + 1 /\ n + 1 \in DOMAIN answer)
  BY <1>1, <1>2, <1>3, RestIsNext
<1> HIDE DEF k
<1>5. \E m \in 0 .. Len(answer) :
          /\ chunks \o r.chunks \in Seq(Chunks)
          /\ Gives(provider, answer, m, out, chunks \o r.chunks, terminal', "closed", encoder)
  <2>1. CASE k = 0 \/ provider \notin {"gemini", "ollama"}
    <3>1. r = [chunks |-> <<>>, closes |-> TRUE]
      BY <2>1
    <3>2. r.chunks = <<>>
      BY <3>1
    <3> HIDE DEF r
    <3>3. ~IsDone(<<>>)
      BY DEF IsDone
    <3>4. terminal' = terminal /\ chunks \o r.chunks = chunks
      BY <1>1, <1>3, <3>2, <3>3
    <3>5. <<>> = <<>> /\ chunks \o <<>> = chunks /\ "reading" \in {"reading", "closed"}
      BY <1>3
    <3>6. Gives(provider, answer, n, out, chunks \o <<>>, terminal, "closed", encoder)
      BY <1>2, <1>3, <3>5, GivesAtEof
    <3>7. n \in 0 .. Len(answer)
      BY <1>2, <1>3
    <3> QED  BY <1>3, <3>4, <3>5, <3>6, <3>7
  <2>2. CASE k = n + 1 /\ n + 1 \in DOMAIN answer /\ provider \in {"gemini", "ollama"}
    <3>1. r = Parsed(answer[n + 1])
      BY <2>2
    <3> HIDE DEF r
    <3>2. terminal \/ IsDone(Parsed(answer[n + 1]).chunks) => terminal'
      BY <1>1, <3>1
    <3>3. "closed" \in {"reading", "closed"} /\ MeantBy(provider, answer[n + 1])
      BY <1>3, <2>2
    <3>4. /\ Parsed(answer[n + 1]).chunks \in Seq(Chunks)
          /\ Gives(provider, answer, n + 1, out, chunks \o Parsed(answer[n + 1]).chunks, terminal', "closed", encoder)
      BY <1>1, <1>2, <2>2, <3>2, <3>3, PayloadGives
    <3>5. n + 1 \in 0 .. Len(answer)
      BY <1>3, <2>2
    <3>6. chunks \o Parsed(answer[n + 1]).chunks \in Seq(Chunks)
      BY <1>3, <3>4
    <3> QED  BY <3>1, <3>4, <3>5, <3>6
  <2> QED  BY <1>4, <2>1, <2>2
<1>6. last = <<>> \/ (last = Done(0) /\ provider = "gemini" /\ ~terminal')
  BY <1>1
<1> HIDE DEF r, last
<1>7. PICK m \in 0 .. Len(answer) :
          /\ chunks \o r.chunks \in Seq(Chunks)
          /\ Gives(provider, answer, m, out, chunks \o r.chunks, terminal', "closed", encoder)
  BY <1>5
<1>8. Gives(provider, answer, m, out, (chunks \o r.chunks) \o last, terminal', "closed", encoder)
  <2>1. "closed" \in {"reading", "closed"}
    OBVIOUS
  <2> QED  BY <1>3, <1>6, <1>7, <2>1, GivesAtEof
<1>9. Gives(provider, answer, m, out, chunks, terminal, parser, encoder)'
  BY <1>1, <1>8
<1>10. m \in 0 .. Len(answer')
  BY <1>1
<1>11. parser' = "closed" /\ \A i \in DOMAIN answer' : MeantBy(provider', answer'[i])
  BY <1>1, <1>3
<1> QED  BY <1>9, <1>10, <1>11 DEF FlowInv

\* A connection that breaks takes back what waits.
LEMMA FlowBreaks ==
    ASSUME StreamInv, FlowInv, Break
    PROVE  FlowInv'
<1>1. /\ parser = "reading" /\ parser' = "failed" /\ chunks' = <<>>
      /\ UNCHANGED <<provider, answer, terminal, encoder, out>>
  BY DEF Break
<1>2. PICK n \in Nat : /\ n <= Len(answer)
                       /\ Gives(provider, answer, n, out, chunks, terminal, "reading", encoder)
  BY <1>1, FlowAt
<1>3. Len(answer) \in Nat /\ out \in Seq(Frames)
  BY FlowAt DEF StreamInv, StreamTypes
<1>4. Owed(<<>>) = <<>> /\ ~IsDone(<<>>) /\ Texts(<<>>) = <<>>
  <2>1. [text |-> 0, done |-> TRUE] \in Chunks /\ [text |-> 0, done |-> TRUE].text \in Nat
    BY DEF Chunks
  <2> QED  BY <2>1, OwedOne, TextsOne
<1>5. Texts(out) \o <<>> = Texts(out)
  <2>1. Texts(out) \in Seq(Nat)
    BY <1>3, AllSpeak, TextsConcat
  <2> QED  BY <2>1
<1>6. Gives(provider, answer, n, out, <<>>, terminal, "failed", encoder)
  BY <1>2, <1>4, <1>5 DEF Gives
<1>7. Gives(provider, answer, n, out, chunks, terminal, parser, encoder)'
  BY <1>1, <1>6
<1>8. n \in 0 .. Len(answer') /\ \A i \in DOMAIN answer' : MeantBy(provider', answer'[i])
  BY <1>1, <1>2, <1>3 DEF FlowInv
<1> QED  BY <1>1, <1>7, <1>8 DEF FlowInv

\* One chunk, at the value level: h is what the client has got with it.
LEMMA GivesChunk ==
    ASSUME NEW p, NEW a \in Seq(Payloads), NEW n, NEW o \in Seq(Frames), NEW cs \in Seq(Chunks), cs # <<>>,
           NEW t, NEW ps, Gives(p, a, n, o, cs, t, ps, "open"),
           NEW c, c = Head(cs), NEW h \in Seq(Frames),
           Texts(h) = Texts(o) \o Texts(<<c>>), Finished(h) <=> Finished(o) \/ c.done
    PROVE  Gives(p, a, n, h, Tail(cs), t, ps, IF c.done THEN "closed" ELSE "open")
<1>1. PICK ds : ds = Tail(cs)
  OBVIOUS
<1>2. /\ c \in Chunks /\ ds \in Seq(Chunks) /\ (IsDone(cs) <=> c.done \/ IsDone(ds))
      /\ Owed(cs) = (IF c.done THEN <<c>> ELSE <<c>> \o Owed(ds))
  BY <1>1, OwedHead
<1>3. ~Finished(o) /\ IsPrefix(Texts(o) \o Texts(Owed(cs)), Ending(a))
  BY DEF Gives
<1>4. CASE c.done
  <2>1. IsDone(cs) /\ Texts(o) \o Texts(Owed(cs)) = Texts(h)
    BY <1>2, <1>4
  <2> QED  BY <1>1, <1>3, <1>4, <2>1 DEF Gives
<1>5. CASE ~c.done
  <2>1. <<c>> \in Seq(Chunks) /\ Owed(ds) \in Seq(Chunks)
    BY <1>2, OwedOne, OwedConcat
  <2>2. /\ Texts(<<c>>) \in Seq(Nat) /\ Texts(Owed(ds)) \in Seq(Nat) /\ Texts(o) \in Seq(Nat)
        /\ Texts(<<c>> \o Owed(ds)) = Texts(<<c>>) \o Texts(Owed(ds))
    <3>1. /\ Texts(<<c>>) \in Seq(Nat)
          /\ Texts(<<c>> \o Owed(ds)) = Texts(<<c>>) \o Texts(Owed(ds))
      BY <2>1, AllSpeak, TextsConcat
    <3>2. Texts(Owed(ds)) \in Seq(Nat)
      BY <2>1, AllSpeak, TextsConcat
    <3>3. Texts(o) \in Seq(Nat)
      BY AllSpeak, TextsConcat
    <3> QED  BY <3>1, <3>2, <3>3
  <2>3. Texts(h) \o Texts(Owed(ds)) = Texts(o) \o Texts(Owed(cs))
    <3>1. PICK x, y, z : x = Texts(o) /\ y = Texts(<<c>>) /\ z = Texts(Owed(ds))
      OBVIOUS
    <3>2. x \in Seq(Nat) /\ y \in Seq(Nat) /\ z \in Seq(Nat)
      BY <2>2, <3>1
    <3>3. (x \o y) \o z = x \o (y \o z)
      BY <3>2, SaidOn
    <3>4. Texts(h) = x \o y /\ Texts(Owed(cs)) = y \o z
      BY <1>2, <1>5, <2>2, <3>1
    <3> QED  BY <3>1, <3>3, <3>4
  <2>4. IsPrefix(Texts(h), Ending(a))
    <3>1. PICK e : e = Ending(a)
      OBVIOUS
    <3>2. IsPrefix(Texts(h) \o Texts(Owed(ds)), e)
      BY <1>3, <2>3, <3>1
    <3>3. Texts(h) \in Seq(Nat)
      BY AllSpeak, TextsConcat
    <3>4. e \in Seq(Nat)
      <4>1. 0 \in Nat /\ 0 <= Len(a) /\ Goes(a, 0)
        BY DEF Goes
      <4> QED  BY <3>1, <4>1, EndingIs
    <3> QED  BY <2>2, <3>1, <3>2, <3>3, <3>4, PrefixOnly
  <2>5. ~Finished(h) /\ (IsDone(ds) <=> IsDone(cs))
    BY <1>2, <1>3, <1>5
  <2> QED  BY <1>1, <1>5, <2>3, <2>4, <2>5 DEF Gives
<1> QED  BY <1>4, <1>5

LEMMA FlowEncodes ==
    ASSUME StreamInv, FlowInv, Encode
    PROVE  FlowInv'
<1>1. PICK c : c = Head(chunks)
  OBVIOUS
<1>2. /\ encoder = "open" /\ chunks # <<>> /\ chunks' = Tail(chunks)
      /\ out' = (IF gone THEN out ELSE out \o Encoded(c))
      /\ encoder' = (IF c.done \/ (gone /\ Encoded(c) # <<>>) THEN "closed" ELSE "open")
      /\ UNCHANGED <<provider, answer, wire, buf, parser, terminal>>
  BY <1>1 DEF Encode
<1>3. PICK n \in Nat : /\ n <= Len(answer) /\ (parser = "reading" => WireInv(n))
                       /\ Gives(provider, answer, n, out, chunks, terminal, parser, "open")
  BY <1>2, FlowAt
<1>4. /\ answer \in Seq(Payloads) /\ chunks \in Seq(Chunks) /\ out \in Seq(Frames) /\ gone \in BOOLEAN /\ Len(answer) \in Nat
      /\ c \in Chunks /\ c.done \in BOOLEAN
  <2>1. /\ answer \in Seq(Payloads) /\ chunks \in Seq(Chunks) /\ out \in Seq(Frames)
        /\ gone \in BOOLEAN /\ Len(answer) \in Nat
    BY FlowAt DEF StreamInv, StreamTypes
  <2>2. c \in Chunks
    BY <1>1, <1>2, <2>1
  <2> QED  BY <2>1, <2>2 DEF Chunks
<1>5. PICK h : h = out \o Encoded(c)
  OBVIOUS
<1>6. /\ h \in Seq(Frames) /\ Texts(h) = Texts(out) \o Texts(<<c>>)
      /\ Finished(h) <=> Finished(out) \/ c.done
      /\ Encoded(c) = <<>> => Texts(<<c>>) = <<>> /\ ~c.done
  <2>1. /\ Encoded(c) \in Seq(Frames) /\ Texts(out \o Encoded(c)) = Texts(out) \o Texts(<<c>>)
        /\ Finished(out \o Encoded(c)) <=> Finished(out) \/ c.done
        /\ Encoded(c) = <<>> => Texts(<<c>>) = <<>> /\ ~c.done
    BY <1>4, EncodedSays
  <2>2. h \in Seq(Frames)
    BY <1>4, <1>5, <2>1
  <2> QED  BY <1>5, <2>1, <2>2
<1>7. Gives(provider, answer, n, out', chunks', terminal, parser, encoder')
  <2>1. CASE ~gone
    <3>1. out' = h /\ encoder' = (IF c.done THEN "closed" ELSE "open")
      BY <1>2, <1>4, <1>5, <2>1
    <3> QED  BY <1>1, <1>2, <1>3, <1>4, <1>6, <3>1, GivesChunk
  <2>2. CASE gone /\ Encoded(c) = <<>>
    <3>1. out' = out /\ ~c.done /\ encoder' = "open" /\ Texts(<<c>>) = <<>>
      BY <1>2, <1>4, <1>6, <2>2
    <3>2. Texts(out) = Texts(out) \o Texts(<<c>>)
      <4>1. Texts(out) \in Seq(Nat)
        BY <1>4, AllSpeak, TextsConcat
      <4> QED  BY <3>1, <4>1
    <3>3. Gives(provider, answer, n, out, Tail(chunks), terminal, parser, IF c.done THEN "closed" ELSE "open")
      <4>1. Finished(out) <=> Finished(out) \/ c.done
        BY <3>1
      <4> QED  BY <1>1, <1>2, <1>3, <1>4, <3>2, <4>1, GivesChunk
    <3> QED  BY <1>2, <3>1, <3>3
  <2>3. CASE gone /\ Encoded(c) # <<>>
    <3>1. out' = out /\ encoder' = "closed"
      BY <1>2, <1>4, <2>3
    <3>2. Gives(provider, answer, n, out, chunks', terminal, parser, "closed")
      BY <1>3 DEF Gives
    <3> QED  BY <3>1, <3>2
  <2> QED  BY <1>4, <2>1, <2>2, <2>3
<1>8. Gives(provider, answer, n, out, chunks, terminal, parser, encoder)'
  BY <1>2, <1>7
<1>9. (parser = "reading" => WireInv(n))'
  BY <1>2, <1>3 DEF WireInv
<1>10. n \in 0 .. Len(answer')
  BY <1>2, <1>3, <1>4
<1> QED  BY <1>2, <1>8, <1>9, <1>10 DEF FlowInv

\* The encoder closes: at the end of its source, or with an error.
LEMMA FlowCloses ==
    ASSUME StreamInv, FlowInv, encoder = "open", encoder' = "closed",
           NEW es \in Seq(Frames), out' = out \o es, Texts(es) = <<>>, ~Finished(es),
           UNCHANGED <<provider, answer, wire, buf, parser, terminal, chunks>>
    PROVE  FlowInv'
<1>1. PICK n \in Nat : /\ n <= Len(answer) /\ (parser = "reading" => WireInv(n))
                       /\ Gives(provider, answer, n, out, chunks, terminal, parser, "open")
  BY FlowAt
<1>2. out \in Seq(Frames) /\ Len(answer) \in Nat
  BY FlowAt DEF StreamInv, StreamTypes
<1>3. PICK h : h = out'
  OBVIOUS
<1>4. Texts(h) = Texts(out) \o Texts(es) /\ Texts(out) \in Seq(Nat)
  BY <1>2, <1>3, AllSpeak, TextsConcat
<1>5. Finished(h) <=> Finished(out) \/ Finished(es)
  BY <1>2, <1>3, FinishedConcat
<1>6. Texts(h) = Texts(out) /\ ~Finished(h)
  BY <1>1, <1>4, <1>5 DEF Gives
<1>7. Gives(provider, answer, n, h, chunks, terminal, parser, "closed")
  BY <1>1, <1>6 DEF Gives
<1>8. Gives(provider, answer, n, out, chunks, terminal, parser, encoder)'
  BY <1>3, <1>7
<1>9. (parser = "reading" => WireInv(n))'
  BY <1>1 DEF WireInv
<1>10. n \in 0 .. Len(answer')
  BY <1>1, <1>2
<1> QED  BY <1>8, <1>9, <1>10 DEF FlowInv

LEMMA FlowEncodesEnd ==
    ASSUME StreamInv, FlowInv, EncodeEnd \/ EncodeError
    PROVE  FlowInv'
<1>1. out \in Seq(Frames) /\ gone \in BOOLEAN
  BY DEF StreamInv, StreamTypes
<1>2. <<>> \in Seq(Frames) /\ Texts(<<>>) = <<>> /\ ~Finished(<<>>) /\ out \o <<>> = out
  <2>1. "role" \in {"role", "text", "finish", "error", "DONE"} /\ 0 \in Nat
    OBVIOUS
  <2>2. <<>> \in Seq(Frames) /\ Texts(<<>>) = <<>> /\ ~Finished(<<>>)
    BY <2>1, FramesSay
  <2>3. out \o <<>> = out
    BY <1>1
  <2> QED  BY <2>2, <2>3
<1>3. CASE EncodeEnd
  <2>1. /\ encoder = "open" /\ encoder' = "closed" /\ out' = out \o <<>>
        /\ UNCHANGED <<provider, answer, wire, buf, parser, terminal, chunks>>
    BY <1>2, <1>3 DEF EncodeEnd
  <2> QED  BY <1>2, <2>1, FlowCloses
<1>4. CASE EncodeError
  <2>1. PICK x, y : x = <<Frame("error", 0)>> /\ y = <<Frame("DONE", 0)>>
    OBVIOUS
  <2>2. x \in Seq(Frames) /\ Texts(x) = <<>> /\ ~Finished(x) /\ y \in Seq(Frames) /\ Texts(y) = <<>> /\ ~Finished(y)
    <3>1. /\ "error" \in {"role", "text", "finish", "error", "DONE"} /\ "DONE" \in {"role", "text", "finish", "error", "DONE"}
          /\ 0 \in Nat
      OBVIOUS
    <3> QED  BY <2>1, <3>1, FramesSay
  <2>3. PICK es : es = x \o y
    OBVIOUS
  <2>4. es \in Seq(Frames) /\ Texts(es) = <<>> \o <<>> /\ ~Finished(es)
    <3>1. es \in Seq(Frames)
      BY <2>2, <2>3
    <3>2. Texts(es) = Texts(x) \o Texts(y)
      BY <2>2, <2>3, AllSpeak, TextsConcat
    <3>3. ~Finished(es)
      BY <2>2, <2>3, FinishedConcat
    <3> QED  BY <2>2, <3>1, <3>2, <3>3
  <2>5. <<>> \o <<>> = <<>>
    OBVIOUS
  <2>6. es = <<Frame("error", 0), Frame("DONE", 0)>>
    BY <2>1, <2>3, TwoFrames
  <2>7. /\ encoder = "open" /\ encoder' = "closed" /\ out' = (IF gone THEN out ELSE out \o es)
        /\ UNCHANGED <<provider, answer, wire, buf, parser, terminal, chunks>>
    BY <1>4, <2>6 DEF EncodeError
  <2>8. CASE gone
    <3>1. out' = out \o <<>>
      BY <1>2, <2>7, <2>8
    <3> QED  BY <1>2, <2>7, <3>1, FlowCloses
  <2>9. CASE ~gone
    <3>1. out' = out \o es
      BY <2>7, <2>9
    <3> QED  BY <2>4, <2>5, <2>7, <3>1, FlowCloses
  <2> QED  BY <1>1, <2>8, <2>9
<1> QED  BY <1>3, <1>4

LEMMA FlowNext == StreamInv /\ FlowInv /\ [GNext]_gvars => FlowInv'
<1> SUFFICES ASSUME StreamInv, FlowInv, [GNext]_gvars PROVE FlowInv'
  OBVIOUS
<1>1. CASE UNCHANGED svars
  BY <1>1, FlowSame DEF svars
<1>2. ASSUME NEW r \in Calls, ForwardStream(r) PROVE FlowInv'
  BY <1>2, FlowOpens DEF ForwardStream
<1>3. ASSUME NEW r \in Calls, StreamOver(r) PROVE FlowInv'
  BY <1>3, FlowForgets DEF StreamOver
<1>4. CASE StreamStep
  <2>1. ASSUME NEW n \in DOMAIN wire, Read(n) PROVE FlowInv'
    BY <2>1, FlowReads
  <2>2. ASSUME ClientLeaves PROVE FlowInv'
    BY <2>2, FlowSame DEF ClientLeaves
  <2> QED  BY <1>4, <2>1, <2>2, FlowTakes, FlowEnds, FlowBreaks, FlowEncodes, FlowEncodesEnd DEF StreamStep
<1>5. ASSUME NEW r \in Calls, GoOn(r) PROVE UNCHANGED svars
  BY <1>5 DEF GoOn, ListDomains, BuildContext, Forward, HandleRequest, Looks, Changes, Fails, Given
<1>6. ASSUME NEW r, NEW c, ChatStep(r, c) \/ ReadStep(r, c) \/ WriteStep(r, c) \/ RouteStep(r, c) PROVE UNCHANGED svars
  BY <1>6, NotAStream
<1> QED  BY <1>1, <1>2, <1>3, <1>4, <1>5, <1>6 DEF GNext, GStep, GrantStep, SaveUsers, EditFile, Refused, gvars

\* The client gets the texts the provider sent, in their order and without a gap,
\* however the bytes were cut; and a stream that says it has finished has given all of
\* them, but for gemini's at an end that is not one (sse_parsers.ts, openai_sse.ts).
THEOREM FinishIsComplete == GSpec => []FinishMeansComplete
<1>1. GInit => FlowInv
  BY FlowStarts DEF GInit
<1>2. ASSUME FlowInv PROVE FinishMeansComplete
  <2>1. PICK n : Gives(provider, answer, n, out, chunks, terminal, parser, encoder)
    BY <1>2 DEF FlowInv
  <2> QED  BY <2>1 DEF Gives, Ending, Finished, FinishMeansComplete
<1> QED  BY <1>1, <1>2, FlowNext, StreamInvariant, PTL DEF GSpec
=============================================================================
