-------------------------------- MODULE Gateway --------------------------------
(***************************************************************************)
(* The ways in to the knowledge: the OpenAI-compatible chat (server/routes/ *)
(* gateway.ts), the MCP tools (mcp.ts) and the domain routes of the         *)
(* dashboard (admin.ts), behind the authentication and the permissions of   *)
(* users.ts.  A handler takes the rights of the caller once, from a copy of *)
(* users.json, and then awaits the sidecar and the provider, while          *)
(* administrators save users.json, editors replace it and other calls       *)
(* change the domains.  A streamed answer is that of ChatStream.            *)
(***************************************************************************)
EXTENDS ChatStream

CONSTANTS
    People,
    Domains,
    Docs,
    Home,    \* the domain of each document
    Files,      \* what users.json may say of all people
    Edits,      \* what somebody may put in its place
    Unreadable, \* a users.json that is torn or not there
    Calls,      \* the calls that can be in progress at the same time
    Mixes,      \* what meets in one behaviour: kinds of steps, calls, domains that
                \* are named, the first users.json
    Nobody      \* the caller who is no user; the request that is over

\* The level that each domain is granted with; a name may stand in the file with a
\* word that is no level.
Record == [enabled : BOOLEAN, admin : BOOLEAN, level : [Domains -> 0 .. 3], named : SUBSET Domains]

ASSUME HomeAssumption == Home \in [Docs -> Domains] /\ Nobody \notin People \cup Calls
ASSUME FilesAssumption ==
    /\ Files \subseteq [People -> Record] /\ Unreadable \notin Files
    /\ Edits \subseteq Files \cup {Unreadable}
    /\ \A f \in Files, p \in People, d \in Domains : f[p].level[d] > 0 => d \in f[p].named
    /\ Mixes \subseteq [kinds : SUBSET {"grants", "chat", "stream", "reads", "writes", "routes"},
                        calls : SUBSET Calls, domains : SUBSET Domains,
                        file : Files \cup {Unreadable}]

VARIABLES
    file,   \* users.json
    users,  \* _users
    copy,   \* of the file: "due" to be read, "current" if it has been, or "behind": it will not be
    seeds,  \* the domains that have been created
    held,   \* the documents that are stored
    files,  \* the documents whose original is on disk
    call,   \* the calls in progress
    conn,   \* the request that the one McpServer is connected to
    to,     \* the request that the answer of a call goes to
    handed, \* what a client has been given in answer to another's call
    may,    \* history: the rights the caller had at some time during the call
    mix

acl   == <<file, users, copy>>
world == <<seeds, held, files>>
mcp   == <<conn, to, handed>>
gvars == <<svars, acl, world, mcp, call, may, mix>>

Idle == [pc |-> "idle", op |-> "none", who |-> Nobody, service |-> FALSE, in |-> {}, ctx |-> {}]

Known  == seeds \cup {Home[x] : x \in held}
DocsIn(ds) == {x \in held : Home[x] \in ds}

-----------------------------------------------------------------------------
(* Authentication and permissions: users.ts.                                 *)

Gone    == [enabled |-> FALSE, admin |-> FALSE, level |-> [d \in Domains |-> 0], named |-> {}]
NoUsers == [p \in People |-> Gone]

\* _reloadIfChanged: the copy stays as it is when the file cannot be read, and the
\* file is not tried again.
Reloaded == IF copy = "due" /\ file \in Files THEN file ELSE users
Reloads  == /\ users' = Reloaded /\ UNCHANGED file
            /\ copy' = IF copy = "due" THEN "current" ELSE copy

RealAdmin(f) == \E p \in People : f[p].enabled /\ f[p].admin
hasRealGlobalAdmin == RealAdmin(Reloaded)

AuthOf(u) == [admin |-> u.admin, level |-> u.level, named |-> u.named, service |-> FALSE]
Admin(service) == [admin |-> TRUE, level |-> [d \in Domains |-> 0], named |-> {}, service |-> service]

\* A user by a name: that of a session, or of a header beside the service token.
AuthByUsername(p) == IF Reloaded[p].enabled THEN {AuthOf(Reloaded[p])} ELSE {}

\* A key: that of a user, or the brain key as long as nobody is a real admin.
AuthByKey(p) ==
    IF p = Nobody THEN (IF hasRealGlobalAdmin THEN {} ELSE {Admin(FALSE)})
    ELSE IF Reloaded[p].enabled THEN {AuthOf(Reloaded[p])} ELSE {}

\* The doors for browsers and clients, and for MCP clients, that have keys only.
Bearer(kind, p) ==
    CASE kind = "service" /\ p = Nobody -> {Admin(TRUE)}
      [] kind = "service" /\ p # Nobody -> AuthByUsername(p)
      [] kind = "cookie" /\ p # Nobody  -> AuthByUsername(p)
      [] OTHER                          -> AuthByKey(p)
Mcp(kind, p) == IF kind = "key" THEN AuthByKey(p) ELSE {}

Callers == {"cookie", "key", "service"} \X (People \cup {Nobody})

\* Mutant: any grant on the domain is enough.
AnyGrant(a, d, required) == a.admin \/ a.level[d] > 0

\* The levels are read, write and admin: 1, 2 and 3.
hasPermission(a, d, required) == a.admin \/ (a.level[d] > 0 /\ a.level[d] >= required)

-----------------------------------------------------------------------------

GInit ==
    /\ SInit
    /\ mix \in Mixes
    /\ file = mix.file /\ users = (IF file \in Files THEN file ELSE NoUsers) /\ copy = "current"
    /\ seeds = {} /\ held = Docs /\ files = {}
    /\ conn = Nobody /\ to = [r \in Calls |-> r] /\ handed = [r \in Calls |-> {}]
    /\ call = [r \in Calls |-> Idle] /\ may = [r \in Calls |-> {}]

At(r, c) == call[r].pc = c
Comes(r, c, next) ==
    /\ At(r, "idle") /\ Reloads
    /\ call' = [call EXCEPT ![r] = [next EXCEPT !.who = c[2],
                                               !.service = (c = <<"service", Nobody>>)]]
    /\ UNCHANGED <<svars, world>>
Asks(r, c, next) == Comes(r, c, next) /\ UNCHANGED mcp
Calling(op, ds) == [Idle EXCEPT !.pc = "sidecar", !.op = op, !.in = ds]
Return(r)  == call' = [call EXCEPT ![r] = Idle]

-----------------------------------------------------------------------------
(* Chats.                                                                    *)

\* The domain that the last message begins with, or else the one the model names.
resolveDomain(prefix, model) == IF prefix # Nobody THEN prefix ELSE model

\* What was found becomes a message before the others; nothing found, no message.
augmentWithContext(k, found) == [k EXCEPT !.ctx = found, !.pc = "forward"]

DomainChat(r, c, d) ==
    /\ \E a \in Bearer(c[1], c[2]) : ~a.service /\ hasPermission(a, d, 1)
    /\ Asks(r, c, [Idle EXCEPT !.pc = "context", !.op = "chat", !.in = {d}])

\* Without a domain: all that the caller's entry names, with whatever word; an
\* admin's are asked for.
OpenChat(r, c) ==
    \E a \in Bearer(c[1], c[2]) :
        LET granted == a.named
        IN  /\ ~a.service /\ (a.admin \/ granted # {})
            /\ Asks(r, c, [Idle EXCEPT !.pc = IF a.admin THEN "listing" ELSE "context",
                                       !.op = "chat", !.in = IF a.admin THEN {} ELSE granted])

\* list_domains answers, or fails; without a candidate nothing is looked up.
ListDomains(r) ==
    /\ At(r, "listing")
    /\ \E ds \in {{}, Known} :
           call' = [call EXCEPT ![r].in = ds, ![r].pc = IF ds = {} THEN "forward" ELSE "context"]
    /\ UNCHANGED <<svars, acl, world, mcp>>

\* build_context or build_multi_context: what is relevant and fits, of the documents
\* there are by now; nothing if that fails, and the question goes on without sources.
BuildContext(r) ==
    /\ At(r, "context")
    /\ \E found \in SUBSET DocsIn(call[r].in) :
           call' = [call EXCEPT ![r] = augmentWithContext(@, found)]
    /\ UNCHANGED <<svars, acl, world, mcp>>

\* The provider answers at once, or fails (502); what chat_knowledge has been told
\* goes into its answer.
Forward(r) ==
    /\ At(r, "forward")
    /\ \/ call[r].op = "chat" /\ Return(r)
       \/ /\ call[r].op = "ask"
          /\ \E told \in {call[r].ctx, {}} :
                 call' = [call EXCEPT ![r].ctx = told, ![r].pc = "answered"]
    /\ UNCHANGED <<svars, acl, world, mcp>>

ForwardStream(r) ==
    /\ At(r, "forward") /\ call[r].op = "chat"
    /\ \E p \in DOMAIN Answers : \E a \in Answers[p] : \E nl \in {<<LF>>, <<CR, LF>>} :
           OpenStream(p, a, nl)
    /\ call' = [call EXCEPT ![r] = [Idle EXCEPT !.pc = "streaming"]]
    /\ UNCHANGED <<acl, world, mcp>>

\* What the parser of a client that has left still reads is given to nobody.
StreamOver(r) ==
    /\ At(r, "streaming") /\ encoder = "closed" /\ Return(r)
    /\ Forget
    /\ UNCHANGED <<acl, world, mcp>>

-----------------------------------------------------------------------------
(* The MCP tools.                                                            *)

\* A request: the one McpServer is connected to its transport, and to no other any
\* more.  Its caller's rights go with it (authStore), and are looked at in the tool.
Connects(r, c, next) ==
    /\ Comes(r, c, [next EXCEPT !.pc = "connected"])
    /\ conn' = r /\ UNCHANGED <<to, handed>>

\* When its body has been read the message goes to the tool, and the answer to the
\* request that the server is connected to by then.
HandleRequest(r) ==
    /\ At(r, "connected")
    /\ call' = [call EXCEPT ![r].pc = "sidecar"] /\ to' = [to EXCEPT ![r] = conn]
    /\ UNCHANGED <<svars, acl, world, conn, handed>>

Tool(r, c, op, d, required) ==
    /\ \E a \in Mcp(c[1], c[2]) : hasPermission(a, d, required)
    /\ Connects(r, c, Calling(op, {d}))
AdminTool(r, c, op, d) ==
    /\ \E a \in Mcp(c[1], c[2]) : a.admin
    /\ Connects(r, c, Calling(op, {d}))

\* knowledge_stats counts for everybody, and a tool that refuses answers as well: no
\* documents in either, but the server has been connected.
ToolStats(r, c) == Mcp(c[1], c[2]) # {} /\ Connects(r, c, Calling("search", {}))

ToolSearch(r, c, d)      == Tool(r, c, "search", d, 1)
ToolChat(r, c, d)        == Tool(r, c, "ask", d, 1)
ToolCapture(r, c, d)     == Tool(r, c, "capture", d, 2)
ToolCaptureFile(r, c, d) == Tool(r, c, "capture", d, 2)
ToolCreate(r, c, d)      == AdminTool(r, c, "create", d)
\* Without confirmed nothing is deleted: the tool says what it would delete.
ToolDelete(r, c, d)      == Tool(r, c, "delete", d, 3)
ToolDrop(r, c, d)        == AdminTool(r, c, "drop", d)

(* The routes of the dashboard.                                              *)

requirePerm(r, c, op, d, required) ==
    /\ \E a \in Bearer(c[1], c[2]) : hasPermission(a, d, required)
    /\ Asks(r, c, Calling(op, {d}))
requireGlobalAdmin(r, c, op, d) ==
    /\ \E a \in Bearer(c[1], c[2]) : a.admin
    /\ Asks(r, c, Calling(op, {d}))

RouteCreate(r, c, d)    == requireGlobalAdmin(r, c, "create", d)
RouteUpload(r, c, d)    == requirePerm(r, c, "upload", d, 2)
RouteUrl(r, c, d)       == requirePerm(r, c, "capture", d, 2)
RouteDelete(r, c, d)    == requirePerm(r, c, "delete", d, 3)
RouteExport(r, c, d)    == requirePerm(r, c, "export", d, 3)
RouteDrop(r, c, d)      == requirePerm(r, c, "drop", d, 3)
RouteRestore(r, c, d)   == requireGlobalAdmin(r, c, "restore", d)
RouteDownload(r, c, d)  == requirePerm(r, c, "download", d, 1)
RouteDescribe(r, c, d)  == requirePerm(r, c, "create", d, 3)
RouteDocs(r, c, d)      == requirePerm(r, c, "search", d, 1)
\* Entities, edges and mentions are found in the documents of the domain.
RouteGraph(r, c, d)     == requirePerm(r, c, "search", d, 1)
RouteGexf(r, c, d)      == requirePerm(r, c, "search", d, 1)
\* Of the domains that are asked for, those the caller can read.
RouteOverlap(r, c, ds) ==
    \E a \in Bearer(c[1], c[2]) :
        LET readable == {d \in ds : hasPermission(a, d, 1)}
        IN  readable # {} /\ Asks(r, c, Calling("search", readable))

-----------------------------------------------------------------------------
(* What the sidecar, or the disk, does with a call.                          *)

Found(r, found) == call' = [call EXCEPT ![r].ctx = found, ![r].pc = "answered"]

\* Reads.  chat_knowledge asks the provider only if it has found something.
Looks(r) ==
    /\ At(r, "sidecar")
    /\ \/ /\ call[r].op \in {"search", "export"}
          /\ \E found \in SUBSET DocsIn(call[r].in) : Found(r, found)
       \/ /\ call[r].op = "ask"
          /\ \E found \in SUBSET DocsIn(call[r].in) :
                 call' = [call EXCEPT ![r].ctx = found,
                                      ![r].pc = IF found = {} THEN "answered" ELSE "forward"]
       \/ /\ call[r].op = "download"
          /\ \E found \in SUBSET {x \in files : Home[x] \in call[r].in} : Found(r, found)
    /\ UNCHANGED <<svars, acl, world, mcp>>

\* Changes.  The original of an upload is on disk before its text is stored; what
\* deletes a domain leaves the originals.
Changes(r) ==
    LET d == CHOOSE d \in Domains : d \in call[r].in
    IN  /\ At(r, "sidecar")
        /\ \/ /\ call[r].op \in {"capture", "upload"}
              /\ \E x \in Docs :
                     /\ Home[x] = d /\ held' = held \cup {x}
                     /\ files' = IF call[r].op = "upload" THEN files \cup {x} ELSE files
              /\ UNCHANGED seeds
           \/ /\ call[r].op = "delete"
              /\ \E x \in DocsIn({d}) : held' = held \ {x}
              /\ UNCHANGED <<seeds, files>>
           \/ /\ call[r].op = "create"
              /\ seeds' = seeds \cup {d} /\ UNCHANGED <<held, files>>
           \/ /\ call[r].op = "drop"
              /\ seeds' = seeds \ {d} /\ held' = held \ DocsIn({d}) /\ UNCHANGED files
           \/ /\ call[r].op = "restore" /\ d \notin Known
              /\ \E xs \in SUBSET {x \in Docs : Home[x] = d} :
                     held' = held \cup xs /\ files' = files \cup xs
              /\ seeds' = seeds \cup {d}
        /\ Found(r, {})
        /\ UNCHANGED <<svars, acl, mcp>>

\* An error, of the sidecar or of the tool, or a call that has nothing to change.
Fails(r) ==
    /\ At(r, "sidecar") /\ Found(r, {})
    /\ UNCHANGED <<svars, acl, world, mcp>>

\* The answer goes to its own client; or, when the server had been connected to
\* another request, to that one's client if it waits for an answer of that number,
\* and otherwise to nobody.  A client that has got an answer waits for none.
Given(r) ==
    LET other == to[r] \in Calls \ {r} /\ call[to[r]].pc \in {"sidecar", "forward", "answered"}
    IN  /\ At(r, "answered") /\ Return(r)
        /\ \E gets \in IF other THEN {{}, {to[r]}} ELSE {{}} :
               /\ to' = [s \in Calls |-> IF s = r THEN r
                                         ELSE IF to[s] = r \/ s \in gets THEN Nobody ELSE to[s]]
               /\ handed' = [s \in Calls |-> IF s = r THEN {}
                                             ELSE IF s \in gets THEN call[r].ctx ELSE handed[s]]
        /\ conn' = IF conn = r THEN Nobody ELSE conn
        /\ UNCHANGED <<svars, acl, world>>

-----------------------------------------------------------------------------
(* users.json.                                                               *)

\* Mutant: the copy is left to the next change of the file.
SaveAlone(f) ==
    /\ RealAdmin(f) /\ file' = f /\ copy' = "current"
    /\ UNCHANGED <<users, svars, world, mcp, call>>

\* An administrator saves one user or the whole file, which must leave a real admin
\* unless it only adds a user.  The copy is that of the file at once, if that can be
\* read.
SaveUsers(f) ==
    LET before == IF file \in Files THEN file ELSE NoUsers
    IN  /\ RealAdmin(f) \/ \E p \in People : before[p] = Gone /\ f = [before EXCEPT ![p] = f[p]]
        /\ file' = f
        /\ \/ users' = f /\ copy' = "current"
           \/ users' = users /\ copy' = "behind"
        /\ UNCHANGED <<svars, world, mcp, call>>

\* Somebody puts another file there, or none, with a time the server has seen perhaps.
EditFile(f) ==
    /\ file' = f /\ copy' \in {"due", "behind"}
    /\ UNCHANGED <<users, svars, world, mcp, call>>

\* A request that is refused reloads the copy too; and what _reloadIfChanged could not
\* read at first it does not read again.
Refused ==
    /\ \/ Reloads
       \/ copy = "due" /\ copy' = "behind" /\ UNCHANGED <<file, users>>
    /\ UNCHANGED <<svars, world, mcp, call>>

GrantStep ==
    \/ \E f \in Files : SaveUsers(f)
    \/ \E f \in Edits : EditFile(f)
    \/ Refused

-----------------------------------------------------------------------------

ChatStep(r, c) ==
    \E prefix, model \in mix.domains \cup {Nobody} :
        LET d == resolveDomain(prefix, model)
        IN  IF d = Nobody THEN OpenChat(r, c) ELSE DomainChat(r, c, d)
ReadStep(r, c) ==
    ToolStats(r, c) \/ \E d \in mix.domains : ToolSearch(r, c, d) \/ ToolChat(r, c, d)
WriteStep(r, c) ==
    \E d \in mix.domains :
        \/ ToolCapture(r, c, d) \/ ToolCaptureFile(r, c, d)
        \/ ToolCreate(r, c, d) \/ ToolDelete(r, c, d) \/ ToolDrop(r, c, d)
RouteStep(r, c) ==
    \E d \in mix.domains :
        \/ RouteCreate(r, c, d) \/ RouteUpload(r, c, d) \/ RouteUrl(r, c, d) \/ RouteDelete(r, c, d)
        \/ RouteExport(r, c, d) \/ RouteDrop(r, c, d) \/ RouteRestore(r, c, d)
        \/ RouteDownload(r, c, d) \/ RouteDescribe(r, c, d) \/ RouteDocs(r, c, d)
        \/ RouteGraph(r, c, d) \/ RouteGexf(r, c, d) \/ \E ds \in SUBSET mix.domains : RouteOverlap(r, c, ds)
GoOn(r) ==
    \/ ListDomains(r) \/ BuildContext(r) \/ Forward(r) \/ HandleRequest(r)
    \/ Looks(r) \/ Changes(r) \/ Fails(r) \/ Given(r)

GStep ==
    \/ "grants" \in mix.kinds /\ GrantStep
    \/ "chat" \in mix.kinds /\ \E r \in mix.calls, c \in Callers : ChatStep(r, c)
    \/ "reads" \in mix.kinds /\ \E r \in mix.calls, c \in Callers : ReadStep(r, c)
    \/ "writes" \in mix.kinds /\ \E r \in mix.calls, c \in Callers : WriteStep(r, c)
    \/ "routes" \in mix.kinds /\ \E r \in mix.calls, c \in Callers : RouteStep(r, c)
    \/ \E r \in Calls : GoOn(r)
    \/ "stream" \in mix.kinds /\ \E r \in Calls : ForwardStream(r) \/ StreamOver(r)
    \/ StreamStep /\ UNCHANGED <<acl, world, mcp, call>>

\* What is in force: users.json, or what had been loaded of it before if it cannot
\* be read, or came with a time that the server had seen.
Law == IF copy # "behind" /\ file \in Files THEN file ELSE users

\* The rights a user has: on each domain, the levels up to that granted; 4 is
\* that of a global admin; and a chat may read what the entry names.  The service
\* token alone has those of an admin on the routes, and none to chat.
Rights(k) ==
    IF k.who \in People
    THEN LET u == Law'[k.who]
         IN  {right \in Domains \X (1 .. 4) :
                /\ u.enabled
                /\ \/ u.admin \/ right[2] <= u.level[right[1]]
                   \/ k.op = "chat" /\ right[2] = 1 /\ right[1] \in u.named}
    ELSE IF k.service THEN (IF k.op = "chat" THEN {} ELSE Domains \X (1 .. 4))
    ELSE IF RealAdmin(Law') THEN {} ELSE Domains \X (1 .. 4)

NoteRights ==
    may' = [r \in Calls |-> IF call'[r].pc \in {"idle", "streaming"} THEN {} ELSE may[r] \cup Rights(call'[r])]

GNext == GStep /\ NoteRights /\ UNCHANGED mix
GSpec == GInit /\ [][GNext]_gvars /\ StreamFairness

-----------------------------------------------------------------------------

GTypeOK ==
    /\ file \in Files \cup {Unreadable} /\ users \in Files \cup {NoUsers}
    /\ copy \in {"due", "current", "behind"}
    /\ seeds \subseteq Domains /\ held \subseteq Docs /\ files \subseteq Docs
    /\ conn \in Calls \cup {Nobody} /\ to \in [Calls -> Calls \cup {Nobody}]
    /\ handed \in [Calls -> SUBSET Docs]
    /\ \A r \in Calls :
           /\ call[r].pc \in {"idle", "listing", "context", "forward", "connected", "sidecar", "answered", "streaming"}
           /\ call[r].in \subseteq Domains /\ call[r].ctx \subseteq Docs

\* Whatever happens to users.json and to the domains while a call waits for the
\* sidecar, what is found for it, or is put before the model for it, is from
\* domains its caller could read at some time during the call, by the file in
\* force.  (Whose client then gets the answer of overlapping MCP requests is
\* another matter: see Given.)
GroundedInReadable ==
    \A r \in Calls : \A x \in call[r].ctx : <<Home[x], 1>> \in may[r]

\* Every change to a domain is that of a call whose caller had the right to it
\* at some time during the call: to write for a document that comes, to
\* administer for one that goes, and for the domain to come or go.
ChangesAreAllowed ==
    [][\A d \in Domains :
          LET Before == DocsIn({d})
              After  == {x \in held' : Home[x] = d}
              By(n)  == \E r \in Calls : call'[r] # call[r] /\ call[r].in = {d} /\ <<d, n>> \in may[r]
          IN  /\ (After \ Before # {} \/ {x \in files' \ files : Home[x] = d} # {}) => By(2)
              /\ (Before \ After # {} \/ (d \in seeds) # (d \in seeds')) => By(3)]_gvars
=============================================================================
