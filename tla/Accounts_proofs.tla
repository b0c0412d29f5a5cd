---------------------------- MODULE Accounts_proofs ----------------------------
(***************************************************************************)
(* Accounts, for any number of users, passwords, tokens and handlers in      *)
(* progress, and any contents typed into the raw editor: the last global     *)
(* admin stays; and a replaced password, a revocation and a first global     *)
(* admin close the sessions they should, but where a race is on record.      *)
(* The invariant that carries it is about the handlers: outside the record,  *)
(* what one holds of users.json is what is there, and one that is about to   *)
(* open a session opens it under the password that is there.                 *)
(***************************************************************************)
EXTENDS Accounts, TLAPS

KindNames == {"none", "login", "change", "admin", "reset", "invite", "script", "promote", "issue", "delete"}
CallType == [kind : KindNames, user : Users \cup {Bootstrap},
             pc : {"idle", "verify", "body", "current", "set", "hash", "evict",
                   "tokens", "session", "issue"},
             pw : Passwords \cup {NoPw}, snap : Files]

\* A call that may go on to open a session under its password.
Opens(c) == c.pc \in {"verify", "evict", "tokens", "session"}

\* A call that goes on with the file f and the record R.
CallOK(c, f, R) ==
    /\ c \in CallType
    /\ c.pc # "idle" => c.user \in Users
    /\ c.pc \in {"body", "current", "set", "hash", "evict", "session"} => c.pw \in Passwords
    /\ c.pc = "tokens" /\ c.kind \in {"change", "invite"} => c.pw \in Passwords
    /\ c.pc = "hash" => c.snap[c.user] # NoUser \/ c.kind = "promote"
    /\ c.pc = "hash" => \A v \in Users \ R : c.snap[v] = f[v]
    /\ Opens(c) /\ c.pw # NoPw /\ c.user \notin R /\ f[c.user] # NoUser
          => f[c.user].pw \in {c.pw, NoPw}

Calling == req \in [Requests -> CallType] /\ \A r \in Requests : CallOK(req[r], file, risk)

Others ==
    /\ file \in Files
    /\ sessions \subseteq [user : Users \cup {Bootstrap}, pw : Passwords \cup {NoPw}]
    /\ calls \in 0..MaxCalls
    /\ revoked \subseteq Users /\ risk \subseteq Users \cup {Bootstrap}

\* Whom a revocation concerns, outside the record, is there and disabled.
RevokedInv == \A u \in revoked \ risk : file[u] # NoUser /\ ~file[u].enabled

IInv == Others /\ Calling /\ NoStaleSession /\ RevokedInv /\ NoBootstrapSession

-----------------------------------------------------------------------------
(* What a step keeps.                                                        *)

\* One call goes on; what the others hold is still in order.
LEMMA OneCall ==
    ASSUME Calling, NEW r \in Requests, NEW c, req' = [req EXCEPT ![r] = c],
           CallOK(c, file', risk'),
           \A q \in Requests \ {r} : CallOK(req[q], file', risk')
    PROVE  Calling'
<1>1. c \in CallType
  BY DEF CallOK
<1>2. req' \in [Requests -> CallType]
  BY <1>1 DEF Calling
<1>3. ASSUME NEW q \in Requests PROVE CallOK(req'[q], file', risk')
  <2>1. CASE q = r
    BY <2>1 DEF Calling
  <2>2. CASE q # r
    BY <2>2 DEF Calling
  <2> QED  BY <2>1, <2>2
<1> QED  BY <1>2, <1>3 DEF Calling

LEMMA IdleOK == \A f, R : CallOK(Idle, f, R)
<1>1. NoFile \in Files
  BY DEF NoFile, Files
<1>2. Idle \in CallType
  BY <1>1 DEF Idle, CallType, KindNames
<1> QED  BY <1>2 DEF Idle, CallOK, Opens

\* A call with nothing read yet, and no session before it.
LEMMA FreshOK ==
    ASSUME NEW k \in KindNames, NEW u \in Users, NEW c \in {"body", "set", "tokens", "issue"},
           NEW p \in Passwords \cup {NoPw},
           c \in {"body", "set"} => p \in Passwords,
           c \in {"tokens", "issue"} => p = NoPw /\ k \notin {"change", "invite"}, NEW f, NEW R
    PROVE  CallOK([kind |-> k, user |-> u, pc |-> c, pw |-> p, snap |-> NoFile], f, R)
<1>1. NoFile \in Files
  BY DEF NoFile, Files
<1> QED  BY <1>1, NamesAssumption DEF CallOK, CallType, Opens

\* A write of users.json leaves what the others hold in order: what it meets is
\* on the record.
LEMMA SaveOK ==
    ASSUME file \in Files, NEW f \in Files, NEW R \in SUBSET Requests, NEW more, Save(f, R, more),
           NEW q \in R, CallOK(req[q], file, risk)
    PROVE  CallOK(req[q], file', risk')
<1> USE DEF Save
<1>1. ASSUME req[q].pc = "hash", NEW v \in Users \ risk' PROVE req[q].snap[v] = f[v]
  <2>1. f[v] = file[v]
    BY <1>1 DEF Overtaken, At
  <2> QED  BY <1>1, <2>1 DEF CallOK
<1>2. ASSUME Opens(req[q]), req[q].pw # NoPw, req[q].user \notin risk', f[req[q].user] # NoUser
      PROVE  f[req[q].user].pw \in {req[q].pw, NoPw}
  <2>1. req[q].user \in Users
    BY <1>2 DEF CallOK, Opens
  <2>2. ~NewPassword(f, req[q].user)
    BY <1>2, <2>1 DEF Late, Opens
  <2> QED  BY <1>2, <2>1, <2>2 DEF NewPassword, CallOK
<1> QED  BY <1>1, <1>2 DEF CallOK

\* No session becomes stale but by a new password, of a user who is on the record
\* or whose sessions are about to be evicted.
LEMMA StaleKept ==
    ASSUME NoStaleSession, file' \in Files, risk \subseteq risk', sessions' \subseteq sessions,
           \A u \in Users : Evicting(u) => Evicting(u)',
           \A u \in Users \ risk' : NewPassword(file', u) => Evicting(u)'
    PROVE  NoStaleSession'
<1> SUFFICES ASSUME NEW s \in sessions, s.user \in Users \ risk', file'[s.user] # NoUser, ~Evicting(s.user)'
             PROVE  file'[s.user].pw \in {s.pw, NoPw}
  BY DEF NoStaleSession
<1>1. ~NewPassword(file', s.user) /\ ~Evicting(s.user)
  OBVIOUS
<1> QED  BY <1>1 DEF NewPassword, NoStaleSession

\* A call that is not evicting goes on, and none stops evicting.
LEMMA EvictingKept ==
    ASSUME Calling, NEW r \in Requests, ~At(r, "evict"), NEW c, req' = [req EXCEPT ![r] = c]
    PROVE  \A u \in Users : Evicting(u) => Evicting(u)'
<1> SUFFICES ASSUME NEW u \in Users, Evicting(u) PROVE Evicting(u)'
  OBVIOUS
<1>1. PICK q \in Requests : req[q].user = u /\ At(q, "evict")
  BY DEF Evicting
<1>2. q # r /\ req'[q] = req[q]
  BY <1>1 DEF Calling
<1> QED  BY <1>1, <1>2 DEF Evicting, At

\* A call that changes neither the file nor the sessions.
LEMMA QuietStep ==
    ASSUME IInv, NEW r \in Requests, ~At(r, "evict"), NEW c, req' = [req EXCEPT ![r] = c],
           CallOK(c, file, risk), UNCHANGED <<file, sessions, revoked, risk>>, calls' \in 0..MaxCalls
    PROVE  IInv'
<1> USE DEF IInv
<1>1. Calling'
  BY OneCall DEF Calling
<1>2. NoStaleSession'
  <2>1. \A u \in Users : ~NewPassword(file', u)
    BY DEF NewPassword
  <2> QED  BY <2>1, StaleKept, EvictingKept DEF Others
<1>3. RevokedInv' /\ NoBootstrapSession'
  BY DEF RevokedInv, NoBootstrapSession, Listed, HasAdmin, IsAdmin, Of
<1> QED  BY <1>1, <1>2, <1>3 DEF Others

\* The same, of a call that only moves on.
LEMMA GotoStep ==
    ASSUME IInv, NEW r \in Requests, NEW c, Goto(r, c),
           \/ At(r, "body") /\ c \in {"current", "set"}
           \/ At(r, "current") /\ c = "set"
           \/ At(r, "tokens") /\ c = "session" /\ req[r].kind \in {"change", "invite"},
           UNCHANGED <<file, sessions, revoked, risk, calls>>
    PROVE  IInv'
<1> DEFINE n == [req[r] EXCEPT !.pc = c, !.snap = NoFile]
<1>1. req[r] \in CallType /\ CallOK(req[r], file, risk)
  BY DEF IInv, Calling
<1>2. NoFile \in Files
  BY DEF NoFile, Files
<1>3. /\ n \in CallType /\ n.pc = c /\ n.user = req[r].user /\ n.kind = req[r].kind /\ n.pw = req[r].pw
  BY <1>1, <1>2 DEF CallType, At
<1>4. CallOK(n, file, risk)
  BY <1>1, <1>3 DEF CallOK, Opens, At
<1>5. req' = [req EXCEPT ![r] = n] /\ ~At(r, "evict")
  BY DEF Goto, At
<1> HIDE DEF n
<1> QED  BY <1>4, <1>5, QuietStep DEF IInv, Others

LEMMA ReturnStep ==
    ASSUME IInv, NEW r \in Requests, ~At(r, "evict"), Return(r),
           UNCHANGED <<file, sessions, revoked, risk, calls>>
    PROVE  IInv'
BY IdleOK, QuietStep DEF Return, IInv, Others

\* One more call is within the bound.
LEMMA CalledOK == ASSUME Others, Called PROVE calls' \in 0..MaxCalls
BY BoundAssumption DEF Others, Called

-----------------------------------------------------------------------------
(* The steps that write no file.                                             *)

LEMMA BeginStep ==
    ASSUME IInv, NEW r \in Requests, NEW k \in KindNames, NEW u \in Users,
           NEW c \in {"body", "set", "issue"}, NEW p \in Passwords \cup {NoPw},
           c \in {"body", "set"} => p \in Passwords,
           c = "issue" => p = NoPw /\ k = "issue",
           Begin(r, k, u, c, p), UNCHANGED <<file, sessions, revoked, risk>>
    PROVE  IInv'
<1>1. CallOK([kind |-> k, user |-> u, pc |-> c, pw |-> p, snap |-> NoFile], file, risk)
  BY FreshOK
<1>2. ~At(r, "evict") /\ Called
  BY DEF Begin, At
<1> QED  BY <1>1, <1>2, QuietStep, CalledOK DEF Begin, IInv

LEMMA LoginStep ==
    ASSUME IInv, NEW r \in Requests, NEW u \in Users, NEW p \in Passwords, Login(r, u, p)
    PROVE  IInv'
<1> DEFINE w == IF file[u].pw = p THEN p ELSE NoPw
           c == [kind |-> "login", user |-> u, pc |-> "verify", pw |-> w, snap |-> NoFile]
<1>1. NoFile \in Files
  BY DEF NoFile, Files
<1>2. CallOK(c, file, risk)
  BY <1>1, NamesAssumption DEF CallOK, CallType, KindNames, Opens
<1>3. ~At(r, "evict") /\ Called /\ req' = [req EXCEPT ![r] = c]
  BY DEF Login, Begin, At
<1> HIDE DEF c
<1> QED  BY <1>2, <1>3, QuietStep, CalledOK DEF Login, IInv

LEMMA LoadFileStep ==
    ASSUME IInv, NEW r \in Requests, LoadFile(r) PROVE IInv'
<1> DEFINE n == [req[r] EXCEPT !.pc = "hash", !.snap = file]
<1>1. CallOK(req[r], file, risk) /\ req[r] \in CallType /\ file \in Files /\ ~At(r, "evict")
  BY DEF IInv, Calling, Others, LoadFile, At
<1>2. CASE Return(r)
  BY <1>1, <1>2, ReturnStep DEF LoadFile
<1>3. CASE ~Return(r)
  <2>1. req' = [req EXCEPT ![r] = n] /\ ~(file[req[r].user] = NoUser /\ req[r].kind # "promote")
    BY <1>3 DEF LoadFile
  <2>2. /\ n.pc = "hash" /\ n.snap = file /\ n.user = req[r].user /\ n.kind = req[r].kind
        /\ n.pw = req[r].pw /\ n \in CallType
    BY <1>1 DEF CallType
  <2>3. CallOK(n, file, risk)
    BY <1>1, <2>1, <2>2 DEF CallOK, Opens, LoadFile, At
  <2> HIDE DEF n
  <2> QED  BY <1>1, <2>1, <2>3, QuietStep DEF LoadFile, IInv, Others
<1> QED  BY <1>2, <1>3

\* A session is opened under the password of the file, or the user is on record.
LEMMA OpenStep ==
    ASSUME IInv, NEW r \in Requests, Opens(req[r]), ~At(r, "evict"), req[r].pw \in Passwords, Return(r),
           sessions' = sessions \cup {[user |-> req[r].user, pw |-> req[r].pw]},
           UNCHANGED <<file, revoked, risk, calls>>
    PROVE  IInv'
<1> DEFINE n == [user |-> req[r].user, pw |-> req[r].pw]
<1> USE DEF IInv
<1>1. CallOK(req[r], file, risk) /\ req[r].user \in Users
  BY DEF Calling, CallOK, Opens
<1>2. Calling'
  BY IdleOK, OneCall DEF Calling, Return
<1>3. \A u \in Users : Evicting(u) => Evicting(u)'
  BY EvictingKept DEF Return
<1>4. NoStaleSession'
  <2> SUFFICES ASSUME NEW s \in sessions', s.user \in Users \ risk, file[s.user] # NoUser
               PROVE  file[s.user].pw \in {s.pw, NoPw} \/ Evicting(s.user)'
    BY DEF NoStaleSession
  <2>1. CASE s \in sessions
    BY <1>3, <2>1 DEF NoStaleSession
  <2>2. CASE s.user = req[r].user /\ s.pw = req[r].pw
    BY <1>1, <2>2, NamesAssumption DEF CallOK
  <2> QED  BY <2>1, <2>2
<1>5. RevokedInv' /\ Others'
  BY <1>1 DEF RevokedInv, Listed, Others
<1>6. NoBootstrapSession'
  BY <1>1, NamesAssumption DEF NoBootstrapSession, HasAdmin, IsAdmin, Listed, Of
<1> QED  BY <1>2, <1>4, <1>5, <1>6

LEMMA LoginDoneStep ==
    ASSUME IInv, NEW r \in Requests, LoginDone(r) PROVE IInv'
<1>1. req[r].pw \in Passwords \cup {NoPw} /\ Opens(req[r]) /\ ~At(r, "evict")
  BY DEF IInv, Calling, CallType, LoginDone, At, Opens
<1> QED  BY <1>1, OpenStep, ReturnStep DEF LoginDone

LEMMA NewSessionStep ==
    ASSUME IInv, NEW r \in Requests, NewSession(r) PROVE IInv'
<1>1. req[r].pw \in Passwords /\ Opens(req[r]) /\ ~At(r, "evict")
  BY DEF IInv, Calling, CallOK, NewSession, At, Opens
<1> QED  BY <1>1, OpenStep DEF NewSession

LEMMA RevokeTokensStep ==
    ASSUME IInv, NEW r \in Requests, RevokeTokens(r) PROVE IInv'
<1>1. At(r, "tokens") /\ ~At(r, "evict") /\ UNCHANGED <<file, sessions, revoked, risk, calls>>
  BY DEF RevokeTokens, At
<1> QED  BY <1>1, GotoStep, ReturnStep DEF RevokeTokens

\* No session of the user is left; those of others are as they were.
LEMMA EvictStep ==
    ASSUME IInv, NEW r \in Requests, Evict(r) PROVE IInv'
<1> DEFINE n == [req[r] EXCEPT !.pc = "tokens", !.snap = NoFile]
<1> USE DEF IInv
<1>1. req[r] \in CallType /\ CallOK(req[r], file, risk) /\ At(r, "evict")
  BY DEF Calling, Evict
<1>2. NoFile \in Files
  BY DEF NoFile, Files
<1>3. n \in CallType /\ n.pc = "tokens" /\ n.user = req[r].user /\ n.kind = req[r].kind /\ n.pw = req[r].pw
  BY <1>1, <1>2 DEF CallType
<1>4. CallOK(n, file, risk)
  BY <1>1, <1>3 DEF CallOK, Opens, At
<1>5. req' = [req EXCEPT ![r] = n] /\ UNCHANGED <<file, revoked, risk, calls>>
      /\ sessions' = sessions \ Of(req[r].user)
  BY DEF Evict, Goto
<1> HIDE DEF n
<1>6. Calling'
  BY <1>4, <1>5, OneCall DEF Calling
<1>7. NoStaleSession'
  <2> SUFFICES ASSUME NEW s \in sessions', s.user \in Users \ risk, file[s.user] # NoUser,
                      file[s.user].pw \notin {s.pw, NoPw}
               PROVE  Evicting(s.user)'
    BY <1>5 DEF NoStaleSession
  <2>1. s \in sessions /\ s.user # req[r].user
    BY <1>5 DEF Of
  <2>2. PICK q \in Requests : req[q].user = s.user /\ At(q, "evict")
    BY <2>1 DEF NoStaleSession, Evicting
  <2>3. req'[q] = req[q]
    BY <1>5, <2>1, <2>2 DEF Calling
  <2> QED  BY <2>2, <2>3 DEF Evicting, At
<1>8. RevokedInv' /\ NoBootstrapSession' /\ Others'
  BY <1>5 DEF RevokedInv, NoBootstrapSession, Listed, HasAdmin, IsAdmin, Of, Others
<1> QED  BY <1>6, <1>7, <1>8

\* Sessions end, by themselves.
LEMMA SessionEndsStep ==
    ASSUME IInv, NEW s \in sessions, SessionEnds(s) PROVE IInv'
<1> USE DEF IInv, SessionEnds
<1>1. Calling' /\ RevokedInv' /\ NoBootstrapSession' /\ Others'
  BY DEF Calling, RevokedInv, NoBootstrapSession, Listed, HasAdmin, IsAdmin, Of, Others
<1>2. NoStaleSession'
  BY DEF NoStaleSession, Evicting, At
<1> QED  BY <1>1, <1>2

LEMMA BootstrapLoginStep ==
    ASSUME IInv, BootstrapLogin PROVE IInv'
<1> USE DEF IInv, BootstrapLogin
<1>1. Calling' /\ RevokedInv' /\ NoBootstrapSession' /\ Others'
  BY DEF Calling, RevokedInv, NoBootstrapSession, Listed, HasAdmin, IsAdmin, Of, Others
<1>2. NoStaleSession'
  BY NamesAssumption DEF NoStaleSession, Evicting, At
<1> QED  BY <1>1, <1>2

LEMMA RestartStep ==
    ASSUME IInv, Restart PROVE IInv'
<1> USE DEF IInv, Restart
<1>1. \A r \in Requests : req'[r] \in {req[r], Idle}
  OBVIOUS
<1>2. \A r \in Requests : CallOK(req'[r], file, risk)
  BY <1>1, IdleOK DEF Calling
<1>3. Calling'
  BY <1>2 DEF Calling, CallOK
<1>4. NoStaleSession' /\ RevokedInv' /\ NoBootstrapSession' /\ Others'
  BY DEF NoStaleSession, RevokedInv, NoBootstrapSession, Listed, HasAdmin, IsAdmin, Of, Others
<1> QED  BY <1>3, <1>4

-----------------------------------------------------------------------------
(* The steps that write users.json.                                          *)

\* The file a password change, or the script, writes: it differs from the one
\* there in its own user, and in users on the record.
LEMMA NewFileOK ==
    ASSUME IInv, NEW r \in Requests, At(r, "hash")
    PROVE  /\ req[r].user \in Users /\ req[r].pw \in Passwords /\ req[r].snap \in Files
           /\ NewFile(r) \in Files
           /\ \A v \in Users \ {req[r].user} : NewFile(r)[v] = req[r].snap[v]
           /\ \A v \in Users \ (risk \cup {req[r].user}) : NewFile(r)[v] = file[v]
           /\ NewFile(r)[req[r].user] # NoUser /\ NewFile(r)[req[r].user].pw = req[r].pw
           /\ ~IsScript(r) => /\ req[r].snap[req[r].user] # NoUser
                              /\ NewFile(r)[req[r].user].enabled = req[r].snap[req[r].user].enabled
                              /\ NewFile(r)[req[r].user].admin = req[r].snap[req[r].user].admin
<1> DEFINE u == req[r].user
           f == req[r].snap
           a == [pw |-> req[r].pw, enabled |-> TRUE,
                 admin |-> req[r].kind = "promote" \/ (f[u] # NoUser /\ f[u].admin)]
<1>1. CallOK(req[r], file, risk) /\ req[r] \in CallType
  BY DEF IInv, Calling
<1>2. u \in Users /\ req[r].pw \in Passwords /\ f \in Files /\ \A v \in Users \ risk : f[v] = file[v]
  BY <1>1 DEF CallOK, CallType, At
<1>3. CASE IsScript(r)
  <2>1. a \in Account
    <3>1. CASE req[r].kind = "promote" \/ (f[u] # NoUser /\ f[u].admin)
      <4>1. (req[r].kind = "promote" \/ (f[u] # NoUser /\ f[u].admin)) = TRUE
        BY <3>1
      <4> QED  BY <1>2, <4>1 DEF Account
    <3>2. CASE ~(req[r].kind = "promote" \/ (f[u] # NoUser /\ f[u].admin))
      <4>1. (req[r].kind = "promote" \/ (f[u] # NoUser /\ f[u].admin)) = FALSE
        BY <3>2
      <4> QED  BY <1>2, <4>1 DEF Account
    <3> QED  BY <3>1, <3>2
  <2>2. NewFile(r) = [f EXCEPT ![u] = a]
    BY <1>3 DEF NewFile
  <2>3. a.pw = req[r].pw
    OBVIOUS
  <2> HIDE DEF a
  <2>4. NewFile(r) \in Files /\ NewFile(r)[u] = a /\ \A v \in Users \ {u} : NewFile(r)[v] = f[v]
    BY <1>2, <2>1, <2>2 DEF Files
  <2> QED  BY <1>2, <1>3, <2>1, <2>3, <2>4, NamesAssumption
<1>4. CASE ~IsScript(r)
  <2>1. f[u] # NoUser /\ f[u] \in Account
    BY <1>1, <1>2, <1>4 DEF CallOK, IsScript, At, Files
  <2>2. NewFile(r) = [f EXCEPT ![u] = [f[u] EXCEPT !.pw = req[r].pw]]
    BY <1>4 DEF NewFile
  <2>3. [f[u] EXCEPT !.pw = req[r].pw] \in Account
    BY <1>2, <2>1 DEF Account
  <2>4. /\ NewFile(r) \in Files /\ NewFile(r)[u] = [f[u] EXCEPT !.pw = req[r].pw]
        /\ \A v \in Users \ {u} : NewFile(r)[v] = f[v]
    BY <1>2, <2>2, <2>3 DEF Files
  <2>5. /\ NewFile(r)[u].pw = req[r].pw /\ NewFile(r)[u].enabled = f[u].enabled
        /\ NewFile(r)[u].admin = f[u].admin
    BY <2>1, <2>4 DEF Account
  <2> QED  BY <1>2, <2>1, <2>3, <2>4, <2>5, NamesAssumption
<1> QED  BY <1>3, <1>4

LEMMA WriteFileStep ==
    ASSUME IInv, NEW r \in Requests, WriteFile(r) PROVE IInv'
<1> PICK u \in Users : u = req[r].user
  BY NewFileOK DEF WriteFile
<1> DEFINE g == NewFile(r)
           n == [req[r] EXCEPT !.pc = "evict", !.snap = NoFile]
           more == (IF IsScript(r) THEN {u} ELSE {})
                     \cup (IF ~HasAdmin(file) /\ HasAdmin(g) THEN {Bootstrap} ELSE {})
<1> USE DEF IInv
<1>1. /\ u \in Users /\ req[r].pw \in Passwords /\ req[r].snap \in Files /\ g \in Files
      /\ \A v \in Users \ (risk \cup {u}) : g[v] = file[v]
      /\ g[u] # NoUser /\ g[u].pw = req[r].pw
      /\ ~IsScript(r) => req[r].snap[u] # NoUser /\ g[u].enabled = req[r].snap[u].enabled
  BY NewFileOK DEF WriteFile
<1>2. /\ Save(g, Requests \ {r}, more) /\ UNCHANGED <<sessions, calls>> /\ At(r, "hash")
      /\ IsScript(r) => Return(r) /\ revoked' = revoked \ {u}
      /\ ~IsScript(r) => req' = [req EXCEPT ![r] = n] /\ revoked' = revoked
  BY DEF WriteFile, Goto
<1>3. file' = g /\ risk \cup more \subseteq risk' /\ risk' \subseteq Users \cup {Bootstrap}
  BY <1>1, <1>2 DEF Save, Overtaken, Late, Others
<1>4. \A q \in Requests \ {r} : CallOK(req[q], file', risk')
  BY <1>1, <1>2, SaveOK DEF Others, Calling
<1>5. req[r] \in CallType /\ CallOK(req[r], file, risk)
  BY DEF Calling
<1>6. CASE IsScript(r)
  <2>1. Calling'
    BY <1>2, <1>4, <1>6, IdleOK, OneCall DEF Return
  <2>2. ~At(r, "evict")
    BY <1>2 DEF At
  <2>3. \A v \in Users : Evicting(v) => Evicting(v)'
    BY <1>2, <1>6, <2>2, EvictingKept DEF Return
  <2>4. \A v \in Users \ risk' : g[v] = file[v] /\ v # u
    BY <1>1, <1>3, <1>6
  <2>5. \A v \in Users \ risk' : ~NewPassword(g, v)
    BY <2>4 DEF NewPassword
  <2>6. NoStaleSession'
    BY <1>1, <1>2, <1>3, <2>3, <2>5, StaleKept
  <2>7. RevokedInv'
    BY <1>2, <1>3, <1>6, <2>4 DEF RevokedInv, Listed, Others
  <2>8. NoBootstrapSession'
    BY <1>2, <1>3 DEF NoBootstrapSession, Of
  <2>9. Others'
    BY <1>1, <1>2, <1>3, <1>6 DEF Others
  <2> QED  BY <2>1, <2>6, <2>7, <2>8, <2>9
<1>7. CASE ~IsScript(r)
  <2>1. NoFile \in Files
    BY DEF NoFile, Files
  <2>2. n \in CallType /\ n.pc = "evict" /\ n.user = u /\ n.pw = req[r].pw
    BY <1>5, <2>1 DEF CallType
  <2>3. CallOK(n, g, risk')
    BY <1>1, <2>2 DEF CallOK, Opens
  <2> HIDE DEF n
  <2>4. Calling'
    BY <1>2, <1>3, <1>4, <1>7, <2>3, OneCall
  <2>5. ~At(r, "evict")
    BY <1>2 DEF At
  <2>6. \A v \in Users : Evicting(v) => Evicting(v)'
    BY <1>2, <1>7, <2>5, EvictingKept
  <2>7. Evicting(u)'
    BY <1>2, <1>7, <2>2 DEF Evicting, At, Calling
  <2>8. \A v \in Users \ risk' : v # u => g[v] = file[v]
    BY <1>1, <1>3
  <2>9. \A v \in Users \ risk' : NewPassword(g, v) => Evicting(v)'
    <3> SUFFICES ASSUME NEW v \in Users \ risk', NewPassword(g, v) PROVE Evicting(v)'
      OBVIOUS
    <3>1. v = u
      BY <2>8 DEF NewPassword
    <3> QED  BY <2>7, <3>1 DEF Evicting
  <2>10. NoStaleSession'
    BY <1>1, <1>2, <1>3, <2>6, <2>9, StaleKept
  <2>11. u \notin risk => req[r].snap[u] = file[u]
    BY <1>1, <1>2, <1>5 DEF CallOK, At
  <2>12. RevokedInv'
    <3> SUFFICES ASSUME NEW v \in revoked \ risk' PROVE g[v] # NoUser /\ ~g[v].enabled
      BY <1>2, <1>3, <1>7 DEF RevokedInv
    <3>1. v \in Users \ risk /\ file[v] # NoUser /\ ~file[v].enabled
      BY <1>3 DEF RevokedInv, Others
    <3>2. CASE v # u
      BY <2>8, <3>1, <3>2
    <3>3. CASE v = u
      BY <1>1, <1>7, <2>11, <3>1, <3>3
    <3> QED  BY <3>2, <3>3
  <2>13. NoBootstrapSession'
    BY <1>2, <1>3 DEF NoBootstrapSession, Of
  <2>14. Others'
    BY <1>1, <1>2, <1>3, <1>7 DEF Others
  <2> QED  BY <2>4, <2>10, <2>12, <2>13, <2>14
<1> QED  BY <1>6, <1>7

\* An edit by an admin, in one step: it sets no password that is not on record,
\* and the sessions of the brain key go with the first admin.
LEMMA EditStep ==
    ASSUME IInv, NEW f \in Files, NEW more \in SUBSET Users, Save(f, Requests, more),
           \A u \in Users \ more : ~NewPassword(f, u),
           sessions' \subseteq sessions,
           HasAdmin(file) \/ ~HasAdmin(f) \/ sessions' = sessions \ Of(Bootstrap),
           revoked' \subseteq Users,
           \A u \in revoked' \ risk : (u \in revoked /\ f[u] = file[u]) \/ (f[u] # NoUser /\ ~f[u].enabled),
           calls' \in 0..MaxCalls,
           \/ req' = req
           \/ \E r \in Requests : \E c : /\ At(r, "idle") /\ req' = [req EXCEPT ![r] = c]
                                         /\ CallOK(c, f, risk')
    PROVE  IInv'
<1> USE DEF IInv
<1>1. file' = f /\ risk \cup more \subseteq risk' /\ risk' \subseteq Users \cup {Bootstrap}
  BY DEF Save, Overtaken, Late, Others
<1>2. \A q \in Requests : CallOK(req[q], file', risk')
  BY SaveOK DEF Others, Calling
<1>3. Calling' /\ \A v \in Users : Evicting(v) => Evicting(v)'
  <2>1. CASE req' = req
    BY <1>2, <2>1 DEF Calling, Evicting, At
  <2>2. CASE \E r \in Requests : \E c : /\ At(r, "idle") /\ req' = [req EXCEPT ![r] = c]
                                        /\ CallOK(c, f, risk')
    <3> PICK r \in Requests : \E c : /\ At(r, "idle") /\ req' = [req EXCEPT ![r] = c]
                                     /\ CallOK(c, f, risk')
      BY <2>2
    <3> PICK c : At(r, "idle") /\ req' = [req EXCEPT ![r] = c] /\ CallOK(c, f, risk')
      OBVIOUS
    <3>1. ~At(r, "evict")
      BY DEF At
    <3> QED  BY <1>1, <1>2, <3>1, OneCall, EvictingKept
  <2> QED  BY <2>1, <2>2
<1>4. NoStaleSession'
  BY <1>1, <1>3, StaleKept
<1>5. RevokedInv'
  BY <1>1 DEF RevokedInv, Listed
<1>6. NoBootstrapSession'
  BY <1>1 DEF NoBootstrapSession, Of
<1> QED  BY <1>1, <1>3, <1>4, <1>5, <1>6 DEF Others

LEMMA AddOK ==
    ASSUME IInv, NEW u \in Users, NEW a \in BOOLEAN, Add(u, a)
    PROVE  \E f \in Files :
              /\ Save(f, Requests, {}) /\ \A v \in Users : ~NewPassword(f, v)
              /\ sessions' \subseteq sessions
              /\ HasAdmin(file) \/ ~HasAdmin(f) \/ sessions' = sessions \ Of(Bootstrap)
              /\ revoked' = revoked /\ \A v \in revoked' \ risk : f[v] = file[v]
<1> DEFINE e == [pw |-> NoPw, admin |-> a, enabled |-> TRUE]
           f == [file EXCEPT ![u] = e]
<1>1. file \in Files /\ revoked \subseteq Users
  BY DEF IInv, Others
<1>2. e \in Account /\ e.pw = NoPw /\ e.admin = a /\ e # NoUser
  <2>1. e \in Account
    BY DEF Account
  <2>2. e.pw = NoPw /\ e.admin = a
    OBVIOUS
  <2> QED  BY <2>1, <2>2, NamesAssumption
<1> HIDE DEF e
<1>3. f \in Files /\ f[u] = e /\ \A v \in Users : v # u => f[v] = file[v]
  BY <1>1, <1>2 DEF Files
<1>4. Save(f, Requests, {}) /\ file[u] = NoUser /\ revoked' = revoked
      /\ sessions' = IF a THEN sessions \ Of(Bootstrap) ELSE sessions
  BY DEF Add, e
<1>5. \A v \in Users : ~NewPassword(f, v)
  BY <1>2, <1>3 DEF NewPassword
<1>6. ~a => (HasAdmin(f) => HasAdmin(file))
  BY <1>2, <1>3 DEF HasAdmin, IsAdmin, Listed
<1>7. \A v \in revoked \ risk : f[v] = file[v]
  BY <1>1, <1>3, <1>4 DEF IInv, RevokedInv
<1> HIDE DEF f
<1> QED  BY <1>3, <1>4, <1>5, <1>6, <1>7

\* An edit that is no handler in progress.
LEMMA CreateStep ==
    ASSUME IInv, NEW u \in Users, NEW a \in BOOLEAN, Create(u, a) PROVE IInv'
<1>1. Add(u, a) /\ calls' \in 0..MaxCalls /\ req' = req
  BY CalledOK DEF Create, IInv
<1>2. revoked \subseteq Users
  BY DEF IInv, Others
<1> QED  BY <1>1, <1>2, AddOK, EditStep

LEMMA CreateInvitedStep ==
    ASSUME IInv, NEW r \in Requests, NEW u \in Users, NEW a \in BOOLEAN, CreateInvited(r, u, a)
    PROVE  IInv'
<1> DEFINE c == [kind |-> "issue", user |-> u, pc |-> "issue", pw |-> NoPw, snap |-> NoFile]
<1>1. Add(u, a) /\ calls' \in 0..MaxCalls /\ At(r, "idle") /\ req' = [req EXCEPT ![r] = c]
  BY CalledOK DEF CreateInvited, Begin, IInv
<1>2. revoked \subseteq Users
  BY DEF IInv, Others
<1>3. \A f : CallOK(c, f, risk')
  BY FreshOK DEF KindNames
<1> HIDE DEF c
<1> QED  BY <1>1, <1>2, <1>3, AddOK, EditStep

LEMMA UpdateStep ==
    ASSUME IInv, NEW u \in Users, NEW a \in BOOLEAN, Update(u, a) PROVE IInv'
<1> DEFINE e == [file[u] EXCEPT !.admin = a]
           f == Patched(u, a)
<1>1. file \in Files /\ revoked \subseteq Users /\ file[u] \in Account
  BY DEF IInv, Others, Update, Files
<1>2. e \in Account /\ e.pw = file[u].pw /\ e.enabled = file[u].enabled /\ e.admin = a
  BY <1>1 DEF Account
<1>3. f = [file EXCEPT ![u] = e]
  BY DEF Patched
<1> HIDE DEF e, f
<1>4. f \in Files /\ f[u] = e /\ \A v \in Users : v # u => f[v] = file[v]
  BY <1>1, <1>2, <1>3 DEF Files
<1>5. /\ Save(f, Requests, {}) /\ calls' \in 0..MaxCalls /\ UNCHANGED <<req, revoked>>
      /\ file[u] # NoUser /\ sessions' = IF a THEN sessions \ Of(Bootstrap) ELSE sessions
  BY CalledOK DEF Update, IInv, f
<1>6. \A v \in Users : ~NewPassword(f, v)
  BY <1>2, <1>4, <1>5 DEF NewPassword
<1>7. ~a => (HasAdmin(f) => HasAdmin(file))
  BY <1>2, <1>4, <1>5 DEF HasAdmin, IsAdmin, Listed
<1>8. \A v \in revoked \ risk : f[v] = file[v] \/ (f[v] # NoUser /\ ~f[v].enabled)
  BY <1>1, <1>2, <1>4, NamesAssumption DEF IInv, RevokedInv
<1> QED  BY <1>1, <1>4, <1>5, <1>6, <1>7, <1>8, EditStep

LEMMA RevokeStep ==
    ASSUME IInv, NEW r \in Requests, NEW u \in Users, Revoke(r, u) PROVE IInv'
<1> DEFINE e == [file[u] EXCEPT !.enabled = FALSE]
           f == [file EXCEPT ![u] = e]
           c == [kind |-> "delete", user |-> u, pc |-> "tokens", pw |-> NoPw, snap |-> NoFile]
<1>1. file \in Files /\ revoked \subseteq Users /\ file[u] \in Account /\ file[u] # NoUser
  BY DEF IInv, Others, Revoke, Files
<1>2. e \in Account /\ e.pw = file[u].pw /\ ~e.enabled
  BY <1>1 DEF Account
<1>3. f \in Files /\ f[u] = e /\ \A v \in Users : v # u => f[v] = file[v]
  BY <1>1, <1>2 DEF Files
<1>4. /\ Save(f, Requests, {}) /\ calls' \in 0..MaxCalls /\ revoked' = revoked \cup {u}
      /\ At(r, "idle") /\ req' = [req EXCEPT ![r] = c] /\ sessions' = sessions
  BY CalledOK DEF Revoke, Begin, IInv
<1>5. CallOK(c, f, risk')
  BY FreshOK DEF KindNames
<1> HIDE DEF e, f, c
<1>6. \A v \in Users : ~NewPassword(f, v)
  BY <1>1, <1>2, <1>3 DEF NewPassword
<1>7. HasAdmin(f) => HasAdmin(file)
  BY <1>2, <1>3 DEF HasAdmin, IsAdmin, Listed
<1>8. \A v \in revoked' \ risk : (v \in revoked /\ f[v] = file[v]) \/ (f[v] # NoUser /\ ~f[v].enabled)
  BY <1>1, <1>2, <1>3, <1>4, NamesAssumption
<1>9. revoked' \subseteq Users
  BY <1>1, <1>4
<1> QED  BY <1>3, <1>4, <1>5, <1>6, <1>7, <1>8, <1>9, EditStep

LEMMA RawStep ==
    ASSUME IInv, NEW f \in RawFiles, Raw(f) PROVE IInv'
<1> DEFINE more == {u \in Users : NewPassword(f, u)}
<1>1. f \in Files /\ revoked' \subseteq Users /\ more \in SUBSET Users
  BY FilesAssumption DEF IInv, Others, Raw
<1>2. /\ Save(f, Requests, more) /\ calls' \in 0..MaxCalls /\ req' = req
      /\ sessions' = IF HasAdmin(file) THEN sessions ELSE sessions \ Of(Bootstrap)
      /\ \A u \in revoked' : f[u] # NoUser /\ ~f[u].enabled
  BY CalledOK DEF Raw, IInv
<1>3. \A u \in Users \ more : ~NewPassword(f, u)
  OBVIOUS
<1> HIDE DEF more
<1> QED  BY <1>1, <1>2, <1>3, EditStep

-----------------------------------------------------------------------------
LEMMA InitIInv == Init => IInv
<1> SUFFICES ASSUME Init PROVE IInv
  OBVIOUS
<1>1. Calling
  BY IdleOK DEF Init, Calling, CallOK
<1> QED  BY <1>1, FilesAssumption, BoundAssumption DEF Init, IInv, Others, NoStaleSession, RevokedInv,
        NoBootstrapSession, Of

\* A call that begins, or a step of one in progress.
LEMMA CallsStep ==
    ASSUME IInv, NEW r \in Requests, Calls(r) PROVE IInv'
<1>1. ASSUME NEW u \in Users, NEW p \in Passwords, Change(r, u, p) \/ AdminSet(r, u, p) \/ Script(r, u, p)
      PROVE  IInv'
  BY <1>1, BeginStep DEF Change, AdminSet, Script, KindNames
<1>2. ASSUME NEW t \in Tokens, NEW p \in Passwords, Reset(r, t, p) PROVE IInv'
  <2>1. Owner[t] \in Users
    BY OwnerAssumption
  <2>2. CASE t \in Invites
    BY <1>2, <2>1, <2>2, BeginStep DEF Reset, KindNames
  <2>3. CASE t \notin Invites
    BY <1>2, <2>1, <2>3, BeginStep DEF Reset, KindNames
  <2> QED  BY <2>2, <2>3
<1>3. ASSUME NEW u \in Users, Ask(r, u) PROVE IInv'
  BY <1>3, BeginStep DEF Ask, KindNames
<1> QED  BY <1>1, <1>2, <1>3, LoginStep, RevokeStep, CreateInvitedStep DEF Calls

LEMMA StepsStep ==
    ASSUME IInv, NEW r \in Requests, Steps(r) PROVE IInv'
<1>1. CASE AskCurrent(r)
  <2>1. At(r, "body") /\ UNCHANGED <<file, sessions, revoked, risk, calls>>
    BY <1>1 DEF AskCurrent
  <2>2. Goto(r, "current") \/ Goto(r, "set")
    BY <1>1 DEF AskCurrent
  <2> QED  BY <2>1, <2>2, GotoStep
<1>2. CASE CurrentDone(r)
  <2>1. At(r, "current") /\ ~At(r, "evict") /\ UNCHANGED <<file, sessions, revoked, risk, calls>>
    BY <1>2 DEF CurrentDone, At
  <2> QED  BY <1>2, <2>1, GotoStep, ReturnStep DEF CurrentDone
<1>3. CASE IssueDone(r)
  <2>1. ~At(r, "evict") /\ Return(r) /\ UNCHANGED <<file, sessions, revoked, risk, calls>>
    BY <1>3 DEF IssueDone, At
  <2> QED  BY <2>1, ReturnStep
<1> QED  BY <1>1, <1>2, <1>3, LoginDoneStep, LoadFileStep, WriteFileStep, EvictStep, RevokeTokensStep,
        NewSessionStep DEF Steps

LEMMA NextIInv == IInv /\ [Next]_avars => IInv'
<1> SUFFICES ASSUME IInv, [Next]_avars PROVE IInv'
  OBVIOUS
<1>1. CASE UNCHANGED avars
  BY <1>1 DEF avars, IInv, Others, Calling, NoStaleSession, RevokedInv, NoBootstrapSession, Of,
              HasAdmin, IsAdmin, Listed, Evicting, At
<1>2. CASE Next
  BY <1>2, CallsStep, StepsStep, CreateStep, UpdateStep, RawStep, BootstrapLoginStep, SessionEndsStep,
     RestartStep DEF Next
<1> QED  BY <1>1, <1>2

-----------------------------------------------------------------------------
\* Outside the record, what a handler holds of users.json is what is there, and
\* sessions are of the password that is there.
THEOREM InductiveInvariant == Spec => []IInv
BY InitIInv, NextIInv, PTL DEF Spec

\* Types; and no password is on its way to a user that is not there.
THEOREM TypeCorrect == Spec => []TypeOK
<1>1. IInv => TypeOK
  BY DEF IInv, Others, Calling, CallOK, CallType, KindNames, TypeOK, At
<1> QED  BY <1>1, InductiveInvariant, PTL

\* revokeUser, through any handlers, scripts, edits and restarts: the revoked
\* user stays out if no write overtook another that concerned the user.
THEOREM RevokedAreOut == Spec => []RevocationHolds
<1>1. IInv => RevocationHolds
  BY DEF IInv, RevokedInv, RevocationHolds, Listed
<1> QED  BY <1>1, InductiveInvariant, PTL

\* A password change closes the sessions of the password before it.
THEOREM OldSessionsAreGone == Spec => []NoStaleSession
<1>1. IInv => NoStaleSession
  BY DEF IInv
<1> QED  BY <1>1, InductiveInvariant, PTL

\* The first global admin a handler makes closes the brain key's sessions.
THEOREM BrainKeyIsOut == Spec => []NoBootstrapSession
<1>1. IInv => NoBootstrapSession
  BY DEF IInv
<1> QED  BY <1>1, InductiveInvariant, PTL

-----------------------------------------------------------------------------
(* The last global admin.                                                    *)

\* Who writes back a file with an admin writes one.
LEMMA NewFileHasAdmin ==
    ASSUME IInv, NEW r \in Requests, At(r, "hash"), HasAdmin(req[r].snap)
    PROVE  HasAdmin(NewFile(r))
<1> PICK w \in Users : IsAdmin(req[r].snap, w)
  BY DEF HasAdmin
<1>1. CASE w # req[r].user
  BY <1>1, NewFileOK DEF HasAdmin, IsAdmin, Listed
<1>2. CASE w = req[r].user /\ ~IsScript(r)
  BY <1>2, NewFileOK DEF HasAdmin, IsAdmin, Listed
<1>3. CASE w = req[r].user /\ IsScript(r)
  <2> DEFINE f == req[r].snap
             a == [pw |-> req[r].pw, enabled |-> TRUE,
                   admin |-> req[r].kind = "promote" \/ (f[w] # NoUser /\ f[w].admin)]
  <2>1. NewFile(r) = [f EXCEPT ![w] = a] /\ f \in Files /\ w \in Users
    BY <1>3, NewFileOK DEF NewFile
  <2>2. a.enabled /\ a.admin
    BY <1>3 DEF IsAdmin, Listed
  <2> HIDE DEF a
  <2>3. NewFile(r)[w] = a
    BY <2>1 DEF Files
  <2>4. NewFile(r)[w] # NoUser
    BY <1>3, NewFileOK
  <2> QED  BY <2>2, <2>3, <2>4 DEF HasAdmin, IsAdmin, Listed
<1> QED  BY <1>1, <1>2, <1>3

\* Whatever holds a file to write back held it before, or reads it now.
Handed == \A r \in Requests : At(r, "hash")' => \/ At(r, "hash") /\ req'[r].snap = req[r].snap
                                               \/ req'[r].snap = file

LEMMA SealedStep ==
    ASSUME Sealed, Handed, HasAdmin(file') PROVE Sealed'
BY DEF Sealed, Handed, At

LEMMA BeginHands ==
    ASSUME Calling, NEW r \in Requests, NEW k, NEW u, NEW c, NEW p, c # "hash", Begin(r, k, u, c, p)
    PROVE  Handed
BY DEF Calling, Begin, Handed, At

LEMMA CallHands ==
    ASSUME Calling, NEW r \in Requests, Return(r) \/ \E c \in {"current", "set", "evict", "tokens", "session"} : Goto(r, c)
    PROVE  Handed
<1>1. Idle.pc # "hash"
  BY DEF Idle
<1>2. CASE Return(r)
  BY <1>1, <1>2 DEF Calling, Return, Handed, At
<1>3. ASSUME NEW c \in {"current", "set", "evict", "tokens", "session"}, Goto(r, c) PROVE Handed
  <2>1. \A q \in Requests : q # r => req'[q] = req[q]
    BY <1>3 DEF Calling, Goto
  <2>2. req'[r].pc = c
    BY <1>3 DEF Calling, Goto, CallType
  <2> QED  BY <2>1, <2>2 DEF Handed, At
<1> QED  BY <1>2, <1>3

LEMMA SealedNext == IInv /\ [Next]_avars => (Sealed => Sealed')
<1> SUFFICES ASSUME IInv, [Next]_avars, Sealed PROVE Sealed'
  OBVIOUS
<1> USE DEF IInv
<1>1. CASE UNCHANGED avars
  BY <1>1 DEF avars, Sealed, At
<1>2. ASSUME NEW r \in Requests, Calls(r) PROVE Sealed'
  <2>1. Handed
    BY <1>2, BeginHands DEF Calls, Login, Change, AdminSet, Reset, Script, Ask, Revoke, CreateInvited
  <2>2. CASE file' = file
    BY <2>1, <2>2, SealedStep DEF Sealed
  <2>3. ASSUME NEW u \in Users, Revoke(r, u) PROVE HasAdmin(file')
    BY <2>3 DEF Revoke, Save
  <2>4. ASSUME NEW u \in Users, NEW a \in BOOLEAN, Add(u, a) PROVE HasAdmin(file')
    <3>1. file \in Files /\ \A v \in Users : file[v] # NoUser => file'[v] = file[v]
      BY <2>4 DEF Others, Add, Save, Files
    <3> QED  BY <3>1 DEF Sealed, HasAdmin, IsAdmin, Listed
  <2> QED  BY <1>2, <2>1, <2>2, <2>3, <2>4, SealedStep DEF Calls, Login, Change, AdminSet, Reset, Script, Ask,
                                                  CreateInvited
<1>3. ASSUME NEW r \in Requests, Steps(r) PROVE Sealed'
  <2>1. CASE WriteFile(r)
    <3>1. At(r, "hash") /\ file' = NewFile(r) /\ (Return(r) \/ Goto(r, "evict"))
      BY <2>1 DEF WriteFile, Save
    <3>2. Handed
      BY <3>1, CallHands
    <3> QED  BY <3>1, <3>2, NewFileHasAdmin, SealedStep DEF Sealed
  <2>2. CASE LoadFile(r)
    <3>1. CASE Return(r)
      BY <2>2, <3>1, CallHands, SealedStep DEF LoadFile, Sealed
    <3>2. CASE req' = [req EXCEPT ![r].pc = "hash", ![r].snap = file]
      <4>1. req'[r].snap = file /\ \A q \in Requests : q # r => req'[q] = req[q]
        BY <3>2 DEF Calling, CallType
      <4> QED  BY <2>2, <4>1, SealedStep DEF Handed, LoadFile, Sealed, At
    <3> QED  BY <2>2, <3>1, <3>2 DEF LoadFile
  <2>3. CASE ~WriteFile(r) /\ ~LoadFile(r)
    <3>1. file' = file
      BY <1>3, <2>3 DEF Steps, LoginDone, AskCurrent, CurrentDone, Evict, RevokeTokens, NewSession, IssueDone
    <3>2. Return(r) \/ \E c \in {"current", "set", "evict", "tokens", "session"} : Goto(r, c)
      BY <1>3, <2>3 DEF Steps, LoginDone, AskCurrent, CurrentDone, Evict, RevokeTokens, NewSession, IssueDone
    <3> QED  BY <3>1, <3>2, CallHands, SealedStep DEF Sealed
  <2> QED  BY <2>1, <2>2, <2>3
<1>4. ASSUME NEW u \in Users, NEW a \in BOOLEAN, Create(u, a) \/ Update(u, a) PROVE Sealed'
  <2>1. Handed
    BY <1>4 DEF Create, Update, Handed, At
  <2>2. CASE Create(u, a)
    <3>1. file \in Files /\ \A v \in Users : file[v] # NoUser => file'[v] = file[v]
      BY <2>2 DEF Others, Create, Add, Save, Files
    <3> QED  BY <2>1, <3>1, SealedStep DEF Sealed, HasAdmin, IsAdmin, Listed
  <2>3. CASE Update(u, a)
    BY <2>1, <2>3, SealedStep DEF Update, Save
  <2> QED  BY <1>4, <2>2, <2>3
<1>5. ASSUME NEW f \in RawFiles, Raw(f) PROVE Sealed'
  BY <1>5, SealedStep DEF Raw, Save, Handed, At
<1>6. CASE BootstrapLogin \/ \E s \in sessions : SessionEnds(s)
  BY <1>6, SealedStep DEF BootstrapLogin, SessionEnds, Handed, At, Sealed
<1>7. CASE Restart
  <2>1. Idle.pc # "hash"
    BY DEF Idle
  <2> QED  BY <1>7, <2>1, SealedStep DEF Restart, Handed, At, Sealed
<1> QED  BY <1>1, <1>2, <1>3, <1>4, <1>5, <1>6, <1>7 DEF Next

\* _wouldLeaveZeroAdmins: the last global admin stays, whatever overlaps.
THEOREM AnAdminRemains == Spec => AdminRemains
<1>1. IInv /\ [Next]_avars => [Sealed => Sealed']_avars
  BY SealedNext
<1> QED  BY <1>1, InductiveInvariant, PTL DEF Spec, AdminRemains
=============================================================================
