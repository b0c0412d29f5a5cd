------------------------------- MODULE Accounts -------------------------------
(***************************************************************************)
(* Accounts and who may act for them: users.json (server/users.ts), the     *)
(* sessions in memory (server/auth/sessions.ts), the handlers that change   *)
(* either (server/routes/auth.ts, routes/admin.ts) and the break-glass      *)
(* script, a process of its own (server/scripts/reset-admin.ts).  Functions *)
(* without an await are one step; a handler that awaits a hash or the token *)
(* store goes on later, with what it has read before.  The token store is   *)
(* used as TokenService specifies it.  Some global admin, or the brain key, *)
(* can always call the admin routes, so these have no guard of their own.   *)
(***************************************************************************)
EXTENDS Naturals

CONSTANTS
    Users,
    Passwords,
    Tokens,
    Owner,     \* the user each token is for
    Invites,   \* the tokens that are invites; the others are resets
    Requests,  \* the handlers that can be in progress at the same time
    Kinds,     \* for each of them, what it may be a call of
    RawFiles,  \* the contents that are typed into the raw editor
    Starts,    \* the contents users.json may have at first
    MaxCalls,  \* bound: the calls of handlers, the script and the raw editor
    Bootstrap, \* the user name _admin
    NoUser, NoPw

Account == [pw : Passwords \cup {NoPw}, admin : BOOLEAN, enabled : BOOLEAN]
Files   == [Users -> Account \cup {NoUser}]
NoFile  == [u \in Users |-> NoUser]

ASSUME OwnerAssumption == Owner \in [Tokens -> Users]
ASSUME FilesAssumption == Starts \subseteq Files /\ RawFiles \subseteq Files
ASSUME BoundAssumption == MaxCalls \in Nat
ASSUME NamesAssumption ==
    NoUser \notin Account /\ NoPw \notin Passwords /\ Bootstrap \notin Users

VARIABLES
    file,     \* users.json
    sessions, \* _sessions, each with the password it was opened under
    req,      \* the handlers in progress
    valid, ever, spent, expired, forfeit,  \* the token store
    revoked,  \* history: the users revoked and not enabled on purpose since
    calls,    \* how many calls there have been
    risk      \* history: the users an overlap, the script or the raw editor has
              \* met; _admin if one of the first two made the first admin

tokens == <<valid, ever, spent, expired, forfeit>>
avars  == <<file, sessions, req, tokens, revoked, calls, risk>>

T == INSTANCE TokenService

Listed(f, u) == f[u] # NoUser /\ f[u].enabled
IsAdmin(f, u) == Listed(f, u) /\ f[u].admin
\* hasRealGlobalAdmin, and the negation of _wouldLeaveZeroAdmins.
HasAdmin(f) == \E u \in Users : IsAdmin(f, u)

Of(u) == {s \in sessions : s.user = u}
Idle  == [kind |-> "none", user |-> Bootstrap, pc |-> "idle", pw |-> NoPw, snap |-> NoFile]
At(r, c) == req[r].pc = c
Called == calls < MaxCalls /\ calls' = calls + 1
Begin(r, k, u, c, p) ==
    /\ k \in Kinds[r] /\ At(r, "idle") /\ Called
    /\ req' = [req EXCEPT ![r] = [kind |-> k, user |-> u, pc |-> c, pw |-> p, snap |-> NoFile]]
Goto(r, c) == req' = [req EXCEPT ![r].pc = c, ![r].snap = NoFile]
Return(r)  == req' = [req EXCEPT ![r] = Idle]

Init ==
    /\ file \in Starts
    /\ sessions = {} /\ req = [r \in Requests |-> Idle]
    /\ T!SInit
    /\ revoked = {u \in Users : file[u] # NoUser /\ ~file[u].enabled}
    /\ calls = 0 /\ risk = {}

-----------------------------------------------------------------------------
(* What a write of users.json meets, for the record.                        *)

\* f gives u another password, or a password again.
NewPassword(f, u) ==
    /\ f[u] # NoUser /\ f[u].pw # NoPw
    /\ file[u] # NoUser => file[u].pw # f[u].pw

\* Somebody else holds an older users.json, to write it back ...
Overtaken(f, R) == {u \in Users : f[u] # file[u] /\ \E q \in R : At(q, "hash")}

\* ... or is about to open a session, under an older password.
Late(f, R) ==
    {u \in Users : /\ NewPassword(f, u)
                   /\ \E q \in R : req[q].user = u /\ req[q].pc \in {"verify", "evict", "tokens", "session"}}

\* _atomicWrite, and the script's; R are the other handlers in progress.
Save(f, R, more) ==
    file' = f /\ risk' = risk \cup Overtaken(f, R) \cup Late(f, R) \cup more

-----------------------------------------------------------------------------
(* Logins.                                                                  *)

\* The brain key opens a session while there is no global admin.
BootstrapLogin ==
    /\ ~HasAdmin(file)
    /\ sessions' = sessions \cup {[user |-> Bootstrap, pw |-> NoPw]}
    /\ UNCHANGED <<file, req, tokens, revoked, risk, calls>>

\* verifyPassword reads the user's hash, then compares; a wrong password is NoPw.
Login(r, u, p) ==
    /\ Listed(file, u) /\ file[u].pw # NoPw
    /\ Begin(r, "login", u, "verify", IF file[u].pw = p THEN p ELSE NoPw)
    /\ UNCHANGED <<file, sessions, tokens, revoked, risk>>

LoginDone(r) ==
    /\ At(r, "verify")
    /\ sessions' = IF req[r].pw = NoPw THEN sessions
                   ELSE sessions \cup {[user |-> req[r].user, pw |-> req[r].pw]}
    /\ Return(r)
    /\ UNCHANGED <<file, tokens, revoked, risk, calls>>

\* A logout, or the end of the twelve hours.
SessionEnds(s) ==
    /\ sessions' = sessions \ {s}
    /\ UNCHANGED <<file, req, tokens, revoked, risk, calls>>

-----------------------------------------------------------------------------
(* The ways to a new password.                                              *)

\* POST /auth/change-password: the middleware has accepted the caller.
Change(r, u, p) ==
    /\ Listed(file, u)
    /\ Begin(r, "change", u, "body", p)
    /\ UNCHANGED <<file, sessions, tokens, revoked, risk>>

\* The current password is asked for if the list of enabled users has one.
AskCurrent(r) ==
    LET u == req[r].user
    IN  /\ At(r, "body")
        /\ IF Listed(file, u) /\ file[u].pw # NoPw
           THEN Goto(r, "current") ELSE Goto(r, "set")
        /\ UNCHANGED <<file, sessions, tokens, revoked, risk, calls>>

\* It is right or wrong.
CurrentDone(r) ==
    /\ At(r, "current")
    /\ Goto(r, "set") \/ Return(r)
    /\ UNCHANGED <<file, sessions, tokens, revoked, risk, calls>>

AdminSet(r, u, p) ==
    /\ Begin(r, "admin", u, "set", p)
    /\ UNCHANGED <<file, sessions, tokens, revoked, risk>>

\* POST /auth/reset-password: the token has gone before the password is set.
Reset(r, t, p) ==
    /\ T!Use(t)
    /\ Begin(r, IF t \in Invites THEN "invite" ELSE "reset", Owner[t], "set", p)
    /\ UNCHANGED <<file, sessions, revoked, risk>>

\* reset-admin.ts, with or without --promote: read, hash, write.
Script(r, u, p) ==
    /\ Begin(r, "script", u, "set", p) \/ Begin(r, "promote", u, "set", p)
    /\ UNCHANGED <<file, sessions, tokens, revoked, risk>>

IsScript(r) == req[r].kind \in {"script", "promote"}

\* Mutant: a user that is not there gets a password.
LoadFileAnyUser(r) ==
    /\ At(r, "set")
    /\ req' = [req EXCEPT ![r].pc = "hash", ![r].snap = file]
    /\ UNCHANGED <<file, sessions, tokens, revoked, risk, calls>>

\* setPassword reads the file, then waits for the hash.
LoadFile(r) ==
    /\ At(r, "set")
    /\ IF file[req[r].user] = NoUser /\ req[r].kind # "promote"
       THEN Return(r)
       ELSE req' = [req EXCEPT ![r].pc = "hash", ![r].snap = file]
    /\ UNCHANGED <<file, sessions, tokens, revoked, risk, calls>>

\* Mutant: a user with a new password is enabled.
NewFileEnables(r) ==
    LET u == req[r].user
        f == req[r].snap
    IN  [f EXCEPT ![u] = [pw |-> req[r].pw, enabled |-> TRUE,
                          admin |-> req[r].kind = "promote" \/ (f[u] # NoUser /\ f[u].admin)]]

\* What was read, with the new hash.  The script also enables the user, and
\* makes one up if it has to.
NewFile(r) ==
    LET u == req[r].user
        f == req[r].snap
    IN  IF ~IsScript(r) THEN [f EXCEPT ![u].pw = req[r].pw]
        ELSE [f EXCEPT ![u] = [pw |-> req[r].pw, enabled |-> TRUE,
                               admin |-> req[r].kind = "promote" \/ (f[u] # NoUser /\ f[u].admin)]]

\* The script closes no session, of the user or of the brain key.
WriteFile(r) ==
    /\ At(r, "hash")
    /\ Save(NewFile(r), Requests \ {r},
            (IF IsScript(r) THEN {req[r].user} ELSE {})
              \cup (IF ~HasAdmin(file) /\ HasAdmin(NewFile(r)) THEN {Bootstrap} ELSE {}))
    /\ IF IsScript(r) THEN Return(r) /\ revoked' = revoked \ {req[r].user}
                      ELSE Goto(r, "evict") /\ revoked' = revoked
    /\ UNCHANGED <<sessions, tokens, calls>>

\* Mutant: the sessions of the user stay.
EvictNone(r) ==
    /\ At(r, "evict") /\ Goto(r, "tokens")
    /\ UNCHANGED <<file, sessions, tokens, revoked, risk, calls>>

Evict(r) ==
    /\ At(r, "evict")
    /\ sessions' = sessions \ Of(req[r].user)
    /\ Goto(r, "tokens")
    /\ UNCHANGED <<file, tokens, revoked, risk, calls>>

RevokeTokens(r) ==
    /\ At(r, "tokens")
    /\ T!RevokeUser(req[r].user)
    /\ IF req[r].kind \in {"change", "invite"} THEN Goto(r, "session") ELSE Return(r)
    /\ UNCHANGED <<file, sessions, revoked, risk, calls>>

NewSession(r) ==
    /\ At(r, "session")
    /\ sessions' = sessions \cup {[user |-> req[r].user, pw |-> req[r].pw]}
    /\ Return(r)
    /\ UNCHANGED <<file, tokens, revoked, risk, calls>>

-----------------------------------------------------------------------------
(* The users of the admin routes; each function of users.ts is one step.    *)

\* createUser, which no rail guards.
Add(u, a) ==
    /\ file[u] = NoUser
    /\ Save([file EXCEPT ![u] = [pw |-> NoPw, admin |-> a, enabled |-> TRUE]], Requests, {})
    /\ sessions' = IF a THEN sessions \ Of(Bootstrap) ELSE sessions
    /\ UNCHANGED <<tokens, revoked>>

\* POST /admin/users, with or without an invite.
Create(u, a) == Add(u, a) /\ Called /\ UNCHANGED req
CreateInvited(r, u, a) == Add(u, a) /\ Begin(r, "issue", u, "issue", NoPw)

\* POST /auth/forgot-password and /admin/users/:u/invite: the user is looked
\* up, then a token is generated.
Ask(r, u) ==
    /\ Listed(file, u)
    /\ Begin(r, "issue", u, "issue", NoPw)
    /\ UNCHANGED <<file, sessions, tokens, revoked, risk>>

IssueDone(r) ==
    /\ At(r, "issue")
    /\ \E t \in Tokens : Owner[t] = req[r].user /\ T!Issue(t)
    /\ Return(r)
    /\ UNCHANGED <<file, sessions, revoked, risk, calls>>

Patched(u, a) == [file EXCEPT ![u].admin = a]

\* Mutant: the rail looks at the file before the patch.
UpdateOldRail(u, a) ==
    /\ file[u] # NoUser /\ HasAdmin(file)
    /\ Save(Patched(u, a), Requests, {})
    /\ sessions' = IF a THEN sessions \ Of(Bootstrap) ELSE sessions
    /\ Called
    /\ UNCHANGED <<req, tokens, revoked>>

\* PATCH /admin/users/:u.  The rail refuses every result without an admin.
Update(u, a) ==
    /\ file[u] # NoUser /\ HasAdmin(Patched(u, a))
    /\ Save(Patched(u, a), Requests, {})
    /\ sessions' = IF a THEN sessions \ Of(Bootstrap) ELSE sessions
    /\ Called
    /\ UNCHANGED <<req, tokens, revoked>>

\* DELETE /admin/users/:u.
Revoke(r, u) ==
    LET f == [file EXCEPT ![u].enabled = FALSE]
    IN  /\ file[u] # NoUser /\ HasAdmin(f)
        /\ Save(f, Requests, {})
        /\ revoked' = revoked \cup {u}
        /\ Begin(r, "delete", u, "tokens", NoPw)
        /\ UNCHANGED <<sessions, tokens>>

\* Mutant: the raw editor does not close the bootstrap sessions.
RawKeeps(f) ==
    /\ HasAdmin(f)
    /\ Save(f, Requests, {u \in Users : NewPassword(f, u)})
    /\ revoked' = {u \in revoked : f[u] # NoUser /\ ~f[u].enabled}
    /\ Called
    /\ UNCHANGED <<sessions, req, tokens>>

\* POST /admin/users/raw: any contents, passwords included, of which only the
\* brain key's sessions take notice.
Raw(f) ==
    /\ HasAdmin(f)
    /\ Save(f, Requests, {u \in Users : NewPassword(f, u)})
    /\ sessions' = IF HasAdmin(file) THEN sessions ELSE sessions \ Of(Bootstrap)
    /\ revoked' = {u \in revoked : f[u] # NoUser /\ ~f[u].enabled}
    /\ Called
    /\ UNCHANGED <<req, tokens>>

-----------------------------------------------------------------------------
\* Sessions and handlers are in memory; the files and the script are not.
Restart ==
    /\ sessions' = {}
    /\ req' = [r \in Requests |-> IF IsScript(r) THEN req[r] ELSE Idle]
    /\ UNCHANGED <<file, tokens, revoked, risk, calls>>

Calls(r) ==
    \/ \E u \in Users, p \in Passwords : Login(r, u, p) \/ Change(r, u, p) \/ AdminSet(r, u, p) \/ Script(r, u, p)
    \/ \E t \in Tokens, p \in Passwords : Reset(r, t, p)
    \/ \E u \in Users : Ask(r, u) \/ Revoke(r, u) \/ \E a \in BOOLEAN : CreateInvited(r, u, a)

Steps(r) ==
    \/ LoginDone(r) \/ AskCurrent(r) \/ CurrentDone(r) \/ LoadFile(r) \/ WriteFile(r)
    \/ Evict(r) \/ RevokeTokens(r) \/ NewSession(r) \/ IssueDone(r)

Next ==
    \/ \E r \in Requests : Calls(r) \/ Steps(r)
    \/ \E u \in Users, a \in BOOLEAN : Create(u, a) \/ Update(u, a)
    \/ \E f \in RawFiles : Raw(f)
    \/ BootstrapLogin
    \/ \E s \in sessions : SessionEnds(s)
    \/ Restart

Spec == Init /\ [][Next]_avars

-----------------------------------------------------------------------------
\* The types; and a password is never on its way to a user that is not there.
TypeOK ==
    /\ file \in Files
    /\ sessions \subseteq [user : Users \cup {Bootstrap}, pw : Passwords \cup {NoPw}]
    /\ req \in [Requests -> [kind : {"none", "login", "change", "admin", "reset", "invite", "script",
                                     "promote", "issue", "delete"},
                             user : Users \cup {Bootstrap},
                             pc : {"idle", "verify", "body", "current", "set", "hash", "evict",
                                   "tokens", "session", "issue"},
                             pw : Passwords \cup {NoPw}, snap : Files]]
    /\ \A r \in Requests : At(r, "hash") => req[r].snap[req[r].user] # NoUser \/ req[r].kind = "promote"
    /\ calls \in 0..MaxCalls
    /\ revoked \subseteq Users /\ risk \subseteq Users \cup {Bootstrap}

\* users.ts _wouldLeaveZeroAdmins: once users.json and every older one that
\* somebody is about to write back have a global admin, there always is one,
\* whatever handlers and scripts overlap.
Sealed == HasAdmin(file) /\ \A r \in Requests : At(r, "hash") => HasAdmin(req[r].snap)
AdminRemains == [][Sealed => Sealed']_avars

\* security.md: when a global admin exists, the sessions of the brain key have
\* gone, so that none comes back when there is no admin one day - but where the
\* script, or a file written back, has made the admin.
NoBootstrapSession == HasAdmin(file) /\ Bootstrap \notin risk => Of(Bootstrap) = {}

\* api-reference.md: a session of a password that has been replaced is gone as
\* soon as the handler that has replaced it has evicted the user's sessions -
\* but of a user whose change met another one, a login on its way, the script
\* or the raw editor.
Evicting(u) == \E r \in Requests : req[r].user = u /\ At(r, "evict")
NoStaleSession ==
    \A s \in sessions : s.user \in Users \ risk /\ file[s.user] # NoUser
                        => file[s.user].pw \in {s.pw, NoPw} \/ Evicting(s.user)

\* A revoked user stays out until somebody enables the user, whatever handlers
\* are in progress - but for a write that overtakes one of them.
RevocationHolds == \A u \in revoked \ risk : ~Listed(file, u)

\* api-reference.md says so of every revoked user.
RevokedStaysOut == \A u \in revoked : ~Listed(file, u)
=============================================================================
