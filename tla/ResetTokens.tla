----------------------------- MODULE ResetTokens -----------------------------
(***************************************************************************)
(* The reset and invite tokens (server/auth/reset-tokens.ts): an array in   *)
(* memory, a JSON file, and async functions that load, change and write.    *)
(* One step is the code between two awaits; the calls of any number of      *)
(* requests run between two of them, and each operation on the file may     *)
(* fail.  A token stands for its SHA-256 hash.                              *)
(***************************************************************************)
EXTENDS Naturals

CONSTANTS
    Tokens,
    Users,
    Owner,    \* the user each token is generated for
    Requests, \* the calls that can be in progress at the same time
    Nobody,   \* the argument of sweepExpired
    MaxTime   \* bound: calls begin while the file's mtime is less

ASSUME OwnerAssumption == Owner \in [Tokens -> Users]
ASSUME NobodyAssumption == Nobody \notin Tokens \cup Users

VARIABLES
    mem,     \* _tokens
    loaded,  \* _loaded
    known,   \* _lastMtime
    mtime,   \* of the file; 0 as long as there is none
    disk,    \* the tokens in the file
    req,     \* the calls in progress
    issued,  \* the tokens generated so far
    expired, \* the tokens whose time is over
    spent,   \* history: the tokens that have been used or revoked
    used,    \* history: how often a consumeToken has accepted a token
    given,   \* history: the tokens a generateToken has put into the file
    risk     \* history: the tokens that have met an overlap or a failure

store == <<mem, loaded, known, mtime, disk>>
hist  == <<issued, expired, spent, used, given, risk>>
rvars == <<store, req, hist>>

Ops   == {"generate", "consume", "revoke", "sweep"}
Idle  == [op |-> "sweep", arg |-> Nobody, pc |-> "idle", seen |-> 0, snap |-> {},
          hit |-> FALSE, blind |-> FALSE]
OwnedBy(u) == {t \in Tokens : Owner[t] = u}

\* The tokens a call is about.
Concern(o, a) == CASE o \in {"generate", "consume"} -> {a}
                   [] o = "revoke" -> OwnedBy(a)
                   [] OTHER -> {}
Concerns(r) == Concern(req[r].op, req[r].arg)
Busy(r)     == req[r].pc # "idle"

Init ==
    /\ mem = {} /\ loaded = FALSE /\ known = 0 /\ mtime = 0 /\ disk = {}
    /\ req = [r \in Requests |-> Idle]
    /\ issued = {} /\ expired = {} /\ spent = {} /\ given = {} /\ risk = {}
    /\ used = [t \in Tokens |-> 0]

Goto(r, c) == req' = [req EXCEPT ![r].pc = c]
Return(r)  == req' = [req EXCEPT ![r] = Idle]
Loads(r)   == req' = [req EXCEPT ![r].pc = "modify", ![r].seen = 0, ![r].snap = {}]

\* Two calls in progress at one time put the tokens of both at risk.
Call(r, o, a) ==
    LET others == {q \in Requests \ {r} : Busy(q)}
    IN  /\ ~Busy(r) /\ mtime < MaxTime
        /\ req' = [req EXCEPT ![r] = [Idle EXCEPT !.op = o, !.arg = a, !.pc = "stat"]]
        /\ risk' = IF others = {} THEN risk
                   ELSE risk \cup Concern(o, a) \cup UNION {Concerns(q) : q \in others}
        /\ UNCHANGED <<store, issued, expired, spent, used, given>>

-----------------------------------------------------------------------------
(* _loadIfChanged.                                                          *)

\* A stat that fails, otherwise than for a missing file, ends the load.
LoadStat(r) ==
    /\ req[r].pc = "stat"
    /\ \/ req' = [req EXCEPT ![r].pc = "compare", ![r].seen = mtime]
       \/ Loads(r)
    /\ UNCHANGED <<store, hist>>

\* The mtime is remembered before the file has been read.
LoadCompare(r) ==
    LET s == req[r].seen
    IN  /\ req[r].pc = "compare"
        /\ \/ s = 0 /\ mem' = {} /\ loaded' = TRUE /\ Loads(r) /\ UNCHANGED known
           \/ s # 0 /\ loaded /\ s <= known /\ Loads(r) /\ UNCHANGED <<mem, loaded, known>>
           \/ s # 0 /\ ~(loaded /\ s <= known)
              /\ known' = s /\ Goto(r, "read") /\ UNCHANGED <<mem, loaded>>
        /\ UNCHANGED <<mtime, disk, hist>>

\* A read that fails leaves the array as it is.
LoadRead(r) ==
    /\ req[r].pc = "read"
    /\ \/ req' = [req EXCEPT ![r].pc = "assign", ![r].seen = 0, ![r].snap = disk]
       \/ Loads(r)
    /\ UNCHANGED <<store, hist>>

LoadAssign(r) ==
    /\ req[r].pc = "assign"
    /\ mem' = req[r].snap /\ loaded' = TRUE
    /\ Loads(r)
    /\ UNCHANGED <<known, mtime, disk, hist>>

-----------------------------------------------------------------------------
(* After the hash: the array is changed in one step.  A process that could   *)
(* not read the file yet has an array without its tokens.                   *)

AtModify(r, o) ==
    /\ req[r].pc = "modify" /\ req[r].op = o
    /\ risk' = IF loaded THEN risk ELSE risk \cup Concerns(r)

Generate(r) ==
    LET t == req[r].arg
    IN  /\ AtModify(r, "generate")
        /\ mem' = (mem \cup {t}) \ expired
        /\ issued' = issued \cup {t}
        /\ Goto(r, "write")
        /\ UNCHANGED <<loaded, known, mtime, disk, expired, spent, used, given>>

\* Mutant: the record stays until a sweep takes it.
ConsumeKeeps(r) ==
    LET t == req[r].arg
    IN  /\ AtModify(r, "consume")
        /\ IF t \in mem
           THEN req' = [req EXCEPT ![r].pc = "write", ![r].hit = t \notin expired]
           ELSE Return(r)
        /\ UNCHANGED <<store, issued, expired, spent, used, given>>

Consume(r) ==
    LET t == req[r].arg
    IN  /\ AtModify(r, "consume")
        /\ IF t \in mem
           THEN /\ mem' = mem \ {t}
                /\ req' = [req EXCEPT ![r].pc = "write", ![r].hit = t \notin expired]
           ELSE Return(r) /\ UNCHANGED mem
        /\ UNCHANGED <<loaded, known, mtime, disk, issued, expired, spent, used, given>>

\* revokeUserTokens and sweepExpired write only if something has gone.
Remove(r, S) ==
    IF S \cap mem # {}
    THEN mem' = mem \ S /\ Goto(r, "write")
    ELSE Return(r) /\ UNCHANGED mem

Revoke(r) ==
    LET T == OwnedBy(req[r].arg)
    IN  /\ AtModify(r, "revoke")
        /\ Remove(r, T)
        /\ spent' = IF T \cap mem = {} THEN spent \cup (T \cap given) ELSE spent
        /\ UNCHANGED <<loaded, known, mtime, disk, issued, expired, used, given>>

Sweep(r) ==
    /\ AtModify(r, "sweep")
    /\ Remove(r, expired)
    /\ UNCHANGED <<loaded, known, mtime, disk, issued, expired, spent, used, given>>

-----------------------------------------------------------------------------
(* _atomicWrite: the array is serialised when its turn has come.            *)

\* Mutant: what was loaded is written, not what it has become.
WriteLoaded(r) ==
    /\ req[r].pc = "write"
    /\ req' = [req EXCEPT ![r].pc = "rename", ![r].blind = ~loaded]
    /\ UNCHANGED <<store, hist>>

Write(r) ==
    /\ req[r].pc = "write"
    /\ req' = [req EXCEPT ![r].pc = "rename", ![r].snap = mem, ![r].blind = ~loaded]
    /\ UNCHANGED <<store, hist>>

\* The temporary file cannot be written or renamed: the caller gets an error,
\* the change of the array stays.
WriteFails(r) ==
    /\ req[r].pc \in {"write", "rename"}
    /\ risk' = risk \cup Concerns(r)
    /\ Return(r)
    /\ UNCHANGED <<store, issued, expired, spent, used, given>>

\* What the new file means.  One made from an array that never was the file
\* has lost what the file had.
Effect(r) ==
    LET a == req[r].arg
        o == req[r].op
    IN  /\ given' = IF o = "generate" THEN given \cup {a} ELSE given
        /\ used' = IF o = "consume" /\ req[r].hit /\ used[a] < 2
                   THEN [used EXCEPT ![a] = @ + 1] ELSE used
        /\ spent' = CASE o = "consume" /\ req[r].hit -> spent \cup {a}
                      [] o = "revoke" -> spent \cup (OwnedBy(a) \cap (disk \cup given))
                      [] OTHER -> spent
        /\ risk' = IF req[r].blind THEN risk \cup disk ELSE risk

\* Mutant: the temporary file is never renamed.
RenameMissing(r) ==
    /\ req[r].pc = "rename"
    /\ Effect(r) /\ Goto(r, "done")
    /\ UNCHANGED <<store, issued, expired>>

\* Mutant: the tokens are added to the file instead of replacing it.
RenameAppends(r) ==
    /\ req[r].pc = "rename"
    /\ disk' = disk \cup req[r].snap /\ mtime' = mtime + 1
    /\ Effect(r) /\ Goto(r, "done")
    /\ UNCHANGED <<mem, loaded, known, issued, expired>>

Rename(r) ==
    /\ req[r].pc = "rename"
    /\ disk' = req[r].snap /\ mtime' = mtime + 1
    /\ Effect(r) /\ Goto(r, "done")
    /\ UNCHANGED <<mem, loaded, known, issued, expired>>

Done(r) ==
    /\ req[r].pc = "done"
    /\ known' = 0
    /\ Return(r)
    /\ UNCHANGED <<mem, loaded, mtime, disk, hist>>

-----------------------------------------------------------------------------
Expire(t) ==
    /\ t \in issued
    /\ expired' = expired \cup {t}
    /\ UNCHANGED <<store, req, issued, spent, used, given, risk>>

\* The file survives, calls and memory do not.
Restart ==
    /\ mem' = {} /\ loaded' = FALSE /\ known' = 0
    /\ req' = [r \in Requests |-> Idle]
    /\ UNCHANGED <<mtime, disk, hist>>

Calls(r) ==
    \/ \E t \in Tokens : t \notin issued /\ (\A q \in Requests : req[q].arg # t)
                         /\ Call(r, "generate", t)
    \/ \E t \in issued : Call(r, "consume", t)
    \/ \E u \in Users : Call(r, "revoke", u)
    \/ Call(r, "sweep", Nobody)

Steps(r) ==
    \/ LoadStat(r) \/ LoadCompare(r) \/ LoadRead(r) \/ LoadAssign(r)
    \/ Generate(r) \/ Consume(r) \/ Revoke(r) \/ Sweep(r)
    \/ Write(r) \/ WriteFails(r) \/ Rename(r) \/ Done(r)

Next ==
    \/ \E r \in Requests : Calls(r) \/ Steps(r)
    \/ \E t \in Tokens : Expire(t)
    \/ Restart

Spec == Init /\ [][Next]_rvars

-----------------------------------------------------------------------------
TypeOK ==
    /\ mem \subseteq issued /\ disk \subseteq issued /\ issued \subseteq Tokens
    /\ loaded \in BOOLEAN /\ known \in Nat /\ mtime \in Nat
    /\ req \in [Requests -> [op : Ops, arg : Tokens \cup Users \cup {Nobody},
                             pc : {"idle", "stat", "compare", "read", "assign", "modify",
                                   "write", "rename", "done"},
                             seen : Nat, snap : SUBSET Tokens, hit : BOOLEAN, blind : BOOLEAN]]
    /\ expired \subseteq issued /\ spent \subseteq issued /\ given \subseteq issued
    /\ risk \subseteq Tokens /\ used \in [Tokens -> 0 .. 2]

\* reset-tokens.ts:10, "Tokens are single-use": a token is accepted once.
TokensAreSingleUse == \A t \in Tokens : used[t] <= 1

\* The same of a token whose own calls overlapped no other call and met no
\* failure, whatever the calls about other tokens did before and after.
SingleUse == \A t \in Tokens \ risk : used[t] <= 1

\* reset-tokens.ts:11: such a token, once used or revoked, is in no copy that
\* could bring it back: the file, the array, or one that is about to become either.
Copies == {disk, mem} \cup {req[r].snap : r \in {q \in Requests : req[q].pc \in {"assign", "rename"}}}
SpentIsGone == \A t \in spent \ (risk \cup expired) : \A C \in Copies : t \notin C

\* reset-tokens.ts:7: such a token is in the file until its use, its revocation or
\* its expiry, through crashes, failing loads and saves for other tokens.
GivenIsKept == given \ (spent \cup expired \cup risk) \subseteq disk

\* The file is the store that TokenService specifies: each rename is one issue,
\* use, revocation or sweep, and nothing else changes it; what has met an overlap
\* or a failure is forfeit.
S == INSTANCE TokenService WITH valid <- disk \ risk, ever <- given, forfeit <- risk,
                                spent <- {t \in Tokens : used[t] > 0}
ImplementsService == S!Service
=============================================================================
