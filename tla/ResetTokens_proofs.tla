-------------------------- MODULE ResetTokens_proofs --------------------------
(***************************************************************************)
(* Proofs about ResetTokens, for any tokens, users, owners and calls that   *)
(* overlap, fail and are cut off by restarts: of the tokens whose own calls *)
(* met none of this, the file is the store that TokenService specifies.     *)
(***************************************************************************)
EXTENDS ResetTokens, TLAPS

Progress == [op : Ops, arg : Tokens \cup Users \cup {Nobody},
             pc : {"idle", "stat", "compare", "read", "assign", "modify", "write", "rename", "done"},
             seen : Nat, snap : SUBSET Tokens, hit : BOOLEAN, blind : BOOLEAN]

\* The array has the change of the call, the file has not.
Pending(r) == req[r].pc \in {"write", "rename"}

\* A call about a token that is not at risk is the only one in progress.
AloneInv ==
    \A r, q \in Requests : r # q /\ Busy(r) /\ Busy(q) => Concerns(r) \subseteq risk

\* What the copy in the hands of a call says of a token that is not at risk.
TokenInv(r, t) ==
    /\ req[r].pc = "assign" => (t \in req[r].snap <=> t \in disk)
    /\ req[r].pc = "rename" /\ t \notin Concerns(r) /\ ~req[r].blind => (t \in req[r].snap <=> t \in disk)
    /\ req[r].pc = "rename" /\ t \in Concerns(r) => (t \in req[r].snap <=> t \in mem)
    /\ Pending(r) /\ t \in Concerns(r) => (t \in mem <=> req[r].op = "generate")

\* The array and the file differ by the changes of the calls that are pending.
CopyInv ==
    \A t \in Tokens \ (risk \cup expired) :
       /\ loaded /\ (\A r \in Requests : Pending(r) => t \notin Concerns(r)) => (t \in mem <=> t \in disk)
       /\ \A r \in Requests : TokenInv(r, t)

\* Where each call has come.
PlaceInv(r) ==
    /\ req[r].pc = "compare" /\ req[r].seen = 0 => disk \subseteq risk \cup expired
    /\ req[r].pc = "rename" /\ req[r].blind => req[r].snap \subseteq risk
    /\ req[r].pc \in {"assign", "rename"} => req[r].snap \subseteq issued
    /\ Pending(r) /\ ~(Concerns(r) \subseteq risk) => loaded /\ (req[r].pc = "rename" => ~req[r].blind)

\* A call has its argument.  A token that is being generated is a new one, and
\* one that has been accepted was there and had not been spent.
ArgInv(r) ==
    /\ Busy(r) /\ req[r].op = "generate" =>
          /\ req[r].arg \in Tokens
          /\ req[r].pc \notin {"write", "rename", "done"} => req[r].arg \notin issued
          /\ Pending(r) => req[r].arg \in issued
          /\ req[r].pc # "done" => req[r].arg \notin given
          /\ Pending(r) /\ req[r].arg \notin risk => req[r].arg \notin spent
          /\ \A q \in Requests : Busy(q) /\ q # r /\ req[q].op = "generate" => req[q].arg # req[r].arg
    /\ Busy(r) /\ req[r].op = "consume" =>
          /\ req[r].arg \in issued
          /\ Pending(r) /\ ~req[r].hit => req[r].arg \in expired
          /\ Pending(r) /\ req[r].hit /\ req[r].arg \notin risk =>
                req[r].arg \in disk /\ req[r].arg \notin spent
    /\ Busy(r) /\ req[r].op = "revoke" => req[r].arg \in Users

\* What has been accepted is spent, and nothing spent is in the file.
HistInv ==
    /\ \A t \in Tokens : used[t] > 0 => t \in spent
    /\ spent \cap disk \subseteq risk \cup expired
    /\ mtime = 0 => disk = {}
    /\ ~loaded => mem \subseteq risk

RInv ==
    /\ TypeOK /\ AloneInv /\ CopyInv /\ HistInv /\ SingleUse /\ GivenIsKept
    /\ \A r \in Requests : PlaceInv(r) /\ ArgInv(r)

-----------------------------------------------------------------------------
LEMMA IdleCall == Idle \in Progress /\ Idle.pc = "idle" /\ Idle.op = "sweep" /\ Idle.snap = {}
BY DEF Idle, Progress, Ops

LEMMA ConcernTokens ==
    ASSUME NEW o, NEW a, o \in {"generate", "consume"} => a \in Tokens
    PROVE  Concern(o, a) \subseteq Tokens
BY DEF Concern, OwnedBy

LEMMA TokensInit == Init => RInv
<1> SUFFICES ASSUME Init PROVE RInv
  OBVIOUS
<1>1. req \in [Requests -> Progress] /\ \A r \in Requests : req[r] = Idle
  BY IdleCall DEF Init
<1>2. TypeOK
  <2>1. used \in [Tokens -> 0 .. 2]
    BY DEF Init
  <2> QED  BY <1>1, <2>1 DEF Init, TypeOK, Progress
<1>3. AloneInv /\ \A r \in Requests : PlaceInv(r) /\ ArgInv(r)
  BY <1>1, IdleCall DEF AloneInv, PlaceInv, ArgInv, Busy, Pending
<1>4. CopyInv /\ HistInv /\ SingleUse /\ GivenIsKept
  BY <1>1, IdleCall DEF Init, CopyInv, TokenInv, Pending, HistInv, SingleUse, GivenIsKept
<1> QED  BY <1>2, <1>3, <1>4 DEF RInv

\* A call that begins only puts more tokens at risk.
LEMMA CallTokens ==
    ASSUME RInv, NEW r \in Requests, Calls(r) PROVE RInv'
<1> USE OwnerAssumption, NobodyAssumption
<1>1. PICK o \in Ops, a \in Tokens \cup Users \cup {Nobody} :
          /\ Call(r, o, a)
          /\ o = "generate" => a \in Tokens \ issued /\ \A q \in Requests : req[q].arg # a
          /\ o = "consume" => a \in issued
          /\ o = "revoke" => a \in Users
  BY DEF Calls, Ops, RInv, TypeOK
<1>2. /\ req' \in [Requests -> Progress]
      /\ req'[r].op = o /\ req'[r].arg = a /\ req'[r].pc = "stat"
      /\ \A q \in Requests \ {r} : req'[q] = req[q]
  <2> DEFINE c == [Idle EXCEPT !.op = o, !.arg = a, !.pc = "stat"]
  <2>1. c.op = o /\ c.arg = a /\ c.pc = "stat" /\ c \in Progress
    BY DEF Idle, Progress
  <2>2. req' = [req EXCEPT ![r] = c]
    BY <1>1 DEF Call
  <2> HIDE DEF c
  <2> QED  BY <2>1, <2>2 DEF RInv, TypeOK, Progress
<1> DEFINE others == {q \in Requests \ {r} : Busy(q)}
<1>3. /\ UNCHANGED <<store, issued, expired, spent, used, given>> /\ req[r].pc = "idle"
      /\ risk' = IF others = {} THEN risk
                 ELSE risk \cup Concern(o, a) \cup UNION {Concerns(q) : q \in others}
  BY <1>1 DEF Call, Busy
<1>4. \A q \in Requests \ {r} : (Busy(q))' = Busy(q) /\ (Concerns(q))' = Concerns(q) /\ (Pending(q))' = Pending(q)
  BY <1>2 DEF Busy, Concerns, Concern, Pending
<1>5. (Concerns(r))' = Concern(o, a) /\ ~(Pending(r))' /\ (Busy(r))'
  BY <1>2 DEF Concerns, Concern, Pending, Busy
<1>6. risk \subseteq risk' /\ risk' \subseteq Tokens
  <2>1. Concern(o, a) \subseteq Tokens
    BY <1>1, ConcernTokens DEF RInv, TypeOK
  <2>2. \A q \in others : Concerns(q) \subseteq Tokens
    BY ConcernTokens DEF RInv, TypeOK, ArgInv, Concerns
  <2> QED  BY <1>3, <2>1, <2>2 DEF RInv, TypeOK
<1>7. TypeOK'
  BY <1>2, <1>3, <1>6 DEF RInv, TypeOK, Progress, store
<1>8. AloneInv'
  <2> SUFFICES ASSUME NEW p \in Requests, NEW q \in Requests, p # q, Busy(p)', Busy(q)'
               PROVE  (Concerns(p))' \subseteq risk'
    BY DEF AloneInv
  <2>1. CASE p = r
    BY <1>3, <1>4, <1>5, <2>1
  <2>2. CASE q = r
    BY <1>3, <1>4, <1>5, <2>2
  <2>3. CASE p # r /\ q # r
    BY <1>4, <1>6, <2>3 DEF RInv, AloneInv
  <2> QED  BY <2>1, <2>2, <2>3
<1>9. CopyInv'
  <2> SUFFICES ASSUME NEW t \in Tokens, t \notin risk', t \notin expired'
               PROVE  /\ (loaded /\ (\A q \in Requests : Pending(q) => t \notin Concerns(q)) => (t \in mem <=> t \in disk))'
                      /\ \A q \in Requests : TokenInv(q, t)'
    BY DEF CopyInv
  <2>1. t \notin risk /\ t \notin expired
    BY <1>3, <1>6
  <2>2. \A q \in Requests : TokenInv(q, t)'
    BY <1>2, <1>3, <1>4, <1>5, <2>1 DEF RInv, CopyInv, TokenInv, store
  <2>3. (\A q \in Requests : Pending(q) => t \notin Concerns(q))'
          => \A q \in Requests : Pending(q) => t \notin Concerns(q)
    BY <1>3, <1>4 DEF Pending
  <2> QED  BY <1>3, <2>1, <2>2, <2>3 DEF RInv, CopyInv, store
<1>10. \A q \in Requests : PlaceInv(q)'
  BY <1>2, <1>3, <1>4, <1>5, <1>6 DEF RInv, PlaceInv, store
<1>11. \A q \in Requests : ArgInv(q)'
  <2>1. ArgInv(r)'
    <3>1. o = "generate" => a \notin given /\ a \notin issued
      BY <1>1 DEF RInv, TypeOK
    <3>2. o = "generate" => \A q \in Requests : q # r => req'[q].arg # a
      BY <1>1, <1>2
    <3> QED  BY <1>1, <1>2, <1>3, <1>5, <3>1, <3>2 DEF ArgInv, store
  <2>2. ASSUME NEW q \in Requests \ {r} PROVE ArgInv(q)'
    <3>1. ArgInv(q)
      BY DEF RInv
    <3>2. o = "generate" => req[q].arg # a
      BY <1>1
    <3> QED  BY <1>2, <1>3, <1>4, <1>6, <3>1, <3>2 DEF ArgInv, store
  <2> QED  BY <2>1, <2>2
<1>12. HistInv' /\ SingleUse' /\ GivenIsKept'
  BY <1>3, <1>6 DEF RInv, HistInv, SingleUse, GivenIsKept, store
<1> QED  BY <1>7, <1>8, <1>9, <1>10, <1>11, <1>12 DEF RInv

-----------------------------------------------------------------------------
(* A step of one call leaves the others where they are.                      *)

Frame(r) ==
    /\ req' \in [Requests -> Progress]
    /\ \A q \in Requests \ {r} : req'[q] = req[q]
    /\ Busy(r) /\ risk \subseteq risk' /\ risk' \subseteq Tokens
    /\ \/ req'[r].op = req[r].op /\ req'[r].arg = req[r].arg /\ req'[r].pc # "idle"
       \/ req'[r] = Idle

LEMMA FrameFacts ==
    ASSUME RInv, NEW r \in Requests, Frame(r)
    PROVE  /\ AloneInv'
           /\ \A q \in Requests \ {r} : /\ (Busy(q))' = Busy(q) /\ (Concerns(q))' = Concerns(q)
                                        /\ (Pending(q))' = Pending(q)
                                        /\ Busy(q) => Concerns(q) \subseteq risk /\ Concerns(r) \subseteq risk
           /\ (Concerns(r))' = IF req'[r] = Idle THEN {} ELSE Concerns(r)
<1>1. \A q \in Requests \ {r} : (Busy(q))' = Busy(q) /\ (Concerns(q))' = Concerns(q) /\ (Pending(q))' = Pending(q)
  BY DEF Frame, Busy, Concerns, Concern, Pending
<1>2. (Concerns(r))' = IF req'[r] = Idle THEN {} ELSE Concerns(r)
  BY IdleCall DEF Frame, Concerns, Concern
<1>3. \A q \in Requests \ {r} : Busy(q) => Concerns(q) \subseteq risk /\ Concerns(r) \subseteq risk
  BY DEF Frame, RInv, AloneInv
<1>4. AloneInv'
  BY <1>1, <1>2, <1>3 DEF Frame, AloneInv, RInv
<1> QED  BY <1>1, <1>2, <1>3, <1>4

\* The steps of a load.
LEMMA LoadTokens ==
    ASSUME RInv, NEW r \in Requests,
           LoadStat(r) \/ LoadCompare(r) \/ LoadRead(r) \/ LoadAssign(r)
    PROVE  RInv'
<1>1. req \in [Requests -> Progress] /\ req[r] \in Progress /\ mem \subseteq issued /\ disk \subseteq issued
      /\ issued \subseteq Tokens /\ mtime \in Nat /\ risk \subseteq Tokens
  BY DEF RInv, TypeOK, Progress
<1>2. UNCHANGED <<mtime, disk, hist>>
  BY DEF LoadStat, LoadCompare, LoadRead, LoadAssign, store
<1>3. /\ req' \in [Requests -> Progress] /\ \A q \in Requests \ {r} : req'[q] = req[q]
      /\ req'[r].op = req[r].op /\ req'[r].arg = req[r].arg /\ req[r].pc \in {"stat", "compare", "read", "assign"}
      /\ known' \in Nat
      /\ \/ req'[r].pc = "compare" /\ req'[r].seen = mtime /\ UNCHANGED <<mem, loaded>>
         \/ req'[r].pc \in {"read", "modify"} /\ UNCHANGED <<mem, loaded>>
         \/ req'[r].pc = "assign" /\ req'[r].snap = disk /\ UNCHANGED <<mem, loaded>>
         \/ req'[r].pc = "modify" /\ loaded' = TRUE /\ mem' = {} /\ req[r].pc = "compare" /\ req[r].seen = 0
         \/ req'[r].pc = "modify" /\ loaded' = TRUE /\ mem' = req[r].snap /\ req[r].pc = "assign"
  <2>1. CASE LoadStat(r)
    BY <1>1, <2>1 DEF LoadStat, Loads, store, Progress, RInv, TypeOK
  <2>2. CASE LoadCompare(r)
    BY <1>1, <2>2 DEF LoadCompare, Loads, Goto, Progress, RInv, TypeOK
  <2>3. CASE LoadRead(r)
    BY <1>1, <2>3 DEF LoadRead, Loads, store, Progress, RInv, TypeOK
  <2>4. CASE LoadAssign(r)
    BY <1>1, <2>4 DEF LoadAssign, Loads, Progress, RInv, TypeOK
  <2> QED  BY <2>1, <2>2, <2>3, <2>4
<1>4. Frame(r) /\ ~Pending(r) /\ ~(Pending(r))'
  BY <1>1, <1>2, <1>3 DEF Frame, Busy, Pending, hist
<1>5. /\ AloneInv'
      /\ \A q \in Requests : (Busy(q))' = Busy(q) /\ (Concerns(q))' = Concerns(q) /\ (Pending(q))' = Pending(q)
      /\ \A q \in Requests \ {r} : Busy(q) => Concerns(q) \subseteq risk /\ Concerns(r) \subseteq risk
  <2>1. req'[r] # Idle /\ (Busy(r))' = Busy(r)
    BY <1>3, IdleCall DEF Busy
  <2>2. (Concerns(r))' = Concerns(r)
    BY <1>4, <2>1, FrameFacts
  <2>3. (Pending(r))' = Pending(r)
    BY <1>4 DEF Pending
  <2> QED  BY <1>4, <2>1, <2>2, <2>3, FrameFacts
<1>6. loaded' \in BOOLEAN /\ mem' \subseteq issued
  <2>1. req[r].pc = "assign" => req[r].snap \subseteq issued
    BY DEF RInv, PlaceInv
  <2> QED  BY <1>1, <1>3, <2>1 DEF RInv, TypeOK
<1>7. TypeOK'
  BY <1>2, <1>3, <1>6 DEF RInv, TypeOK, Progress, hist
<1>8. CopyInv'
  <2> SUFFICES ASSUME NEW t \in Tokens, t \notin risk, t \notin expired
               PROVE  /\ (loaded /\ (\A q \in Requests : Pending(q) => t \notin Concerns(q)) => (t \in mem <=> t \in disk))'
                      /\ \A q \in Requests : TokenInv(q, t)'
    BY <1>2 DEF CopyInv, hist
  <2>1. /\ loaded /\ (\A q \in Requests : Pending(q) => t \notin Concerns(q)) => (t \in mem <=> t \in disk)
        /\ \A q \in Requests : TokenInv(q, t)
    BY DEF RInv, CopyInv
  <2>2. (loaded /\ (\A q \in Requests : Pending(q) => t \notin Concerns(q)) => (t \in mem <=> t \in disk))'
    <3>1. req[r].pc = "compare" /\ req[r].seen = 0 => t \notin disk
      BY DEF RInv, PlaceInv
    <3>2. (\A q \in Requests : Pending(q) => t \notin Concerns(q))'
            => \A q \in Requests : Pending(q) => t \notin Concerns(q)
      BY <1>5
    <3>3. req[r].pc = "assign" => (t \in req[r].snap <=> t \in disk)
      BY <2>1 DEF TokenInv
    <3> QED  BY <1>2, <1>3, <2>1, <3>1, <3>2, <3>3
  <2>3. TokenInv(r, t)'
    BY <1>2, <1>3, <1>4 DEF TokenInv, Pending
  <2>4. ASSUME NEW q \in Requests \ {r} PROVE TokenInv(q, t)'
    <3>1. Busy(q) => t \notin Concerns(q)
      BY <1>5
    <3>2. Pending(q) => t \notin Concerns(q)
      BY <3>1 DEF Pending, Busy
    <3>3. req[q].pc = "rename" => Pending(q)
      BY DEF Pending
    <3> QED  BY <1>2, <1>3, <1>5, <2>1, <3>2, <3>3 DEF TokenInv
  <2> QED  BY <2>2, <2>3, <2>4
<1>9. \A q \in Requests : PlaceInv(q)'
  <2>1. PlaceInv(r)'
    BY <1>1, <1>2, <1>3, <1>4 DEF PlaceInv, RInv, HistInv, hist
  <2>2. ASSUME NEW q \in Requests \ {r} PROVE PlaceInv(q)'
    <3>1. PlaceInv(q) /\ (loaded => loaded')
      BY <1>3 DEF RInv
    <3> QED  BY <1>2, <1>3, <1>5, <3>1 DEF PlaceInv, hist
  <2> QED  BY <2>1, <2>2
<1>10. \A q \in Requests : ArgInv(q)'
  <2>1. ArgInv(r)'
    BY <1>2, <1>3, <1>4, <1>5 DEF RInv, ArgInv, hist, Pending
  <2>2. ASSUME NEW q \in Requests \ {r} PROVE ArgInv(q)'
    BY <1>2, <1>3, <1>5 DEF RInv, ArgInv, hist
  <2> QED  BY <2>1, <2>2
<1>11. HistInv' /\ SingleUse' /\ GivenIsKept'
  <2>1. ~loaded' => mem' \subseteq risk
    BY <1>3 DEF RInv, HistInv
  <2> QED  BY <1>2, <2>1 DEF RInv, HistInv, SingleUse, GivenIsKept, hist
<1> QED  BY <1>5, <1>7, <1>8, <1>9, <1>10, <1>11 DEF RInv

-----------------------------------------------------------------------------
(* The change of the array.                                                 *)

\* What the four operations have in common: they touch only their own tokens
\* and those whose time is over.
Modified(r) ==
    /\ UNCHANGED <<loaded, known, mtime, disk, expired, used, given>>
    /\ risk' = IF loaded THEN risk ELSE risk \cup Concerns(r)
    /\ mem' \subseteq (mem \cup Concerns(r)) \cap issued'
    /\ \A t \in Tokens \ expired : t \notin Concerns(r) => (t \in mem' <=> t \in mem)
    /\ spent \subseteq spent' /\ spent' \subseteq spent \cup (Concerns(r) \cap (given \ mem))
    /\ \/ req'[r] = Idle /\ mem' = mem /\ issued' = issued
       \/ /\ req'[r].pc = "write" /\ req'[r].op = req[r].op /\ req'[r].arg = req[r].arg
          /\ \A t \in Concerns(r) \ expired : t \in mem' <=> req[r].op = "generate"
          /\ issued' = IF req[r].op = "generate" THEN issued \cup {req[r].arg} ELSE issued
          /\ req[r].op = "generate" => spent' = spent
          /\ req[r].op = "consume" =>
                /\ spent' = spent
                /\ req'[r].hit => req[r].arg \in mem \ expired
                /\ ~req'[r].hit => req[r].arg \in expired

LEMMA ModifyShape ==
    ASSUME RInv, NEW r \in Requests, Generate(r) \/ Consume(r) \/ Revoke(r) \/ Sweep(r)
    PROVE  Modified(r) /\ Frame(r) /\ req[r].pc = "modify"
<1>1. req \in [Requests -> Progress] /\ mem \subseteq issued /\ issued \subseteq Tokens /\ expired \subseteq issued
      /\ risk \subseteq Tokens /\ given \subseteq issued
  BY DEF RInv, TypeOK, Progress
<1>2. PICK p \in Progress : p = req[r]
  BY <1>1
<1>3. Concerns(r) \subseteq Tokens
  BY <1>1, OwnerAssumption DEF RInv, ArgInv, Concerns, Concern, Busy, Generate, Consume, Revoke, Sweep, AtModify, OwnedBy
<1>4. req[r].pc = "modify" /\ Busy(r) /\ risk' = IF loaded THEN risk ELSE risk \cup Concerns(r)
  BY DEF Generate, Consume, Revoke, Sweep, AtModify, Busy
<1>5. risk \subseteq risk' /\ risk' \subseteq Tokens
  BY <1>1, <1>3, <1>4
<1>6. ASSUME NEW c, req' = [req EXCEPT ![r] = c], c \in Progress,
             \/ c.op = req[r].op /\ c.arg = req[r].arg /\ c.pc # "idle"
             \/ c = Idle
      PROVE  Frame(r)
  BY <1>1, <1>4, <1>5, <1>6 DEF Frame
<1>7. ASSUME NEW h \in BOOLEAN
      PROVE  LET c == [p EXCEPT !.pc = "write", !.hit = h]
             IN  c \in Progress /\ c.op = p.op /\ c.arg = p.arg /\ c.pc = "write" /\ c.hit = h
  BY DEF Progress
<1>8. LET c == [p EXCEPT !.pc = "write"]
      IN  c \in Progress /\ c.op = p.op /\ c.arg = p.arg /\ c.pc = "write"
  BY DEF Progress
<1>9. ASSUME req' = [req EXCEPT ![r].pc = "write"]
      PROVE  Frame(r) /\ req'[r].op = req[r].op /\ req'[r].arg = req[r].arg /\ req'[r].pc = "write"
  <2> DEFINE c == [p EXCEPT !.pc = "write"]
  <2>1. req' = [req EXCEPT ![r] = c]
    BY <1>1, <1>2, <1>9
  <2> HIDE DEF c
  <2>2. c \in Progress /\ c.op = p.op /\ c.arg = p.arg /\ c.pc = "write"
    BY <1>8 DEF c
  <2> QED  BY <1>1, <1>2, <1>6, <2>1, <2>2
<1>10. ASSUME NEW h \in BOOLEAN, req' = [req EXCEPT ![r].pc = "write", ![r].hit = h]
       PROVE  Frame(r) /\ req'[r].op = req[r].op /\ req'[r].arg = req[r].arg /\ req'[r].pc = "write" /\ req'[r].hit = h
  <2> DEFINE c == [p EXCEPT !.pc = "write", !.hit = h]
  <2>1. req' = [req EXCEPT ![r] = c]
    BY <1>1, <1>2, <1>10
  <2>2. c \in Progress /\ c.op = p.op /\ c.arg = p.arg /\ c.pc = "write" /\ c.hit = h
    BY <1>7
  <2> HIDE DEF c
  <2> QED  BY <1>1, <1>2, <1>6, <2>1, <2>2
<1>11. ASSUME Return(r) PROVE Frame(r) /\ req'[r] = Idle
  BY <1>1, <1>6, <1>11, IdleCall DEF Return
<1>12. CASE Generate(r)
  <2>1. Concerns(r) = {req[r].arg} /\ req[r].op = "generate"
    BY <1>12 DEF Generate, AtModify, Concerns, Concern
  <2>2. req[r].arg \in Tokens \ issued
    BY <1>4, <2>1 DEF RInv, ArgInv
  <2>3. Frame(r) /\ req'[r].op = req[r].op /\ req'[r].arg = req[r].arg /\ req'[r].pc = "write"
    BY <1>9, <1>12 DEF Generate, Goto
  <2> QED  BY <1>1, <1>4, <1>12, <2>1, <2>2, <2>3 DEF Modified, Generate
<1>13. CASE Consume(r)
  <2>1. Concerns(r) = {req[r].arg} /\ req[r].op = "consume"
    BY <1>13 DEF Consume, AtModify, Concerns, Concern
  <2>2. UNCHANGED <<loaded, known, mtime, disk, issued, expired, spent, used, given>>
    BY <1>13 DEF Consume
  <2>3. CASE req[r].arg \in mem
    <3>1. mem' = mem \ {req[r].arg} /\ req' = [req EXCEPT ![r].pc = "write", ![r].hit = req[r].arg \notin expired]
      BY <1>13, <2>3 DEF Consume
    <3>2. Frame(r) /\ req'[r].op = req[r].op /\ req'[r].arg = req[r].arg /\ req'[r].pc = "write"
          /\ req'[r].hit = (req[r].arg \notin expired)
      BY <1>10, <3>1
    <3> QED  BY <1>1, <1>4, <2>1, <2>2, <2>3, <3>1, <3>2 DEF Modified
  <2>4. CASE req[r].arg \notin mem
    <3>1. mem' = mem /\ Frame(r) /\ req'[r] = Idle
      BY <1>11, <1>13, <2>4 DEF Consume
    <3> QED  BY <1>1, <1>4, <2>1, <2>2, <3>1 DEF Modified
  <2> QED  BY <2>3, <2>4
<1>14. CASE Revoke(r)
  <2>1. Concerns(r) = OwnedBy(req[r].arg) /\ req[r].op = "revoke"
    BY <1>14 DEF Revoke, AtModify, Concerns, Concern
  <2>2. UNCHANGED <<loaded, known, mtime, disk, issued, expired, used, given>> /\ Remove(r, Concerns(r))
        /\ spent' = IF Concerns(r) \cap mem = {} THEN spent \cup (Concerns(r) \cap given) ELSE spent
    BY <1>14, <2>1 DEF Revoke
  <2>3. CASE Concerns(r) \cap mem # {}
    <3>1. mem' = mem \ Concerns(r) /\ Frame(r) /\ req'[r].op = req[r].op /\ req'[r].arg = req[r].arg
          /\ req'[r].pc = "write"
      BY <1>9, <2>2, <2>3 DEF Remove, Goto
    <3> QED  BY <1>1, <1>4, <2>1, <2>2, <2>3, <3>1 DEF Modified
  <2>4. CASE Concerns(r) \cap mem = {}
    <3>1. mem' = mem /\ Frame(r) /\ req'[r] = Idle
      BY <1>11, <2>2, <2>4 DEF Remove
    <3> QED  BY <1>1, <1>4, <2>1, <2>2, <2>4, <3>1 DEF Modified
  <2> QED  BY <2>3, <2>4
<1>15. CASE Sweep(r)
  <2>1. Concerns(r) = {} /\ req[r].op = "sweep"
    BY <1>15 DEF Sweep, AtModify, Concerns, Concern
  <2>2. UNCHANGED <<loaded, known, mtime, disk, issued, expired, spent, used, given>> /\ Remove(r, expired)
    BY <1>15 DEF Sweep
  <2>3. CASE expired \cap mem # {}
    <3>1. mem' = mem \ expired /\ Frame(r) /\ req'[r].op = req[r].op /\ req'[r].arg = req[r].arg
          /\ req'[r].pc = "write"
      BY <1>9, <2>2, <2>3 DEF Remove, Goto
    <3> QED  BY <1>1, <1>4, <2>1, <2>2, <3>1 DEF Modified
  <2>4. CASE expired \cap mem = {}
    <3>1. mem' = mem /\ Frame(r) /\ req'[r] = Idle
      BY <1>11, <2>2, <2>4 DEF Remove
    <3> QED  BY <1>1, <1>4, <2>1, <2>2, <3>1 DEF Modified
  <2> QED  BY <2>3, <2>4
<1> QED  BY <1>4, <1>12, <1>13, <1>14, <1>15

LEMMA ModifyTokens ==
    ASSUME RInv, NEW r \in Requests, Generate(r) \/ Consume(r) \/ Revoke(r) \/ Sweep(r)
    PROVE  RInv'
<1>1. Modified(r) /\ Frame(r) /\ req[r].pc = "modify"
  BY ModifyShape
<1>2. /\ AloneInv' /\ Busy(r) /\ ~Pending(r)
      /\ \A q \in Requests \ {r} :
            /\ req'[q] = req[q] /\ (Busy(q))' = Busy(q) /\ (Concerns(q))' = Concerns(q) /\ (Pending(q))' = Pending(q)
            /\ Busy(q) => Concerns(q) \subseteq risk /\ Concerns(r) \subseteq risk
      /\ (Concerns(r))' = IF req'[r] = Idle THEN {} ELSE Concerns(r)
  BY <1>1, FrameFacts DEF Frame, Pending
<1>3. /\ mem \subseteq issued /\ disk \subseteq issued /\ issued \subseteq Tokens /\ spent \subseteq issued
      /\ given \subseteq issued /\ expired \subseteq issued
  BY DEF RInv, TypeOK
<1>4. issued \subseteq issued' /\ issued' \subseteq issued \cup Concerns(r) /\ issued' \subseteq Tokens
  BY <1>1, <1>2, <1>3 DEF Modified, RInv, ArgInv, Concerns, Concern
<1>5. risk \subseteq risk' /\ risk' \subseteq Tokens /\ (~loaded => Concerns(r) \subseteq risk')
  BY <1>1 DEF Modified, Frame
<1>6. TypeOK'
  <2>1. req' \in [Requests -> Progress]
    BY <1>1 DEF Frame
  <2> QED  BY <1>1, <1>3, <1>4, <1>5, <2>1 DEF RInv, TypeOK, Modified, Progress
<1>7. CopyInv'
  <2> SUFFICES ASSUME NEW t \in Tokens, t \notin risk', t \notin expired
               PROVE  /\ (loaded /\ (\A q \in Requests : Pending(q) => t \notin Concerns(q)) => (t \in mem <=> t \in disk))'
                      /\ \A q \in Requests : TokenInv(q, t)'
    BY <1>1 DEF CopyInv, Modified
  <2>1. /\ loaded /\ (\A q \in Requests : Pending(q) => t \notin Concerns(q)) => (t \in mem <=> t \in disk)
        /\ \A q \in Requests : TokenInv(q, t)
    BY <1>5 DEF RInv, CopyInv
  <2>2. (loaded /\ (\A q \in Requests : Pending(q) => t \notin Concerns(q)) => (t \in mem <=> t \in disk))'
    <3> SUFFICES ASSUME loaded, (\A q \in Requests : Pending(q) => t \notin Concerns(q))'
                 PROVE  t \in mem' <=> t \in disk
      BY <1>1 DEF Modified
    <3>1. \A q \in Requests : Pending(q) => t \notin Concerns(q)
      BY <1>2
    <3>2. t \in mem <=> t \in disk
      BY <2>1, <3>1
    <3>3. t \in Concerns(r) => req'[r] = Idle
      BY <1>1, <1>2 DEF Modified, Pending
    <3> QED  BY <1>1, <3>2, <3>3, IdleCall DEF Modified
  <2>3. TokenInv(r, t)'
    BY <1>1, <1>2, IdleCall DEF TokenInv, Pending, Modified
  <2>4. ASSUME NEW q \in Requests \ {r} PROVE TokenInv(q, t)'
    <3>1. Busy(q) => t \notin Concerns(q) /\ t \notin Concerns(r)
      BY <1>2, <1>5
    <3>2. Pending(q) => Busy(q)
      BY DEF Pending, Busy
    <3>3. req[q].pc = "rename" => Pending(q)
      BY DEF Pending
    <3> QED  BY <1>1, <1>2, <2>1, <3>1, <3>2, <3>3 DEF TokenInv, Modified
  <2> QED  BY <2>2, <2>3, <2>4
<1>8. \A q \in Requests : PlaceInv(q)'
  <2>1. PlaceInv(r)'
    BY <1>1, <1>2, <1>5, IdleCall DEF PlaceInv, Modified, Pending
  <2>2. ASSUME NEW q \in Requests \ {r} PROVE PlaceInv(q)'
    <3>1. PlaceInv(q)
      BY DEF RInv
    <3> QED  BY <1>1, <1>2, <1>4, <1>5, <3>1 DEF PlaceInv, Modified
  <2> QED  BY <2>1, <2>2
<1>9. ASSUME NEW t \in Concerns(r), t \in mem, t \notin risk', t \notin expired
      PROVE  t \in disk /\ t \notin spent
  <2>1. loaded /\ t \in Tokens
    BY <1>3, <1>5, <1>9
  <2>2. \A q \in Requests : Pending(q) => t \notin Concerns(q)
    <3>1. \A q \in Requests \ {r} : Pending(q) => Busy(q)
      BY DEF Pending, Busy
    <3> QED  BY <1>2, <1>5, <1>9, <3>1
  <2>3. t \in disk
    BY <1>5, <1>9, <2>1, <2>2 DEF RInv, CopyInv
  <2> QED  BY <1>5, <1>9, <2>3 DEF RInv, HistInv
<1>10. \A q \in Requests : ArgInv(q)'
  <2>1. ArgInv(r)'
    <3>1. CASE req'[r] = Idle
      BY <3>1, IdleCall DEF ArgInv, Busy
    <3>2. CASE req'[r] # Idle
      <4>0. /\ req'[r].pc = "write" /\ req'[r].op = req[r].op /\ req'[r].arg = req[r].arg
            /\ UNCHANGED <<disk, expired, given>>
        BY <1>1, <3>2 DEF Modified
      <4>1. ASSUME req[r].op = "generate"
            PROVE  /\ req[r].arg \in Tokens /\ req[r].arg \in issued' /\ req[r].arg \notin given /\ req[r].arg \notin spent'
                   /\ \A q \in Requests : Busy(q)' /\ q # r /\ req'[q].op = "generate" => req'[q].arg # req[r].arg
        BY <1>1, <1>2, <1>3, <3>2, <4>1 DEF RInv, ArgInv, Modified
      <4>2. ASSUME req[r].op = "consume"
            PROVE  /\ req[r].arg \in issued'
                   /\ ~req'[r].hit => req[r].arg \in expired
                   /\ req'[r].hit /\ req[r].arg \notin risk' => req[r].arg \in disk /\ req[r].arg \notin spent'
        <5>1. req[r].arg \in Concerns(r)
          BY <4>2 DEF Concerns, Concern
        <5> QED  BY <1>1, <1>2, <1>4, <1>9, <3>2, <4>2, <5>1 DEF RInv, ArgInv, Modified
      <4>3. req[r].op = "revoke" => req[r].arg \in Users
        BY <1>2 DEF RInv, ArgInv
      <4> QED  BY <4>0, <4>1, <4>2, <4>3 DEF ArgInv
    <3> QED  BY <3>1, <3>2
  <2>2. ASSUME NEW q \in Requests \ {r} PROVE ArgInv(q)'
    <3>1. ArgInv(q) /\ ArgInv(r)
      BY DEF RInv
    <3>2. req'[q] = req[q] /\ (Busy(q))' = Busy(q) /\ (Pending(q))' = Pending(q) /\ UNCHANGED <<disk, expired, given>>
      BY <1>1, <1>2 DEF Modified
    <3>3. Busy(q) => spent' \subseteq spent \cup risk
      BY <1>1, <1>2 DEF Modified
    <3>4. Busy(q) /\ req[q].op = "generate" /\ req[q].arg \in issued' => req[q].arg \in issued
      <4>1. \/ issued' = issued
            \/ req[r].op = "generate" /\ issued' = issued \cup {req[r].arg}
        BY <1>1 DEF Modified
      <4> QED  BY <1>2, <3>1, <4>1 DEF ArgInv
    <3>5. \A p \in Requests : Busy(p)' => Busy(p) /\ (req'[p].op = "generate" => req'[p].op = req[p].op /\ req'[p].arg = req[p].arg)
      BY <1>1, <1>2, IdleCall DEF Modified, Busy
    <3> QED  BY <1>4, <1>5, <3>1, <3>2, <3>3, <3>4, <3>5 DEF ArgInv
  <2> QED  BY <2>1, <2>2
<1>11. HistInv'
  <2>1. ASSUME NEW t \in spent', t \in disk, t \notin risk', t \notin expired PROVE FALSE
    <3>1. t \notin spent
      BY <1>5, <2>1 DEF RInv, HistInv
    <3>2. t \in Concerns(r) /\ t \notin mem
      BY <1>1, <2>1, <3>1 DEF Modified
    <3>3. loaded
      BY <1>5, <2>1, <3>2
    <3>4. \A q \in Requests : Pending(q) => t \notin Concerns(q)
      <4>1. \A q \in Requests \ {r} : Pending(q) => Busy(q)
        BY DEF Pending, Busy
      <4> QED  BY <1>2, <1>5, <2>1, <3>2, <4>1
    <3> QED  BY <1>3, <1>5, <2>1, <3>2, <3>3, <3>4 DEF RInv, CopyInv
  <2>2. ~loaded => mem' \subseteq risk'
    BY <1>1, <1>5 DEF RInv, HistInv, Modified
  <2> QED  BY <1>1, <2>1, <2>2 DEF RInv, HistInv, Modified
<1>12. SingleUse' /\ GivenIsKept'
  BY <1>1, <1>5 DEF RInv, SingleUse, GivenIsKept, Modified
<1> QED  BY <1>2, <1>6, <1>7, <1>8, <1>10, <1>11, <1>12 DEF RInv

-----------------------------------------------------------------------------
(* The file.                                                                *)

\* A copy of the array is taken; a write or a rename that fails ends the call.
LEMMA WriteTokens ==
    ASSUME RInv, NEW r \in Requests, Write(r) \/ WriteFails(r) \/ Done(r)
    PROVE  RInv'
<1>1. /\ req \in [Requests -> Progress] /\ mem \subseteq issued /\ issued \subseteq Tokens /\ risk \subseteq Tokens
      /\ UNCHANGED <<mem, loaded, mtime, disk, issued, expired, spent, used, given>>
  BY DEF RInv, TypeOK, Progress, Write, WriteFails, Done, store, hist
<1>2. /\ Frame(r)
      /\ known' \in Nat
      /\ \/ /\ req[r].pc = "write" /\ req'[r].pc = "rename" /\ req'[r].op = req[r].op /\ req'[r].arg = req[r].arg
            /\ req'[r].hit = req[r].hit /\ req'[r].snap = mem /\ req'[r].blind = ~loaded /\ risk' = risk
         \/ Pending(r) /\ req'[r] = Idle /\ Concerns(r) \subseteq risk'
         \/ ~Pending(r) /\ req'[r] = Idle /\ risk' = risk
  <2>1. CASE Write(r)
    <3>1. PICK p \in Progress : p = req[r]
      BY <1>1
    <3> DEFINE c == [p EXCEPT !.pc = "rename", !.snap = mem, !.blind = ~loaded]
    <3>2. req' = [req EXCEPT ![r] = c]
      BY <1>1, <2>1, <3>1 DEF Write
    <3>3. /\ c \in Progress /\ c.pc = "rename" /\ c.op = p.op /\ c.arg = p.arg /\ c.hit = p.hit /\ c.snap = mem
          /\ c.blind = ~loaded
      BY <1>1 DEF Progress
    <3> HIDE DEF c
    <3>4. req[r].pc = "write" /\ risk' = risk /\ known' = known /\ known \in Nat
      BY <2>1 DEF Write, store, hist, RInv, TypeOK
    <3>5. req'[r] = c /\ req' \in [Requests -> Progress] /\ \A q \in Requests \ {r} : req'[q] = req[q]
      BY <1>1, <3>2, <3>3
    <3>6. Frame(r)
      BY <1>1, <3>1, <3>3, <3>4, <3>5 DEF Frame, Busy
    <3> QED  BY <3>1, <3>3, <3>4, <3>5, <3>6
  <2>2. CASE WriteFails(r)
    <3>1. Concerns(r) \subseteq Tokens
      BY <2>2, ConcernTokens DEF RInv, TypeOK, ArgInv, Concerns, WriteFails, Busy
    <3> QED  BY <1>1, <2>2, <3>1, IdleCall DEF WriteFails, Return, Frame, Busy, Pending, store, RInv, TypeOK
  <2>3. CASE Done(r)
    BY <1>1, <2>3, IdleCall DEF Done, Return, Frame, Busy, Pending, hist
  <2> QED  BY <2>1, <2>2, <2>3
<1>3. /\ AloneInv'
      /\ \A q \in Requests \ {r} :
            /\ req'[q] = req[q] /\ (Busy(q))' = Busy(q) /\ (Concerns(q))' = Concerns(q) /\ (Pending(q))' = Pending(q)
            /\ Busy(q) => Concerns(q) \subseteq risk /\ Concerns(r) \subseteq risk
      /\ (Concerns(r))' = IF req'[r] = Idle THEN {} ELSE Concerns(r)
      /\ risk \subseteq risk' /\ risk' \subseteq Tokens /\ Busy(r)
  BY <1>2, FrameFacts DEF Frame
<1>4. TypeOK'
  BY <1>1, <1>2, <1>3 DEF RInv, TypeOK, Frame, Progress
<1>5. CopyInv'
  <2> SUFFICES ASSUME NEW t \in Tokens, t \notin risk', t \notin expired
               PROVE  /\ (loaded /\ (\A q \in Requests : Pending(q) => t \notin Concerns(q)) => (t \in mem <=> t \in disk))'
                      /\ \A q \in Requests : TokenInv(q, t)'
    BY <1>1 DEF CopyInv
  <2>1. /\ loaded /\ (\A q \in Requests : Pending(q) => t \notin Concerns(q)) => (t \in mem <=> t \in disk)
        /\ \A q \in Requests : TokenInv(q, t)
    BY <1>3 DEF RInv, CopyInv
  <2>2. ASSUME NEW q \in Requests \ {r}, Busy(q) PROVE t \notin Concerns(q) /\ t \notin Concerns(r)
    BY <1>3, <2>2
  <2>3. (\A q \in Requests : Pending(q) => t \notin Concerns(q))' => \A q \in Requests : Pending(q) => t \notin Concerns(q)
    <3>1. (Pending(r) => t \notin Concerns(r))' => (Pending(r) => t \notin Concerns(r))
      BY <1>2, <1>3, IdleCall DEF Pending
    <3> QED  BY <1>3, <3>1
  <2>4. TokenInv(r, t)'
    <3>1. CASE req'[r] = Idle
      BY <3>1, IdleCall DEF TokenInv, Pending
    <3>2. CASE req[r].pc = "write" /\ req'[r].pc = "rename" /\ req'[r].op = req[r].op /\ req'[r].snap = mem
               /\ req'[r].blind = ~loaded
      <4>1. Pending(r) /\ (Pending(r))' /\ (Concerns(r))' = Concerns(r)
        BY <1>3, <3>2, IdleCall DEF Pending
      <4>2. t \notin Concerns(r) /\ loaded => (t \in mem <=> t \in disk)
        <5>1. \A q \in Requests \ {r} : Pending(q) => Busy(q)
          BY DEF Pending, Busy
        <5> QED  BY <2>1, <2>2, <5>1
      <4>3. t \in Concerns(r) => (t \in mem <=> req[r].op = "generate")
        BY <2>1, <4>1 DEF TokenInv
      <4> QED  BY <1>1, <3>2, <4>1, <4>2, <4>3 DEF TokenInv
    <3> QED  BY <1>2, <3>1, <3>2
  <2>5. \A q \in Requests \ {r} : TokenInv(q, t)'
    BY <1>1, <1>3, <2>1 DEF TokenInv
  <2> QED  BY <1>1, <2>1, <2>3, <2>4, <2>5
<1>6. \A q \in Requests : PlaceInv(q)'
  <2>1. PlaceInv(r)'
    <3>1. Pending(r) /\ ~(Concerns(r) \subseteq risk) => loaded
      BY DEF RInv, PlaceInv
    <3>2. req[r].pc = "write" => Pending(r)
      BY DEF Pending
    <3> QED  BY <1>1, <1>2, <1>3, <3>1, <3>2, IdleCall DEF PlaceInv, Pending, RInv, HistInv
  <2>2. \A q \in Requests \ {r} : PlaceInv(q)'
    BY <1>1, <1>3 DEF RInv, PlaceInv
  <2> QED  BY <2>1, <2>2
<1>7. \A q \in Requests : ArgInv(q)'
  <2>0. \A p \in Requests : (Busy(p))' => Busy(p) /\ req'[p].op = req[p].op /\ req'[p].arg = req[p].arg
    BY <1>2, <1>3, IdleCall DEF Busy
  <2>1. ArgInv(r)'
    <3>1. CASE req'[r] = Idle
      BY <3>1, IdleCall DEF ArgInv, Busy
    <3>2. CASE req[r].pc = "write" /\ req'[r].pc = "rename" /\ req'[r].op = req[r].op /\ req'[r].arg = req[r].arg
               /\ req'[r].hit = req[r].hit
      BY <1>1, <1>3, <2>0, <3>2 DEF RInv, ArgInv, Pending, Busy
    <3> QED  BY <1>2, <3>1, <3>2
  <2>2. \A q \in Requests \ {r} : ArgInv(q)'
    BY <1>1, <1>3, <2>0 DEF RInv, ArgInv
  <2> QED  BY <2>1, <2>2
<1>8. HistInv' /\ SingleUse' /\ GivenIsKept'
  BY <1>1, <1>3 DEF RInv, HistInv, SingleUse, GivenIsKept
<1> QED  BY <1>3, <1>4, <1>5, <1>6, <1>7, <1>8 DEF RInv

\* What a rename does to the file: nothing for a token that is another's, and for
\* its own tokens what its operation says.
LEMMA RenameEffect ==
    ASSUME RInv, NEW r \in Requests, Rename(r)
    PROVE  /\ Frame(r) /\ req'[r].pc = "done" /\ req'[r].op = req[r].op /\ req'[r].arg = req[r].arg
           /\ UNCHANGED <<mem, loaded, known, issued, expired>>
           /\ disk' \subseteq issued /\ mtime' = mtime + 1
           /\ Concerns(r) \subseteq Tokens
           /\ \A t \in Tokens \ (risk' \cup expired) :
                 /\ t \notin Concerns(r) => (t \in disk' <=> t \in disk)
                 /\ t \in Concerns(r) => loaded /\ (t \in disk' <=> t \in mem) /\ (t \in disk' <=> req[r].op = "generate")
           /\ spent \subseteq spent' /\ spent' \subseteq issued /\ given \subseteq given' /\ given' \subseteq issued
           /\ spent' \subseteq spent \cup Concerns(r) /\ given' \subseteq given \cup Concerns(r)
<1>1. /\ req \in [Requests -> Progress] /\ mem \subseteq issued /\ disk \subseteq issued /\ issued \subseteq Tokens
      /\ spent \subseteq issued /\ given \subseteq issued /\ risk \subseteq Tokens /\ expired \subseteq issued
  BY DEF RInv, TypeOK, Progress
<1>2. /\ req[r].pc = "rename" /\ Pending(r) /\ Busy(r) /\ disk' = req[r].snap /\ mtime' = mtime + 1
      /\ UNCHANGED <<mem, loaded, known, issued, expired>>
      /\ risk' = IF req[r].blind THEN risk \cup disk ELSE risk
  BY DEF Rename, Effect, Pending, Busy
<1>3. PICK p \in Progress : p = req[r]
  BY <1>1
<1>4. Frame(r) /\ req'[r].pc = "done" /\ req'[r].op = req[r].op /\ req'[r].arg = req[r].arg
  <2> DEFINE c == [p EXCEPT !.pc = "done"]
  <2>1. req' = [req EXCEPT ![r] = c]
    BY <1>1, <1>3 DEF Rename, Goto
  <2>2. c \in Progress /\ c.pc = "done" /\ c.op = p.op /\ c.arg = p.arg
    BY DEF Progress
  <2> HIDE DEF c
  <2> QED  BY <1>1, <1>2, <1>3, <2>1, <2>2 DEF Frame
<1>5. Concerns(r) \subseteq Tokens /\ disk' \subseteq issued
  BY <1>1, <1>2, ConcernTokens DEF RInv, ArgInv, PlaceInv, Concerns
<1>6. ASSUME NEW t \in Tokens \ (risk' \cup expired)
      PROVE  /\ t \notin Concerns(r) => (t \in disk' <=> t \in disk)
             /\ t \in Concerns(r) => loaded /\ (t \in disk' <=> t \in mem) /\ (t \in disk' <=> req[r].op = "generate")
  <2>1. t \notin risk /\ t \notin expired /\ TokenInv(r, t) /\ PlaceInv(r)
    BY <1>2, <1>6 DEF RInv, CopyInv
  <2>2. CASE req[r].blind
    BY <1>2, <1>6, <2>1, <2>2 DEF PlaceInv
  <2>3. CASE ~req[r].blind
    BY <1>2, <2>1, <2>3 DEF PlaceInv, TokenInv
  <2> QED  BY <2>2, <2>3
<1>7. /\ spent \subseteq spent' /\ spent' \subseteq issued /\ given \subseteq given' /\ given' \subseteq issued
      /\ spent' \subseteq spent \cup Concerns(r) /\ given' \subseteq given \cup Concerns(r)
  <2>1. given' = IF req[r].op = "generate" THEN given \cup {req[r].arg} ELSE given
    BY DEF Rename, Effect
  <2>2. \/ spent' = spent
        \/ req[r].op = "consume" /\ spent' = spent \cup {req[r].arg}
        \/ req[r].op = "revoke" /\ spent' = spent \cup (OwnedBy(req[r].arg) \cap (disk \cup given))
    BY DEF Rename, Effect
  <2> QED  BY <1>1, <1>2, <2>1, <2>2 DEF RInv, ArgInv, Concerns, Concern
<1> QED  BY <1>2, <1>4, <1>5, <1>6, <1>7

LEMMA RenameTokens ==
    ASSUME RInv, NEW r \in Requests, Rename(r) PROVE RInv'
<1>1. /\ Frame(r) /\ req'[r].pc = "done" /\ req'[r].op = req[r].op /\ req'[r].arg = req[r].arg
      /\ UNCHANGED <<mem, loaded, known, issued, expired>>
      /\ disk' \subseteq issued /\ mtime' = mtime + 1
      /\ Concerns(r) \subseteq Tokens
      /\ \A t \in Tokens \ (risk' \cup expired) :
            /\ t \notin Concerns(r) => (t \in disk' <=> t \in disk)
            /\ t \in Concerns(r) => loaded /\ (t \in disk' <=> t \in mem) /\ (t \in disk' <=> req[r].op = "generate")
      /\ spent \subseteq spent' /\ spent' \subseteq issued /\ given \subseteq given' /\ given' \subseteq issued
      /\ spent' \subseteq spent \cup Concerns(r) /\ given' \subseteq given \cup Concerns(r)
  BY RenameEffect
<1>2. /\ AloneInv'
      /\ \A q \in Requests \ {r} :
            /\ req'[q] = req[q] /\ (Busy(q))' = Busy(q) /\ (Concerns(q))' = Concerns(q) /\ (Pending(q))' = Pending(q)
            /\ Busy(q) => Concerns(q) \subseteq risk /\ Concerns(r) \subseteq risk
      /\ (Concerns(r))' = Concerns(r) /\ (Busy(r))' /\ ~(Pending(r))'
      /\ risk \subseteq risk' /\ risk' \subseteq Tokens /\ Busy(r)
  BY <1>1, FrameFacts, IdleCall DEF Frame, Pending, Busy
<1>3. /\ mem \subseteq issued /\ issued \subseteq Tokens /\ mtime \in Nat /\ used \in [Tokens -> 0 .. 2]
      /\ given \subseteq issued /\ expired \subseteq issued
      /\ req[r].pc = "rename" /\ Pending(r)
  BY DEF RInv, TypeOK, Rename, Pending
<1>4. /\ used' = used \/ /\ req[r].op = "consume" /\ req[r].hit /\ req[r].arg \in Tokens /\ used[req[r].arg] < 2
                         /\ used' = [used EXCEPT ![req[r].arg] = @ + 1]
                         /\ req[r].arg \in spent'
      /\ used' \in [Tokens -> 0 .. 2]
  <2>1. \/ used' = used
        \/ /\ req[r].op = "consume" /\ req[r].hit /\ used[req[r].arg] < 2
           /\ used' = [used EXCEPT ![req[r].arg] = @ + 1]
           /\ req[r].arg \in spent'
    BY DEF Rename, Effect
  <2>2. req[r].op = "consume" => req[r].arg \in Tokens
    BY <1>2, <1>3 DEF RInv, ArgInv
  <2> QED  BY <1>3, <2>1, <2>2
<1>5. TypeOK'
  BY <1>1, <1>2, <1>3, <1>4 DEF RInv, TypeOK, Frame, Progress
<1>6. CopyInv'
  <2> SUFFICES ASSUME NEW t \in Tokens, t \notin risk', t \notin expired
               PROVE  /\ (loaded /\ (\A q \in Requests : Pending(q) => t \notin Concerns(q)) => (t \in mem <=> t \in disk))'
                      /\ \A q \in Requests : TokenInv(q, t)'
    BY <1>1 DEF CopyInv
  <2>1. /\ loaded /\ (\A q \in Requests : Pending(q) => t \notin Concerns(q)) => (t \in mem <=> t \in disk)
        /\ \A q \in Requests : TokenInv(q, t)
    BY <1>2 DEF RInv, CopyInv
  <2>2. (loaded /\ (\A q \in Requests : Pending(q) => t \notin Concerns(q)) => (t \in mem <=> t \in disk))'
    <3>1. CASE t \in Concerns(r)
      BY <1>1, <3>1
    <3>2. CASE t \notin Concerns(r)
      BY <1>1, <1>2, <2>1, <3>2
    <3> QED  BY <3>1, <3>2
  <2>3. TokenInv(r, t)'
    BY <1>1, <1>2 DEF TokenInv
  <2>4. ASSUME NEW q \in Requests \ {r} PROVE TokenInv(q, t)'
    <3>1. Busy(q) => t \notin Concerns(q) /\ t \notin Concerns(r)
      BY <1>2
    <3>2. req[q].pc \in {"assign", "rename"} => Busy(q)
      BY DEF Busy
    <3>3. Busy(q) => (t \in disk' <=> t \in disk)
      BY <1>1, <3>1
    <3> QED  BY <1>1, <1>2, <2>1, <3>1, <3>2, <3>3 DEF TokenInv
  <2> QED  BY <2>2, <2>3, <2>4
<1>7. \A q \in Requests : PlaceInv(q)'
  <2>1. PlaceInv(r)'
    BY <1>1, <1>2 DEF PlaceInv
  <2>2. ASSUME NEW q \in Requests \ {r} PROVE PlaceInv(q)'
    <3>1. PlaceInv(q)
      BY DEF RInv
    <3>2. ASSUME req[q].pc = "compare", req[q].seen = 0 PROVE disk' \subseteq risk' \cup expired'
      <4>1. Busy(q) /\ disk \subseteq risk \cup expired
        BY <3>1, <3>2 DEF PlaceInv, Busy
      <4> QED  BY <1>1, <1>2, <1>3, <4>1
    <3> QED  BY <1>1, <1>2, <3>1, <3>2 DEF PlaceInv
  <2> QED  BY <2>1, <2>2
<1>8. \A q \in Requests : ArgInv(q)'
  <2>0. \A p \in Requests : (Busy(p))' => Busy(p) /\ req'[p].op = req[p].op /\ req'[p].arg = req[p].arg
    BY <1>1, <1>2
  <2>1. ArgInv(r)'
    BY <1>1, <1>2, <2>0 DEF RInv, ArgInv
  <2>2. ASSUME NEW q \in Requests \ {r} PROVE ArgInv(q)'
    <3>1. ArgInv(q) /\ ArgInv(r)
      BY DEF RInv
    <3>2. Pending(q) => Busy(q)
      BY DEF Pending, Busy
    <3>3. Busy(q) /\ req[q].op \in {"generate", "consume"} => req[q].arg \in risk
      BY <1>2 DEF Concerns, Concern
    <3>4. Busy(q) /\ req[q].op = "generate" /\ req[q].arg \in given' => req[q].arg \in given
      <4>1. \/ given' = given
            \/ req[r].op = "generate" /\ given' = given \cup {req[r].arg}
        BY DEF Rename, Effect
      <4> QED  BY <1>2, <3>1, <4>1 DEF ArgInv
    <3> QED  BY <1>1, <1>2, <2>0, <3>1, <3>2, <3>3, <3>4 DEF ArgInv
  <2> QED  BY <2>1, <2>2
<1>9. ASSUME NEW t \in spent', t \in disk', t \notin risk', t \notin expired PROVE FALSE
  <2>1. t \in Tokens
    BY <1>1, <1>3, <1>9
  <2>2. CASE t \notin Concerns(r)
    BY <1>1, <1>2, <1>9, <2>1, <2>2 DEF RInv, HistInv
  <2>3. CASE t \in Concerns(r)
    <3>1. req[r].op = "generate" /\ t = req[r].arg
      BY <1>1, <1>9, <2>1, <2>3 DEF Concerns, Concern
    <3>2. t \in spent
      BY <1>9, <3>1 DEF Rename, Effect
    <3> QED  BY <1>2, <1>3, <1>9, <3>1, <3>2 DEF RInv, ArgInv
  <2> QED  BY <2>2, <2>3
<1>10. HistInv'
  <2>1. \A t \in Tokens : used'[t] > 0 => t \in spent'
    BY <1>1, <1>3, <1>4 DEF RInv, HistInv
  <2>2. mtime' # 0
    BY <1>1, <1>3
  <2> QED  BY <1>1, <1>2, <1>9, <2>1, <2>2 DEF RInv, HistInv
<1>11. SingleUse'
  <2> SUFFICES ASSUME NEW t \in Tokens, t \notin risk' PROVE used'[t] <= 1
    BY DEF SingleUse
  <2>1. t \notin risk /\ used[t] <= 1 /\ used[t] \in 0 .. 2
    BY <1>2, <1>3 DEF RInv, SingleUse
  <2>2. CASE used' = used
    BY <2>1, <2>2
  <2>3. CASE req[r].op = "consume" /\ req[r].hit /\ used' = [used EXCEPT ![req[r].arg] = @ + 1]
    <3>1. t = req[r].arg => t \notin spent
      BY <1>2, <1>3, <2>1, <2>3 DEF RInv, ArgInv
    <3>2. t = req[r].arg => used[t] = 0
      BY <2>1, <3>1 DEF RInv, HistInv
    <3> QED  BY <1>3, <2>1, <2>3, <3>2
  <2> QED  BY <1>4, <2>2, <2>3
<1>12. GivenIsKept'
  <2> SUFFICES ASSUME NEW t \in given', t \notin spent', t \notin expired, t \notin risk' PROVE t \in disk'
    BY <1>1 DEF GivenIsKept
  <2>1. t \in Tokens
    BY <1>1, <1>3
  <2>2. CASE t \notin Concerns(r)
    BY <1>1, <1>2, <2>1, <2>2 DEF RInv, GivenIsKept
  <2>3. CASE t \in Concerns(r)
    <3>1. CASE req[r].op = "generate"
      BY <1>1, <2>1, <2>3, <3>1
    <3>2. CASE req[r].op = "consume"
      <4>1. t = req[r].arg /\ (req[r].hit => t \in spent')
        BY <2>3, <3>2 DEF Concerns, Concern, Rename, Effect
      <4>2. ~req[r].hit => t \in expired
        BY <1>2, <1>3, <3>2, <4>1 DEF RInv, ArgInv
      <4> QED  BY <4>1, <4>2
    <3>3. CASE req[r].op = "revoke"
      <4>1. given' = given /\ OwnedBy(req[r].arg) \cap given \subseteq spent' /\ Concerns(r) = OwnedBy(req[r].arg)
        BY <3>3 DEF Rename, Effect, Concerns, Concern
      <4> QED  BY <2>3, <4>1
    <3>4. CASE req[r].op \notin {"generate", "consume", "revoke"}
      BY <2>3, <3>4 DEF Concerns, Concern
    <3> QED  BY <3>1, <3>2, <3>3, <3>4
  <2> QED  BY <2>2, <2>3
<1> QED  BY <1>2, <1>5, <1>6, <1>7, <1>8, <1>10, <1>11, <1>12 DEF RInv

-----------------------------------------------------------------------------
LEMMA ExpireTokens ==
    ASSUME RInv, NEW t \in Tokens, Expire(t) PROVE RInv'
<1>1. /\ UNCHANGED <<mem, loaded, known, mtime, disk, req, issued, spent, used, given, risk>>
      /\ expired \subseteq expired' /\ expired' \subseteq issued
  BY DEF Expire, store, RInv, TypeOK
<1>2. \A r \in Requests : /\ (Busy(r))' = Busy(r) /\ (Concerns(r))' = Concerns(r) /\ (Pending(r))' = Pending(r)
                          /\ \A v \in Tokens : TokenInv(r, v)' = TokenInv(r, v)
  BY <1>1 DEF Busy, Concerns, Concern, Pending, TokenInv
<1>3. TypeOK' /\ AloneInv'
  BY <1>1, <1>2 DEF RInv, TypeOK, AloneInv
<1>4. CopyInv'
  BY <1>1, <1>2 DEF RInv, CopyInv
<1>5. \A r \in Requests : PlaceInv(r)' /\ ArgInv(r)'
  BY <1>1, <1>2 DEF RInv, PlaceInv, ArgInv
<1>6. HistInv' /\ SingleUse' /\ GivenIsKept'
  BY <1>1 DEF RInv, HistInv, SingleUse, GivenIsKept
<1> QED  BY <1>3, <1>4, <1>5, <1>6 DEF RInv

LEMMA RestartTokens ==
    ASSUME RInv, Restart PROVE RInv'
<1>1. /\ mem' = {} /\ loaded' = FALSE /\ known' = 0
      /\ req' \in [Requests -> Progress] /\ \A r \in Requests : req'[r] = Idle
      /\ UNCHANGED <<mtime, disk, issued, expired, spent, used, given, risk>>
  BY IdleCall DEF Restart, hist
<1>2. TypeOK'
  BY <1>1 DEF RInv, TypeOK, Progress
<1>3. \A r \in Requests : ~(Busy(r))' /\ ~(Pending(r))'
  BY <1>1, IdleCall DEF Busy, Pending
<1>4. AloneInv' /\ CopyInv' /\ \A r \in Requests : PlaceInv(r)' /\ ArgInv(r)'
  BY <1>1, <1>3, IdleCall DEF AloneInv, CopyInv, TokenInv, PlaceInv, ArgInv
<1>5. HistInv' /\ SingleUse' /\ GivenIsKept'
  BY <1>1 DEF RInv, HistInv, SingleUse, GivenIsKept
<1> QED  BY <1>2, <1>4, <1>5 DEF RInv

LEMMA TokensNext ==
    ASSUME RInv, [Next]_rvars PROVE RInv'
<1>1. CASE UNCHANGED rvars
  BY <1>1 DEF rvars, store, hist, RInv, TypeOK, AloneInv, Busy, Concerns, CopyInv, TokenInv, Pending, PlaceInv, ArgInv,
              HistInv, SingleUse, GivenIsKept
<1>2. ASSUME NEW r \in Requests, Calls(r) PROVE RInv'
  BY <1>2, CallTokens
<1>3. ASSUME NEW r \in Requests, Steps(r) PROVE RInv'
  BY <1>3, LoadTokens, ModifyTokens, WriteTokens, RenameTokens DEF Steps
<1> QED  BY <1>1, <1>2, <1>3, ExpireTokens, RestartTokens DEF Next

\* The calls, the array and the file agree on every token that has met no overlap and no
\* failure, in whatever order the calls interleave, fail and are cut off (reset-tokens.ts:37-70).
THEOREM TokensInvariant == Spec => []RInv
<1> QED  BY TokensInit, TokensNext, PTL DEF Spec

\* A token whose own calls overlapped no other call and met no failure is accepted at most
\* once (consumeToken), whatever the calls about other tokens did.
THEOREM UsedOnce == Spec => []SingleUse
<1>1. RInv => SingleUse
  BY DEF RInv
<1> QED  BY <1>1, TokensInvariant, PTL

\* Such a token, once used or revoked, is in no copy that could become the file or the array
\* again (consumeToken, revokeUserTokens).
THEOREM SpentStaysGone == Spec => []SpentIsGone
<1>1. ASSUME RInv PROVE SpentIsGone
  <2> SUFFICES ASSUME NEW t \in spent, t \notin risk, t \notin expired
               PROVE  \A C \in Copies : t \notin C
    BY DEF SpentIsGone
  <2>1. t \in Tokens /\ t \notin disk /\ mem \subseteq issued
    BY <1>1 DEF RInv, TypeOK, HistInv
  <2>2. \A r \in Requests : Pending(r) /\ t \in Concerns(r) => req[r].op # "generate"
    BY <1>1 DEF RInv, ArgInv, Concerns, Concern, Pending, Busy
  <2>3. t \notin mem
    <3>1. CASE \E r \in Requests : Pending(r) /\ t \in Concerns(r)
      BY <1>1, <2>1, <2>2, <3>1 DEF RInv, CopyInv, TokenInv
    <3>2. CASE \A r \in Requests : Pending(r) => t \notin Concerns(r)
      BY <1>1, <2>1, <3>2 DEF RInv, CopyInv, HistInv
    <3> QED  BY <3>1, <3>2
  <2>4. ASSUME NEW r \in Requests, req[r].pc \in {"assign", "rename"} PROVE t \notin req[r].snap
    <3>1. TokenInv(r, t) /\ PlaceInv(r)
      BY <1>1, <2>1 DEF RInv, CopyInv
    <3> QED  BY <2>1, <2>3, <2>4, <3>1 DEF TokenInv, PlaceInv
  <2> QED  BY <2>1, <2>3, <2>4 DEF Copies
<1> QED  BY <1>1, TokensInvariant, PTL

\* Such a token, once it is in the file, stays there until its use, its revocation or its
\* expiry (generateToken, _atomicWrite).
THEOREM GivenStays == Spec => []GivenIsKept
<1>1. RInv => GivenIsKept
  BY DEF RInv
<1> QED  BY <1>1, TokensInvariant, PTL

-----------------------------------------------------------------------------
(* The file implements the store.                                           *)

LEMMA LeavesLemma ==
    ASSUME NEW V \in SUBSET Tokens, risk \subseteq risk', risk' \subseteq Tokens,
           disk' \subseteq Tokens,
           \A t \in Tokens \ (risk' \cup expired) : t \in disk' <=> t \in V
    PROVE  S!Leaves(V)
<1> DEFINE E == disk' \cap expired
<1>1. risk' = risk \cup risk' /\ disk' \ risk' = ((V \ expired) \cup E) \ risk'
  OBVIOUS
<1>2. risk' \in SUBSET Tokens /\ E \in SUBSET expired
  OBVIOUS
<1> HIDE DEF E
<1> QED  BY <1>1, <1>2 DEF S!Leaves

LEMMA TokenStep ==
    ASSUME RInv, RInv', [Next]_rvars PROVE [S!SNext]_(S!svars)
<1>1. /\ disk \subseteq Tokens /\ disk' \subseteq Tokens /\ risk' \subseteq Tokens
      /\ used \in [Tokens -> 0 .. 2] /\ used' \in [Tokens -> 0 .. 2]
  BY DEF RInv, TypeOK
<1>2. ASSUME UNCHANGED <<disk, given, used, expired>>, risk \subseteq risk' PROVE S!SNext
  <2>1. S!Leaves(disk \ risk)
    BY <1>1, <1>2, LeavesLemma
  <2> QED  BY <1>2, <2>1 DEF S!SNext, S!Sweep
<1>3. CASE UNCHANGED rvars
  BY <1>3 DEF rvars, store, hist, S!svars
<1>4. CASE \E r \in Requests : Calls(r)
  <2>1. PICK r \in Requests, o \in Ops, a \in Tokens \cup Users \cup {Nobody} : Call(r, o, a)
    BY <1>4 DEF Calls, Ops, RInv, TypeOK
  <2> QED  BY <1>2, <2>1 DEF Call, store
<1>5. CASE \E r \in Requests : Steps(r)
  <2>1. PICK r \in Requests : Steps(r)
    BY <1>5
  <2>2. CASE LoadStat(r) \/ LoadCompare(r) \/ LoadRead(r) \/ LoadAssign(r)
    BY <1>2, <2>2 DEF LoadStat, LoadCompare, LoadRead, LoadAssign, store, hist
  <2>3. CASE Generate(r) \/ Consume(r) \/ Revoke(r) \/ Sweep(r)
    <3>1. Modified(r)
      BY <2>3, ModifyShape
    <3> QED  BY <1>2, <3>1 DEF Modified
  <2>4. CASE Write(r) \/ WriteFails(r) \/ Done(r)
    BY <1>2, <2>4 DEF Write, WriteFails, Done, store, hist
  <2>5. CASE Rename(r)
    <3> DEFINE a == req[r].arg
    <3>1. /\ \A t \in Tokens \ (risk' \cup expired) :
                /\ t \notin Concerns(r) => (t \in disk' <=> t \in disk)
                /\ t \in Concerns(r) => (t \in disk' <=> req[r].op = "generate")
          /\ risk \subseteq risk' /\ expired' = expired
      BY <2>5, RenameEffect DEF Frame
    <3>2. ArgInv(r) /\ Pending(r) /\ Busy(r)
      BY <2>5 DEF RInv, Rename, Pending, Busy
    <3>3. ASSUME NEW V \in SUBSET Tokens,
                 \A t \in Tokens \ (risk' \cup expired) :
                    t \in V <=> IF t \in Concerns(r) THEN req[r].op = "generate" ELSE t \in disk
          PROVE  S!Leaves(V)
      <4>1. \A t \in Tokens \ (risk' \cup expired) : t \in disk' <=> t \in V
        BY <3>1, <3>3
      <4> QED  BY <1>1, <3>1, <4>1, LeavesLemma
    <3>4. CASE req[r].op = "generate"
      <4>1. a \in Tokens /\ a \notin given /\ Concerns(r) = {a} /\ given' = given \cup {a} /\ used' = used
        BY <2>5, <3>2, <3>4 DEF ArgInv, Pending, Concerns, Concern, Rename, Effect
      <4>2. S!Leaves((disk \ risk) \cup {a})
        BY <1>1, <3>1, <3>3, <3>4, <4>1
      <4> QED  BY <3>1, <4>1, <4>2 DEF S!SNext, S!Issue
    <3>5. CASE req[r].op = "consume" /\ req[r].hit
      <4>1. a \in Tokens /\ Concerns(r) = {a} /\ given' = given
            /\ used' = IF used[a] < 2 THEN [used EXCEPT ![a] = @ + 1] ELSE used
        BY <2>5, <3>2, <3>5 DEF ArgInv, Concerns, Concern, Rename, Effect, RInv, TypeOK
      <4>2. {t \in Tokens : used'[t] > 0} = {t \in Tokens : used[t] > 0} \cup {a}
        BY <1>1, <4>1
      <4>3. S!Leaves((disk \ risk) \ {a})
        BY <1>1, <3>1, <3>3, <3>5, <4>1
      <4>4. a \in risk \/ (a \in disk \ risk /\ ~(used[a] > 0))
        BY <3>2, <3>5, <4>1 DEF ArgInv, RInv, HistInv
      <4>5. /\ a \in ((disk \ risk) \ {t \in Tokens : used[t] > 0}) \cup risk
            /\ {t \in Tokens : used'[t] > 0} = {t \in Tokens : used[t] > 0} \cup {a}
            /\ UNCHANGED <<given, expired>>
        BY <3>1, <4>1, <4>2, <4>4
      <4> QED  BY <4>1, <4>3, <4>5 DEF S!SNext, S!Use
    <3>6. CASE req[r].op = "consume" /\ ~req[r].hit
      <4>1. Concerns(r) = {a} /\ a \in expired /\ given' = given /\ used' = used
        BY <2>5, <3>2, <3>6 DEF ArgInv, Concerns, Concern, Rename, Effect
      <4>2. S!Leaves(disk \ risk)
        BY <1>1, <3>1, <3>3, <4>1
      <4> QED  BY <3>1, <4>1, <4>2 DEF S!SNext, S!Sweep
    <3>7. CASE req[r].op = "revoke"
      <4>1. Concerns(r) = OwnedBy(a) /\ a \in Users /\ given' = given /\ used' = used
        BY <2>5, <3>2, <3>7 DEF ArgInv, Concerns, Concern, Rename, Effect
      <4>2. S!Leaves({t \in disk \ risk : Owner[t] # a})
        BY <1>1, <3>1, <3>3, <3>7, <4>1 DEF OwnedBy
      <4> QED  BY <3>1, <4>1, <4>2 DEF S!SNext, S!RevokeUser
    <3>8. CASE req[r].op \notin {"generate", "consume", "revoke"}
      <4>1. Concerns(r) = {} /\ given' = given /\ used' = used
        BY <2>5, <3>8 DEF Concerns, Concern, Rename, Effect
      <4>2. S!Leaves(disk \ risk)
        BY <1>1, <3>1, <3>3, <4>1
      <4> QED  BY <3>1, <4>1, <4>2 DEF S!SNext, S!Sweep
    <3> QED  BY <3>4, <3>5, <3>6, <3>7, <3>8
  <2> QED  BY <2>1, <2>2, <2>3, <2>4, <2>5 DEF Steps
<1>6. CASE \E t \in Tokens : Expire(t)
  BY <1>6 DEF Expire, store, S!SNext, S!Expire
<1>7. CASE Restart
  BY <1>2, <1>7 DEF Restart, hist
<1> QED  BY <1>3, <1>4, <1>5, <1>6, <1>7 DEF Next

\* Through interleaved and failing calls and restarts, the file is the store that TokenService
\* specifies: every rename is one issue, use, revocation or sweep (_atomicWrite), and only
\* what has met an overlap or a failure is given up.
THEOREM FileIsTheService == Spec => ImplementsService
<1>1. Init => S!SInit
  BY DEF Init, S!SInit
<1> QED  BY <1>1, TokensInvariant, TokenStep, PTL DEF Spec, S!Service, ImplementsService
=============================================================================
