-------------------------- MODULE EngineCache_proofs --------------------------
(***************************************************************************)
(* Proofs about the two-tier store, TwoTierSync, for any documents, domains, *)
(* contents and batch size: the inductive invariant, and from it the         *)
(* agreement of the two tiers.  And about EngineCache, which extends it, for *)
(* any texts as well: every method of the sidecar takes steps of the store,  *)
(* and what the engines hold agrees with SQLite.                             *)
(***************************************************************************)
EXTENDS EngineCache, TLAPS

-----------------------------------------------------------------------------
(* The two-tier store.                                                       *)

USE DEF Table, Row, Content, NoTable, In, Without, Live, InFlight, Doomed,
        tier1, drain, proc, Deletes, NoDelete, Stopping, Unsynced

\* The initial state satisfies the inductive invariant.
LEMMA InitIInv == Init => IInv
<1> SUFFICES ASSUME Init PROVE IInv
  OBVIOUS
<1> USE DataAssumption DEF Init
<1>1. TypeOK
  BY DEF TypeOK
<1>2. LockInv
  BY DEF LockInv
<1>3. SettledRowsAgree /\ NoZombies /\ FlightInv /\ DeleteInv /\ BareInv
  BY DEF SettledRowsAgree, NoZombies, FlightInv, DeleteInv, BareInv
<1> QED
  BY <1>1, <1>2, <1>3 DEF IInv

\* A write of one or several rows keeps the invariant, with or without their
\* vectors: a row in a drain's hands is recorded as exposed, any other starts
\* waiting for the worker.
LEMMA WriteIInv ==
    ASSUME IInv, NEW g \in Domains, NEW S \in SUBSET Docs, NEW f \in [S -> Values],
           WriteRows(g, f), pending' = pending \cup S, bare' \subseteq bare \cup S
    PROVE  IInv'
<1> USE DataAssumption DEF IInv, WriteRows, Exposed
<1>0. DOMAIN f = S /\ \A d \in S : f[d] \in Values
  OBVIOUS
<1>a. /\ \A d \in S : sq'[d] = [dom |-> g, val |-> f[d]] /\ sq'[d] # NoRow
      /\ \A d \in Docs \ S : sq'[d] = sq[d]
      /\ pending' = pending \cup S
  BY <1>0 DEF TypeOK
<1>1. TypeOK'
  <2>1. sq' \in Table
    BY <1>0 DEF TypeOK
  <2>2. pending' \subseteq Live'
    BY <1>0, <1>a DEF TypeOK
  <2>3. older' \subseteq Docs \X Docs
    BY <1>0 DEF TypeOK
  <2>4. risk' \subseteq Docs
    BY <1>0 DEF TypeOK
  <2>5. bare' \subseteq Live'
    BY <1>0, <1>a DEF TypeOK
  <2> QED
    BY <2>1, <2>2, <2>3, <2>4, <2>5 DEF TypeOK
<1>2. LockInv'
  BY DEF LockInv
<1>3. SettledRowsAgree'
  BY <1>0, <1>a DEF SettledRowsAgree, TypeOK
<1>4. NoZombies'
  BY <1>0, <1>a DEF NoZombies, TypeOK
<1>5. FlightInv'
  BY <1>0, <1>a DEF FlightInv, TypeOK
<1>6. DeleteInv'
  BY <1>0 DEF DeleteInv, TypeOK
<1>7. BareInv'
  BY <1>0, <1>a DEF BareInv, TypeOK
<1> QED
  BY <1>1, <1>2, <1>3, <1>4, <1>5, <1>6, <1>7

\* The pgvector half of a delete keeps the invariant.
LEMMA DeletePgIInv ==
    ASSUME IInv, NEW g \in Domains, NEW D \in SUBSET Docs, DeletePg(g, D)
    PROVE  IInv'
<1> USE DataAssumption DEF IInv, DeletePg
<1>0. /\ del = NoDelete /\ Doomed = {}
      /\ \A d \in Docs : pg'[d] = pg[d] \/ (pg'[d] = NoRow /\ d \in D \cap In(pg, g))
      /\ \A d \in D \ risk' : pg'[d] # NoRow => pg'[d].dom # g
      /\ risk \subseteq risk'
  BY DEF TypeOK
<1>1. TypeOK'
  <2>1. pg' \in Table
    BY DEF TypeOK
  <2> QED
    BY <2>1 DEF TypeOK
<1>2. LockInv'
  BY DEF LockInv
<1>3. NoZombies'
  BY <1>0 DEF NoZombies, TypeOK
<1>4. SettledRowsAgree'
  BY <1>0 DEF SettledRowsAgree, NoZombies, TypeOK
<1>5. FlightInv'
  BY <1>0 DEF FlightInv, TypeOK
<1>6. DeleteInv'
  BY <1>0 DEF DeleteInv, TypeOK
<1>7. BareInv'
  BY <1>0 DEF BareInv, TypeOK
<1> QED
  BY <1>1, <1>2, <1>3, <1>4, <1>5, <1>6, <1>7

\* So does the SQLite half.
LEMMA DeleteSqIInv ==
    ASSUME IInv, DeleteSq PROVE IInv'
<1> USE DataAssumption DEF IInv, DeleteSq
<1>0. \A d \in Docs : /\ d \in Doomed => sq'[d] = NoRow
                      /\ d \notin Doomed => sq'[d] = sq[d]
  BY DEF TypeOK
<1>1. TypeOK'
  BY <1>0 DEF TypeOK
<1>2. LockInv'
  BY DEF LockInv
<1>3. NoZombies'
  BY <1>0 DEF NoZombies, DeleteInv, TypeOK
<1>4. SettledRowsAgree'
  BY <1>0 DEF SettledRowsAgree, TypeOK
<1>5. FlightInv'
  BY <1>0 DEF FlightInv, TypeOK
<1>6. DeleteInv'
  BY DEF DeleteInv
<1>7. BareInv'
  BY <1>0 DEF BareInv, TypeOK
<1> QED
  BY <1>1, <1>2, <1>3, <1>4, <1>5, <1>6, <1>7

\* The listing that opens a drain keeps the invariant.
LEMMA ListIInv ==
    ASSUME IInv, ListUnsynced PROVE IInv'
<1> USE DataAssumption DEF IInv
<1> PICK B \in (SUBSET Unsynced) \ {{}} :
          /\ batch' = [d \in Docs |-> IF d \in Docs \ B THEN NoRow ELSE sq[d]]
          /\ todo' = {sq[d].dom : d \in B}
          /\ risk' = risk \cup (B \cap Doomed)
  BY DEF ListUnsynced
<1> USE DEF ListUnsynced
<1>0. B \subseteq Live /\ \A d \in Docs : /\ d \in B => batch'[d] = sq[d] /\ sq[d].dom \in todo'
                                        /\ d \notin B => batch'[d] = NoRow
  BY DEF TypeOK
<1>1. TypeOK'
  <2>1. batch' \in Table
    BY DEF TypeOK
  <2>2. todo' \subseteq Domains
    BY <1>0 DEF TypeOK
  <2> QED
    BY <2>1, <2>2 DEF TypeOK
<1>2. LockInv'
  <2>1. todo' # {} /\ step' = "push"
    BY <1>0
  <2> QED
    BY <2>1 DEF LockInv
<1>3. SettledRowsAgree' /\ NoZombies' /\ DeleteInv'
  BY DEF SettledRowsAgree, NoZombies, DeleteInv, TypeOK
<1>4. FlightInv'
  BY <1>0 DEF FlightInv, TypeOK
<1>5. BareInv'
  BY <1>0 DEF BareInv, TypeOK
<1> QED
  BY <1>1, <1>2, <1>3, <1>4, <1>5

\* A push of one domain, whoever learns of it, brings pgvector up to the listed
\* rows, which are still SQLite's.
LEMMA PushKeeps ==
    ASSUME IInv, NEW g \in todo, pg' = Pushed(g), UNCHANGED <<tier1, del, risk>>
    PROVE  /\ pg' \in Table
           /\ SettledRowsAgree' /\ NoZombies' /\ DeleteInv'
           /\ \A d \in Docs \ risk : d \in Group(g) => pg'[d] = sq[d] /\ sq[d] = batch[d]
           /\ \A d \in Docs : d \notin Group(g) => pg'[d] = pg[d]
<1> USE DataAssumption DEF IInv, Pushed, Group
<1>1. \A d \in Docs \ risk : d \in Group(g) =>
         pg'[d] = batch[d] /\ sq[d] = batch[d] /\ d \in pending /\ d \notin Doomed
  BY DEF TypeOK, FlightInv
<1>2. \A d \in Docs : d \notin Group(g) => pg'[d] = pg[d]
  BY DEF TypeOK
<1>3. pg' \in Table
  BY DEF TypeOK
<1>4. SettledRowsAgree'
  BY <1>1, <1>2 DEF SettledRowsAgree, TypeOK
<1>5. NoZombies'
  BY <1>1, <1>2 DEF NoZombies, TypeOK
<1>6. DeleteInv'
  BY <1>1, <1>2 DEF DeleteInv, TypeOK
<1> QED
  BY <1>1, <1>2, <1>3, <1>4, <1>5, <1>6

LEMMA PushIInv ==
    ASSUME IInv, NEW g \in Domains, PushDomain(g) PROVE IInv'
<1> USE DataAssumption DEF IInv
<1>0. g \in todo /\ pg' = Pushed(g) /\ UNCHANGED <<tier1, del, risk>>
  BY DEF PushDomain
<1>1. /\ pg' \in Table
      /\ SettledRowsAgree' /\ NoZombies' /\ DeleteInv'
      /\ \A d \in Docs \ risk : d \in Group(g) => pg'[d] = sq[d] /\ sq[d] = batch[d]
      /\ \A d \in Docs : d \notin Group(g) => pg'[d] = pg[d]
  BY <1>0, PushKeeps
<1>2. TypeOK'
  BY <1>1 DEF TypeOK, PushDomain
<1>3. LockInv'
  BY DEF LockInv, PushDomain
<1>4. FlightInv'
  BY <1>1 DEF FlightInv, TypeOK, PushDomain, Group
<1>5. BareInv'
  BY DEF BareInv, PushDomain
<1> QED
  BY <1>1, <1>2, <1>3, <1>4, <1>5

LEMMA PushFailsIInv ==
    ASSUME IInv, NEW g \in Domains, PushFails(g) PROVE IInv'
<1> USE DataAssumption DEF IInv
<1>1. LockInv' /\ FlightInv' /\ BareInv'
  BY DEF LockInv, FlightInv, BareInv, PushFails
<1>2. CASE pg' = pg
  <2>1. TypeOK'
    BY <1>2 DEF TypeOK, PushFails
  <2>2. SettledRowsAgree' /\ NoZombies' /\ DeleteInv'
    BY <1>2 DEF SettledRowsAgree, NoZombies, DeleteInv, PushFails
  <2> QED
    BY <1>1, <2>1, <2>2
<1>3. CASE pg' = Pushed(g)
  <2>1. pg' \in Table /\ SettledRowsAgree' /\ NoZombies' /\ DeleteInv'
    BY <1>3, PushKeeps DEF PushFails
  <2>2. TypeOK'
    BY <2>1 DEF TypeOK, PushFails
  <2> QED
    BY <1>1, <2>1, <2>2
<1> QED
  BY <1>2, <1>3 DEF PushFails

\* Marking: everything in flight has been pushed and is as it was pushed.
LEMMA MarkIInv ==
    ASSUME IInv, MarkSynced PROVE IInv'
<1> USE DataAssumption DEF IInv, MarkSynced, Release
<1>0. todo = {}
  BY DEF LockInv
<1>1. TypeOK'
  BY DEF TypeOK
<1>2. LockInv'
  BY DEF LockInv, TypeOK
<1>3. SettledRowsAgree'
  BY <1>0 DEF SettledRowsAgree, FlightInv, TypeOK
<1>4. NoZombies' /\ DeleteInv'
  BY DEF NoZombies, DeleteInv
<1>5. FlightInv' /\ BareInv'
  BY DEF FlightInv, BareInv
<1> QED
  BY <1>1, <1>2, <1>3, <1>4, <1>5

\* The steps that touch no table: the lock, the two threads, a restart, an outage.
LEMMA ControlIInv ==
    ASSUME IInv,
           NothingToDrain \/ BackoffEnds \/ Worker \/ Closer \/ CloseBegins
             \/ Restart \/ PgChanges
    PROVE  IInv'
<1> USE DataAssumption DEF IInv, NothingToDrain, BackoffEnds, Release, Worker, WorkerLoops,
        WorkerLocks, Closer, Joined, CloserLocks, CloseEnds, CloseBegins, Restart, PgChanges
<1>1. TypeOK'
  <2>1. CASE NothingToDrain \/ BackoffEnds
    BY <2>1 DEF TypeOK
  <2>2. CASE Worker \/ Closer \/ CloseBegins
    BY <2>2 DEF TypeOK
  <2>3. CASE Restart
    BY <2>3 DEF TypeOK
  <2>4. CASE PgChanges
    BY <2>4 DEF TypeOK
  <2> QED
    BY <2>1, <2>2, <2>3, <2>4
<1>2. LockInv'
  <2>1. CASE NothingToDrain \/ BackoffEnds
    BY <2>1 DEF LockInv, TypeOK
  <2>2. CASE Worker \/ Closer
    BY <2>2 DEF LockInv, TypeOK
  <2>3. CASE CloseBegins \/ Restart \/ PgChanges
    BY <2>3 DEF LockInv, TypeOK
  <2> QED
    BY <2>1, <2>2, <2>3
<1>3. SettledRowsAgree' /\ NoZombies' /\ DeleteInv'
  BY DEF SettledRowsAgree, NoZombies, DeleteInv, TypeOK
<1>4. FlightInv' /\ BareInv'
  BY DEF FlightInv, BareInv, TypeOK, LockInv
<1> QED
  BY <1>1, <1>2, <1>3, <1>4

\* Every step of every thread, every failure and every crash keeps it.
LEMMA NextIInv == IInv /\ [Next]_vars => IInv'
<1> SUFFICES ASSUME IInv, [Next]_vars PROVE IInv'
  OBVIOUS
<1>1. CASE Drain
  <2>1. CASE NothingToDrain \/ BackoffEnds
    BY <2>1, ControlIInv
  <2>2. CASE ListUnsynced
    BY <2>2, ListIInv
  <2>3. CASE MarkSynced
    BY <2>3, MarkIInv
  <2>4. CASE \E g \in Domains : PushDomain(g) \/ PushFails(g)
    BY <2>4, PushIInv, PushFailsIInv
  <2> QED
    BY <1>1, <2>1, <2>2, <2>3, <2>4 DEF Drain
<1>2. CASE Writes
  <2>1. CASE \E g \in Domains, d \in Docs, v \in Values : UpsertDoc(g, d, v) \/ UpsertCut(g, d, v)
    <3> PICK g \in Domains, d \in Docs, v \in Values : UpsertDoc(g, d, v) \/ UpsertCut(g, d, v)
      BY <2>1
    <3> DEFINE f == [x \in {d} |-> v]
    <3>1. /\ f \in [{d} -> Values] /\ DOMAIN f = {d}
          /\ WriteRows(g, f) /\ pending' = pending \cup {d} /\ bare' \subseteq bare \cup {d}
      BY DEF UpsertDoc, UpsertCut, Write
    <3> HIDE DEF f
    <3> QED
      BY <3>1, WriteIInv
  <2>2. CASE \E g \in Domains : \E S \in (SUBSET Docs) \ {{}} : \E f \in [S -> Values] :
                UpsertBatch(g, f)
    <3> PICK g \in Domains, S \in SUBSET Docs : \E f \in [S -> Values] : UpsertBatch(g, f)
      BY <2>2
    <3> PICK f \in [S -> Values] : UpsertBatch(g, f)
      OBVIOUS
    <3>1. DOMAIN f = S /\ WriteRows(g, f) /\ pending' = pending \cup S /\ bare' \subseteq bare \cup S
      BY DEF UpsertBatch, Write
    <3> QED
      BY <3>1, WriteIInv
  <2> QED
    BY <1>2, <2>1, <2>2 DEF Writes
<1>3. CASE Deletion
  BY <1>3, DeleteSqIInv, DeletePgIInv DEF Deletion, DeleteDoc, DeleteDomain
<1>4. CASE Worker \/ Closer \/ CloseBegins \/ Restart \/ PgChanges
  BY <1>4, ControlIInv
<1>5. CASE UNCHANGED vars
  <2> USE <1>5 DEF vars, IInv
  <2>1. TypeOK' /\ LockInv'
    BY DEF TypeOK, LockInv
  <2>2. SettledRowsAgree' /\ NoZombies' /\ FlightInv' /\ DeleteInv' /\ BareInv'
    BY DEF SettledRowsAgree, NoZombies, FlightInv, DeleteInv, BareInv
  <2> QED
    BY <2>1, <2>2
<1> QED
  BY <1>1, <1>2, <1>3, <1>4, <1>5 DEF Next

-----------------------------------------------------------------------------
\* The inductive invariant holds in every reachable state.
THEOREM InductiveInvariant == Spec => []IInv
  BY InitIInv, NextIInv, PTL DEF Spec

\* Type correctness of the backend and its worker.
THEOREM TypeCorrect == Spec => []TypeOK
<1>1. IInv => TypeOK
  BY DEF IInv
<1> QED
  BY <1>1, InductiveInvariant, PTL

\* The two tiers agree on every settled document that met no recorded race:
\* the worker's protocol is right whatever fails and whatever is interrupted.
THEOREM TiersAgree == Spec => [](SettledRowsAgree /\ NoZombies)
<1>1. IInv => SettledRowsAgree /\ NoZombies
  BY DEF IInv
<1> QED
  BY <1>1, InductiveInvariant, PTL

\* pgvector serves no document that SQLite does not have in the same domain, if
\* no race of the two tiers has met it.
THEOREM NoneComesBack == Spec => []NoZombies
BY TiersAgree, PTL

\* close() never shuts the connections under a drain.
THEOREM CloseIsSafe == Spec => []NoDrainAfterClose
<1>1. IInv => NoDrainAfterClose
  BY DEF IInv, LockInv, TypeOK, NoDrainAfterClose
<1> QED
  BY <1>1, InductiveInvariant, PTL

-----------------------------------------------------------------------------
(* The engines.                                                              *)

HIDE DEF Stopping, Unsynced
USE DEF cache, Local

\* The texts that exist of a document: in a table, in a drain's hands, or read
\* by the extraction thread to be written back.
Texts(d) == {v \in Values : \/ sq[d] = [dom |-> Home[d], val |-> v]
                            \/ pg[d] = [dom |-> Home[d], val |-> v]
                            \/ batch[d] = [dom |-> Home[d], val |-> v]
                            \/ stamp = [doc |-> d, val |-> v]}

\* Every copy of a document is in its domain, and none was made of a document
\* that has not been captured.
HomeInv ==
    \A d \in Docs : \A r \in {sq[d], pg[d], batch[d]} :
        r # NoRow => r.dom = Home[d] /\ d \in used \cup Seeds

\* The text of a captured document never changes.
TextInv == \A d \in Docs \ Seeds : \A v, w \in Texts(d) : v = w

\* What is read to be written back has been captured; seeds never are.
UsedInv == used \cap Seeds = {} /\ (stamp # NoStamp => stamp.doc \in used)

DataInv == HomeInv /\ TextInv /\ UsedInv
EngInv  == EngineServesLiveDocs /\ EngineMissesOnlyMissed
EInv    == IInv /\ ETypeOK /\ DataInv /\ EngInv

-----------------------------------------------------------------------------
(* The methods and the store.                                               *)

\* No method of the sidecar does to the store what the store does not allow.
LEMMA EngineStepIsStoreStep ==
    ASSUME ETypeOK, [ENext]_evars PROVE [Next]_vars
<1> USE HomeAssumption
<1>1. ASSUME NEW d \in Docs, NEW v \in Values,
             UpsertDoc(Home[d], d, v) \/ UpsertCut(Home[d], d, v)
      PROVE  Next
  BY <1>1 DEF Next, Writes
<1>2. ASSUME NEW d \in Docs, NEW v \in Values,
             \/ Capture(d, v) \/ CaptureCut(d, v)
             \/ Describe(d, v) \/ DescribeCut(d, v) \/ CreateDomain(d, v)
      PROVE  Next
  BY <1>1, <1>2 DEF Capture, CaptureCut, Describe, DescribeCut, CreateDomain
<1>3. ASSUME NEW g \in Domains, NEW S \in (SUBSET Local(g)) \ {{}}, NEW f \in [S -> Values],
             CaptureBatch(g, f)
      PROVE  Next
  <2>1. S \in (SUBSET Docs) \ {{}}
    OBVIOUS
  <2> QED  BY <1>3, <2>1 DEF CaptureBatch, Next, Writes
<1>4. CASE DeleteBegins \/ DeleteEnds
  BY <1>4 DEF DeleteBegins, DeleteEnds, Next, Deletion
<1>5. CASE StampWrites
  BY <1>1, <1>5 DEF StampWrites, ETypeOK, NoStamp
<1>6. CASE \/ \E g \in Domains : CountPg(g)
           \/ CountPending \/ AnswerUnknown \/ UseEngine \/ FillFromSQLite
           \/ \E d \in Docs : StampReads(d)
           \/ UNCHANGED evars
  BY <1>6 DEF CountPg, CountPending, AnswerUnknown, UseEngine, FillFromSQLite, Fill, Goto,
              StampReads, evars
<1>7. CASE Background \/ ERestart
  BY <1>7 DEF Background, ERestart, Next
<1> QED  BY <1>2, <1>3, <1>4, <1>5, <1>6, <1>7 DEF ENext

-----------------------------------------------------------------------------
(* The copies of a document.                                                *)

\* A step that only moves rows, from SQLite to a batch and on to pgvector, or
\* drops them.
Moves ==
    \A d \in Docs : /\ sq'[d] \in {sq[d], NoRow}
                    /\ batch'[d] \in {sq[d], batch[d], NoRow}
                    /\ pg'[d] \in {pg[d], batch[d], NoRow}

LEMMA StoreMoves ==
    ASSUME IInv,
           \/ Drain \/ Worker \/ Closer \/ PgChanges \/ CloseBegins \/ Restart
           \/ DeleteSq \/ UNCHANGED vars
           \/ \E g \in Domains, D \in SUBSET Docs : DeletePg(g, D)
    PROVE  Moves
<1> USE DEF IInv, TypeOK, Moves
<1>1. CASE DeleteSq \/ \E g \in Domains, D \in SUBSET Docs : DeletePg(g, D)
  BY <1>1 DEF DeleteSq, DeletePg
<1>2. CASE Worker \/ Closer \/ PgChanges \/ CloseBegins \/ Restart \/ UNCHANGED vars
  BY <1>2 DEF Worker, WorkerLoops, WorkerLocks, Closer, Joined, CloserLocks, CloseEnds, PgChanges,
              CloseBegins, Restart, vars
<1>3. CASE NothingToDrain \/ MarkSynced \/ BackoffEnds
  BY <1>3 DEF NothingToDrain, MarkSynced, BackoffEnds, Release
<1>4. CASE ListUnsynced
  BY <1>4 DEF ListUnsynced
<1>5. CASE \E g \in Domains : PushDomain(g) \/ PushFails(g)
  BY <1>5 DEF PushDomain, PushFails, Pushed, Group
<1> QED  BY <1>1, <1>2, <1>3, <1>4, <1>5 DEF Drain

\* Such a step makes no new text of any document.
LEMMA MovesData ==
    ASSUME IInv, DataInv, Moves, used' = used, stamp' \in {stamp, NoStamp}
    PROVE  DataInv'
<1>1. HomeInv'
  BY DEF DataInv, HomeInv, Moves
<1>2. TextInv'
  <2> SUFFICES ASSUME NEW d \in Docs \ Seeds PROVE Texts(d)' \subseteq Texts(d)
    BY DEF DataInv, TextInv
  <2> QED  BY DataAssumption, HomeAssumption DEF Texts, Moves, NoStamp
<1>3. UsedInv'
  BY DEF DataInv, UsedInv
<1> QED  BY <1>1, <1>2, <1>3 DEF DataInv

\* A write gives every document of it one row, in its own domain: of a seed, of
\* a new document, or the row that has been read.
LEMMA WriteData ==
    ASSUME IInv, ETypeOK, DataInv, NEW g \in Domains, NEW S \in SUBSET Local(g),
           NEW f \in [S -> Values], WriteRows(g, f), used' = used \cup (S \ Seeds),
           stamp' \in {stamp, NoStamp},
           \A d \in S : d \in Seeds \/ d \notin used \/ stamp = [doc |-> d, val |-> f[d]]
    PROVE  DataInv'
<1> USE DataAssumption, HomeAssumption
<1>1. /\ \A d \in S : sq'[d] = [dom |-> g, val |-> f[d]] /\ Home[d] = g
      /\ \A d \in Docs \ S : sq'[d] = sq[d]
      /\ S \subseteq Docs /\ UNCHANGED <<pg, batch>>
  BY DEF WriteRows, IInv, TypeOK
<1>2. HomeInv'
  <2> SUFFICES ASSUME NEW d \in Docs, NEW r \in {sq'[d], pg'[d], batch'[d]}, r # NoRow
               PROVE  r.dom = Home[d] /\ d \in used' \cup Seeds
    BY DEF HomeInv
  <2>1. CASE r \in {sq[d], pg[d], batch[d]}
    BY <2>1 DEF DataInv, HomeInv
  <2>2. CASE d \in S /\ r = [dom |-> g, val |-> f[d]]
    BY <1>1, <2>2
  <2> QED  BY <1>1, <2>1, <2>2
<1>3. UsedInv'
  BY DEF DataInv, UsedInv
<1>4. TextInv'
  <2> SUFFICES ASSUME NEW d \in Docs \ Seeds, NEW v \in Texts(d)', NEW w \in Texts(d)'
               PROVE  v = w
    BY DEF TextInv
  <2>1. CASE d \notin S
    <3>1. Texts(d)' \subseteq Texts(d)
      BY <1>1, <2>1 DEF Texts, NoStamp
    <3> QED  BY <3>1 DEF DataInv, TextInv
  <2>2. CASE d \in S /\ d \notin used
    <3>1. sq[d] = NoRow /\ pg[d] = NoRow /\ batch[d] = NoRow
      BY <2>2 DEF DataInv, HomeInv
    <3>2. stamp = NoStamp \/ stamp.doc # d
      BY <2>2 DEF DataInv, UsedInv
    <3>3. \A x \in Values : [dom |-> Home[d], val |-> x] # NoRow
      OBVIOUS
    <3>4. stamp' = NoStamp \/ stamp'.doc # d
      BY <3>2 DEF NoStamp
    <3>5. \A x \in Values : x \in Texts(d)' => [dom |-> g, val |-> f[d]] = [dom |-> Home[d], val |-> x]
      BY <1>1, <2>2, <3>1, <3>3, <3>4 DEF Texts, NoStamp
    <3>6. v \in Values /\ w \in Values
      BY DEF Texts
    <3> QED  BY <3>5, <3>6
  <2>3. CASE d \in S /\ stamp = [doc |-> d, val |-> f[d]]
    <3>1. f[d] \in Texts(d)
      BY <2>3 DEF Texts
    <3>2. \A x \in Values : x \in Texts(d)' =>
              x \in Texts(d) \/ [dom |-> g, val |-> f[d]] = [dom |-> Home[d], val |-> x]
      BY <1>1, <2>3 DEF Texts, NoStamp
    <3>3. Texts(d)' \subseteq Texts(d)
      BY <3>1, <3>2 DEF Texts
    <3> QED  BY <3>3 DEF DataInv, TextInv
  <2> QED  BY <2>1, <2>2, <2>3
<1> QED  BY <1>2, <1>3, <1>4 DEF DataInv

\* Every step of the sidecar keeps the copies in order.
LEMMA DataNext ==
    ASSUME IInv, ETypeOK, DataInv, [ENext]_evars PROVE DataInv'
<1> USE HomeAssumption
<1>1. ASSUME NEW d \in Docs, NEW v \in Values,
             UpsertDoc(Home[d], d, v) \/ UpsertCut(Home[d], d, v),
             used' = used \cup ({d} \ Seeds), stamp' \in {stamp, NoStamp},
             d \in Seeds \/ d \notin used \/ stamp = [doc |-> d, val |-> v]
      PROVE  DataInv'
  <2> DEFINE f == [x \in {d} |-> v]
  <2>1. f \in [{d} -> Values] /\ f[d] = v /\ {d} \in SUBSET Local(Home[d])
    OBVIOUS
  <2>2. WriteRows(Home[d], f)
    BY <1>1 DEF UpsertDoc, UpsertCut, Write
  <2> HIDE DEF f
  <2> QED  BY <1>1, <2>1, <2>2, WriteData
<1>2. ASSUME NEW d \in Docs, NEW v \in Values, Capture(d, v) \/ CaptureCut(d, v) PROVE DataInv'
  BY <1>1, <1>2 DEF Capture, CaptureCut
<1>3. ASSUME NEW d \in Docs, NEW v \in Values, Describe(d, v) \/ DescribeCut(d, v) PROVE DataInv'
  BY <1>1, <1>3 DEF Describe, DescribeCut
<1>4. ASSUME NEW g \in Domains, NEW S \in (SUBSET Local(g)) \ {{}}, NEW f \in [S -> Values],
             CaptureBatch(g, f)
      PROVE  DataInv'
  <2>1. DOMAIN f = S /\ WriteRows(g, f) /\ S \cap (used \cup Seeds) = {} /\ used' = used \cup S
        /\ stamp' = stamp
    BY <1>4 DEF CaptureBatch, UpsertBatch, Write
  <2>2. used' = used \cup (S \ Seeds)
    BY <2>1
  <2> QED  BY <2>1, <2>2, WriteData
<1>5. CASE StampWrites
  <2>1. /\ stamp.doc \in Docs /\ stamp.val \in Values
        /\ stamp = [doc |-> stamp.doc, val |-> stamp.val]
    BY <1>5 DEF StampWrites, ETypeOK
  <2>2. stamp.doc \in used /\ stamp.doc \notin Seeds
    BY <1>5 DEF StampWrites, DataInv, UsedInv
  <2>3. used' = used \cup ({stamp.doc} \ Seeds) /\ stamp' = NoStamp
        /\ \/ UpsertDoc(Home[stamp.doc], stamp.doc, stamp.val)
           \/ UpsertCut(Home[stamp.doc], stamp.doc, stamp.val)
    BY <1>5, <2>2 DEF StampWrites
  <2> QED  BY <1>1, <2>1, <2>3
<1>6. ASSUME NEW d \in Docs, StampReads(d) PROVE DataInv'
  <2>1. UNCHANGED <<vars, used>> /\ d \in used
    BY <1>6 DEF StampReads
  <2>2. HomeInv'
    BY <2>1 DEF DataInv, HomeInv, vars
  <2>3. PICK r \in {pg[d], sq[d]} : r # NoRow /\ stamp' = [doc |-> d, val |-> r.val]
    BY <1>6 DEF StampReads, GetDoc
  <2>4. r = [dom |-> Home[d], val |-> r.val] /\ r.val \in Values
    BY <2>3 DEF DataInv, HomeInv, IInv, TypeOK
  <2>5. r.val \in Texts(d)
    BY <2>3, <2>4 DEF Texts
  <2>6. \A x \in Docs : Texts(x)' \subseteq Texts(x)
    BY <2>1, <2>3, <2>5 DEF Texts, vars
  <2>7. TextInv'
    BY <2>6 DEF DataInv, TextInv
  <2>8. UsedInv'
    BY <2>1, <2>3 DEF DataInv, UsedInv
  <2> QED  BY <2>2, <2>7, <2>8 DEF DataInv
<1>7. CASE \/ DeleteBegins \/ DeleteEnds \/ Background \/ ERestart
           \/ \E g \in Domains : CountPg(g)
           \/ CountPending \/ AnswerUnknown \/ UseEngine \/ FillFromSQLite
           \/ UNCHANGED evars
  <2>1. \/ Drain \/ Worker \/ Closer \/ PgChanges \/ CloseBegins \/ Restart
        \/ DeleteSq \/ UNCHANGED vars
        \/ \E g \in Domains, D \in SUBSET Docs : DeletePg(g, D)
    BY <1>7 DEF DeleteBegins, DeleteEnds, Background, ERestart, CountPg, CountPending, AnswerUnknown,
                UseEngine, FillFromSQLite, Fill, Goto, evars, DeleteDomain, DeleteDoc
  <2>2. used' = used /\ stamp' \in {stamp, NoStamp}
    BY <1>7 DEF DeleteBegins, DeleteEnds, Background, ERestart, CountPg, CountPending, AnswerUnknown,
                UseEngine, FillFromSQLite, Fill, Goto, evars
  <2>3. Moves
    BY <2>1, StoreMoves
  <2> QED  BY <2>2, <2>3, MovesData
<1> QED  BY <1>2, <1>3, <1>4, <1>5, <1>6, <1>7 DEF ENext, CreateDomain

-----------------------------------------------------------------------------
(* The types of what the sidecar keeps in memory.                           *)

LEMMA FillType ==
    ASSUME IInv, ETypeOK, DataInv, rpc \in [op : {"engine", "fallback"}, dom : Domains],
           NEW t, t = sq \/ t = pg, NEW D \in SUBSET In(t, rpc.dom), Fill(t, D)
    PROVE  ETypeOK'
<1>1. \A d \in D : d \in Docs /\ Home[d] = rpc.dom
  BY DEF DataInv, HomeInv
<1>2. held' \subseteq held \cup D
  BY DEF Fill
<1>3. /\ cached' = cached \cup {rpc.dom} /\ rpc' = Idle /\ UNCHANGED <<used, stamp>>
      /\ missed' \subseteq missed \cup Docs
  BY DEF Fill
<1> QED  BY <1>1, <1>2, <1>3 DEF ETypeOK

LEMMA TypeNext ==
    ASSUME IInv, ETypeOK, DataInv, [ENext]_evars PROVE ETypeOK'
<1> USE HomeAssumption
<1>1. ASSUME NEW d \in Docs, NEW v \in Values,
             Capture(d, v) \/ CaptureCut(d, v) \/ Describe(d, v) \/ DescribeCut(d, v)
      PROVE  ETypeOK'
  BY <1>1 DEF Capture, CaptureCut, Describe, DescribeCut, Forget, ETypeOK
<1>2. ASSUME NEW g \in Domains, NEW S \in (SUBSET Local(g)) \ {{}}, NEW f \in [S -> Values],
             CaptureBatch(g, f)
      PROVE  ETypeOK'
  <2>1. DOMAIN f \subseteq Docs
    OBVIOUS
  <2> QED  BY <1>2, <2>1 DEF CaptureBatch, Forget, ETypeOK
<1>3. CASE DeleteBegins \/ DeleteEnds \/ Background \/ ERestart \/ UNCHANGED evars
  BY <1>3 DEF DeleteBegins, DeleteEnds, Forget, Background, ERestart, evars, ETypeOK
<1>4. CASE (\E g \in Domains : CountPg(g)) \/ CountPending \/ AnswerUnknown
  BY <1>4 DEF CountPg, CountPending, AnswerUnknown, Goto, At, Idle, ETypeOK
<1>5. CASE UseEngine
  <2>1. rpc \in [op : {"engine"}, dom : Domains]
    BY <1>5 DEF UseEngine, ETypeOK, Idle
  <2>2. CASE Fill(pg, In(pg, rpc.dom))
    BY <2>1, <2>2, FillType
  <2>3. CASE rpc' = Idle /\ UNCHANGED <<vars, cache, used, stamp>>
    BY <2>3 DEF ETypeOK
  <2>4. CASE Goto("fallback", rpc.dom)
    BY <2>1, <2>4 DEF ETypeOK, Goto, At
  <2> QED  BY <1>5, <2>2, <2>3, <2>4 DEF UseEngine
<1>6. CASE FillFromSQLite
  <2>1. rpc \in [op : {"fallback"}, dom : Domains]
    BY <1>6 DEF FillFromSQLite, ETypeOK, Idle
  <2> QED  BY <1>6, <2>1, FillType DEF FillFromSQLite
<1>7. ASSUME NEW d \in Docs, StampReads(d) PROVE ETypeOK'
  <2>1. PICK r \in {pg[d], sq[d]} : r # NoRow /\ stamp' = [doc |-> d, val |-> r.val]
    BY <1>7 DEF StampReads, GetDoc
  <2>2. r.val \in Values
    BY <2>1 DEF IInv, TypeOK
  <2> QED  BY <1>7, <2>1, <2>2 DEF StampReads, ETypeOK
<1>8. CASE StampWrites
  BY <1>8 DEF StampWrites, ETypeOK
<1> QED  BY <1>1, <1>2, <1>3, <1>4, <1>5, <1>6, <1>7, <1>8 DEF ENext, CreateDomain

-----------------------------------------------------------------------------
(* What the engines hold.                                                   *)

\* Only the second half of a delete takes rows from SQLite; a document that
\* leaves the history of races has just been written.
LEMMA LiveNext ==
    ASSUME IInv, [Next]_vars, ~DeleteSq
    PROVE  Live \subseteq Live' /\ risk \subseteq risk' \cup Live'
<1> USE DEF IInv, TypeOK
<1>1. ASSUME NEW g \in Domains, NEW S \in SUBSET Docs, NEW f \in [S -> Values], WriteRows(g, f)
      PROVE  Live \subseteq Live' /\ risk \subseteq risk' \cup Live'
  BY <1>1, DataAssumption DEF WriteRows
<1>2. ASSUME NEW g \in Domains, NEW d \in Docs, NEW v \in Values,
             UpsertDoc(g, d, v) \/ UpsertCut(g, d, v)
      PROVE  Live \subseteq Live' /\ risk \subseteq risk' \cup Live'
  <2> DEFINE f == [x \in {d} |-> v]
  <2>1. f \in [{d} -> Values] /\ WriteRows(g, f) /\ {d} \in SUBSET Docs
    BY <1>2 DEF UpsertDoc, UpsertCut, Write
  <2> HIDE DEF f
  <2> QED  BY <1>1, <2>1
<1>3. CASE Writes
  BY <1>1, <1>2, <1>3 DEF Writes, UpsertBatch, Write
<1>4. CASE Deletion
  BY <1>4 DEF Deletion, DeleteDomain, DeleteDoc, DeletePg
<1>5. CASE Drain
  BY <1>5 DEF Drain, NothingToDrain, ListUnsynced, MarkSynced, BackoffEnds, PushDomain, PushFails
<1>6. CASE Worker \/ Closer \/ CloseBegins \/ Restart \/ PgChanges \/ UNCHANGED vars
  BY <1>6 DEF Worker, WorkerLoops, WorkerLocks, Closer, Joined, CloserLocks, CloseEnds, CloseBegins,
              Restart, PgChanges, vars
<1> QED  BY <1>3, <1>4, <1>5, <1>6 DEF Next

\* What an engine is filled with is in SQLite.
LEMMA FillServes ==
    ASSUME EInv, NEW t, t = sq \/ t = pg, NEW D \in SUBSET In(t, rpc.dom), Fill(t, D)
    PROVE  EngineServesLiveDocs'
<1>1. \A d \in D \ risk : d \in Live
  BY DEF EInv, IInv, NoZombies
<1>2. held' \subseteq held \cup D /\ UNCHANGED vars
  BY DEF Fill
<1> QED  BY <1>1, <1>2 DEF EInv, EngInv, EngineServesLiveDocs, vars

LEMMA ServesNext ==
    ASSUME EInv, [ENext]_evars PROVE EngineServesLiveDocs'
<1> USE HomeAssumption DEF EInv, EngInv
<1>1. [Next]_vars
  BY EngineStepIsStoreStep
<1>2. ASSUME ~DeleteSq, held' \subseteq held \cup Live' PROVE EngineServesLiveDocs'
  BY <1>1, <1>2, LiveNext DEF EngineServesLiveDocs
<1>3. CASE DeleteSq
  <2>1. CASE DeleteEnds
    <3>1. \A d \in Docs : d \in Doomed => Home[d] = del.dom
      BY DEF DataInv, HomeInv
    <3>2. held' = held \ Local(del.dom) /\ risk' = risk
      BY <2>1 DEF DeleteEnds, DeleteSq, Forget
    <3>3. \A d \in Live : d \notin Doomed => d \in Live'
      BY <1>3 DEF DeleteSq, IInv, TypeOK
    <3> QED  BY <3>1, <3>2, <3>3 DEF EngineServesLiveDocs
  <2>2. CASE ERestart
    BY <2>2 DEF ERestart, EngineServesLiveDocs
  <2>3. CASE ~DeleteEnds /\ ~ERestart
    <3>1. del # NoDelete /\ del' = NoDelete
      BY <1>3 DEF DeleteSq
    <3>2. ~Ready
      BY <3>1 DEF Ready
    <3>3. CASE StampWrites \/ Background
      BY <1>3, <3>1, <3>2, <3>3 DEF StampWrites, UpsertDoc, UpsertCut, Write, WriteRows, Background, Drain, NothingToDrain,
           ListUnsynced, MarkSynced, BackoffEnds, PushDomain, PushFails, Worker, WorkerLoops,
           WorkerLocks, Closer, Joined, CloserLocks, CloseEnds, PgChanges
    <3>4. CASE \/ CountPending \/ AnswerUnknown \/ UseEngine \/ FillFromSQLite
               \/ \E d \in Docs : StampReads(d)
               \/ UNCHANGED evars
      BY <3>1, <3>4 DEF CountPending, AnswerUnknown, UseEngine, FillFromSQLite, Fill, Goto, StampReads,
           evars, vars
    <3> QED  BY <2>3, <3>2, <3>3, <3>4 DEF ENext, Capture, CaptureCut, Describe, DescribeCut,
           CreateDomain, CaptureBatch,
           DeleteBegins, CountPg
  <2> QED  BY <2>1, <2>2, <2>3
<1>4. CASE UseEngine \/ FillFromSQLite
  BY <1>2, <1>4, FillServes DEF UseEngine, FillFromSQLite, Goto, DeleteSq, vars, EngineServesLiveDocs
<1>5. ASSUME NEW d \in Docs, NEW v \in Values, Capture(d, v) PROVE held' \subseteq held \cup Live'
  BY <1>5, DataAssumption DEF Capture, UpsertDoc, Write, WriteRows, IInv, TypeOK
<1>6. CASE ~DeleteSq /\ ~UseEngine /\ ~FillFromSQLite
  <2>1. held' \subseteq held \cup Live'
    BY <1>5, <1>6 DEF ENext, CaptureCut, Describe, DescribeCut, CreateDomain, CaptureBatch, Forget, DeleteBegins, DeleteEnds,
         CountPg, CountPending, AnswerUnknown, Goto, StampReads, StampWrites, Background, ERestart, evars
  <2> QED  BY <1>2, <1>6, <2>1
<1> QED  BY <1>3, <1>4, <1>6

\* A step that leaves SQLite, the delete and the engines alone, or forgets some
\* of them, breaks nothing.
LEMMA QuietMisses ==
    ASSUME EInv, UNCHANGED <<sq, del>>, UNCHANGED cache \/ cached' = {}
    PROVE  EngineMissesOnlyMissed'
BY DEF EInv, EngInv, EngineMissesOnlyMissed

\* An engine that has been filled is without what pgvector did not have yet,
\* what a race has met, and what stands behind a blank text.
LEMMA FillMisses ==
    ASSUME EInv, NEW t, rpc.dom \notin cached \/ t = sq, t = sq \/ t = pg,
           NEW D \in SUBSET In(t, rpc.dom), In(t, rpc.dom) \ bare \subseteq D, Fill(t, D)
    PROVE  EngineMissesOnlyMissed'
<1>1. /\ UNCHANGED vars /\ cached' = cached \cup {rpc.dom}
      /\ held \subseteq held' /\ missed \subseteq missed'
      /\ \/ D \subseteq held' /\ \A d \in Local(rpc.dom) : d \in pending \cup risk => d \in missed'
         \/ Local(rpc.dom) \subseteq missed'
  BY DEF Fill
<1>2. \A d \in Live : Home[d] = rpc.dom /\ d \notin pending \cup risk \cup Doomed => d \in D
  BY DEF EInv, IInv, TypeOK, SettledRowsAgree, BareInv, DataInv, HomeInv
<1>3. ASSUME NEW d \in Live, Home[d] \in cached', d \notin held', d \notin missed',
             d \notin Doomed, sq[d].val \notin Blank
      PROVE  FALSE
  <2>1. CASE Home[d] = rpc.dom
    BY <1>1, <1>2, <1>3, <2>1
  <2>2. CASE Home[d] # rpc.dom
    BY <1>1, <1>3, <2>2 DEF EInv, EngInv, EngineMissesOnlyMissed
  <2> QED  BY <2>1, <2>2
<1>4. Live' = Live /\ Doomed' = Doomed /\ sq' = sq
  BY <1>1 DEF vars
<1> QED  BY <1>3, <1>4 DEF EngineMissesOnlyMissed

\* A write of documents whose engine is forgotten, or has been told.
LEMMA WriteMisses ==
    ASSUME EInv, NEW g \in Domains, NEW S \in SUBSET Local(g), NEW f \in [S -> Values],
           WriteRows(g, f), cached' \subseteq cached, held \ Local(g) \subseteq held', missed \ Local(g) \subseteq missed',
           \/ g \notin cached'
           \/ /\ held \subseteq held' /\ missed \subseteq missed'
              /\ \A d \in S : d \in held' \/ d \in missed' \/ f[d] \in Blank
                              \/ (d \in Live /\ f[d] = sq[d].val)
    PROVE  EngineMissesOnlyMissed'
<1> USE HomeAssumption, DataAssumption
<1>1. /\ \A d \in S : sq'[d] = [dom |-> g, val |-> f[d]] /\ Home[d] = g
      /\ \A d \in Docs \ S : sq'[d] = sq[d]
      /\ S \subseteq Docs /\ del' = del
  BY DEF WriteRows, EInv, IInv, TypeOK
<1>a. \A d \in S : sq'[d].dom = g /\ sq'[d].val = f[d] /\ sq'[d] # NoRow
  <2> SUFFICES ASSUME NEW d \in S PROVE sq'[d].dom = g /\ sq'[d].val = f[d] /\ sq'[d] # NoRow
    OBVIOUS
  <2>1. sq'[d] = [dom |-> g, val |-> f[d]] /\ f[d] \in Values
    BY <1>1
  <2>2. sq'[d] \in Content
    BY <2>1
  <2> QED  BY <2>1, <2>2
<1>2. \A d \in Docs : d \in Doomed => d \in Doomed'
  <2> SUFFICES ASSUME NEW d \in Docs, d \in Doomed PROVE d \in Doomed'
    OBVIOUS
  <2>1. sq[d] # NoRow /\ sq[d].dom = Home[d] /\ d \in del.docs /\ Home[d] = del.dom
    BY DEF EInv, DataInv, HomeInv
  <2> QED  BY <1>1, <1>a, <2>1
<1>3. ASSUME NEW d \in Live', Home[d] \in cached', d \notin held', d \notin missed',
             d \notin Doomed', sq'[d].val \notin Blank
      PROVE  FALSE
  <2>1. CASE d \notin S
    BY <1>1, <1>2, <1>3, <2>1 DEF EInv, EngInv, EngineMissesOnlyMissed
  <2>2. CASE d \in S
    <3>1. Home[d] = g /\ sq'[d].val = f[d]
      BY <1>1, <1>a, <2>2
    <3>2. d \in Live /\ f[d] = sq[d].val /\ d \notin held /\ d \notin missed /\ Home[d] \in cached
      BY <1>3, <2>2, <3>1
    <3> QED  BY <1>2, <1>3, <3>1, <3>2 DEF EInv, EngInv, EngineMissesOnlyMissed
  <2> QED  BY <2>1, <2>2
<1> QED  BY <1>3 DEF EngineMissesOnlyMissed

LEMMA MissesNext ==
    ASSUME EInv, [ENext]_evars PROVE EngineMissesOnlyMissed'
<1> USE HomeAssumption
<1>1. ASSUME NEW d \in Docs, NEW v \in Values,
             UpsertDoc(Home[d], d, v) \/ UpsertCut(Home[d], d, v),
             \/ cached' = cached \ {Home[d]} /\ held' = held \ Local(Home[d])
                   /\ missed' = missed \ Local(Home[d])
             \/ Home[d] \notin cached /\ UNCHANGED cache
             \/ /\ cached' = cached /\ held \subseteq held' /\ missed \subseteq missed'
                /\ \/ d \in held' \/ d \in missed' \/ v \in Blank
                   \/ d \in Live /\ v = sq[d].val
      PROVE  EngineMissesOnlyMissed'
  <2> DEFINE f == [x \in {d} |-> v]
  <2>1. f \in [{d} -> Values] /\ f[d] = v /\ {d} \in SUBSET Local(Home[d])
        /\ WriteRows(Home[d], f)
    BY <1>1 DEF UpsertDoc, UpsertCut, Write
  <2> HIDE DEF f
  <2>2. \A x \in {d} : x = d
    OBVIOUS
  <2>3. Home[d] \in Domains
    OBVIOUS
  <2>4. /\ cached' \subseteq cached /\ held \ Local(Home[d]) \subseteq held'
        /\ missed \ Local(Home[d]) \subseteq missed'
    BY <1>1
  <2>5. \/ Home[d] \notin cached'
        \/ /\ held \subseteq held' /\ missed \subseteq missed'
           /\ \A x \in {d} : x \in held' \/ x \in missed' \/ f[x] \in Blank
                           \/ (x \in Live /\ f[x] = sq[x].val)
    BY <1>1, <2>1, <2>2
  <2> QED  BY <2>1, <2>3, <2>4, <2>5, WriteMisses
<1>2. ASSUME NEW d \in Docs, NEW v \in Values, Capture(d, v) PROVE EngineMissesOnlyMissed'
  <2>1. CASE Home[d] \notin cached
    BY <1>1, <1>2, <2>1 DEF Capture
  <2>2. CASE Home[d] \in cached
    BY <1>1, <1>2, <2>2 DEF Capture
  <2> QED  BY <2>1, <2>2
<1>3. ASSUME NEW d \in Docs, NEW v \in Values, Describe(d, v) PROVE EngineMissesOnlyMissed'
  BY <1>1, <1>3 DEF Describe, Forget
<1>13. ASSUME NEW d \in Docs, NEW v \in Values, CaptureCut(d, v) \/ DescribeCut(d, v)
       PROVE  EngineMissesOnlyMissed'
  BY <1>1, <1>13 DEF CaptureCut, DescribeCut
<1>4. ASSUME NEW g \in Domains, NEW S \in (SUBSET Local(g)) \ {{}}, NEW f \in [S -> Values],
             CaptureBatch(g, f)
      PROVE  EngineMissesOnlyMissed'
  BY <1>4, WriteMisses DEF CaptureBatch, UpsertBatch, Write, Forget
<1>5. CASE DeleteBegins
  <2>1. Doomed = {} /\ UNCHANGED <<sq, cache>>
    BY <1>5 DEF DeleteBegins, Ready, DeleteDomain, DeleteDoc, DeletePg
  <2> QED  BY <2>1 DEF EInv, EngInv, EngineMissesOnlyMissed
<1>6. CASE DeleteEnds
  <2>1. \A d \in Docs : /\ d \in Doomed => sq'[d] = NoRow
                        /\ d \notin Doomed => sq'[d] = sq[d]
    BY <1>6 DEF DeleteEnds, DeleteSq, EInv, IInv, TypeOK
  <2>2. /\ cached' = cached \ {del.dom} /\ held' = held \ Local(del.dom)
        /\ missed' = missed \ Local(del.dom)
    BY <1>6 DEF DeleteEnds, Forget
  <2> QED  BY <2>1, <2>2 DEF EInv, EngInv, EngineMissesOnlyMissed
<1>7. CASE Background
  <2>1. UNCHANGED <<sq, del, cache>>
    BY <1>7 DEF Background, Drain, NothingToDrain, ListUnsynced, MarkSynced, BackoffEnds, PushDomain,
         PushFails, Worker, WorkerLoops, WorkerLocks, Closer, Joined, CloserLocks, CloseEnds,
         PgChanges, CloseBegins
  <2> QED  BY <2>1, QuietMisses
<1>8. CASE ERestart
  BY <1>8 DEF ERestart, EngineMissesOnlyMissed
<1>9. CASE \/ \E g \in Domains : CountPg(g)
           \/ CountPending \/ AnswerUnknown
           \/ \E d \in Docs : StampReads(d)
           \/ UNCHANGED evars
  BY <1>9, QuietMisses DEF CountPg, CountPending, AnswerUnknown, Goto, StampReads, evars, vars
<1>10. CASE UseEngine
  BY <1>10, FillMisses, QuietMisses DEF UseEngine, Goto, vars
<1>11. CASE FillFromSQLite
  BY <1>11, FillMisses DEF FillFromSQLite
<1>12. CASE StampWrites
  <2>1. stamp.doc \in Docs /\ stamp.val \in Values /\ stamp.doc \notin Seeds
        /\ stamp = [doc |-> stamp.doc, val |-> stamp.val]
    BY <1>12 DEF StampWrites, EInv, ETypeOK, DataInv, UsedInv
  <2>2. stamp.doc \in Live => stamp.val = sq[stamp.doc].val
    <3> SUFFICES ASSUME stamp.doc \in Live PROVE stamp.val = sq[stamp.doc].val
      OBVIOUS
    <3>1. sq[stamp.doc] \in Content /\ sq[stamp.doc].dom = Home[stamp.doc]
      BY <2>1 DEF EInv, IInv, TypeOK, DataInv, HomeInv
    <3>2. sq[stamp.doc] = [dom |-> Home[stamp.doc], val |-> sq[stamp.doc].val]
      BY <3>1
    <3>3. stamp.val \in Texts(stamp.doc) /\ sq[stamp.doc].val \in Texts(stamp.doc)
      BY <2>1, <3>1, <3>2 DEF Texts
    <3> QED  BY <2>1, <3>3 DEF EInv, DataInv, TextInv
  <2>3. /\ \/ UpsertDoc(Home[stamp.doc], stamp.doc, stamp.val)
           \/ UpsertCut(Home[stamp.doc], stamp.doc, stamp.val)
        /\ cached' = cached /\ held' = held
        /\ missed' = IF stamp.doc \in Live THEN missed ELSE missed \cup {stamp.doc}
    BY <1>12 DEF StampWrites
  <2> QED  BY <1>1, <2>1, <2>2, <2>3
<1> QED  BY <1>2, <1>3, <1>4, <1>5, <1>6, <1>7, <1>8, <1>9, <1>10, <1>11, <1>12, <1>13
     DEF ENext, CreateDomain

-----------------------------------------------------------------------------
LEMMA EngineInit == EInit => EInv
<1> SUFFICES ASSUME EInit PROVE EInv
  OBVIOUS
<1>1. IInv
  BY InitIInv DEF EInit
<1>2. ETypeOK /\ EngInv
  BY DEF EInit, Init, ETypeOK, Idle, EngInv, EngineServesLiveDocs, EngineMissesOnlyMissed
<1>3. DataInv
  BY DataAssumption, HomeAssumption DEF EInit, Init, DataInv, HomeInv, TextInv, UsedInv, Texts, NoStamp
<1> QED  BY <1>1, <1>2, <1>3 DEF EInv

LEMMA EngineNext == EInv /\ [ENext]_evars => EInv'
<1> SUFFICES ASSUME EInv, [ENext]_evars PROVE EInv'
  OBVIOUS
<1>1. IInv'
  BY EngineStepIsStoreStep, NextIInv DEF EInv
<1>2. ETypeOK' /\ DataInv'
  BY TypeNext, DataNext DEF EInv
<1> QED  BY <1>1, <1>2, ServesNext, MissesNext DEF EInv, EngInv

\* The invariant of the store, of the copies of every document and of the engines.
THEOREM EngineInvariant == ESpec => []EInv
BY EngineInit, EngineNext, PTL DEF ESpec

\* The sidecar's methods use the two-tier store as TwoTierSync lets its threads
\* use it, so that all that is proved of the store holds under the sidecar.
THEOREM MethodsUseTheStore == ESpec => Spec
<1>1. EInit => Init
  BY DEF EInit
<1>2. EInv /\ [ENext]_evars => [Next]_vars
  BY EngineStepIsStoreStep DEF EInv
<1> QED  BY <1>1, <1>2, EngineInvariant, PTL DEF ESpec, Spec

\* No engine serves a deleted document, but for one that met a race of the tiers.
THEOREM ServedIsLive == ESpec => []EngineServesLiveDocs
<1>1. EInv => EngineServesLiveDocs
  BY DEF EInv, EngInv
<1> QED  BY <1>1, EngineInvariant, PTL

\* An engine misses only what it could not see when it was filled.
THEOREM MissedIsKnown == ESpec => []EngineMissesOnlyMissed
<1>1. EInv => EngineMissesOnlyMissed
  BY DEF EInv, EngInv
<1> QED  BY <1>1, EngineInvariant, PTL

\* The text of a document that is not a seed is the same wherever it is kept,
\* races and failures included: no extraction writes back an older one.
THEOREM OneTextPerDocument == ESpec => []TextInv
<1>1. EInv => TextInv
  BY DEF EInv, DataInv
<1> QED  BY <1>1, EngineInvariant, PTL
=============================================================================
