---------------------------- MODULE TwoTierSync ----------------------------
(***************************************************************************)
(* The two-tier document store (retrieval/storage/two_tier.py): writes go  *)
(* to SQLite, a SyncWorker thread copies them to pgvector, deletes go to    *)
(* pgvector first and then to SQLite.                                       *)
(*                                                                         *)
(* One step is one call that holds SQLite's lock, or one PostgreSQL         *)
(* transaction: between two of them any other thread may run.  The threads  *)
(* are the RPC loop (upserts, deletes, close), the SyncWorker, and the      *)
(* graph-extraction worker, which writes rows back at any moment.           *)
(***************************************************************************)
EXTENDS Naturals, FiniteSets

CONSTANTS
    Docs,       \* doc_id: UNIQUE in both schemas
    Domains,
    Values,     \* text, embedding and metadata of a row, as one value
    Rejected,   \* the values PostgreSQL refuses whatever its state (a NUL byte)
    BatchSize,  \* the LIMIT of list_unsynced
    NoRow       \* no row of that doc_id in a table

Content == [dom : Domains, val : Values]
Row     == Content \cup {NoRow}
Table   == [Docs -> Row]
NoTable == [d \in Docs |-> NoRow]

\* A two-step delete between its two halves, and the absence of one.
NoDelete == [dom |-> NoRow, docs |-> {}]
Deletes  == [dom : Domains, docs : SUBSET Docs]

ASSUME BatchAssumption == BatchSize \in Nat \ {0}
ASSUME DataAssumption ==
    /\ NoRow \notin Content
    /\ NoRow \notin Domains
    /\ Rejected \subseteq Values

VARIABLES
    sq,        \* SQLite's docs table
    pending,   \* the rows with synced_at IS NULL
    bare,      \* the rows that have no vector in docs_vec
    older,     \* <<d, e>>: the row of d has the smaller doc_key
    pg,        \* pgvector's docs table
    pgUp,      \* PostgreSQL answers
    holder,    \* who holds SyncWorker._lock, that is, who is in _drain_once
    step,      \* where in _drain_once
    batch,     \* the rows list_unsynced returned, as they were then
    todo,      \* the domains of the batch not pushed yet
    wpc,       \* the SyncWorker thread
    life,      \* the backend: open, or how far close() has come
    del,       \* the delete whose pgvector half is done
    risk       \* history: the documents an unguarded race or failure has met

vars == <<sq, pending, bare, older, pg, pgUp, holder, step, batch, todo,
          wpc, life, del, risk>>
tier1 == <<sq, pending, bare, older>>
drain == <<holder, step, batch, todo>>
proc  == <<wpc, life>>

In(t, g)   == {d \in Docs : t[d] # NoRow /\ t[d].dom = g}
Without(t, D) == [d \in Docs |-> IF d \in D THEN NoRow ELSE t[d]]
Live       == {d \in Docs : sq[d] # NoRow}
InFlight   == {d \in Docs : batch[d] # NoRow}

\* The rows a delete that has done its pgvector half is about to remove.
Doomed == del.docs \cap In(sq, del.dom)

Init ==
    /\ sq = NoTable /\ pending = {} /\ bare = {} /\ older = {}
    /\ pg = NoTable /\ pgUp = TRUE
    /\ holder = "nobody" /\ step = "list" /\ batch = NoTable /\ todo = {}
    /\ wpc = "check" /\ life = "open"
    /\ del = NoDelete
    /\ risk = {}

-----------------------------------------------------------------------------
(* Writes.                                                                  *)

\* An upsert meets trouble when the row is in a drain's hands, or when
\* pgvector holds the same doc_id under another domain.  Otherwise it repairs
\* whatever had happened to the document, unless a delete is on its way.
Exposed(g, S) ==
    {d \in S : d \in InFlight \/ (pg[d] # NoRow /\ pg[d].dom # g)}

\* The rows of docs.
WriteRows(g, f) ==
    LET S == DOMAIN f
    IN  /\ sq' = [d \in Docs |-> IF d \in S THEN [dom |-> g, val |-> f[d]] ELSE sq[d]]
        /\ older' = older \cup (Live \X (S \ Live))
        /\ risk' = IF del = NoDelete THEN (risk \ S) \cup Exposed(g, S)
                                     ELSE risk \cup Exposed(g, S)
        /\ UNCHANGED <<pg, pgUp, drain, proc, del>>

\* Mutant: an update leaves synced_at alone.
WriteKeepsMark(g, f) ==
    /\ WriteRows(g, f)
    /\ pending' = pending \cup (DOMAIN f \ Live) /\ bare' = bare \ DOMAIN f

Write(g, f) ==
    /\ WriteRows(g, f)
    /\ pending' = pending \cup DOMAIN f /\ bare' = bare \ DOMAIN f

\* upsert_doc: by the RPC loop, or by the extraction worker stamping a row.
UpsertDoc(g, d, v) ==
    /\ life # "closed"
    /\ Write(g, [x \in {d} |-> v])

\* Its statements are transactions of their own: when one of them fails, or the
\* process is killed before the last, the row of docs has no vector.  (Cut
\* before its vector has gone, an update leaves the new text with the old
\* vector, one more content.)
UpsertCut(g, d, v) ==
    /\ life # "closed"
    /\ WriteRows(g, [x \in {d} |-> v])
    /\ pending' = pending \cup {d} /\ bare' = bare \cup {d}

\* upsert_docs_batch: all rows in one transaction, by the RPC loop only.
UpsertBatch(g, f) ==
    /\ life = "open" /\ del = NoDelete
    /\ Write(g, f)

-----------------------------------------------------------------------------
(* Deletes: pgvector first, its exception swallowed, then SQLite.           *)

\* Mutant: pgvector is left to the worker.
DeletePgSkipped(g, D) ==
    /\ life = "open" /\ del = NoDelete
    /\ del' = [dom |-> g, docs |-> D]
    /\ UNCHANGED <<tier1, pg, pgUp, drain, proc, risk>>

\* An unpushed row of a running drain comes back with the push; a row
\* pgvector was not asked to drop, or did not, stays there.
DeletePg(g, D) ==
    /\ life = "open" /\ del = NoDelete
    /\ del' = [dom |-> g, docs |-> D]
    /\ LET unpushed == {d \in D \cap In(batch, g) : g \in todo}
       IN  \/ /\ pg' = Without(pg, D \cap In(pg, g))
              /\ risk' = risk \cup unpushed
           \/ /\ ~pgUp
              /\ pg' = pg
              /\ risk' = risk \cup unpushed \cup (D \cap In(pg, g))
    /\ UNCHANGED <<tier1, pgUp, drain, proc>>

DeleteDoc(g, d)  == DeletePg(g, {d})
DeleteDomain(g) == DeletePg(g, Docs)

\* Mutant: the row goes, its place in the worker's work stays.
DeleteSqKeepsPending ==
    /\ del # NoDelete
    /\ sq' = Without(sq, Doomed)
    /\ older' = {p \in older : p[1] \notin Doomed /\ p[2] \notin Doomed}
    /\ del' = NoDelete
    /\ UNCHANGED <<pending, bare, pg, pgUp, drain, proc, risk>>

DeleteSq ==
    /\ del # NoDelete
    /\ sq' = Without(sq, Doomed)
    /\ pending' = pending \ Doomed /\ bare' = bare \ Doomed
    /\ older' = {p \in older : p[1] \notin Doomed /\ p[2] \notin Doomed}
    /\ del' = NoDelete
    /\ UNCHANGED <<pg, pgUp, drain, proc, risk>>

-----------------------------------------------------------------------------
(* _drain_once, under SyncWorker._lock, by the worker or by close().        *)

\* What list_unsynced can see: it joins docs with docs_vec.
Unsynced == pending \ bare

\* ORDER BY doc_key ASC LIMIT BatchSize; rows of one batch are not ordered.
IsOldest(B) ==
    /\ B \subseteq Unsynced
    /\ Cardinality(B) <= BatchSize
    /\ Cardinality(B) = BatchSize \/ B = Unsynced
    /\ \A a \in B, b \in Unsynced \ B : <<b, a>> \notin older

\* The lock is released: the worker goes back to its loop, close() goes on.
Release ==
    /\ holder' = "nobody" /\ step' = "list"
    /\ batch' = NoTable /\ todo' = {}
    /\ wpc' = IF holder = "worker" THEN "check" ELSE wpc
    /\ life' = IF holder = "closer" THEN "drained" ELSE life

NothingToDrain ==
    /\ holder # "nobody" /\ step = "list"
    /\ Unsynced = {}
    /\ Release
    /\ UNCHANGED <<tier1, pg, pgUp, del, risk>>

ListUnsynced ==
    /\ holder # "nobody" /\ step = "list"
    /\ \E B \in (SUBSET Unsynced) \ {{}} :
          /\ IsOldest(B)
          /\ batch' = Without(sq, Docs \ B)
          /\ todo' = {sq[d].dom : d \in B}
          /\ risk' = risk \cup (B \cap Doomed)
    /\ step' = "push"
    /\ UNCHANGED <<tier1, pg, pgUp, holder, proc, del>>

Group(g)   == In(batch, g)
Refused(g) == \E d \in Group(g) : batch[d].val \in Rejected
Pushed(g)  == [d \in Docs |-> IF d \in Group(g) THEN batch[d] ELSE pg[d]]

\* Mutant: the rows of the other domains are marked with the first ones.
PushFirstDomainOnly(g) ==
    /\ step = "push" /\ g \in todo
    /\ pgUp /\ ~Refused(g)
    /\ pg' = Pushed(g)
    /\ todo' = {}
    /\ step' = "mark"
    /\ UNCHANGED <<tier1, pgUp, holder, batch, proc, del, risk>>

PushDomain(g) ==
    /\ step = "push" /\ g \in todo
    /\ pgUp /\ ~Refused(g)
    /\ pg' = Pushed(g)
    /\ todo' = todo \ {g}
    /\ step' = IF todo = {g} THEN "mark" ELSE "push"
    /\ UNCHANGED <<tier1, pgUp, holder, batch, proc, del, risk>>

\* The transaction rolls back; or it commits and the answer is lost.
PushFails(g) ==
    /\ step = "push" /\ g \in todo
    /\ \/ (~pgUp \/ Refused(g)) /\ pg' = pg
       \/ ~pgUp /\ ~Refused(g) /\ pg' = Pushed(g)
    /\ step' = "backoff"
    /\ batch' = NoTable /\ todo' = {}
    /\ UNCHANGED <<tier1, pgUp, holder, proc, del, risk>>

\* mark_synced is by doc_id, whatever the row holds by now.
MarkSynced ==
    /\ step = "mark"
    /\ pending' = pending \ InFlight
    /\ Release
    /\ UNCHANGED <<sq, bare, older, pg, pgUp, del, risk>>

\* Mutant: the drain retries until pgvector answers.
BackoffUntilUp ==
    /\ step = "backoff" /\ pgUp
    /\ Release
    /\ UNCHANGED <<tier1, pg, pgUp, del, risk>>

\* Mutant: a failed drain ends the thread.
BackoffEndsThread ==
    /\ step = "backoff"
    /\ holder' = "nobody" /\ step' = "list" /\ batch' = NoTable /\ todo' = {}
    /\ wpc' = IF holder = "worker" THEN "exited" ELSE wpc
    /\ life' = IF holder = "closer" THEN "drained" ELSE life
    /\ UNCHANGED <<tier1, pg, pgUp, del, risk>>

\* The sleep is inside the lock.
BackoffEnds ==
    /\ step = "backoff"
    /\ Release
    /\ UNCHANGED <<tier1, pg, pgUp, del, risk>>

-----------------------------------------------------------------------------
(* The SyncWorker thread and close().                                       *)

Stopping == life # "open"

WorkerLoops ==
    /\ wpc = "check"
    /\ wpc' = IF Stopping THEN "exited" ELSE "lock"
    /\ UNCHANGED <<tier1, pg, pgUp, drain, life, del, risk>>

WorkerLocks ==
    /\ wpc = "lock" /\ holder = "nobody"
    /\ holder' = "worker" /\ wpc' = "drain"
    /\ UNCHANGED <<tier1, pg, pgUp, step, batch, todo, life, del, risk>>

CloseBegins ==
    /\ life = "open" /\ del = NoDelete
    /\ life' = "joining"
    /\ UNCHANGED <<tier1, pg, pgUp, drain, wpc, del, risk>>

\* join(timeout=10): the worker has ended, or is still in a drain that takes
\* longer than that (a backoff lasts up to 60 s).
Joined ==
    /\ life = "joining"
    /\ wpc \in {"exited", "drain"}
    /\ life' = "final"
    /\ UNCHANGED <<tier1, pg, pgUp, drain, wpc, del, risk>>

\* Mutant: no final drain, hence no wait for a running one.
CloserDoesNotWait ==
    /\ life = "final"
    /\ life' = "drained"
    /\ UNCHANGED <<tier1, pg, pgUp, drain, wpc, del, risk>>

CloserLocks ==
    /\ life = "final" /\ holder = "nobody"
    /\ holder' = "closer" /\ life' = "draining"
    /\ UNCHANGED <<tier1, pg, pgUp, step, batch, todo, wpc, del, risk>>

CloseEnds ==
    /\ life = "drained"
    /\ life' = "closed"
    /\ UNCHANGED <<tier1, pg, pgUp, drain, wpc, del, risk>>

\* The process starts again, after close() or killed at any moment: both
\* tables survive, the drain and the second half of a delete do not.
Restart ==
    /\ life' = "open" /\ wpc' = "check"
    /\ holder' = "nobody" /\ step' = "list" /\ batch' = NoTable /\ todo' = {}
    /\ del' = NoDelete
    /\ risk' = risk \cup Doomed
    /\ UNCHANGED <<tier1, pg, pgUp>>

PgChanges ==
    /\ pgUp' = ~pgUp
    /\ UNCHANGED <<tier1, pg, drain, proc, del, risk>>

-----------------------------------------------------------------------------
Drain == \/ NothingToDrain \/ ListUnsynced \/ MarkSynced \/ BackoffEnds
         \/ \E g \in Domains : PushDomain(g) \/ PushFails(g)
Worker == WorkerLoops \/ WorkerLocks
Closer == Joined \/ CloserLocks \/ CloseEnds
Writes == \E g \in Domains :
             \/ \E d \in Docs, v \in Values : UpsertDoc(g, d, v) \/ UpsertCut(g, d, v)
             \/ \E S \in (SUBSET Docs) \ {{}} : \E f \in [S -> Values] : UpsertBatch(g, f)
Deletion == \/ DeleteSq
            \/ \E g \in Domains : DeleteDomain(g) \/ \E d \in Docs : DeleteDoc(g, d)

Next == Drain \/ Worker \/ Closer \/ Writes \/ Deletion
        \/ CloseBegins \/ Restart \/ PgChanges

Spec == Init /\ [][Next]_vars

\* The operating system runs every ready thread; PostgreSQL answers or fails
\* within its timeouts; close() is called, a crash happens, or never.
Fairness == WF_vars(Drain) /\ WF_vars(Worker) /\ WF_vars(Closer)
FairSpec == Spec /\ Fairness

-----------------------------------------------------------------------------
TypeOK ==
    /\ sq \in Table /\ pg \in Table /\ batch \in Table
    /\ pending \subseteq Live /\ bare \subseteq Live
    /\ older \subseteq Docs \X Docs
    /\ pgUp \in BOOLEAN
    /\ holder \in {"nobody", "worker", "closer"}
    /\ step \in {"list", "push", "mark", "backoff"}
    /\ todo \subseteq Domains
    /\ wpc \in {"check", "lock", "drain", "exited"}
    /\ life \in {"open", "joining", "final", "draining", "drained", "closed"}
    /\ del \in Deletes \cup {NoDelete}
    /\ risk \subseteq Docs

\* A row that is not waiting for the worker is in pgvector with the very
\* content SQLite has, whatever was interrupted, repeated, or in whatever order
\* it ran - but for the documents that met one of the recorded races.
SettledRowsAgree ==
    \A d \in Docs \ risk :
        sq[d] # NoRow /\ d \notin pending /\ d \notin Doomed => pg[d] = sq[d]

\* pgvector never serves a document that SQLite does not have, or has under
\* another domain - but for the documents that met one of the recorded races.
NoZombies ==
    \A d \in Docs \ risk :
        pg[d] # NoRow => sq[d] # NoRow /\ sq[d].dom = pg[d].dom

\* close() shuts the connections only when no drain is running or can start,
\* although the join of the worker may have timed out in the middle of one.
NoDrainAfterClose ==
    life \in {"drained", "closed"} => holder = "nobody" /\ wpc \in {"check", "exited"}

(* What makes those inductive. *)

\* Who is in _drain_once, and how far; the locking discipline of close().
LockInv ==
    /\ holder = "worker" <=> wpc = "drain"
    /\ holder = "closer" <=> life = "draining"
    /\ holder = "nobody" => step = "list"
    /\ step \notin {"push", "mark"} => batch = NoTable
    /\ step = "push" <=> todo # {}
    /\ life = "final" => wpc # "lock"
    /\ life \in {"draining", "drained", "closed"} => wpc \in {"check", "exited"}

\* A document in a drain's hands: before its push the row is as it was listed
\* and no delete is on its way; after it, it is pushed, or deleted everywhere.
FlightInv ==
    \A d \in InFlight \ risk :
        IF batch[d].dom \in todo
        THEN sq[d] = batch[d] /\ d \in pending /\ d \notin Doomed
        ELSE sq[d] # NoRow => sq[d] = batch[d] /\ (pg[d] = sq[d] \/ d \in Doomed)

\* Between the two halves of a delete pgvector has nothing left to delete.
DeleteInv ==
    \A d \in del.docs \ risk : pg[d] # NoRow => pg[d].dom # del.dom

\* A row without a vector waits, and no drain has it in its hands.
BareInv == bare \ risk \subseteq pending \ InFlight

IInv == TypeOK /\ LockInv /\ SettledRowsAgree /\ NoZombies /\ FlightInv /\ DeleteInv /\ BareInv

-----------------------------------------------------------------------------
(* Reads: pgvector when it answers and has something, SQLite otherwise.     *)

GetDoc(g, d) ==
    IF pgUp /\ d \in In(pg, g) THEN pg[d] ELSE IF d \in In(sq, g) \ bare THEN sq[d] ELSE NoRow

\* What a comment of the code says of every document, race or no race.
\* sqlite_vec.py:269: an updated row is re-pushed to pgvector.
UpdatesReachPg ==
    \A d \in Live \ pending : d \notin Doomed => pg[d] = sq[d]

-----------------------------------------------------------------------------
(* Progress. *)

\* Once pgvector stays up, the backend stays open and nobody else writes, every
\* row ends up pushed and marked, after any history of outages and crashes: no
\* row is left behind by the batch limit or by a failed drain, but for a row
\* whose own upsert was cut off before its vector.  (A row that pgvector
\* refuses blocks its whole batch, hence the third premise.)
Calm == /\ <>[](pgUp /\ life = "open")
        /\ <>[][Drain \/ Worker]_vars
        /\ <>[](\A d \in pending : sq[d].val \notin Rejected)
PendingDrains == Calm => <>[](pending \subseteq bare)

\* close() comes to its end, whether or not pgvector ever answers again.
CloseReturns == life = "joining" ~> life \in {"closed", "open"}
=============================================================================
