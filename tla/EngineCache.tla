---------------------------- MODULE EngineCache ----------------------------
(***************************************************************************)
(* The retrieval sidecar (retrieval/sidecar.py) over the two-tier store:    *)
(* the RPC methods that write, delete and retrieve, the in-memory engine    *)
(* cached per domain, and the extraction worker that stamps documents.      *)
(*                                                                         *)
(* The RPC loop is one thread, so only it touches the engines; the steps of *)
(* one method are interleaved with the SyncWorker, the extraction worker    *)
(* and PostgreSQL's failures.                                               *)
(***************************************************************************)
EXTENDS TwoTierSync

CONSTANTS
    Home,   \* the domain of each document: ids are generated, never shared
    Seeds,  \* the _ob2_domain_<domain> documents, written again and again
    Blank   \* the texts Document() refuses: empty or white space

ASSUME HomeAssumption ==
    /\ Home \in [Docs -> Domains]
    /\ NoRow \notin Docs
    /\ Seeds \subseteq Docs
    /\ Blank \subseteq Values

VARIABLES
    cached,  \* the domains with an entry in _engines
    held,    \* the documents in the engine of their domain
    used,    \* the ids given out so far
    rpc,     \* where the RPC method that retrieves has come
    stamp,   \* the row the extraction worker has read to write it back
    missed   \* history: what an engine could not see when it was filled

cache == <<cached, held, missed>>
evars == <<vars, cached, held, used, rpc, stamp, missed>>

Idle    == [op |-> "idle", dom |-> NoRow]
At(o, g) == [op |-> o, dom |-> g]
Ready   == rpc = Idle /\ del = NoDelete
NoStamp == [doc |-> NoRow, val |-> NoRow]
Local(g) == {d \in Docs : Home[d] = g}

EInit ==
    /\ Init
    /\ cached = {} /\ held = {} /\ missed = {}
    /\ used = {} /\ rpc = Idle /\ stamp = NoStamp

-----------------------------------------------------------------------------
(* Writing and deleting.                                                    *)

Forget(g) ==
    /\ cached' = cached \ {g}
    /\ held' = held \ Local(g) /\ missed' = missed \ Local(g)

\* method_capture: the new document joins the engine if there is one; Document()
\* refuses a blank text after the row has been written.
Capture(d, v) ==
    /\ Ready /\ d \notin used \cup Seeds
    /\ life = "open" /\ UpsertDoc(Home[d], d, v)
    /\ used' = used \cup {d}
    /\ IF Home[d] \notin cached THEN UNCHANGED cache
       ELSE /\ held' = IF v \in Blank THEN held ELSE held \cup {d}
            /\ UNCHANGED <<cached, missed>>
    /\ UNCHANGED <<rpc, stamp>>

\* The method fails in the middle of its upsert: the row is there, the engine
\* has not been told.  The next attempt is given another id.
CaptureCut(d, v) ==
    /\ Ready /\ d \notin used \cup Seeds
    /\ life = "open" /\ UpsertCut(Home[d], d, v)
    /\ used' = used \cup {d} /\ missed' = missed \cup {d}
    /\ UNCHANGED <<cached, held, rpc, stamp>>

\* Mutant: the engine is kept and not told.
CaptureBatchKeepsEngine(g, f) ==
    /\ Ready /\ DOMAIN f \cap (used \cup Seeds) = {}
    /\ UpsertBatch(g, f)
    /\ used' = used \cup DOMAIN f
    /\ UNCHANGED <<cache, rpc, stamp>>

CaptureBatch(g, f) ==
    /\ Ready /\ DOMAIN f \cap (used \cup Seeds) = {}
    /\ UpsertBatch(g, f)
    /\ used' = used \cup DOMAIN f
    /\ Forget(g)
    /\ UNCHANGED <<rpc, stamp>>

\* set_domain_description, and create_domain, which first looks for the seed.
Describe(d, v) ==
    /\ Ready /\ d \in Seeds
    /\ life = "open" /\ UpsertDoc(Home[d], d, v)
    /\ Forget(Home[d])
    /\ UNCHANGED <<used, rpc, stamp>>

DescribeCut(d, v) ==
    /\ Ready /\ d \in Seeds
    /\ life = "open" /\ UpsertCut(Home[d], d, v)
    /\ missed' = missed \cup {d}
    /\ UNCHANGED <<cached, held, used, rpc, stamp>>

CreateDomain(d, v) == GetDoc(Home[d], d) = NoRow /\ Describe(d, v)

DeleteBegins ==
    /\ Ready
    /\ \E g \in Domains : DeleteDomain(g) \/ \E d \in Local(g) : DeleteDoc(g, d)
    /\ UNCHANGED <<cache, used, rpc, stamp>>

\* Mutant: the engine outlives the delete.
DeleteKeepsEngine ==
    /\ DeleteSq
    /\ UNCHANGED <<cache, used, rpc, stamp>>

DeleteEnds ==
    /\ DeleteSq /\ Forget(del.dom)
    /\ UNCHANGED <<used, rpc, stamp>>

-----------------------------------------------------------------------------
(* method_retrieve and method_build_context.                                *)

Goto(o, g) == rpc' = At(o, g) /\ UNCHANGED <<vars, cache, used, stamp>>

\* domain_stats: pgvector's count first ...
CountPg(g) ==
    /\ Ready /\ life = "open"
    /\ \/ pgUp /\ Goto(IF In(pg, g) = {} THEN "pending" ELSE "engine", g)
       \/ ~pgUp /\ Goto(IF In(sq, g) = {} THEN "unknown" ELSE "engine", g)

\* ... then, in a second read, the rows the worker has not marked yet.
CountPending ==
    /\ rpc.op = "pending"
    /\ Goto(IF Unsynced \cap In(sq, rpc.dom) = {} THEN "unknown" ELSE "engine", rpc.dom)

AnswerUnknown == rpc.op = "unknown" /\ rpc' = Idle /\ UNCHANGED <<vars, cache, used, stamp>>

\* The engine is in _engines before the first document is added, and stays
\* there when a blank one raises: with what had been added by then.
Fill(t, D) ==
    LET blank == {d \in D : t[d].val \in Blank}
    IN  /\ cached' = cached \cup {rpc.dom}
        /\ IF blank = {} THEN held' = held \cup D
           ELSE \E K \in SUBSET (D \ blank) : held' = held \cup K
        /\ missed' = missed \cup {d \in Local(rpc.dom) : blank # {} \/ d \in pending \cup risk}
        /\ rpc' = Idle
        /\ UNCHANGED <<vars, used, stamp>>

UseEngine ==
    /\ rpc.op = "engine"
    /\ \/ rpc.dom \in cached /\ rpc' = Idle /\ UNCHANGED <<vars, cache, used, stamp>>
       \/ rpc.dom \notin cached /\ pgUp /\ In(pg, rpc.dom) # {} /\ Fill(pg, In(pg, rpc.dom))
       \/ rpc.dom \notin cached /\ (~pgUp \/ In(pg, rpc.dom) = {}) /\ Goto("fallback", rpc.dom)

FillFromSQLite == rpc.op = "fallback" /\ Fill(sq, In(sq, rpc.dom) \ bare)

-----------------------------------------------------------------------------
(* The end of method_extract_entities, on the extraction thread.            *)

StampReads(d) ==
    /\ stamp = NoStamp /\ life # "closed" /\ d \in used
    /\ LET r == GetDoc(Home[d], d)
       IN  r # NoRow /\ stamp' = [doc |-> d, val |-> r.val]
    /\ UNCHANGED <<vars, cache, used, rpc>>

StampWrites ==
    /\ stamp # NoStamp
    /\ \/ UpsertDoc(Home[stamp.doc], stamp.doc, stamp.val)
       \/ UpsertCut(Home[stamp.doc], stamp.doc, stamp.val)
    /\ missed' = IF stamp.doc \in Live THEN missed ELSE missed \cup {stamp.doc}
    /\ stamp' = NoStamp
    /\ UNCHANGED <<cached, held, used, rpc>>

-----------------------------------------------------------------------------
Background ==
    /\ Drain \/ Worker \/ Closer \/ PgChanges \/ (Ready /\ CloseBegins)
    /\ UNCHANGED <<cache, used, rpc, stamp>>

ERestart ==
    /\ Restart
    /\ cached' = {} /\ held' = {} /\ missed' = {} /\ rpc' = Idle /\ stamp' = NoStamp
    /\ UNCHANGED used

ENext ==
    \/ \E d \in Docs, v \in Values : Capture(d, v) \/ CaptureCut(d, v) \/ Describe(d, v)
                                  \/ DescribeCut(d, v) \/ CreateDomain(d, v)
    \/ \E g \in Domains : \E S \in (SUBSET Local(g)) \ {{}} : \E f \in [S -> Values] : CaptureBatch(g, f)
    \/ DeleteBegins \/ DeleteEnds
    \/ \E g \in Domains : CountPg(g)
    \/ CountPending \/ AnswerUnknown \/ UseEngine \/ FillFromSQLite
    \/ \E d \in Docs : StampReads(d)
    \/ StampWrites
    \/ Background \/ ERestart

ESpec == EInit /\ [][ENext]_evars

-----------------------------------------------------------------------------
ETypeOK ==
    /\ cached \subseteq Domains
    /\ held \subseteq {d \in Docs : Home[d] \in cached}
    /\ used \subseteq Docs /\ missed \subseteq Docs
    /\ rpc \in {Idle} \cup [op : {"pending", "unknown", "engine", "fallback"}, dom : Domains]
    /\ stamp \in {NoStamp} \cup [doc : Docs, val : Values]

\* Retrieval serves no deleted document from memory: what an engine holds is
\* still a row of SQLite, but for a document that met a race of the two tiers.
EngineServesLiveDocs == \A d \in held \ risk : d \in Live

\* An engine misses no document of its domain that was in both tiers when it
\* was filled, whatever has been captured, deleted and pushed since.
EngineMissesOnlyMissed ==
    \A d \in Live : Home[d] \in cached /\ d \notin held =>
                        d \in missed \cup Doomed \/ sq[d].val \in Blank

=============================================================================
