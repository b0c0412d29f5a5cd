--------------------------- MODULE MCEngineCache ---------------------------
(* Small instances of EngineCache for TLC. *)
EXTENDS EngineCache

CONSTANT A
OneHome == [d \in Docs |-> A]

\* Everything healthy: captures and retrievals at any moment.
CaptureAndRetrieve ==
    EInit /\ [][\/ \E d \in Docs, v \in Values : Capture(d, v)
                \/ \E g \in Domains : CountPg(g)
                \/ CountPending \/ AnswerUnknown \/ UseEngine \/ FillFromSQLite
                \/ (Drain \/ Worker) /\ UNCHANGED <<cache, used, rpc, stamp>>]_evars
=============================================================================
