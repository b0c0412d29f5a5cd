--------------------------- MODULE MCTwoTierSync ---------------------------
(* Small instances of TwoTierSync for TLC, and the parts of its behaviour   *)
(* that isolate one cause at a time.                                        *)
EXTENDS TwoTierSync, TLC

Interchangeable == Permutations(Docs) \cup Permutations(Domains)

\* Everything healthy: nothing is deleted, fails or stops.
UpdatesOnly == Init /\ [][Drain \/ Worker \/ Writes]_vars
=============================================================================
