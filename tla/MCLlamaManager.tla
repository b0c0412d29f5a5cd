---------------------------- MODULE MCLlamaManager ----------------------------
(* A small instance of LlamaManager for TLC: two requests beside the restore, *)
(* one request beside a pull, and two pulls of one or of two names (the last  *)
(* two without a restore); a short source, a longer one, and one that is      *)
(* larger than what is taken.                                                 *)
EXTENDS LlamaManager

CONSTANTS r1, r2, p1, p2, a, b, short, long, huge

Meet(rs, ps, ls) == [requests |-> rs, pulls |-> ps, lasts |-> ls]
Pairs == {Meet({r1, r2}, {}, {a, b, NoModel}), Meet({r1}, {p1}, {NoModel}), Meet({}, {p1, p2}, {NoModel})}
Asks == [p \in Pulls |-> IF p = p1 THEN {<<a, long>>, <<a, huge>>} ELSE {<<a, short>>, <<b, long>>}]
Lengths == [s \in Sources |-> IF s = short THEN 1 ELSE IF s = long THEN 2 ELSE 3]
=============================================================================
