----------------------------- MODULE MCOllamaAdmin -----------------------------
(* A small instance of OllamaAdmin for TLC: two models, and one setting of the *)
(* mail section beside the active model; files that have both, that have an    *)
(* empty section, that are torn and that are not there.                        *)
EXTENDS OllamaAdmin, TLC

CONSTANTS m1, m2, r1, r2, j1, j2, j3, off

File(m, p) == ("ollama.model" :> m) @@ ("mail.pass" :> p)
AllKeys    == {"ollama.model", "mail.pass"}
TheMail    == {"mail.pass"}
TheOllama  == {"ollama.model"}
Factory    == File(m1, off)
AnyEnv     == {Empty, File(m2, Absent), File(Absent, m2)}
AnyFile    == {File(m2, m2), File(Absent, off), File(m2, Null), File(Null, off), Torn, Missing}
AnyPut     == {File(m1, Absent), File(m1, m2), File(Null, off)}
TwoKinds   == {{"edit", "save"}, {"edit", "model"}, {"save", "model"}, {"model", "pull"}}
Symmetry   == Permutations({r1, r2}) \cup Permutations({j1, j2, j3})
=============================================================================
