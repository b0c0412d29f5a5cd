------------------------------- MODULE MCGateway -------------------------------
(* A small instance of Gateway for TLC: two users, one who may be a reader,   *)
(* a writer of one domain and administrator of the other, or disabled, and    *)
(* one who may be a global admin or a reader; a domain that is named with a   *)
(* word that is no level; one document in each of two     *)
(* domains; and answers of up to four payloads in the way of each provider,   *)
(* with and without an ending.                                                *)
EXTENDS Gateway, TLC

CONSTANTS p1, p2, d1, d2, x1, x2, r1, r2

P(kind, text) == [kind |-> kind, text |-> text]

HomeOf == (x1 :> d1) @@ (x2 :> d2)
Grant(on, admin, a, b, names) ==
    [enabled |-> on, admin |-> admin, level |-> (d1 :> a) @@ (d2 :> b), named |-> names]
Both(u, v) == (p1 :> u) @@ (p2 :> v)
Boss    == Grant(TRUE, TRUE, 0, 0, {})
Reader  == Grant(TRUE, FALSE, 1, 0, {d1, d2})
Editor  == Grant(TRUE, FALSE, 2, 3, {d1, d2})
AtFirst == Both(Reader, Boss)
NoBoss  == Both(Editor, Grant(TRUE, FALSE, 1, 0, {d1}))
AnyFile == {AtFirst, Both(Grant(FALSE, FALSE, 2, 3, {d1, d2}), Boss), NoBoss}
AnyEdit == {NoBoss, Unreadable}
Meet(kinds, calls, names, f) == [kinds |-> kinds, calls |-> calls, domains |-> names, file |-> f]
AnyMix == {Meet({"chat"}, {r1, r2}, Domains, AtFirst), Meet({"chat", "stream"}, {r1}, Domains, AtFirst),
           Meet({"reads"}, {r1, r2}, Domains, AtFirst), Meet({"chat", "routes"}, {r1}, Domains, AtFirst),
           Meet({"chat", "grants"}, {r1}, Domains, Unreadable), Meet({"reads", "writes"}, {r1, r2}, {d1}, AtFirst)}
          \cup {Meet({"reads", "writes", "grants"}, {r1}, {d}, AtFirst) : d \in Domains}
          \cup {Meet({"routes", "grants"}, {r1}, {d}, AtFirst) : d \in Domains}

AnyAnswers ==
    ("openai"    :> {<<P("skip", 0), P("text", 1), P("fin", 2), P("DONE", 0)>>,
                     <<P("text", 1), P("text", 2), P("fin", 0)>>,
                     <<P("text", 1), P("DONE", 0)>>}) @@
    ("anthropic" :> {<<P("text", 1), P("skip", 0), P("fin", 0), P("stop", 0)>>,
                     <<P("text", 1), P("text", 2), P("stop", 0)>>}) @@
    ("gemini"    :> {<<P("text", 1), P("fin", 2)>>,
                     <<P("text", 1), P("fin", 0), P("skip", 0)>>,
                     <<P("text", 1), P("skip", 0)>>}) @@
    ("ollama"    :> {<<P("text", 1), P("skip", 0), P("fin", 2)>>,
                     <<P("text", 0), P("text", 1)>>})
=============================================================================
