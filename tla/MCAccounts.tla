----------------------------- MODULE MCAccounts -----------------------------
(* Small instances of Accounts for TLC: a server without users, and one with *)
(* a global admin and a user, both with passwords.                           *)
EXTENDS Accounts, TLC

CONSTANTS alice, bob, p1, p2, r1, r2, token

With(f, g) == [u \in Users |-> IF u = alice THEN f ELSE g]
Entry(p, a, e) == [pw |-> p, admin |-> a, enabled |-> e]

Running == {With(Entry(p1, TRUE, TRUE), Entry(p1, FALSE, TRUE))}
EitherStart == Running \cup {NoFile}

\* An entry removed, a hash replaced, and two entries changed at once.
Typed == {With(Entry(p1, TRUE, TRUE), NoUser),
          With(Entry(p1, TRUE, TRUE), Entry(p2, FALSE, TRUE)),
          With(Entry(p1, FALSE, FALSE), Entry(p1, TRUE, TRUE))}

TheOthers == {"login", "change", "invite", "script", "promote", "issue", "delete"}
AllAndAdmin == (r1 :> TheOthers) @@ (r2 :> {"admin"})
AdminAndDelete == (r1 :> {"admin"}) @@ (r2 :> {"delete"})
BobsTokens == [t \in Tokens |-> bob]
=============================================================================
