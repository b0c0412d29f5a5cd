----------------------------- MODULE MCImportJobs -----------------------------
(* A small instance of ImportJobs for TLC: an upload whose one section is cut *)
(* in two, and a page with a blank line before its text and a heading without *)
(* any after it; and the chunker on every text of up to five lines.           *)
EXTENDS ImportJobs

CONSTANTS file, page
H1 == [kind |-> "h1", size |-> 1]
H2 == [kind |-> "h2", size |-> 1]
T(n) == [kind |-> "text", size |-> n]
TwoTexts == [i \in Imports |-> IF i = file THEN <<H1, T(3)>> ELSE <<T(0), T(1), H2>>]
AllCalls == {<<file, 0>>, <<file, 1>>, <<file, 2>>, <<page, 0>>, <<page, 1>>}

ASSUME ShortTexts ==
    \A len \in 0 .. 5 : \A md \in [1 .. len -> {H1, H2, T(0), T(1), T(3), T(4)}] :
        LET chunks == chunkMarkdown(md)
        IN  Complete(md, chunks, DOMAIN chunks) /\ Fit(chunks)
=============================================================================
