-------------------------------- MODULE Chunker --------------------------------
(***************************************************************************)
(* How the text of an import is cut into chunks (server/import/chunker.ts). *)
(* A text is a sequence of lines [kind, size]: headings of the first two    *)
(* levels, and everything else, blank lines being those of size 0.  The     *)
(* n-th character of line j is <<j, n>>; a heading is named by its line,    *)
(* and 0 stands for no heading.                                             *)
(***************************************************************************)
EXTENDS Naturals, SequencesExt

CONSTANTS
    MaxChars,  \* the default of maxChars
    Overlap    \* the default of overlap

\* With an overlap of a whole chunk hardCut would never end; nobody passes one.
ASSUME ChunkAssumption == MaxChars \in Nat \ {0} /\ Overlap \in 0 .. MaxChars - 1

LineBreak == <<0, 0>>

\* lines.join("\n") and trim(), for the lines js of the text.
Joined(md, js) ==
    FlattenSeq([i \in DOMAIN js |-> (IF i = 1 THEN <<>> ELSE <<LineBreak>>)
                                        \o [n \in 1 .. md[js[i]].size |-> <<js[i], n>>]])
Trimmed(chars) ==
    LET ink == {i \in DOMAIN chars : chars[i] # LineBreak}
    IN  IF ink = {} THEN <<>> ELSE SubSeq(chars, Min(ink), Max(ink))

\* The lines so far become a section, unless they are blank.
Flushed(md, s) ==
    LET body == Trimmed(Joined(md, s.buf))
    IN  [s EXCEPT !.buf = <<>>,
                  !.sections = IF body = <<>> THEN @
                               ELSE Append(@, [crumb |-> <<s.h1, s.h2>>, body |-> body])]

Walked(md) ==
    LET Line(s, j) ==
            CASE md[j].kind = "h1" -> [Flushed(md, s) EXCEPT !.h1 = j, !.h2 = 0]
              [] md[j].kind = "h2" -> [Flushed(md, s) EXCEPT !.h2 = j]
              [] OTHER             -> [s EXCEPT !.buf = Append(@, j)]
    IN  FoldLeft(Line, [h1 |-> 0, h2 |-> 0, buf |-> <<>>, sections |-> <<>>], [j \in DOMAIN md |-> j])

splitSections(md) == Flushed(md, Walked(md)).sections

\* Each piece begins Overlap characters before the end of the one before.
hardCut(body) ==
    LET cut[i \in 1 .. Len(body)] ==
            LET end == Min({Len(body), i + MaxChars - 1})
            IN  <<SubSeq(body, i, end)>> \o IF end = Len(body) THEN <<>> ELSE cut[end + 1 - Overlap]
    IN  cut[1]

\* A text of headings alone is one section, headings and all.
chunkMarkdown(md) ==
    LET whole    == Trimmed(Joined(md, [j \in DOMAIN md |-> j]))
        sections == IF splitSections(md) # <<>> THEN splitSections(md)
                    ELSE <<[crumb |-> <<0, 0>>, body |-> whole]>>
        Pieces(s) == IF Len(s.body) <= MaxChars THEN <<s.body>> ELSE hardCut(s.body)
    IN  IF whole = <<>> THEN <<>>
        ELSE FlattenSeq([i \in DOMAIN sections |->
                 [k \in DOMAIN Pieces(sections[i]) |->
                     [crumb |-> sections[i].crumb, text |-> Pieces(sections[i])[k]]]])

-----------------------------------------------------------------------------
(* What a reader of the text expects of its chunks.                          *)

LastOf(js) == IF js = {} THEN 0 ELSE Max(js)

\* The headings a line stands under: the last of the first level, and the last
\* of the second level after that.
Above(md, j) ==
    LET h1 == LastOf({i \in 1 .. j : md[i].kind = "h1"})
    IN  <<h1, LastOf({i \in h1 + 1 .. j : md[i].kind = "h2"})>>

\* Every character that is not of a heading is in a chunk of those in ks, under
\* its headings.
Complete(md, chunks, ks) ==
    \A j \in DOMAIN md : md[j].kind = "text" =>
        \A n \in 1 .. md[j].size : \E k \in ks :
            chunks[k].crumb = Above(md, j) /\ <<j, n>> \in Range(chunks[k].text)

\* No chunk is empty or longer than it may be.
Fit(chunks) == \A k \in DOMAIN chunks : Len(chunks[k].text) \in 1 .. MaxChars
=============================================================================
