--------------------------- MODULE ImportJobs_proofs ---------------------------
(***************************************************************************)
(* Proofs about the link of SidecarRpc and the imports of ImportJobs, for    *)
(* any number of calls, imports and chunks and any room in the pipes.  The   *)
(* link first: its answers are whole lines, and a call is in one place.      *)
(***************************************************************************)
EXTENDS ImportJobs, TLAPS, FiniteSetTheorems, SequenceTheorems

\* The answers on their way are whole lines from the client's point of view:
\* pieces with odd numbers open an answer, the next ones close the same answer.
Lines(s) ==
    \A k \in DOMAIN s : /\ s[k].end <=> k % 2 = 0
                        /\ k % 2 = 0 => s[k - 1] = Opening(s[k].id, s[k].res)
LineInv == Len(buf) <= 1 /\ Lines(Stream) /\ (up => Len(Stream) % 2 = 0)

\* A call is issued before it is anywhere, is nowhere twice, and is somewhere
\* as long as the process runs and the call is pending.
Once(s) == \A j, k \in DOMAIN s : s[j] = s[k] => j = k
PlaceInv ==
    /\ Once(writeQueue) /\ Once(stdin)
    /\ \A c \in Calls :
          /\ In(c, writeQueue) => c \in issued /\ ~In(c, stdin) /\ c \notin work /\ ~Answered(c)
          /\ In(c, stdin) => c \in issued /\ c \notin work /\ ~Answered(c)
          /\ c \in work => c \in issued /\ ~Answered(c)
          /\ Answered(c) => c \in issued
          /\ up /\ c \in pending =>
                In(c, writeQueue) \/ In(c, stdin) \/ c \in work \/ Answered(c)

LinkInv == RTypeOK /\ LineInv /\ PlaceInv

-----------------------------------------------------------------------------
(* Sequences.                                                                *)

LEMMA Concat ==
    ASSUME NEW S, NEW s \in Seq(S), NEW t \in Seq(S)
    PROVE  /\ s \o t \in Seq(S) /\ Len(s \o t) = Len(s) + Len(t) /\ Len(s) \in Nat /\ Len(t) \in Nat
           /\ DOMAIN (s \o t) = 1 .. Len(s) + Len(t)
           /\ \A i \in 1 .. Len(s) + Len(t) : (s \o t)[i] = IF i <= Len(s) THEN s[i] ELSE t[i - Len(s)]
OBVIOUS

\* A queue that gets a new last element, and one that loses its first.
LEMMA Appended ==
    ASSUME NEW S, NEW s \in Seq(S), NEW x \in S
    PROVE  /\ Append(s, x) \in Seq(S) /\ Len(Append(s, x)) = Len(s) + 1
           /\ \A c : In(c, Append(s, x)) <=> In(c, s) \/ c = x
           /\ Once(s) /\ ~In(x, s) => Once(Append(s, x))
<1> DEFINE t == Append(s, x)
<1>1. /\ t \in Seq(S) /\ Len(t) = Len(s) + 1 /\ Len(s) \in Nat
      /\ DOMAIN t = 1 .. Len(s) + 1 /\ DOMAIN s = 1 .. Len(s)
      /\ \A k \in 1 .. Len(s) : t[k] = s[k]
      /\ t[Len(s) + 1] = x
  OBVIOUS
<1> HIDE DEF t
<1>2. \A c : In(c, t) <=> In(c, s) \/ c = x
  BY <1>1 DEF In
<1>3. Once(s) /\ ~In(x, s) => Once(t)
  BY <1>1 DEF In, Once
<1> QED  BY <1>1, <1>2, <1>3 DEF t

LEMMA Removed ==
    ASSUME NEW S, NEW s \in Seq(S), s # <<>>
    PROVE  /\ Tail(s) \in Seq(S) /\ Len(Tail(s)) = Len(s) - 1 /\ Head(s) \in S /\ In(Head(s), s)
           /\ \A c : In(c, Tail(s)) => In(c, s)
           /\ \A c : In(c, s) => c = Head(s) \/ In(c, Tail(s))
           /\ Once(s) => Once(Tail(s)) /\ ~In(Head(s), Tail(s))
<1> DEFINE t == Tail(s)
<1>1. /\ t \in Seq(S) /\ Len(t) = Len(s) - 1 /\ Len(s) \in Nat \ {0} /\ Head(s) \in S
      /\ DOMAIN t = 1 .. Len(s) - 1 /\ DOMAIN s = 1 .. Len(s)
      /\ \A k \in 1 .. Len(s) - 1 : t[k] = s[k + 1]
      /\ s[1] = Head(s)
  OBVIOUS
<1> HIDE DEF t
<1>2. In(Head(s), s) /\ \A c : In(c, t) => In(c, s)
  BY <1>1 DEF In
<1>3. ASSUME NEW c, In(c, s), c # Head(s) PROVE In(c, t)
  <2>1. PICK k \in 1 .. Len(s) : s[k] = c
    BY <1>1, <1>3 DEF In
  <2>2. k - 1 \in 1 .. Len(s) - 1 /\ t[k - 1] = c
    BY <1>1, <1>3, <2>1
  <2> QED  BY <1>1, <2>2 DEF In
<1>4. ASSUME Once(s) PROVE Once(t) /\ ~In(Head(s), t)
  <2>1. \A k \in DOMAIN t : k + 1 \in DOMAIN s /\ t[k] = s[k + 1] /\ k + 1 # 1
    BY <1>1
  <2>2. Once(t)
    BY <1>1, <1>4, <2>1 DEF Once
  <2>3. \A k \in DOMAIN t : t[k] # s[1]
    BY <1>1, <1>4, <2>1 DEF Once
  <2> QED  BY <1>1, <2>2, <2>3 DEF In
<1> QED  BY <1>1, <1>2, <1>3, <1>4 DEF t

\* The stream and its parts.
LEMMA StreamParts ==
    ASSUME NEW b \in Seq(Piece), NEW d \in Seq(Piece), NEW o \in Seq(Piece)
    PROVE  LET s == b \o d \o o
           IN  /\ s \in Seq(Piece) /\ Len(s) = Len(b) + Len(d) + Len(o)
               /\ DOMAIN s = 1 .. Len(b) + Len(d) + Len(o)
               /\ Len(b) \in Nat /\ Len(d) \in Nat /\ Len(o) \in Nat
               /\ \A k \in DOMAIN s :
                     s[k] = IF k <= Len(b) THEN b[k]
                            ELSE IF k <= Len(b) + Len(d) THEN d[k - Len(b)]
                                 ELSE o[k - (Len(b) + Len(d))]
<1> DEFINE u == b \o d
           s == u \o o
<1>1. /\ u \in Seq(Piece) /\ Len(u) = Len(b) + Len(d) /\ Len(b) \in Nat /\ Len(d) \in Nat
      /\ \A i \in 1 .. Len(b) + Len(d) : u[i] = IF i <= Len(b) THEN b[i] ELSE d[i - Len(b)]
  BY Concat
<1> HIDE DEF u
<1>2. /\ s \in Seq(Piece) /\ Len(s) = Len(u) + Len(o) /\ Len(o) \in Nat
      /\ DOMAIN s = 1 .. Len(u) + Len(o)
      /\ \A i \in 1 .. Len(u) + Len(o) : s[i] = IF i <= Len(u) THEN u[i] ELSE o[i - Len(u)]
  <2>1. u \in Seq(Piece)
    BY <1>1
  <2> QED  BY <2>1, Concat
<1> HIDE DEF s
<1>3. ASSUME NEW k \in DOMAIN s
      PROVE  s[k] = IF k <= Len(b) THEN b[k]
                    ELSE IF k <= Len(b) + Len(d) THEN d[k - Len(b)]
                         ELSE o[k - (Len(b) + Len(d))]
  BY <1>1, <1>2
<1>4. s \in Seq(Piece) /\ Len(s) = Len(b) + Len(d) + Len(o) /\ DOMAIN s = 1 .. Len(b) + Len(d) + Len(o)
  BY <1>1, <1>2
<1> QED  BY <1>1, <1>2, <1>3, <1>4 DEF s, u
LEMMA Parity ==
    /\ \A k, m \in Nat : m % 2 = 0 => (k + m) % 2 = k % 2
    /\ \A k \in Nat : /\ k % 2 \in {0, 1} /\ (k + 1) % 2 # k % 2
                      /\ k - (k % 2) \in Nat /\ (k - (k % 2)) % 2 = 0
                      /\ k > 0 => (k - 1) % 2 # k % 2
                      /\ k % 2 = 0 /\ k > 0 => k > 1
OBVIOUS

\* A beginning of whole lines is one, and so is what follows some whole lines.
LEMMA Beginning ==
    ASSUME NEW s \in Seq(Piece), NEW t \in Seq(Piece), Lines(s), Len(t) <= Len(s),
           \A k \in DOMAIN t : t[k] = s[k]
    PROVE  Lines(t)
<1>1. DOMAIN s = 1 .. Len(s) /\ DOMAIN t = 1 .. Len(t) /\ Len(s) \in Nat /\ Len(t) \in Nat
  OBVIOUS
<1>2. ASSUME NEW k \in DOMAIN t, k % 2 = 0 PROVE k \in DOMAIN s /\ k - 1 \in DOMAIN t
  BY <1>1, <1>2
<1>3. \A k \in DOMAIN t : k \in DOMAIN s
  BY <1>1
<1> QED  BY <1>2, <1>3 DEF Lines

LEMMA Rest ==
    ASSUME NEW s \in Seq(Piece), NEW t \in Seq(Piece), Lines(s),
           NEW m \in 0 .. Len(s), m % 2 = 0, Len(t) = Len(s) - m,
           \A k \in DOMAIN t : t[k] = s[k + m]
    PROVE  Lines(t)
<1>1. DOMAIN s = 1 .. Len(s) /\ DOMAIN t = 1 .. Len(t) /\ Len(s) \in Nat /\ Len(t) \in Nat
  OBVIOUS
<1>2. ASSUME NEW k \in DOMAIN t
      PROVE  k + m \in DOMAIN s /\ (k + m) % 2 = k % 2 /\ k \in Nat \ {0} /\ m \in Nat
  <2>1. k \in Nat \ {0} /\ k <= Len(t) /\ m \in Nat
    BY <1>1
  <2>2. k + m \in 1 .. Len(s)
    BY <1>1, <2>1
  <2>3. (k + m) % 2 = k % 2
    BY <2>1, Parity
  <2> QED  BY <1>1, <2>1, <2>2, <2>3
<1>3. ASSUME NEW k \in DOMAIN t, k % 2 = 0
      PROVE  k - 1 \in DOMAIN t /\ (k - 1) + m = (k + m) - 1
  <2>1. k \in Nat /\ k > 1 /\ m \in Nat
    BY <1>2, <1>3, Parity
  <2>2. k - 1 \in 1 .. Len(t)
    BY <1>1, <2>1
  <2>3. (k - 1) + m = (k + m) - 1
    BY <2>1
  <2> QED  BY <1>1, <2>2, <2>3
<1>4. ASSUME NEW k \in DOMAIN t PROVE t[k].end <=> k % 2 = 0
  BY <1>2 DEF Lines
<1>5. ASSUME NEW k \in DOMAIN t, k % 2 = 0 PROVE t[k - 1] = Opening(t[k].id, t[k].res)
  <2>1. t[k] = s[k + m] /\ t[k - 1] = s[(k + m) - 1]
    BY <1>3, <1>5
  <2> QED  BY <1>2, <1>5, <2>1 DEF Lines
<1> QED  BY <1>4, <1>5 DEF Lines

\* The pieces of an answer.
LEMMA PieceFacts ==
    /\ \A p \in Piece : p.id \in Calls /\ p.res \in Result /\ p.end \in BOOLEAN
    /\ \A c \in Calls, v \in Result :
          /\ Opening(c, v) \in Piece /\ Closing(c, v) \in Piece
          /\ Opening(c, v).id = c /\ Opening(c, v).res = v /\ Opening(c, v).end = FALSE
          /\ Closing(c, v).id = c /\ Closing(c, v).res = v /\ Closing(c, v).end = TRUE
BY DEF Piece, Opening, Closing

\* readLoop finds the end of the last whole line.
LEMMA LastEnd ==
    ASSUME NEW s \in Seq(Piece), Lines(s)
    PROVE  /\ Max(Ends(s) \cup {0}) = Len(s) - (Len(s) % 2)
           /\ \A k \in DOMAIN s : k \in Ends(s) <=> k % 2 = 0
           /\ \A k \in Ends(s) : Parses(s, k)
<1> DEFINE m == Len(s) - (Len(s) % 2)
<1>1. DOMAIN s = 1 .. Len(s) /\ Len(s) \in Nat
  OBVIOUS
<1>2. m \in Nat /\ m <= Len(s) /\ m % 2 = 0 /\ \A k \in 1 .. Len(s) : k % 2 = 0 => k <= m
  <2>1. m \in Nat /\ m % 2 = 0 /\ Len(s) % 2 \in {0, 1}
    BY <1>1, Parity
  <2>2. m <= Len(s) /\ Len(s) <= m + 1
    BY <1>1, <2>1
  <2>3. ASSUME NEW k \in 1 .. Len(s), k % 2 = 0, k > m PROVE FALSE
    <3>1. k = m + 1
      BY <1>1, <2>1, <2>2, <2>3
    <3> HIDE DEF m
    <3> QED  BY <2>1, <2>3, <3>1, Parity
  <2> QED  BY <1>1, <2>1, <2>2, <2>3
<1>3. \A k \in DOMAIN s : k \in Ends(s) <=> k % 2 = 0
  BY DEF Ends, Lines
<1>4. m \in Ends(s) \cup {0}
  <2> HIDE DEF m
  <2>1. m = 0 \/ m \in DOMAIN s
    BY <1>1, <1>2
  <2> QED  BY <1>2, <1>3, <2>1
<1>5. \A k \in Ends(s) \cup {0} : k \in Nat /\ m >= k
  BY <1>1, <1>2, <1>3 DEF Ends
<1>6. Max(Ends(s) \cup {0}) = m
  <2> HIDE DEF m
  <2>1. \A x \in Ends(s) \cup {0} : (\A y \in Ends(s) \cup {0} : x >= y) => x = m
    BY <1>2, <1>4, <1>5
  <2> QED  BY <1>2, <1>4, <1>5, <2>1 DEF Max
<1>7. ASSUME NEW k \in Ends(s) PROVE Parses(s, k)
  <2>1. k \in 1 .. Len(s) /\ k % 2 = 0
    BY <1>1, <1>3 DEF Ends
  <2>2. k > 1 /\ (k > 2 => k - 2 \in DOMAIN s /\ (k - 2) % 2 = 0)
    BY <1>1, <2>1
  <2> QED  BY <1>1, <2>1, <2>2 DEF Parses, Lines
<1> QED  BY <1>3, <1>6, <1>7
-----------------------------------------------------------------------------
(* The link, one lemma for each step that moves a call.                      *)

\* The stream as the invariant sees it.
LEMMA StreamFacts ==
    ASSUME RTypeOK
    PROVE  /\ Stream \in Seq(Piece) /\ Len(Stream) = Len(buf) + Len(stdout) + Len(out)
           /\ DOMAIN Stream = 1 .. Len(Stream)
           /\ Len(buf) \in Nat /\ Len(stdout) \in Nat /\ Len(out) \in Nat
           /\ \A k \in DOMAIN Stream :
                 Stream[k] = IF k <= Len(buf) THEN buf[k]
                             ELSE IF k <= Len(buf) + Len(stdout) THEN stdout[k - Len(buf)]
                                  ELSE out[k - (Len(buf) + Len(stdout))]
<1>1. buf \in Seq(Piece) /\ stdout \in Seq(Piece) /\ out \in Seq(Piece)
  BY DEF RTypeOK
<1> QED  BY <1>1, StreamParts DEF Stream

\* One turn of readLoop takes m pieces off the stream, all the whole lines it
\* has in its hands, and settles their calls with what they say.
LEMMA ReadEffect ==
    ASSUME LinkInv, NEW n \in 1 .. OutRoom, Read(n)
    PROVE  /\ RTypeOK' /\ Len(buf') <= 1
           /\ \E m \in 0 .. Len(Stream) :
                 /\ m % 2 = 0 /\ Len(Stream') = Len(Stream) - m
                 /\ \A k \in DOMAIN Stream' : Stream'[k] = Stream[k + m]
                 /\ pending' = pending \ {Stream[k].id : k \in {j \in 1 .. m : j % 2 = 0}}
                 /\ \A c \in Calls :
                       \/ told'[c] = told[c]
                       \/ \E k \in 1 .. m : Stream[k].id = c /\ Stream[k].res = told'[c]
<1> DEFINE s == buf \o SubSeq(stdout, 1, n)
           m == Len(s) - (Len(s) % 2)
           A == Answers(s)
<1>0. RTypeOK
  BY DEF LinkInv
<1>1. /\ buf \in Seq(Piece) /\ stdout \in Seq(Piece) /\ out \in Seq(Piece)
      /\ n \in 1 .. Len(stdout) /\ Len(buf) \in Nat /\ Len(stdout) \in Nat
  BY <1>0, StreamFacts DEF RTypeOK, Read
<1>16. /\ Stream \in Seq(Piece) /\ Len(Stream) = Len(buf) + Len(stdout) + Len(out)
       /\ Len(out) \in Nat /\ DOMAIN Stream = 1 .. Len(Stream)
       /\ \A k \in 1 .. Len(Stream) :
             Stream[k] = IF k <= Len(buf) THEN buf[k]
                         ELSE IF k <= Len(buf) + Len(stdout) THEN stdout[k - Len(buf)]
                              ELSE out[k - (Len(buf) + Len(stdout))]
  BY <1>0, StreamFacts
<1>2. /\ Settle(A)
      /\ buf' = SubSeq(s, Max(Ends(s) \cup {0}) + 1, Len(s))
      /\ stdout' = SubSeq(stdout, n + 1, Len(stdout))
      /\ out' = out
      /\ UNCHANGED <<runtime, up, panicked, issued, writeQueue, stdin, work>>
  BY DEF Read
<1>3. /\ s \in Seq(Piece) /\ Len(s) = Len(buf) + n /\ DOMAIN s = 1 .. Len(s)
      /\ \A k \in 1 .. Len(s) : s[k] = IF k <= Len(buf) THEN buf[k] ELSE stdout[k - Len(buf)]
  <2>1. /\ SubSeq(stdout, 1, n) \in Seq(Piece) /\ Len(SubSeq(stdout, 1, n)) = n
        /\ \A k \in 1 .. n : SubSeq(stdout, 1, n)[k] = stdout[k]
    BY <1>1
  <2>2. /\ s \in Seq(Piece) /\ Len(s) = Len(buf) + n /\ DOMAIN s = 1 .. Len(s)
        /\ \A k \in 1 .. Len(buf) + n :
              s[k] = IF k <= Len(buf) THEN buf[k] ELSE SubSeq(stdout, 1, n)[k - Len(buf)]
    BY <1>1, <2>1, Concat
  <2> QED  BY <1>1, <2>1, <2>2
<1> HIDE DEF s
<1>4. /\ Stream \in Seq(Piece) /\ Len(s) <= Len(Stream) /\ DOMAIN Stream = 1 .. Len(Stream)
      /\ \A k \in DOMAIN s : s[k] = Stream[k]
  <2>1. Len(s) <= Len(Stream)
    BY <1>1, <1>3, <1>16
  <2>2. ASSUME NEW k \in 1 .. Len(s) PROVE s[k] = Stream[k]
    <3>1. /\ s[k] = IF k <= Len(buf) THEN buf[k] ELSE stdout[k - Len(buf)]
          /\ k \in Nat /\ k <= Len(buf) + n /\ n <= Len(stdout) /\ n \in Nat
      BY <1>1, <1>3
    <3>2. k \in 1 .. Len(Stream) /\ k <= Len(buf) + Len(stdout)
      BY <1>1, <1>3, <1>16, <2>1, <3>1
    <3> QED  BY <1>16, <3>1, <3>2
  <2> QED  BY <1>3, <1>16, <2>1, <2>2
<1>5. Lines(s)
  BY <1>3, <1>4, Beginning DEF LinkInv, LineInv
<1>6. /\ Max(Ends(s) \cup {0}) = m
      /\ \A k \in DOMAIN s : k \in Ends(s) <=> k % 2 = 0
      /\ \A k \in Ends(s) : Parses(s, k)
  BY <1>3, <1>5, LastEnd
<1>7. /\ m \in Nat /\ m <= Len(s) /\ Len(s) <= m + 1 /\ m % 2 = 0
  BY <1>3, Parity
<1>8. \A k \in Ends(s) : k \in 1 .. m /\ k % 2 = 0 /\ k \in DOMAIN s
  <2>1. ASSUME NEW k \in Ends(s) PROVE k \in 1 .. m
    <3>1. k \in 1 .. Len(s) /\ k % 2 = 0
      BY <1>3, <1>6 DEF Ends
    <3>2. k # m + 1
      BY <1>7, <3>1, Parity
    <3> HIDE DEF m
    <3> QED  BY <1>3, <1>7, <3>1, <3>2
  <2> QED  BY <1>6, <2>1 DEF Ends
<1>9. \A k \in 1 .. m : k % 2 = 0 => k \in Ends(s)
  <2> HIDE DEF m
  <2>1. \A k \in 1 .. m : k \in DOMAIN s
    BY <1>3, <1>7
  <2> QED  BY <1>6, <2>1
<1> HIDE DEF m
<1>10. /\ buf' \in Seq(Piece) /\ Len(buf') = Len(s) - m
       /\ \A k \in 1 .. Len(s) - m : buf'[k] = s[k + m]
  <2>1. buf' = SubSeq(s, m + 1, Len(s))
    BY <1>2, <1>6
  <2>2. \A k \in m + 1 .. Len(s) : s[k] \in Piece
    BY <1>3, <1>7
  <2>3. \A k \in 1 .. Len(s) - (m + 1) + 1 : buf'[k] = s[m + 1 + k - 1]
    BY <1>3, <1>7, <2>1, <2>2, SubSeqProperties
  <2> QED  BY <1>3, <1>7, <2>1, <2>2, <2>3, SubSeqProperties
<1>11. /\ stdout' \in Seq(Piece) /\ Len(stdout') = Len(stdout) - n
       /\ \A k \in 1 .. Len(stdout) - n : stdout'[k] = stdout[k + n]
  BY <1>1, <1>2
<1>12. /\ pending' = pending \ {a.id : a \in A}
       /\ told' = [c \in Calls |-> IF \E a \in A : a.id = c
                                   THEN (CHOOSE a \in A : a.id = c).res ELSE told[c]]
  BY <1>2 DEF Settle
<1>13. \A a \in A : a \in Piece /\ \E k \in 1 .. m : Stream[k] = a
  <2>1. \A a \in A : \E k \in Ends(s) : a = s[k]
    BY DEF Answers
  <2> QED  BY <1>3, <1>4, <1>8, <2>1
<1>14. RTypeOK'
  <2>1. told' \in [Calls -> {"nothing", "rejected"} \cup Result]
    <3>1. ASSUME NEW c \in Calls, \E a \in A : a.id = c
          PROVE  (CHOOSE a \in A : a.id = c).res \in Result
      <4>1. (CHOOSE a \in A : a.id = c) \in A
        BY <3>1
      <4> QED  BY <1>13, <4>1, PieceFacts
    <3> HIDE DEF A
    <3> QED  BY <1>12, <3>1 DEF LinkInv, RTypeOK
  <2>2. Len(stdout') <= OutRoom
    BY <1>1, <1>11, RoomAssumption DEF LinkInv, RTypeOK
  <2>3. pending' \subseteq issued'
    BY <1>2, <1>12 DEF LinkInv, RTypeOK
  <2> QED  BY <1>1, <1>2, <1>10, <1>11, <2>1, <2>2, <2>3 DEF LinkInv, RTypeOK
<1>15. /\ Stream' \in Seq(Piece) /\ Len(Stream') = Len(buf') + Len(stdout') + Len(out')
       /\ DOMAIN Stream' = 1 .. Len(Stream')
       /\ \A k \in DOMAIN Stream' :
             Stream'[k] = IF k <= Len(buf') THEN buf'[k]
                          ELSE IF k <= Len(buf') + Len(stdout') THEN stdout'[k - Len(buf')]
                               ELSE out'[k - (Len(buf') + Len(stdout'))]
  <2>1. buf' \in Seq(Piece) /\ stdout' \in Seq(Piece) /\ out' \in Seq(Piece)
    BY <1>1, <1>2, <1>10, <1>11
  <2> QED  BY <2>1, StreamParts DEF Stream
<1>17. Len(Stream') = Len(Stream) - m
  BY <1>1, <1>2, <1>3, <1>7, <1>10, <1>11, <1>15, <1>16
<1>23. /\ n \in Nat \ {0} /\ n <= Len(stdout) /\ m \in Nat /\ m <= Len(buf) + n
       /\ Len(buf') = Len(buf) + n - m /\ Len(stdout') = Len(stdout) - n
       /\ Len(buf') \in Nat /\ Len(stdout') \in Nat
       /\ Len(buf) \in Nat /\ Len(stdout) \in Nat /\ Len(out) \in Nat /\ Len(out') = Len(out)
  <2>1. n \in Nat \ {0} /\ n <= Len(stdout) /\ Len(s) - m \in Nat
    BY <1>1, <1>3, <1>7
  <2> QED  BY <1>1, <1>2, <1>3, <1>7, <1>10, <1>11, <1>16, <2>1
<1>18. ASSUME NEW k \in DOMAIN Stream' PROVE Stream'[k] = Stream[k + m]
  <2>0. k \in 1 .. Len(Stream') /\ k \in Nat \ {0} /\ k <= Len(buf') + Len(stdout') + Len(out)
    <3>1. PICK l \in Nat : l = Len(Stream')
      BY <1>15
    <3>2. l = Len(buf') + Len(stdout') + Len(out)
      BY <1>15, <1>23, <3>1
    <3>3. k \in 1 .. l
      BY <1>15, <3>1
    <3>4. k \in Nat \ {0} /\ k <= l
      BY <3>3
    <3> QED  BY <3>1, <3>2, <3>3, <3>4
  <2>5. k + m \in 1 .. Len(Stream)
    <3>1. k + m \in 1 .. Len(buf) + Len(stdout) + Len(out)
      BY <1>23, <2>0
    <3> QED  BY <1>16, <3>1
  <2>1. Stream'[k] = IF k <= Len(buf') THEN buf'[k]
                     ELSE IF k <= Len(buf') + Len(stdout') THEN stdout'[k - Len(buf')]
                          ELSE out'[k - (Len(buf') + Len(stdout'))]
    BY <1>15
  <2>6. Stream[k + m] = IF k + m <= Len(buf) THEN buf[k + m]
                        ELSE IF k + m <= Len(buf) + Len(stdout) THEN stdout[(k + m) - Len(buf)]
                             ELSE out[(k + m) - (Len(buf) + Len(stdout))]
    BY <1>16, <2>5
  <2>2. CASE k <= Len(buf')
    <3>1. k \in 1 .. Len(s) - m /\ k + m \in 1 .. Len(s)
      <4>1. PICK b \in Nat : b = Len(buf)
        BY <1>23
      <4>2. PICK l \in Nat : l = Len(s) /\ l = b + n
        BY <1>3, <1>23, <4>1
      <4>3. k \in Nat \ {0} /\ k <= b + n - m
        BY <1>23, <2>0, <2>2, <4>1
      <4>4. k \in 1 .. l - m /\ k + m \in 1 .. l
        BY <1>23, <4>2, <4>3
      <4> QED  BY <4>2, <4>4
    <3> QED  BY <1>3, <1>4, <1>10, <2>1, <2>2, <3>1
  <2>3. CASE k > Len(buf') /\ k <= Len(buf') + Len(stdout')
    <3>1. /\ k - Len(buf') \in 1 .. Len(stdout) - n
          /\ (k - Len(buf')) + n = (k + m) - Len(buf)
          /\ ~(k + m <= Len(buf)) /\ k + m <= Len(buf) + Len(stdout)
          /\ ~(k <= Len(buf'))
      <4>1. k - Len(buf') >= 1 /\ k - Len(buf') <= Len(stdout) - n /\ k - Len(buf') \in Nat
        BY <1>23, <2>0, <2>3
      <4>2. (k - Len(buf')) + n = (k + m) - Len(buf)
        BY <1>23, <2>0
      <4>3. ~(k + m <= Len(buf)) /\ ~(k <= Len(buf'))
        BY <1>23, <2>0, <2>3
      <4>4. k + m <= Len(buf) + Len(stdout)
        BY <1>23, <2>0, <2>3
      <4> QED  BY <1>23, <4>1, <4>2, <4>3, <4>4
    <3>2. Stream'[k] = stdout'[k - Len(buf')]
      BY <2>1, <2>3, <3>1
    <3>3. Stream'[k] = stdout[(k - Len(buf')) + n]
      BY <1>11, <3>1, <3>2
    <3>4. Stream[k + m] = stdout[(k + m) - Len(buf)]
      BY <2>6, <3>1
    <3> QED  BY <3>1, <3>3, <3>4
  <2>4. CASE k > Len(buf') + Len(stdout')
    <3>1. /\ k - (Len(buf') + Len(stdout')) = (k + m) - (Len(buf) + Len(stdout))
          /\ ~(k + m <= Len(buf) + Len(stdout)) /\ ~(k + m <= Len(buf))
          /\ ~(k <= Len(buf')) /\ ~(k <= Len(buf') + Len(stdout'))
      BY <1>23, <2>0, <2>4
    <3>2. Stream'[k] = out[k - (Len(buf') + Len(stdout'))]
      BY <1>2, <2>1, <3>1
    <3>3. Stream[k + m] = out[(k + m) - (Len(buf) + Len(stdout))]
      BY <2>6, <3>1
    <3> QED  BY <3>1, <3>2, <3>3
  <2>7. k <= Len(buf') \/ k > Len(buf')
    <3>1. PICK j \in Nat : j = Len(buf')
      BY <1>23
    <3> QED  BY <2>0, <3>1
  <2>8. k <= Len(buf') + Len(stdout') \/ k > Len(buf') + Len(stdout')
    <3>1. PICK i \in Nat : i = Len(buf')
      BY <1>23
    <3>2. PICK j \in Nat : j = Len(stdout')
      BY <1>23
    <3> QED  BY <2>0, <3>1, <3>2
  <2> QED  BY <2>2, <2>3, <2>4, <2>7, <2>8
<1>19. ASSUME NEW c \in Calls, told'[c] # told[c]
       PROVE  \E k \in 1 .. m : Stream[k].id = c /\ Stream[k].res = told'[c]
  <2>1. \E a \in A : a.id = c /\ told'[c] = (CHOOSE b \in A : b.id = c).res
    BY <1>12, <1>19
  <2>2. PICK a \in A : a.id = c /\ told'[c] = a.res
    BY <2>1
  <2> QED  BY <1>13, <2>2
<1>20. {a.id : a \in A} = {Stream[k].id : k \in {j \in 1 .. m : j % 2 = 0}} \cap pending
  <2>1. ASSUME NEW a \in A
        PROVE  a.id \in {Stream[k].id : k \in {j \in 1 .. m : j % 2 = 0}} \cap pending
    <3>1. PICK k \in Ends(s) : a = s[k] /\ s[k].id \in pending
      BY DEF Answers
    <3> QED  BY <1>4, <1>8, <3>1
  <2>2. ASSUME NEW k \in 1 .. m, k % 2 = 0, Stream[k].id \in pending
        PROVE  \E a \in A : a.id = Stream[k].id
    <3>1. k \in Ends(s) /\ k \in DOMAIN s /\ Parses(s, k) /\ s[k] = Stream[k]
      BY <1>4, <1>6, <1>8, <1>9, <2>2
    <3>2. s[k] \in A
      BY <2>2, <3>1 DEF Answers
    <3> QED  BY <3>1, <3>2
  <2> HIDE DEF A
  <2> QED  BY <2>1, <2>2
<1>21. pending' = pending \ {Stream[k].id : k \in {j \in 1 .. m : j % 2 = 0}}
  <2> HIDE DEF A
  <2> QED  BY <1>12, <1>20
<1>22. m \in 0 .. Len(Stream) /\ Len(buf') <= 1
  <2>1. PICK x \in Nat, y \in Nat, z \in Nat, t \in Nat, w \in Nat :
            x = Len(buf) /\ y = Len(stdout) /\ z = Len(out) /\ t = n /\ w = m
    BY <1>23
  <2>2. w <= x + t /\ t <= y /\ Len(Stream) = x + y + z
    BY <1>16, <1>23, <2>1
  <2>3. w \in 0 .. x + y + z
    BY <2>2
  <2>4. PICK l \in Nat : l = Len(s)
    BY <1>3
  <2>5. Len(buf') = l - w /\ l <= w + 1
    BY <1>7, <1>10, <2>1, <2>4
  <2>7. Len(buf') <= 1
    BY <2>5
  <2> QED  BY <2>1, <2>2, <2>3, <2>7
<1> QED  BY <1>7, <1>14, <1>17, <1>18, <1>19, <1>21, <1>22
\* What a step does to the calls on their way when it leaves the stream alone.
LEMMA SameStream ==
    ASSUME LineInv, Stream' = Stream, Len(buf') <= 1, up' => up
    PROVE  LineInv' /\ \A c : Answered(c)' <=> Answered(c)
BY DEF LineInv, Answered, Lines

LEMMA SameParts ==
    ASSUME LineInv, UNCHANGED <<buf, stdout, out>>, up' => up
    PROVE  LineInv' /\ \A c : Answered(c)' <=> Answered(c)
<1>1. Stream' = Stream /\ Len(buf') <= 1
  BY DEF Stream, LineInv
<1> QED  BY <1>1, SameStream

LEMMA CallKeeps == ASSUME LinkInv, NEW c \in Calls, Call(c) PROVE LinkInv'
<1>1. /\ c \notin issued /\ issued' = issued \cup {c} /\ pending' = pending \cup {c}
      /\ writeQueue' = Append(writeQueue, c)
      /\ UNCHANGED <<runtime, up, panicked, told, stdin, work, out, stdout, buf>>
  BY DEF Call
<1>2. LineInv' /\ \A d : Answered(d)' <=> Answered(d)
  BY <1>1, SameParts DEF LinkInv
<1>3. /\ writeQueue' \in Seq(Calls) /\ \A d : In(d, writeQueue') <=> In(d, writeQueue) \/ d = c
      /\ Once(writeQueue')
  BY <1>1, Appended DEF LinkInv, RTypeOK, PlaceInv
<1>4. RTypeOK'
  BY <1>1, <1>3 DEF LinkInv, RTypeOK
<1>5. PlaceInv'
  BY <1>1, <1>2, <1>3 DEF LinkInv, PlaceInv
<1> QED  BY <1>2, <1>4, <1>5 DEF LinkInv

LEMMA WrittenKeeps == ASSUME LinkInv, Written PROVE LinkInv'
<1> DEFINE c == Head(writeQueue)
<1>1. /\ writeQueue # <<>> /\ up /\ Len(stdin) < InRoom
      /\ stdin' = Append(stdin, c)
      /\ writeQueue' = Tail(writeQueue)
      /\ UNCHANGED <<runtime, up, panicked, issued, pending, told, work, out, stdout, buf>>
  BY DEF Written
<1>2. LineInv' /\ \A d : Answered(d)' <=> Answered(d)
  BY <1>1, SameParts DEF LinkInv
<1>3. /\ writeQueue' \in Seq(Calls) /\ c \in Calls /\ In(c, writeQueue)
      /\ \A d : In(d, writeQueue') => In(d, writeQueue)
      /\ \A d : In(d, writeQueue) => d = c \/ In(d, writeQueue')
      /\ Once(writeQueue') /\ ~In(c, writeQueue')
  BY <1>1, Removed DEF LinkInv, RTypeOK, PlaceInv
<1> HIDE DEF c
<1>4. /\ stdin' \in Seq(Calls) /\ Len(stdin') = Len(stdin) + 1 /\ Len(stdin) \in Nat
      /\ \A d : In(d, stdin') <=> In(d, stdin) \/ d = c
      /\ Once(stdin')
  <2>1. stdin \in Seq(Calls) /\ Once(stdin) /\ ~In(c, stdin) /\ Len(stdin) \in Nat
    BY <1>3 DEF LinkInv, RTypeOK, PlaceInv
  <2> QED  BY <1>1, <1>3, <2>1, Appended
<1>5. RTypeOK'
  BY <1>1, <1>3, <1>4, RoomAssumption DEF LinkInv, RTypeOK
<1>6. PlaceInv'
  BY <1>1, <1>2, <1>3, <1>4 DEF LinkInv, PlaceInv
<1> QED  BY <1>2, <1>5, <1>6 DEF LinkInv

LEMMA WriteFailsKeeps == ASSUME LinkInv, WriteFails PROVE LinkInv'
<1> DEFINE c == Head(writeQueue)
<1>1. /\ writeQueue # <<>> /\ ~up
      /\ pending' = pending \ {c} /\ told' = [told EXCEPT ![c] = "rejected"]
      /\ writeQueue' = Tail(writeQueue)
      /\ UNCHANGED <<runtime, up, panicked, issued, stdin, work, out, stdout, buf>>
  BY DEF WriteFails
<1>2. LineInv' /\ \A d : Answered(d)' <=> Answered(d)
  BY <1>1, SameParts DEF LinkInv
<1>3. /\ writeQueue' \in Seq(Calls) /\ c \in Calls
      /\ \A d : In(d, writeQueue') => In(d, writeQueue)
      /\ Once(writeQueue')
  BY <1>1, Removed DEF LinkInv, RTypeOK, PlaceInv
<1> HIDE DEF c
<1>4. RTypeOK'
  BY <1>1, <1>3 DEF LinkInv, RTypeOK
<1>5. PlaceInv'
  BY <1>1, <1>2, <1>3 DEF LinkInv, PlaceInv
<1> QED  BY <1>2, <1>4, <1>5 DEF LinkInv

LEMMA TakeKeeps == ASSUME LinkInv, Take PROVE LinkInv'
<1> DEFINE c == Head(stdin)
<1>1. /\ up /\ stdin # <<>> /\ work' = work \cup {c} /\ stdin' = Tail(stdin)
      /\ UNCHANGED <<runtime, up, panicked, issued, pending, told, writeQueue, out, stdout, buf>>
  BY DEF Take
<1>2. LineInv' /\ \A d : Answered(d)' <=> Answered(d)
  BY <1>1, SameParts DEF LinkInv
<1>3. /\ stdin' \in Seq(Calls) /\ c \in Calls /\ In(c, stdin) /\ Len(stdin') = Len(stdin) - 1
      /\ Len(stdin) \in Nat
      /\ \A d : In(d, stdin') => In(d, stdin)
      /\ \A d : In(d, stdin) => d = c \/ In(d, stdin')
      /\ Once(stdin') /\ ~In(c, stdin')
  BY <1>1, Removed DEF LinkInv, RTypeOK, PlaceInv
<1> HIDE DEF c
<1>4. RTypeOK'
  BY <1>1, <1>3, RoomAssumption DEF LinkInv, RTypeOK
<1>5. PlaceInv'
  BY <1>1, <1>2, <1>3 DEF LinkInv, PlaceInv
<1> QED  BY <1>2, <1>4, <1>5 DEF LinkInv

\* An answer comes to the end of the stream, which is not in the middle of a line.
LEMMA FinishEffect ==
    ASSUME LinkInv, NEW c \in Calls, NEW v \in Result, Finish(c, v)
    PROVE  /\ LinkInv'
           /\ \A k \in DOMAIN Stream' :
                 \/ k \in DOMAIN Stream /\ Stream'[k] = Stream[k]
                 \/ Stream'[k].id = c /\ Stream'[k].res = v
<1> DEFINE a == <<Opening(c, v), Closing(c, v)>>
           L == Len(Stream)
<1>1. /\ up /\ c \in work \ panicked /\ work' = work \ {c} /\ out' = out \o a
      /\ UNCHANGED <<runtime, up, panicked, issued, pending, told, writeQueue, stdin, stdout, buf>>
  BY DEF Finish
<1>2. /\ a \in Seq(Piece) /\ Len(a) = 2 /\ a[1] = Opening(c, v) /\ a[2] = Closing(c, v)
  BY PieceFacts
<1>3. /\ buf \in Seq(Piece) /\ stdout \in Seq(Piece) /\ out \in Seq(Piece)
  BY DEF LinkInv, RTypeOK
<1>4. /\ Stream \in Seq(Piece) /\ DOMAIN Stream = 1 .. L /\ L \in Nat /\ L % 2 = 0 /\ Lines(Stream)
  <2>1. /\ Stream \in Seq(Piece) /\ DOMAIN Stream = 1 .. Len(Stream)
        /\ Len(buf) \in Nat /\ Len(stdout) \in Nat /\ Len(out) \in Nat
        /\ Len(Stream) = Len(buf) + Len(stdout) + Len(out)
    BY StreamFacts DEF LinkInv
  <2>2. Len(Stream) \in Nat
    BY <2>1
  <2> QED  BY <1>1, <2>1, <2>2 DEF LinkInv, LineInv
<1> HIDE DEF a
<1>5. Stream' = Stream \o a
  <2>1. Stream = (buf \o stdout) \o out /\ Stream' = (buf \o stdout) \o (out \o a)
    BY <1>1 DEF Stream
  <2>2. buf \o stdout \in Seq(Piece)
    BY <1>3, Concat
  <2> DEFINE p == buf \o stdout
  <2> HIDE DEF p
  <2>3. p \in Seq(Piece) /\ Stream = p \o out /\ Stream' = p \o (out \o a)
    BY <2>1, <2>2 DEF p
  <2>4. (p \o out) \o a = p \o (out \o a)
    <3>1. p \in Seq(Piece) /\ out \in Seq(Piece) /\ a \in Seq(Piece)
      BY <1>2, <1>3, <2>3
    <3> QED  BY <3>1, ConcatAssociative, SMTT(60)
  <2> QED  BY <2>3, <2>4
<1>6. /\ Stream' \in Seq(Piece) /\ Len(Stream') = L + 2 /\ DOMAIN Stream' = 1 .. L + 2
      /\ \A k \in 1 .. L : Stream'[k] = Stream[k]
      /\ Stream'[L + 1] = Opening(c, v) /\ Stream'[L + 2] = Closing(c, v)
  <2>1. /\ Stream' \in Seq(Piece) /\ Len(Stream') = L + 2 /\ DOMAIN Stream' = 1 .. L + 2
        /\ \A k \in 1 .. L + 2 : Stream'[k] = IF k <= L THEN Stream[k] ELSE a[k - L]
    <3>1. /\ Stream \o a \in Seq(Piece) /\ Len(Stream \o a) = Len(Stream) + Len(a)
          /\ DOMAIN (Stream \o a) = 1 .. Len(Stream) + Len(a)
          /\ \A i \in 1 .. Len(Stream) + Len(a) :
                (Stream \o a)[i] = IF i <= Len(Stream) THEN Stream[i] ELSE a[i - Len(Stream)]
      BY <1>2, <1>4, Concat
    <3> QED  BY <1>2, <1>5, <3>1
  <2> HIDE DEF L
  <2>2. /\ L + 1 \in 1 .. L + 2 /\ L + 2 \in 1 .. L + 2 /\ ~(L + 1 <= L) /\ ~(L + 2 <= L)
        /\ (L + 1) - L = 1 /\ (L + 2) - L = 2
    BY <1>4
  <2>3. \A k \in 1 .. L : k \in 1 .. L + 2 /\ k <= L
    BY <1>4
  <2> QED  BY <1>2, <2>1, <2>2, <2>3
<1>7. (L + 1) % 2 # 0 /\ (L + 2) % 2 = 0
  BY <1>4
<1> HIDE DEF L
<1>8. \A k \in DOMAIN Stream' : k \in DOMAIN Stream \/ k = L + 1 \/ k = L + 2
  BY <1>4, <1>6
<1>9. Lines(Stream')
  <2>1. ASSUME NEW k \in DOMAIN Stream'
        PROVE  /\ Stream'[k].end <=> k % 2 = 0
               /\ k % 2 = 0 => Stream'[k - 1] = Opening(Stream'[k].id, Stream'[k].res)
    <3>1. CASE k \in DOMAIN Stream
      <4>1. k % 2 = 0 => k - 1 \in 1 .. L
        BY <1>4, <3>1, Parity
      <4> QED  BY <1>4, <1>6, <3>1, <4>1 DEF Lines
    <3>2. CASE k = L + 1
      BY <1>6, <1>7, <3>2, PieceFacts
    <3>3. CASE k = L + 2
      <4>1. k - 1 = L + 1
        BY <1>4, <3>3
      <4> QED  BY <1>6, <1>7, <3>3, <4>1, PieceFacts
    <3> QED  BY <1>8, <2>1, <3>1, <3>2, <3>3
  <2> QED  BY <2>1 DEF Lines
<1>10. ASSUME NEW k \in DOMAIN Stream'
       PROVE  \/ k \in DOMAIN Stream /\ Stream'[k] = Stream[k]
              \/ Stream'[k].id = c /\ Stream'[k].res = v
  BY <1>4, <1>6, <1>8, PieceFacts
<1>11. \A d : Answered(d)' <=> Answered(d) \/ d = c
  <2>1. \A d : Answered(d)' => Answered(d) \/ d = c
    BY <1>10 DEF Answered
  <2>2. \A d : Answered(d) => Answered(d)'
    <3>1. \A k \in DOMAIN Stream : k \in DOMAIN Stream' /\ Stream'[k] = Stream[k]
      BY <1>4, <1>6
    <3> QED  BY <3>1 DEF Answered
  <2>3. L + 1 \in DOMAIN Stream' /\ Stream'[L + 1].id = c
    BY <1>4, <1>6, PieceFacts
  <2>4. Answered(c)'
    BY <2>3 DEF Answered
  <2> QED  BY <2>1, <2>2, <2>4
<1>12. LineInv'
  BY <1>1, <1>6, <1>7, <1>9 DEF LinkInv, LineInv
<1>13. RTypeOK'
  BY <1>1, <1>2, <1>3 DEF LinkInv, RTypeOK
<1>14. PlaceInv'
  BY <1>1, <1>11 DEF LinkInv, PlaceInv
<1> QED  BY <1>10, <1>12, <1>13, <1>14 DEF LinkInv

LEMMA PanicKeeps ==
    ASSUME LinkInv, NEW c \in Calls, Panic(c)
    PROVE  LinkInv' /\ Stream' = Stream
<1>1. /\ up /\ c \in work /\ panicked' = panicked \cup {c}
      /\ UNCHANGED <<runtime, up, issued, pending, told, writeQueue, stdin, work, out, stdout, buf>>
  BY DEF Panic
<1>2. LineInv' /\ (\A d : Answered(d)' <=> Answered(d)) /\ Stream' = Stream
  BY <1>1, SameParts DEF LinkInv, Stream
<1>3. RTypeOK'
  BY <1>1 DEF LinkInv, RTypeOK
<1>4. PlaceInv'
  BY <1>1, <1>2 DEF LinkInv, PlaceInv
<1> QED  BY <1>2, <1>3, <1>4 DEF LinkInv

LEMMA FlushKeeps == ASSUME LinkInv, Flush PROVE LinkInv' /\ Stream' = Stream
<1>1. /\ up /\ out # <<>> /\ Len(stdout) < OutRoom
      /\ stdout' = Append(stdout, Head(out)) /\ out' = Tail(out)
      /\ UNCHANGED <<runtime, up, panicked, issued, pending, told, writeQueue, stdin, work, buf>>
  BY DEF Flush
<1>2. /\ buf \in Seq(Piece) /\ stdout \in Seq(Piece) /\ out \in Seq(Piece) /\ Len(stdout) \in Nat
  BY DEF LinkInv, RTypeOK
<1>3. /\ Head(out) \in Piece /\ stdout' \in Seq(Piece) /\ out' \in Seq(Piece)
      /\ Len(stdout') = Len(stdout) + 1 /\ Len(out') = Len(out) - 1
      /\ stdout' = stdout \o <<Head(out)>> /\ out = <<Head(out)>> \o out'
  <2>1. Head(out) \in Piece /\ out' \in Seq(Piece) /\ Len(out') = Len(out) - 1
    BY <1>1, <1>2, HeadTailProperties
  <2>2. stdout' \in Seq(Piece) /\ Len(stdout') = Len(stdout) + 1 /\ stdout' = stdout \o <<Head(out)>>
    BY <1>1, <1>2, <2>1, AppendProperties, AppendIsConcat
  <2>3. out = <<Head(out)>> \o out'
    BY <1>1, <1>2
  <2> QED  BY <2>1, <2>2, <2>3
<1>4. Stream' = Stream
  <2> DEFINE h == <<Head(out)>>
  <2>1. h \in Seq(Piece)
    BY <1>3
  <2>2. Stream = (buf \o stdout) \o (h \o out') /\ Stream' = (buf \o (stdout \o h)) \o out'
    BY <1>1, <1>3 DEF Stream
  <2> HIDE DEF h
  <2>3. buf \o stdout \in Seq(Piece)
    BY <1>2, Concat
  <2>4. (buf \o stdout) \o (h \o out') = ((buf \o stdout) \o h) \o out'
    <3> DEFINE p == buf \o stdout
    <3>1. p \in Seq(Piece)
      BY <2>3
    <3> HIDE DEF p
    <3>2. (p \o h) \o out' = p \o (h \o out')
      BY <1>3, <2>1, <3>1, ConcatAssociative, SMTT(60)
    <3> QED  BY <3>2 DEF p
  <2>5. (buf \o stdout) \o h = buf \o (stdout \o h)
    BY <1>2, <2>1, ConcatAssociative, SMTT(60)
  <2> QED  BY <2>2, <2>4, <2>5
<1>5. LineInv' /\ \A c : Answered(c)' <=> Answered(c)
  BY <1>1, <1>4, SameStream DEF LinkInv, LineInv
<1>6. RTypeOK'
  BY <1>1, <1>2, <1>3, RoomAssumption DEF LinkInv, RTypeOK
<1>7. PlaceInv'
  BY <1>1, <1>5 DEF LinkInv, PlaceInv
<1> QED  BY <1>4, <1>5, <1>6, <1>7 DEF LinkInv
LEMMA ReadKeeps == ASSUME LinkInv, NEW n \in 1 .. OutRoom, Read(n) PROVE LinkInv'
<1>1. UNCHANGED <<runtime, up, panicked, issued, writeQueue, stdin, work, out>>
  BY DEF Read
<1>2. RTypeOK' /\ Len(buf') <= 1
  BY ReadEffect
<1>3. PICK m \in 0 .. Len(Stream) :
        /\ m % 2 = 0 /\ Len(Stream') = Len(Stream) - m
        /\ \A k \in DOMAIN Stream' : Stream'[k] = Stream[k + m]
        /\ pending' = pending \ {Stream[k].id : k \in {j \in 1 .. m : j % 2 = 0}}
  BY ReadEffect
<1>4. /\ Stream \in Seq(Piece) /\ DOMAIN Stream = 1 .. Len(Stream) /\ Len(Stream) \in Nat
  <2>1. /\ Stream \in Seq(Piece) /\ DOMAIN Stream = 1 .. Len(Stream)
    BY StreamFacts DEF LinkInv
  <2> QED  BY <2>1
<1>5. /\ Stream' \in Seq(Piece) /\ DOMAIN Stream' = 1 .. Len(Stream')
  <2>1. buf' \in Seq(Piece) /\ stdout' \in Seq(Piece) /\ out' \in Seq(Piece)
    BY <1>2 DEF RTypeOK
  <2> QED  BY <2>1, StreamParts DEF Stream
<1>6. Lines(Stream')
  BY <1>3, <1>4, <1>5, Rest DEF LinkInv, LineInv
<1>7. up' => Len(Stream') % 2 = 0
  <2>1. ASSUME NEW a \in Nat, NEW b \in Nat, b <= a, a % 2 = 0, b % 2 = 0
        PROVE  (a - b) % 2 = 0
    BY <2>1
  <2>2. up' => Len(Stream) % 2 = 0
    BY <1>1 DEF LinkInv, LineInv
  <2>3. m \in Nat /\ m <= Len(Stream) /\ m % 2 = 0
    BY <1>3, <1>4
  <2>4. up' => (Len(Stream) - m) % 2 = 0
    BY <1>4, <2>1, <2>2, <2>3
  <2> QED  BY <1>3, <2>4
<1>8. \A d : Answered(d)' => Answered(d)
  <2>1. \A k \in DOMAIN Stream' : k + m \in DOMAIN Stream
    <3>1. m \in Nat /\ Len(Stream') = Len(Stream) - m
      BY <1>3
    <3> QED  BY <1>4, <1>5, <3>1
  <2> QED  BY <1>3, <2>1 DEF Answered
<1>9. ASSUME NEW c \in Calls, up, c \in pending', Answered(c) PROVE Answered(c)'
  <2>1. PICK k \in DOMAIN Stream : Stream[k].id = c
    BY <1>9 DEF Answered
  <2>0. k \in Nat \ {0} /\ k <= Len(Stream) /\ m \in Nat
    BY <1>3, <1>4
  <2>2. CASE k > m
    <3>0. PICK l \in Nat, w \in Nat : l = Len(Stream) /\ w = m
      BY <1>4, <2>0
    <3>3. k - w \in 1 .. l - w /\ (k - w) + w = k
      BY <2>0, <2>2, <3>0
    <3>1. k - m \in DOMAIN Stream' /\ (k - m) + m = k
      BY <1>3, <1>5, <3>0, <3>3
    <3>2. Stream'[k - m].id = c
      BY <1>3, <2>1, <3>1
    <3> QED  BY <3>1, <3>2 DEF Answered
  <2>3. CASE k <= m /\ k % 2 = 0
    <3>1. k \in {j \in 1 .. m : j % 2 = 0}
      BY <2>0, <2>3
    <3> QED  BY <1>3, <1>9, <2>1, <3>1
  <2>4. CASE k <= m /\ k % 2 # 0
    <3>1. k + 1 <= m /\ (k + 1) % 2 = 0
      BY <1>3, <2>0, <2>4, Parity
    <3>2. k + 1 \in DOMAIN Stream /\ (k + 1) - 1 = k /\ k + 1 \in {j \in 1 .. m : j % 2 = 0}
      BY <1>3, <1>4, <2>0, <3>1
    <3>3. Stream[k] = Opening(Stream[k + 1].id, Stream[k + 1].res)
      BY <3>1, <3>2 DEF LinkInv, LineInv, Lines
    <3>4. Stream[k + 1].id = c
      BY <2>1, <3>3 DEF Opening
    <3> QED  BY <1>3, <1>9, <3>2, <3>4
  <2> QED  BY <2>0, <2>2, <2>3, <2>4
<1>10. pending' \subseteq pending
  BY <1>3
<1>11. PlaceInv'
  BY <1>1, <1>8, <1>9, <1>10 DEF LinkInv, PlaceInv
<1> QED  BY <1>2, <1>6, <1>7, <1>11 DEF LinkInv, LineInv

LEMMA DieEffect ==
    ASSUME LinkInv, Die
    PROVE  LinkInv' /\ \A k \in DOMAIN Stream' : k \in DOMAIN Stream /\ Stream'[k] = Stream[k]
<1>1. /\ up' = FALSE /\ panicked' = {} /\ stdin' = <<>> /\ work' = {} /\ out' = <<>>
      /\ UNCHANGED <<runtime, issued, pending, told, writeQueue, stdout, buf>>
  BY DEF Die
<1>2. /\ buf \in Seq(Piece) /\ stdout \in Seq(Piece) /\ out \in Seq(Piece) /\ out' \in Seq(Piece)
      /\ Len(out') = 0
  BY <1>1 DEF LinkInv, RTypeOK
<1>3. /\ Stream' \in Seq(Piece) /\ DOMAIN Stream' = 1 .. Len(buf) + Len(stdout)
      /\ Len(Stream') = Len(buf) + Len(stdout)
      /\ \A k \in DOMAIN Stream' : Stream'[k] = IF k <= Len(buf) THEN buf[k] ELSE stdout[k - Len(buf)]
      /\ Len(buf) \in Nat /\ Len(stdout) \in Nat
  <2>1. LET s == buf \o stdout \o out'
        IN  /\ s \in Seq(Piece) /\ Len(s) = Len(buf) + Len(stdout) + Len(out')
            /\ DOMAIN s = 1 .. Len(buf) + Len(stdout) + Len(out')
            /\ Len(buf) \in Nat /\ Len(stdout) \in Nat /\ Len(out') \in Nat
            /\ \A k \in DOMAIN s :
                  s[k] = IF k <= Len(buf) THEN buf[k]
                         ELSE IF k <= Len(buf) + Len(stdout) THEN stdout[k - Len(buf)]
                              ELSE out'[k - (Len(buf) + Len(stdout))]
    BY <1>2, StreamParts
  <2>2. Stream' = buf \o stdout \o out'
    BY <1>1 DEF Stream
  <2>3. \A k \in 1 .. Len(buf) + Len(stdout) : k <= Len(buf) + Len(stdout)
    BY <2>1
  <2>4. Len(buf) + Len(stdout) + Len(out') = Len(buf) + Len(stdout)
    BY <1>2, <2>1
  <2> QED  BY <2>1, <2>2, <2>3, <2>4
<1>4. /\ Stream \in Seq(Piece) /\ DOMAIN Stream = 1 .. Len(Stream)
      /\ Len(Stream) = Len(buf) + Len(stdout) + Len(out) /\ Len(out) \in Nat
      /\ \A k \in DOMAIN Stream :
            Stream[k] = IF k <= Len(buf) THEN buf[k]
                        ELSE IF k <= Len(buf) + Len(stdout) THEN stdout[k - Len(buf)]
                             ELSE out[k - (Len(buf) + Len(stdout))]
  BY StreamFacts DEF LinkInv
<1>5. ASSUME NEW k \in DOMAIN Stream' PROVE k \in DOMAIN Stream /\ Stream'[k] = Stream[k]
  <2>1. k \in 1 .. Len(Stream) /\ k <= Len(buf) + Len(stdout)
    BY <1>3, <1>4
  <2> QED  BY <1>3, <1>4, <2>1
<1>6. Lines(Stream')
  <2>1. Len(Stream') <= Len(Stream)
    BY <1>3, <1>4
  <2> QED  BY <1>3, <1>4, <1>5, <2>1, Beginning DEF LinkInv, LineInv
<1>7. LineInv'
  BY <1>1, <1>6 DEF LinkInv, LineInv
<1>8. \A d : Answered(d)' => Answered(d)
  BY <1>5 DEF Answered
<1>9. RTypeOK'
  <2>1. stdin' \in Seq(Calls) /\ Len(stdin') = 0 /\ 0 <= InRoom /\ work' \subseteq Calls
    BY <1>1, RoomAssumption
  <2> QED  BY <1>1, <1>2, <2>1 DEF LinkInv, RTypeOK
<1>10. PlaceInv'
  BY <1>1, <1>8 DEF LinkInv, PlaceInv, In, Once
<1> QED  BY <1>5, <1>7, <1>9, <1>10 DEF LinkInv

LEMMA EmptyLink ==
    ASSUME writeQueue = <<>>, stdin = <<>>, work = {}, out = <<>>, stdout = <<>>, buf = <<>>
    PROVE  LineInv /\ Stream = <<>> /\ (pending = {} => PlaceInv)
<1>1. Stream = <<>>
  BY DEF Stream
<1> QED  BY <1>1 DEF LineInv, Lines, PlaceInv, In, Once, Answered

LEMMA LinkInit == RInit => LinkInv
<1> SUFFICES ASSUME RInit PROVE LinkInv
  OBVIOUS
<1>1. LineInv /\ PlaceInv
  BY EmptyLink DEF RInit
<1>2. RTypeOK
  BY RoomAssumption DEF RInit, RTypeOK
<1> QED  BY <1>1, <1>2 DEF LinkInv

LEMMA RespawnKeeps == ASSUME LinkInv, Respawn PROVE LinkInv' /\ Stream' = <<>>
<1>1. /\ up' = TRUE /\ panicked' = {} /\ pending' = {} /\ told' = [c \in Calls |-> "nothing"]
      /\ writeQueue' = <<>> /\ stdin' = <<>> /\ work' = {}
      /\ out' = <<>> /\ stdout' = <<>> /\ buf' = <<>>
      /\ UNCHANGED <<runtime, issued>>
  BY DEF Respawn
<1>2. Stream' = <<>>
  BY <1>1 DEF Stream
<1>3. LineInv' /\ PlaceInv'
  BY <1>1, <1>2 DEF LineInv, Lines, PlaceInv, In, Once, Answered
<1>4. RTypeOK'
  BY <1>1, RoomAssumption DEF LinkInv, RTypeOK
<1> QED  BY <1>2, <1>3, <1>4 DEF LinkInv

\* What the client and the sidecar may do to the link.
LinkStep ==
    \/ \E c \in Calls : Call(c)
    \/ Written \/ WriteFails \/ Take \/ Flush \/ Die \/ Respawn
    \/ \E n \in 1 .. OutRoom : Read(n)
    \/ \E c \in Calls : Panic(c) \/ \E v \in Result : Finish(c, v)

LEMMA LinkNext == LinkInv /\ [LinkStep]_rvars => LinkInv'
<1> SUFFICES ASSUME LinkInv, [LinkStep]_rvars PROVE LinkInv'
  OBVIOUS
<1>1. ASSUME UNCHANGED rvars PROVE LinkInv'
  <2>1. UNCHANGED <<runtime, up, panicked, issued, pending, told, writeQueue, stdin, work, out, stdout, buf>>
    BY <1>1 DEF rvars
  <2>2. LineInv' /\ \A c : Answered(c)' <=> Answered(c)
    BY <2>1, SameParts DEF LinkInv
  <2>3. RTypeOK'
    BY <2>1 DEF LinkInv, RTypeOK
  <2>4. PlaceInv'
    BY <2>1, <2>2 DEF LinkInv, PlaceInv
  <2> QED  BY <2>2, <2>3, <2>4 DEF LinkInv
<1>2. ASSUME LinkStep PROVE LinkInv'
  BY <1>2, CallKeeps, WrittenKeeps, WriteFailsKeeps, TakeKeeps, FlushKeeps, DieEffect,
     RespawnKeeps, ReadKeeps, PanicKeeps, FinishEffect DEF LinkStep
<1> QED  BY <1>1, <1>2

\* What the invariant says of a call that waits.
LEMMA InOnePlace == LinkInv => NoneLost
<1> SUFFICES ASSUME LinkInv, up PROVE NoneLost
  BY DEF NoneLost
<1>1. ASSUME NEW c \in pending
      PROVE  1 = Cardinality({p \in {"queue", "stdin", "work", "answer"} :
                                 \/ p = "queue" /\ In(c, writeQueue)
                                 \/ p = "stdin" /\ In(c, stdin)
                                 \/ p = "work" /\ c \in work
                                 \/ p = "answer" /\ Answered(c)})
  <2> DEFINE P == {p \in {"queue", "stdin", "work", "answer"} :
                      \/ p = "queue" /\ In(c, writeQueue)
                      \/ p = "stdin" /\ In(c, stdin)
                      \/ p = "work" /\ c \in work
                      \/ p = "answer" /\ Answered(c)}
  <2>1. c \in Calls
    BY DEF LinkInv, RTypeOK
  <2>2. \E q : P = {q}
    <3>1. CASE In(c, writeQueue)
      <4>1. P = {"queue"}
        BY <2>1, <3>1 DEF LinkInv, PlaceInv
      <4> QED  BY <4>1
    <3>2. CASE In(c, stdin)
      <4>1. P = {"stdin"}
        BY <2>1, <3>2 DEF LinkInv, PlaceInv
      <4> QED  BY <4>1
    <3>3. CASE c \in work
      <4>1. P = {"work"}
        BY <2>1, <3>3 DEF LinkInv, PlaceInv
      <4> QED  BY <4>1
    <3>4. CASE Answered(c)
      <4>1. P = {"answer"}
        BY <2>1, <3>4 DEF LinkInv, PlaceInv
      <4> QED  BY <4>1
    <3> QED  BY <2>1, <3>1, <3>2, <3>3, <3>4 DEF LinkInv, PlaceInv
  <2> HIDE DEF P
  <2>3. Cardinality(P) = 1
    BY <2>2, FS_Singleton
  <2> QED  BY <2>3 DEF P
<1>2. ASSUME NEW k \in DOMAIN Stream
      PROVE  IF k % 2 = 0 THEN Parses(Stream, k) ELSE ~Stream[k].end
  <2>1. DOMAIN Stream = 1 .. Len(Stream) /\ Lines(Stream)
    BY StreamFacts DEF LinkInv, LineInv
  <2>2. CASE k % 2 = 0
    <3>1. k > 1 /\ (k > 2 => k - 2 \in DOMAIN Stream /\ (k - 2) % 2 = 0)
      BY <2>1, <2>2
    <3> QED  BY <2>1, <2>2, <3>1 DEF Parses, Lines
  <2> QED  BY <2>1, <2>2 DEF Lines
<1> QED  BY <1>1, <1>2 DEF NoneLost
-----------------------------------------------------------------------------
(* The imports.                                                              *)

AllChunks == UNION {ChunksOf(i) : i \in Imports}

\* A chunk that has been answered is a row, and so are all before one that has
\* been issued.
RowInv ==
    /\ docs \subseteq issued
    /\ \A i \in Imports : at[i] <= Chunks[i]
    /\ \A c \in AllChunks : told[c] = "ok" => c \in docs
    /\ \A k \in DOMAIN Stream :
          Stream[k].res = "ok" /\ Stream[k].id \in AllChunks => Stream[k].id \in docs
    /\ \A i \in Imports : \A k \in 1 .. Chunks[i] :
          Chunk(i, k) \in issued => \A j \in 1 .. k - 1 : Chunk(i, j) \in docs

\* An upload keeps its file, unless it has failed; one with a job fails in this
\* way only before it has issued anything.
FileInv ==
    /\ \A i \in Imports :
          pc[i] \in {"new", "creating", "marking"} \/ (pc[i] = "error" /\ async[i])
              => ChunksOf(i) \cap issued = {}
    /\ \A i \in Uploads : pc[i] \in {"new", "error"} \/ i \in files

\* The tables that are in memory, on disk, and on their way to the disk.
Tables == {jobs, disk} \cup {writes[w] : w \in {v \in Writers : writes[v] # NoWrite}}

JobInv ==
    \A i \in Imports :
        /\ pc[i] = "new" => ~async[i]
        /\ pc[i] \in {"creating", "marking", "finishing", "failing"} => async[i]
        /\ ~async[i] => \A t \in Tables : t[i] = NoJob
        /\ jobs[i] \in Status \ Terminal =>
              pc[i] \in {"creating", "marking", "convert", "capture", "error"}

DoneInv ==
    \A i \in Imports :
        pc[i] = "ok" \/ (\E t \in Tables : t[i] = "done") => ChunksOf(i) \subseteq docs

ImportInv == LinkInv /\ ITypeOK /\ RowInv /\ FileInv /\ JobInv /\ DoneInv
LEMMA ChunkFacts ==
    /\ \A i \in Imports : /\ Chunks[i] \in Nat /\ DOMAIN Cut[i] = 1 .. Chunks[i]
                          /\ Convert(i) \in Calls /\ Convert(i) \notin AllChunks
                          /\ ChunksOf(i) \subseteq AllChunks
    /\ \A i \in Imports : \A k \in 1 .. Chunks[i] :
          Chunk(i, k) \in Calls /\ Chunk(i, k) \in ChunksOf(i)
    /\ \A c \in AllChunks : \E i \in Imports : c \in ChunksOf(i)
    /\ \A i \in Imports : \A c \in ChunksOf(i) : \E k \in 1 .. Chunks[i] : c = Chunk(i, k)
    /\ \A i, j \in Imports : i # j => ChunksOf(i) \cap ChunksOf(j) = {}
    /\ Uploads \subseteq Imports
    /\ \A i, k : Chunk(i, k) = <<i, k>>
    /\ \A i, j, k, l : Chunk(i, k) = Chunk(j, l) => i = j /\ k = l
<1>1. ASSUME NEW i \in Imports
      PROVE  Chunks[i] \in Nat /\ DOMAIN Cut[i] = 1 .. Chunks[i]
  <2>1. Cut[i] \in Seq(Range(Cut[i])) /\ Chunks[i] = Len(Cut[i])
    BY ImportsAssumption DEF Chunks
  <2> QED  BY <2>1
<1>2. ASSUME NEW i \in Imports
      PROVE  Convert(i) \in Calls /\ ChunksOf(i) \subseteq Calls
  BY ImportsAssumption
<1>3. ASSUME NEW i \in Imports, NEW c \in ChunksOf(i)
      PROVE  \E k \in 1 .. Chunks[i] : c = Chunk(i, k)
  BY DEF ChunksOf
<1>4. ASSUME NEW i \in Imports PROVE Convert(i) \notin AllChunks
  <2>1. \A j \in Imports : \A k \in 1 .. Chunks[j] : k # 0
    BY <1>1
  <2> QED  BY <2>1 DEF AllChunks, ChunksOf, Convert, Chunk
<1>5. \A i, j, k, l : Chunk(i, k) = Chunk(j, l) => i = j /\ k = l
  BY DEF Chunk
<1>6. \A i, j \in Imports : i # j => ChunksOf(i) \cap ChunksOf(j) = {}
  BY <1>5 DEF ChunksOf
<1>7. \A i \in Imports : \A k \in 1 .. Chunks[i] :
          Chunk(i, k) \in Calls /\ Chunk(i, k) \in ChunksOf(i)
  BY <1>2 DEF ChunksOf
<1> QED  BY <1>1, <1>2, <1>3, <1>4, <1>5, <1>6, <1>7, ImportsAssumption DEF AllChunks, Chunk

\* Rows stay, answers say "ok" of rows only, and no call is issued.
LEMMA RowFrame ==
    ASSUME RowInv, issued' = issued, at' = at, docs \subseteq docs', docs' \subseteq issued,
           \A c \in AllChunks : told'[c] = "ok" => told[c] = "ok" \/ c \in docs',
           \A k \in DOMAIN Stream' :
              Stream'[k].res = "ok" /\ Stream'[k].id \in AllChunks => Stream'[k].id \in docs'
    PROVE  RowInv'
<1>1. ASSUME NEW i \in Imports, NEW k \in 1 .. Chunks[i], Chunk(i, k) \in issued',
             NEW j \in 1 .. k - 1
      PROVE  Chunk(i, j) \in docs'
  BY <1>1 DEF RowInv
<1> QED  BY <1>1 DEF RowInv

LEMMA RowSame ==
    ASSUME RowInv, UNCHANGED <<rvars, at, docs>>
    PROVE  RowInv'
<1>1. Stream' = Stream
  BY DEF rvars, Stream
<1> QED  BY <1>1, RowFrame DEF RowInv, rvars

LEMMA FileFrame ==
    ASSUME FileInv, issued' = issued, pc' = pc, async' = async, files' = files
    PROVE  FileInv'
BY DEF FileInv

\* What is a row stays one, and no import and no table says something new.
LEMMA DoneFrame ==
    ASSUME DoneInv, docs \subseteq docs', Tables' \subseteq Tables,
           \A i \in Imports : pc'[i] = "ok" => pc[i] = "ok"
    PROVE  DoneInv'
BY DEF DoneInv

LEMMA TablesSame == UNCHANGED <<jobs, disk, writes>> => Tables' = Tables
BY DEF Tables

\* The steps of the jobs write tables that were there or the one in memory.
LEMMA TablesStep ==
    ASSUME disk' \in Tables \cup {jobs'},
           \A w \in Writers : writes'[w] \in {writes[w], jobs', NoWrite}
    PROVE  Tables' \subseteq Tables \cup {jobs'}
BY DEF Tables

\* The chunks before the one an import waits for, and that one once it is
\* answered, are rows.
LEMMA BeginningStored ==
    ASSUME RowInv, ITypeOK, NEW i \in Imports, told[<<i, at[i]>>] = "ok",
           NEW j \in 1 .. at[i]
    PROVE  Chunk(i, j) \in docs
<1>1. at[i] \in Nat /\ at[i] <= Chunks[i] /\ Chunks[i] \in Nat
  BY ChunkFacts DEF RowInv, ITypeOK
<1>2. at[i] \in 1 .. Chunks[i] /\ j \in Nat
  BY <1>1
<1>3. Chunk(i, at[i]) \in AllChunks /\ told[Chunk(i, at[i])] = "ok"
  BY <1>2, ChunkFacts
<1>4. Chunk(i, at[i]) \in docs /\ Chunk(i, at[i]) \in issued
  BY <1>3 DEF RowInv
<1>5. j = at[i] \/ j \in 1 .. at[i] - 1
  BY <1>1, <1>2
<1> QED  BY <1>2, <1>4, <1>5 DEF RowInv

\* An import that has no more chunks to capture has stored them all.
LEMMA AllStored ==
    ASSUME RowInv, ITypeOK, NEW i \in Imports, told[<<i, at[i]>>] = "ok",
           ~(at[i] < Chunks[i])
    PROVE  ChunksOf(i) \subseteq docs
<1>1. at[i] = Chunks[i]
  BY ChunkFacts DEF RowInv, ITypeOK
<1> QED  BY <1>1, BeginningStored, ChunkFacts

-----------------------------------------------------------------------------
(* One lemma for each step of an import.                                     *)

LEMMA ImportInit == IInit => ImportInv
<1> SUFFICES ASSUME IInit PROVE ImportInv
  OBVIOUS
<1>1. LinkInv /\ RInit
  BY LinkInit DEF IInit
<1>2. /\ issued = {} /\ told = [c \in Calls |-> "nothing"] /\ Stream = <<>>
  <2>1. /\ issued = {} /\ told = [c \in Calls |-> "nothing"]
        /\ writeQueue = <<>> /\ stdin = <<>> /\ work = {} /\ out = <<>> /\ stdout = <<>> /\ buf = <<>>
    BY <1>1 DEF RInit
  <2> QED  BY <2>1, EmptyLink
<1>3. ITypeOK
  BY <1>1 DEF IInit, ITypeOK, LinkInv, Table, Writers
<1>4. RowInv
  <2>1. \A c \in AllChunks : c \in Calls
    BY ChunkFacts
  <2>2. \A i \in Imports : at[i] <= Chunks[i]
    BY ChunkFacts DEF IInit
  <2> QED  BY <1>2, <2>1, <2>2 DEF IInit, RowInv
<1>5. FileInv
  BY <1>2, ChunkFacts DEF IInit, FileInv
<1>6. \A t \in Tables, i \in Imports : t[i] = NoJob
  BY DEF IInit, Tables, Writers
<1>7. JobInv
  BY <1>6, JobAssumption DEF IInit, JobInv, Tables
<1>8. DoneInv
  BY <1>6, JobAssumption DEF IInit, DoneInv, Status, Terminal
<1> QED  BY <1>1, <1>3, <1>4, <1>5, <1>7, <1>8 DEF ImportInv

LEMMA LinkTurn == ASSUME ImportInv, Link PROVE ImportInv'
<1>1. /\ Written \/ WriteFails \/ Take \/ Flush \/ \E n \in 1 .. OutRoom : Read(n)
      /\ UNCHANGED <<pc, async, at, jobs, disk, writes, docs, files>>
  BY DEF Link, jvars
<1>2. LinkInv'
  BY <1>1, LinkNext DEF LinkStep, ImportInv
<1>3. ITypeOK'
  BY <1>1, <1>2 DEF ImportInv, ITypeOK, LinkInv
<1>4. issued' = issued
  BY <1>1 DEF Written, WriteFails, Take, Flush, Read
<1>5. RowInv'
  <2>1. ASSUME Written \/ Take \/ Flush PROVE RowInv'
    <3>1. Stream' = Stream
      BY <2>1, FlushKeeps DEF ImportInv, Written, Take, Stream
    <3>2. told' = told
      BY <2>1 DEF Written, Take, Flush
    <3> QED  BY <1>1, <1>4, <3>1, <3>2, RowFrame DEF ImportInv, RowInv
  <2>2. ASSUME WriteFails PROVE RowInv'
    <3>1. Stream' = Stream
      BY <2>2 DEF WriteFails, Stream
    <3>2. \A c \in Calls : told'[c] = "ok" => told[c] = "ok"
      BY <2>2 DEF WriteFails, ImportInv, LinkInv, RTypeOK
    <3>3. AllChunks \subseteq Calls
      BY ChunkFacts
    <3> QED  BY <1>1, <1>4, <3>1, <3>2, <3>3, RowFrame DEF ImportInv, RowInv
  <2>3. ASSUME NEW n \in 1 .. OutRoom, Read(n) PROVE RowInv'
    <3>1. PICK m \in 0 .. Len(Stream) :
            /\ m % 2 = 0 /\ Len(Stream') = Len(Stream) - m
            /\ \A k \in DOMAIN Stream' : Stream'[k] = Stream[k + m]
            /\ \A c \in Calls :
                  \/ told'[c] = told[c]
                  \/ \E k \in 1 .. m : Stream[k].id = c /\ Stream[k].res = told'[c]
      BY <2>3, ReadEffect DEF ImportInv
    <3>2. DOMAIN Stream = 1 .. Len(Stream) /\ DOMAIN Stream' = 1 .. Len(Stream') /\ Len(Stream) \in Nat
      <4>1. DOMAIN Stream = 1 .. Len(Stream) /\ Stream \in Seq(Piece)
        BY StreamFacts DEF ImportInv, LinkInv
      <4>2. buf' \in Seq(Piece) /\ stdout' \in Seq(Piece) /\ out' \in Seq(Piece)
        BY <1>2 DEF LinkInv, RTypeOK
      <4>3. Stream' \in Seq(Piece)
        BY <4>2, StreamParts DEF Stream
      <4> QED  BY <4>1, <4>3
    <3>3. \A k \in 1 .. m : k \in DOMAIN Stream
      BY <3>1, <3>2
    <3>4. \A k \in DOMAIN Stream' : k + m \in DOMAIN Stream
      <4>1. m \in Nat /\ Len(Stream') = Len(Stream) - m
        BY <3>1
      <4> QED  BY <3>2, <4>1
    <3>5. AllChunks \subseteq Calls
      BY ChunkFacts
    <3>6. \A c \in AllChunks : told'[c] = "ok" => told[c] = "ok" \/ c \in docs'
      BY <1>1, <3>1, <3>3, <3>5 DEF ImportInv, RowInv
    <3>7. \A k \in DOMAIN Stream' :
              Stream'[k].res = "ok" /\ Stream'[k].id \in AllChunks => Stream'[k].id \in docs'
      BY <1>1, <3>1, <3>4 DEF ImportInv, RowInv
    <3> QED  BY <1>1, <1>4, <3>6, <3>7, RowFrame DEF ImportInv, RowInv
  <2> QED  BY <1>1, <2>1, <2>2, <2>3
<1>6. FileInv'
  BY <1>1, <1>4, FileFrame DEF ImportInv
<1>7. JobInv'
  <2>1. Tables' = Tables
    BY <1>1, TablesSame
  <2> QED  BY <1>1, <2>1 DEF ImportInv, JobInv
<1>8. DoneInv'
  BY <1>1, TablesSame, DoneFrame DEF ImportInv
<1> QED  BY <1>2, <1>3, <1>5, <1>6, <1>7, <1>8 DEF ImportInv
LEMMA StartKeeps ==
    ASSUME ImportInv, NEW i \in Imports, NEW b \in BOOLEAN, Start(i, b)
    PROVE  ImportInv'
<1>1. /\ pc[i] = "new" /\ async' = [async EXCEPT ![i] = b] /\ files' = files \cup {i}
      /\ UNCHANGED <<at, disk, docs>>
  BY DEF Start
<1>2. CASE b
  <2>1. /\ jobs' = [jobs EXCEPT ![i] = "queued"] /\ writes' = [writes EXCEPT ![i] = jobs']
        /\ pc' = [pc EXCEPT ![i] = "creating"] /\ UNCHANGED rvars
    BY <1>2 DEF Start, Set, Goto
  <2>2. LinkInv' /\ issued' = issued
    BY <2>1, LinkNext DEF ImportInv, rvars
  <2>3. jobs' \in Table
    BY <2>1 DEF ImportInv, ITypeOK, Table, Status
  <2>4. ITypeOK'
    BY <1>1, <2>1, <2>2, <2>3 DEF ImportInv, ITypeOK, LinkInv, Writers
  <2>5. RowInv'
    BY <1>1, <2>1, RowSame DEF ImportInv
  <2>6. FileInv'
    BY <1>1, <2>1, <2>2, <1>2, ChunkFacts DEF ImportInv, FileInv, ITypeOK
  <2>7. Tables' \subseteq Tables \cup {jobs'}
    <3>1. \A w \in Writers : writes'[w] \in {writes[w], jobs', NoWrite}
      BY <2>1 DEF ImportInv, ITypeOK
    <3>2. disk' \in Tables
      BY <1>1 DEF Tables
    <3> QED  BY <3>1, <3>2, TablesStep
  <2>8. \A j \in Imports : jobs'[j] = IF j = i THEN "queued" ELSE jobs[j]
    BY <2>1 DEF ImportInv, ITypeOK, Table
  <2>9. jobs \in Tables
    BY DEF Tables
  <2>10. JobInv'
    BY <1>1, <1>2, <2>1, <2>7, <2>8, <2>9 DEF ImportInv, ITypeOK, JobInv
  <2>11. DoneInv'
    <3>1. ASSUME NEW j \in Imports, NEW t \in Tables', t[j] = "done"
          PROVE  \E u \in Tables : u[j] = "done"
      <4>1. t \in Tables \/ t = jobs'
        BY <2>7
      <4>2. t = jobs' => jobs[j] = "done"
        BY <2>8, <3>1
      <4> QED  BY <2>9, <3>1, <4>1, <4>2
    <3>2. \A j \in Imports : pc'[j] = "ok" => pc[j] = "ok"
      BY <2>1 DEF ImportInv, ITypeOK
    <3> QED  BY <1>1, <3>1, <3>2 DEF ImportInv, DoneInv
  <2> QED  BY <2>2, <2>4, <2>5, <2>6, <2>10, <2>11 DEF ImportInv
<1>3. CASE ~b
  <2>1. /\ Call(Convert(i)) /\ pc' = [pc EXCEPT ![i] = "convert"] /\ UNCHANGED <<jobs, writes>>
    BY <1>3 DEF Start, Goto
  <2>2. LinkInv' /\ issued' = issued \cup {Convert(i)} /\ told' = told /\ Stream' = Stream
    BY <2>1, LinkNext, ChunkFacts DEF ImportInv, LinkStep, Call, Stream
  <2>4. ITypeOK'
    BY <1>1, <2>1, <2>2 DEF ImportInv, ITypeOK, LinkInv
  <2>5. RowInv'
    BY <1>1, <2>2, ChunkFacts DEF ImportInv, RowInv
  <2>6. FileInv'
    BY <1>1, <2>1, <2>2, ChunkFacts DEF ImportInv, FileInv, ITypeOK
  <2>7. Tables' = Tables
    BY <1>1, <2>1, TablesSame
  <2>8. async' = async
    BY <1>1, <1>3 DEF ImportInv, ITypeOK, JobInv
  <2>10. JobInv'
    BY <1>1, <1>3, <2>1, <2>7, <2>8 DEF ImportInv, ITypeOK, JobInv
  <2>11. DoneInv'
    BY <1>1, <2>1, <2>7, DoneFrame DEF ImportInv, ITypeOK
  <2> QED  BY <2>2, <2>4, <2>5, <2>6, <2>10, <2>11 DEF ImportInv
<1> QED  BY <1>2, <1>3

\* The end of an import, good or bad, with the chunks it has promised.
LEMMA EndsWell ==
    ASSUME ImportInv, NEW i \in Imports, pc[i] \in {"convert", "capture", "marking", "finishing"},
           UNCHANGED <<rvars, async, at, disk, docs>>,
           (Succeed(i) /\ pc[i] \in {"convert", "capture"} /\ ChunksOf(i) \subseteq docs) \/ Fail(i)
    PROVE  ImportInv'
<1>1. LinkInv' /\ issued' = issued
  BY LinkNext DEF ImportInv, rvars
<1>2. RowInv'
  BY RowSame DEF ImportInv
<1>3. CASE async[i]
  <2>1. PICK v \in {"done", "error"} :
          /\ jobs' = [jobs EXCEPT ![i] = v] /\ writes' = [writes EXCEPT ![i] = jobs']
          /\ pc' = [pc EXCEPT ![i] = IF v = "done" THEN "finishing" ELSE "failing"]
          /\ files' = files
          /\ v = "done" => ChunksOf(i) \subseteq docs
    BY <1>3 DEF Succeed, Fail, Set, Goto
  <2>3. jobs' \in Table
    BY <2>1 DEF ImportInv, ITypeOK, Table, Status, Terminal
  <2>4. ITypeOK'
    BY <1>1, <2>1, <2>3 DEF ImportInv, ITypeOK, LinkInv, Writers
  <2>6. FileInv'
    BY <1>1, <2>1 DEF ImportInv, FileInv, ITypeOK
  <2>7. Tables' \subseteq Tables \cup {jobs'}
    <3>1. \A w \in Writers : writes'[w] \in {writes[w], jobs', NoWrite}
      BY <2>1 DEF ImportInv, ITypeOK
    <3>2. disk' \in Tables
      BY DEF Tables
    <3> QED  BY <3>1, <3>2, TablesStep
  <2>8. \A j \in Imports : jobs'[j] = IF j = i THEN v ELSE jobs[j]
    BY <2>1 DEF ImportInv, ITypeOK, Table
  <2>9. jobs \in Tables
    BY DEF Tables
  <2>10. JobInv'
    BY <1>3, <2>1, <2>7, <2>8, <2>9 DEF ImportInv, ITypeOK, JobInv, Terminal
  <2>11. DoneInv'
    BY <2>1, <2>7, <2>8, <2>9 DEF ImportInv, ITypeOK, DoneInv
  <2> QED  BY <1>1, <1>2, <2>4, <2>6, <2>10, <2>11 DEF ImportInv
<1>4. CASE ~async[i]
  <2>1. /\ UNCHANGED <<jobs, writes>>
        /\ \/ /\ pc' = [pc EXCEPT ![i] = "ok"] /\ files' = files \ ({i} \ Uploads)
              /\ ChunksOf(i) \subseteq docs
           \/ pc' = [pc EXCEPT ![i] = "error"] /\ files' = files \ {i}
    BY <1>4 DEF Succeed, Fail, Goto, Unlink
  <2>4. ITypeOK'
    BY <1>1, <2>1 DEF ImportInv, ITypeOK, LinkInv
  <2>6. FileInv'
    <3>1. ASSUME NEW j \in Imports, pc'[j] \in {"new", "creating", "marking"} \/ (pc'[j] = "error" /\ async'[j])
          PROVE  ChunksOf(j) \cap issued' = {}
      BY <1>1, <1>4, <2>1, <3>1 DEF ImportInv, FileInv, ITypeOK
    <3>2. ASSUME NEW j \in Uploads PROVE pc'[j] \in {"new", "error"} \/ j \in files'
      <4>1. j \in Imports
        BY ChunkFacts
      <4>2. CASE j = i
        <5>1. i \in files
          BY <4>2 DEF ImportInv, FileInv
        <5> QED  BY <2>1, <4>1, <4>2, <5>1 DEF ImportInv, ITypeOK
      <4>3. CASE j # i
        <5>1. pc'[j] = pc[j] /\ (j \in files => j \in files')
          BY <2>1, <4>1, <4>3 DEF ImportInv, ITypeOK
        <5> QED  BY <4>1, <5>1 DEF ImportInv, FileInv
      <4> QED  BY <4>2, <4>3
    <3> QED  BY <3>1, <3>2 DEF FileInv
  <2>7. Tables' = Tables
    BY <2>1, TablesSame
  <2>10. JobInv'
    <3>1. jobs[i] = NoJob
      BY <1>4 DEF ImportInv, JobInv, Tables
    <3> QED  BY <1>4, <2>1, <2>7, <3>1, JobAssumption DEF ImportInv, ITypeOK, JobInv
  <2>11. DoneInv'
    BY <2>1, <2>7 DEF ImportInv, ITypeOK, DoneInv
  <2> QED  BY <1>1, <1>2, <2>4, <2>6, <2>10, <2>11 DEF ImportInv
<1> QED  BY <1>3, <1>4

LEMMA ProceedKeeps == ASSUME ImportInv, NEW i \in Imports, Proceed(i) PROVE ImportInv'
<1>1. /\ pc[i] \in {"convert", "capture"} /\ told[<<i, at[i]>>] = "ok"
      /\ UNCHANGED <<async, disk, docs>>
  BY DEF Proceed
<1>2. CASE at[i] < Chunks[i]
  <2> DEFINE n == at[i] + 1
             c == Chunk(i, n)
  <2>1. /\ Call(c) /\ at' = [at EXCEPT ![i] = n] /\ pc' = [pc EXCEPT ![i] = "capture"]
        /\ UNCHANGED <<jobs, writes, files>>
    BY <1>2 DEF Proceed, Goto
  <2>2. /\ n \in 1 .. Chunks[i] /\ at[i] \in Nat /\ n \in Nat /\ n - 1 = at[i]
        /\ c \in Calls /\ c \in ChunksOf(i)
    BY <1>2, ChunkFacts DEF ImportInv, ITypeOK
  <2>3. \A j \in 1 .. at[i] : Chunk(i, j) \in docs
    BY <1>1, BeginningStored DEF ImportInv
  <2>4. \A j \in Imports : \A k \in 1 .. Chunks[j] : Chunk(j, k) = c => j = i /\ k = n
    BY ChunkFacts
  <2> HIDE DEF n, c
  <2>5. LinkInv' /\ issued' = issued \cup {c} /\ told' = told /\ Stream' = Stream
    BY <2>1, <2>2, LinkNext DEF ImportInv, LinkStep, Call, Stream
  <2>6. ITypeOK'
    BY <1>1, <2>1, <2>2, <2>5 DEF ImportInv, ITypeOK, LinkInv
  <2>7. RowInv'
    <3>1. ASSUME NEW j \in Imports, NEW k \in 1 .. Chunks[j], Chunk(j, k) \in issued',
                 NEW l \in 1 .. k - 1
          PROVE  Chunk(j, l) \in docs
      BY <2>2, <2>3, <2>4, <2>5, <3>1 DEF ImportInv, RowInv
    <3>2. \A j \in Imports : at'[j] <= Chunks[j]
      BY <2>1, <2>2 DEF ImportInv, ITypeOK, RowInv
    <3> QED  BY <1>1, <2>5, <3>1, <3>2 DEF ImportInv, RowInv
  <2>8. FileInv'
    BY <1>1, <2>1, <2>2, <2>5, ChunkFacts DEF ImportInv, FileInv, ITypeOK
  <2>9. Tables' = Tables
    BY <1>1, <2>1, TablesSame
  <2>10. JobInv'
    BY <1>1, <2>1, <2>9 DEF ImportInv, ITypeOK, JobInv
  <2>11. DoneInv'
    BY <1>1, <2>1, <2>9, DoneFrame DEF ImportInv, ITypeOK
  <2> QED  BY <2>5, <2>6, <2>7, <2>8, <2>10, <2>11 DEF ImportInv
<1>3. CASE ~(at[i] < Chunks[i])
  <2>1. Succeed(i) /\ UNCHANGED <<rvars, at>>
    BY <1>3 DEF Proceed
  <2>2. ChunksOf(i) \subseteq docs
    BY <1>1, <1>3, AllStored DEF ImportInv
  <2> QED  BY <1>1, <2>1, <2>2, EndsWell
<1> QED  BY <1>2, <1>3

LEMMA ThrowKeeps == ASSUME ImportInv, NEW i \in Imports, Throw(i) PROVE ImportInv'
<1>1. /\ pc[i] \in {"convert", "capture"} /\ Fail(i)
      /\ UNCHANGED <<rvars, async, at, disk, docs>>
  BY DEF Throw
<1> QED  BY <1>1, EndsWell
\* The table in a write that ends is on disk.
LEMMA PersistedKeeps == ASSUME ImportInv, NEW i \in Imports, Persisted(i) PROVE ImportInv'
<1>1. /\ writes[i] # NoWrite /\ disk' = writes[i] /\ UNCHANGED <<async, at, docs>>
  BY DEF Persisted
<1>2. disk' \in Tables /\ disk' \in Table
  BY <1>1 DEF Tables, Writers, ImportInv, ITypeOK
<1>3. CASE pc[i] = "creating" /\ Set(i, "converting")
  <2>1. /\ jobs' = [jobs EXCEPT ![i] = "converting"] /\ writes' = [writes EXCEPT ![i] = jobs']
        /\ pc' = [pc EXCEPT ![i] = "marking"] /\ UNCHANGED <<rvars, files>>
    BY <1>3 DEF Persisted, Set, Goto
  <2>2. LinkInv' /\ issued' = issued
    BY <2>1, LinkNext DEF ImportInv, rvars
  <2>3. jobs' \in Table
    BY <2>1 DEF ImportInv, ITypeOK, Table, Status
  <2>4. ITypeOK'
    BY <1>1, <1>2, <2>1, <2>2, <2>3 DEF ImportInv, ITypeOK, LinkInv, Writers
  <2>5. RowInv'
    BY <1>1, <2>1, RowSame DEF ImportInv
  <2>6. FileInv'
    BY <1>1, <1>3, <2>1, <2>2 DEF ImportInv, FileInv, ITypeOK
  <2>7. Tables' \subseteq Tables \cup {jobs'}
    <3>1. \A w \in Writers : writes'[w] \in {writes[w], jobs', NoWrite}
      BY <2>1 DEF ImportInv, ITypeOK
    <3> QED  BY <1>2, <3>1, TablesStep
  <2>8. \A j \in Imports : jobs'[j] = IF j = i THEN "converting" ELSE jobs[j]
    BY <2>1 DEF ImportInv, ITypeOK, Table
  <2>9. jobs \in Tables
    BY DEF Tables
  <2>10. JobInv'
    BY <1>1, <1>3, <2>1, <2>7, <2>8, <2>9 DEF ImportInv, ITypeOK, JobInv
  <2>11. DoneInv'
    <3>1. ASSUME NEW j \in Imports, NEW t \in Tables', t[j] = "done"
          PROVE  \E u \in Tables : u[j] = "done"
      <4>1. t \in Tables \/ t = jobs'
        BY <2>7
      <4>2. t = jobs' => jobs[j] = "done"
        BY <2>8, <3>1
      <4> QED  BY <2>9, <3>1, <4>1, <4>2
    <3>2. \A j \in Imports : pc'[j] = "ok" => pc[j] = "ok"
      BY <2>1 DEF ImportInv, ITypeOK
    <3> QED  BY <1>1, <3>1, <3>2 DEF ImportInv, DoneInv
  <2> QED  BY <2>2, <2>4, <2>5, <2>6, <2>10, <2>11 DEF ImportInv
<1>4. CASE ~(pc[i] = "creating" /\ Set(i, "converting"))
  <2>1. /\ writes' = [writes EXCEPT ![i] = NoWrite] /\ UNCHANGED jobs
        /\ \/ /\ pc[i] = "marking" /\ Call(Convert(i)) /\ pc' = [pc EXCEPT ![i] = "convert"]
              /\ UNCHANGED files
           \/ /\ pc[i] \in {"finishing", "failing"} /\ pc' = [pc EXCEPT ![i] = "over"]
              /\ files' = files \ ({i} \ Uploads) /\ UNCHANGED rvars
    BY <1>4 DEF Persisted, Goto, Unlink
  <2>2. /\ LinkInv' /\ told' = told /\ Stream' = Stream
        /\ issued' = issued \/ issued' = issued \cup {Convert(i)}
    BY <2>1, LinkNext, ChunkFacts DEF ImportInv, LinkStep, Call, Stream, rvars
  <2>4. ITypeOK'
    BY <1>1, <1>2, <2>1, <2>2 DEF ImportInv, ITypeOK, LinkInv, Writers
  <2>5. RowInv'
    <3>1. \A c \in AllChunks : c \in issued' <=> c \in issued
      BY <2>2, ChunkFacts
    <3>2. \A j \in Imports : \A k \in 1 .. Chunks[j] : Chunk(j, k) \in AllChunks
      BY ChunkFacts
    <3> QED  BY <1>1, <2>2, <3>1, <3>2 DEF ImportInv, RowInv
  <2>6. FileInv'
    <3>1. \A j \in Imports : ChunksOf(j) \cap issued' = ChunksOf(j) \cap issued
      BY <2>2, ChunkFacts
    <3>2. \A j \in Imports : pc'[j] = pc[j] \/ pc'[j] \in {"convert", "over"}
      BY <2>1 DEF ImportInv, ITypeOK
    <3>3. \A j \in Uploads : j \in files => j \in files'
      BY <2>1
    <3>4. ASSUME NEW j \in Uploads PROVE pc'[j] \in {"new", "error"} \/ j \in files'
      <4>1. j \in Imports
        BY ChunkFacts
      <4>2. pc'[j] = pc[j] \/ j = i
        BY <2>1, <4>1 DEF ImportInv, ITypeOK
      <4>3. pc[i] \notin {"new", "error"}
        BY <2>1
      <4> QED  BY <3>3, <4>2, <4>3 DEF ImportInv, FileInv
    <3> QED  BY <1>1, <3>1, <3>2, <3>4 DEF ImportInv, FileInv
  <2>7. Tables' \subseteq Tables
    <3>1. \A w \in Writers : writes'[w] \in {writes[w], jobs', NoWrite}
      BY <2>1 DEF ImportInv, ITypeOK
    <3>2. jobs' \in Tables
      BY <2>1 DEF Tables
    <3> QED  BY <1>2, <3>1, <3>2, TablesStep
  <2>8. pc[i] # "marking" => jobs[i] \notin Status \ Terminal
    BY <2>1 DEF ImportInv, JobInv
  <2>10. JobInv'
    BY <1>1, <2>1, <2>7, <2>8 DEF ImportInv, ITypeOK, JobInv
  <2>11. DoneInv'
    BY <1>1, <2>1, <2>7, DoneFrame DEF ImportInv, ITypeOK
  <2> QED  BY <2>2, <2>4, <2>5, <2>6, <2>10, <2>11 DEF ImportInv
<1> QED  BY <1>3, <1>4

LEMMA PersistFailsKeeps == ASSUME ImportInv, NEW i \in Imports, PersistFails(i) PROVE ImportInv'
<1>1. UNCHANGED <<rvars, async, at, disk, docs>>
  BY DEF PersistFails
<1>2. CASE pc[i] \in {"marking", "finishing"} /\ Fail(i)
  BY <1>1, <1>2, EndsWell
<1>3. CASE ~(pc[i] \in {"marking", "finishing"} /\ Fail(i))
  <2>1. /\ pc[i] = "creating" /\ pc' = [pc EXCEPT ![i] = "error"]
        /\ files' = files \ ({i} \cap Uploads)
        /\ writes' = [writes EXCEPT ![i] = NoWrite] /\ UNCHANGED jobs
    BY <1>3 DEF PersistFails, Goto, Unlink
  <2>2. LinkInv' /\ issued' = issued
    BY <1>1, LinkNext DEF ImportInv, rvars
  <2>4. ITypeOK'
    BY <1>1, <2>1, <2>2 DEF ImportInv, ITypeOK, LinkInv, Writers
  <2>5. RowInv'
    BY <1>1, RowSame DEF ImportInv
  <2>6. FileInv'
    BY <1>1, <2>1, <2>2, ChunkFacts DEF ImportInv, FileInv, ITypeOK
  <2>7. Tables' \subseteq Tables
    <3>1. \A w \in Writers : writes'[w] \in {writes[w], jobs', NoWrite}
      BY <2>1 DEF ImportInv, ITypeOK
    <3>2. jobs' \in Tables /\ disk' \in Tables
      BY <1>1, <2>1 DEF Tables
    <3> QED  BY <3>1, <3>2, TablesStep
  <2>10. JobInv'
    BY <1>1, <2>1, <2>7 DEF ImportInv, ITypeOK, JobInv
  <2>11. DoneInv'
    BY <1>1, <2>1, <2>7, DoneFrame DEF ImportInv, ITypeOK
  <2> QED  BY <2>2, <2>4, <2>5, <2>6, <2>10, <2>11 DEF ImportInv
<1> QED  BY <1>2, <1>3

LEMMA SweepKeeps ==
    ASSUME ImportInv, (\E S \in (SUBSET Imports) \ {{}} : Sweep(S)) \/ Swept
    PROVE  ImportInv'
<1>1. UNCHANGED <<rvars, pc, async, at, docs, files>>
  BY DEF Sweep, Swept
<1>2. LinkInv' /\ issued' = issued
  BY <1>1, LinkNext DEF ImportInv, rvars
<1>3. RowInv' /\ FileInv'
  BY <1>1, <1>2, RowSame, FileFrame DEF ImportInv
<1>4. CASE \E S \in (SUBSET Imports) \ {{}} : Sweep(S)
  <2>1. PICK S \in (SUBSET Imports) \ {{}} :
          /\ jobs' = [j \in Imports |-> IF j \in S THEN NoJob ELSE jobs[j]]
          /\ writes' = [writes EXCEPT ![Sweeper] = jobs'] /\ disk' = disk
    BY <1>4 DEF Sweep
  <2>2. jobs' \in Table
    BY <2>1 DEF ImportInv, ITypeOK, Table
  <2>3. ITypeOK'
    BY <1>1, <1>2, <2>1, <2>2 DEF ImportInv, ITypeOK, LinkInv, Writers
  <2>4. Tables' \subseteq Tables \cup {jobs'}
    <3>1. \A w \in Writers : writes'[w] \in {writes[w], jobs', NoWrite}
      BY <2>1 DEF ImportInv, ITypeOK
    <3>2. disk' \in Tables
      BY <2>1 DEF Tables
    <3> QED  BY <3>1, <3>2, TablesStep
  <2>5. \A j \in Imports : jobs'[j] = NoJob \/ jobs'[j] = jobs[j]
    BY <2>1
  <2>6. jobs \in Tables
    BY DEF Tables
  <2>7. JobInv'
    BY <1>1, <2>4, <2>5, <2>6, JobAssumption DEF ImportInv, JobInv
  <2>8. DoneInv'
    <3>1. ASSUME NEW j \in Imports, NEW t \in Tables', t[j] = "done"
          PROVE  \E u \in Tables : u[j] = "done"
      <4>1. t \in Tables \/ t = jobs'
        BY <2>4
      <4>2. t = jobs' => jobs[j] = "done"
        BY <2>5, <3>1, JobAssumption DEF Status, Terminal
      <4> QED  BY <2>6, <3>1, <4>1, <4>2
    <3> QED  BY <1>1, <3>1 DEF ImportInv, DoneInv
  <2> QED  BY <1>2, <1>3, <2>3, <2>7, <2>8 DEF ImportInv
<1>5. CASE Swept
  <2>1. /\ writes[Sweeper] # NoWrite /\ disk' \in {disk, writes[Sweeper]}
        /\ writes' = [writes EXCEPT ![Sweeper] = NoWrite] /\ jobs' = jobs
    BY <1>5 DEF Swept
  <2>2. disk' \in Tables /\ disk' \in Table /\ jobs' \in Tables
    BY <2>1 DEF Tables, Writers, ImportInv, ITypeOK
  <2>3. ITypeOK'
    BY <1>1, <1>2, <2>1, <2>2 DEF ImportInv, ITypeOK, LinkInv, Writers
  <2>4. Tables' \subseteq Tables
    <3>1. \A w \in Writers : writes'[w] \in {writes[w], jobs', NoWrite}
      BY <2>1 DEF ImportInv, ITypeOK
    <3> QED  BY <2>2, <3>1, TablesStep
  <2>5. JobInv'
    BY <1>1, <2>1, <2>4 DEF ImportInv, JobInv
  <2>6. DoneInv'
    BY <1>1, <2>4, DoneFrame DEF ImportInv
  <2> QED  BY <1>2, <1>3, <2>3, <2>5, <2>6 DEF ImportInv
<1> QED  BY <1>4, <1>5
\* A method answers "ok" of a chunk whose row it has written.
LEMMA MethodKeeps ==
    ASSUME ImportInv, NEW c \in Calls, NEW v \in Result, Method(c, v)
    PROVE  ImportInv'
<1>1. /\ Finish(c, v) /\ UNCHANGED <<pc, async, at, jobs, disk, writes, files>>
      /\ docs' \in {docs \cup ({c} \cap AllChunks)} \cup (IF v = "error" THEN {docs} ELSE {})
  BY DEF Method, AllChunks
<1>2. /\ LinkInv' /\ issued' = issued /\ told' = told /\ c \in work
      /\ \A k \in DOMAIN Stream' :
            \/ k \in DOMAIN Stream /\ Stream'[k] = Stream[k]
            \/ Stream'[k].id = c /\ Stream'[k].res = v
  BY <1>1, FinishEffect DEF ImportInv, Finish
<1>3. /\ docs \subseteq docs' /\ docs' \subseteq docs \cup {c}
      /\ v = "ok" /\ c \in AllChunks => c \in docs'
  BY <1>1
<1>4. c \in issued
  BY <1>2 DEF ImportInv, LinkInv, PlaceInv
<1>5. ITypeOK'
  BY <1>1, <1>2, <1>3 DEF ImportInv, ITypeOK, LinkInv
<1>6. RowInv'
  <2>1. \A k \in DOMAIN Stream' :
            Stream'[k].res = "ok" /\ Stream'[k].id \in AllChunks => Stream'[k].id \in docs'
    BY <1>2, <1>3 DEF ImportInv, RowInv
  <2>2. docs' \subseteq issued
    BY <1>3, <1>4 DEF ImportInv, RowInv
  <2> QED  BY <1>1, <1>2, <1>3, <2>1, <2>2, RowFrame DEF ImportInv
<1>7. FileInv'
  BY <1>1, <1>2, FileFrame DEF ImportInv
<1>8. JobInv' /\ DoneInv'
  <2>1. Tables' = Tables
    BY <1>1, TablesSame
  <2> QED  BY <1>1, <1>3, <2>1, DoneFrame DEF ImportInv, JobInv
<1> QED  BY <1>2, <1>5, <1>6, <1>7, <1>8 DEF ImportInv

LEMMA TaskPanicsKeeps == ASSUME ImportInv, NEW c \in Calls, TaskPanics(c) PROVE ImportInv'
<1>1. /\ Panic(c) /\ UNCHANGED <<pc, async, at, jobs, disk, writes, files>>
      /\ docs' \in {docs, docs \cup ({c} \cap AllChunks)}
  BY DEF TaskPanics, AllChunks
<1>2. LinkInv' /\ Stream' = Stream /\ issued' = issued /\ told' = told /\ c \in work
  BY <1>1, PanicKeeps DEF ImportInv, Panic
<1>3. docs \subseteq docs' /\ docs' \subseteq issued
  <2>1. c \in issued
    BY <1>2 DEF ImportInv, LinkInv, PlaceInv
  <2> QED  BY <1>1, <2>1 DEF ImportInv, RowInv
<1>4. ITypeOK'
  BY <1>1, <1>2, <1>3 DEF ImportInv, ITypeOK, LinkInv, RTypeOK
<1>5. RowInv'
  <2>1. \A k \in DOMAIN Stream' :
            Stream'[k].res = "ok" /\ Stream'[k].id \in AllChunks => Stream'[k].id \in docs'
    BY <1>2, <1>3 DEF ImportInv, RowInv
  <2> QED  BY <1>1, <1>2, <1>3, <2>1, RowFrame DEF ImportInv
<1>6. FileInv'
  BY <1>1, <1>2, FileFrame DEF ImportInv
<1>7. JobInv' /\ DoneInv'
  <2>1. Tables' = Tables
    BY <1>1, TablesSame
  <2> QED  BY <1>1, <1>3, <2>1, DoneFrame DEF ImportInv, JobInv
<1> QED  BY <1>2, <1>4, <1>5, <1>6, <1>7 DEF ImportInv

LEMMA RowsAreIssued == LinkInv => Rows \subseteq issued
BY DEF LinkInv, RTypeOK, PlaceInv, Rows

LEMMA SidecarDiesKeeps == ASSUME ImportInv, SidecarDies PROVE ImportInv'
<1>1. Die /\ UNCHANGED <<pc, async, at, jobs, disk, writes, files>>
  BY DEF SidecarDies
<1>2. /\ LinkInv' /\ issued' = issued /\ told' = told
      /\ \A k \in DOMAIN Stream' : k \in DOMAIN Stream /\ Stream'[k] = Stream[k]
  BY <1>1, DieEffect DEF ImportInv, Die
<1>3. docs \subseteq docs' /\ docs' \subseteq issued
  BY RowsAreIssued DEF SidecarDies, ImportInv, RowInv
<1>4. ITypeOK'
  BY <1>1, <1>2, <1>3 DEF ImportInv, ITypeOK, LinkInv, RTypeOK
<1>5. RowInv'
  <2>1. \A k \in DOMAIN Stream' :
            Stream'[k].res = "ok" /\ Stream'[k].id \in AllChunks => Stream'[k].id \in docs'
    BY <1>2, <1>3 DEF ImportInv, RowInv
  <2> QED  BY <1>1, <1>2, <1>3, <2>1, RowFrame DEF ImportInv
<1>6. FileInv'
  BY <1>1, <1>2, FileFrame DEF ImportInv
<1>7. JobInv' /\ DoneInv'
  <2>1. Tables' = Tables
    BY <1>1, TablesSame
  <2> QED  BY <1>1, <1>3, <2>1, DoneFrame DEF ImportInv, JobInv
<1> QED  BY <1>2, <1>4, <1>5, <1>6, <1>7 DEF ImportInv

\* A restart forgets the calls, but not which rows there are; initJobs makes no
\* job done that was not.
LEMMA RestartKeeps == ASSUME ImportInv, Restart PROVE ImportInv'
<1>1. /\ Respawn /\ Load
      /\ pc' = [i \in Imports |-> IF InProgress(i) THEN "lost" ELSE pc[i]]
      /\ writes' = [w \in Writers |-> NoWrite]
      /\ UNCHANGED <<async, at, disk, files>>
  BY DEF Restart
<1>2. /\ LinkInv' /\ Stream' = <<>> /\ issued' = issued /\ told' = [c \in Calls |-> "nothing"]
  BY <1>1, RespawnKeeps DEF ImportInv, Respawn
<1>3. docs \subseteq docs' /\ docs' \subseteq issued
  BY RowsAreIssued DEF Restart, ImportInv, RowInv
<1>4. /\ jobs' \in Table
      /\ \A i \in Imports : jobs'[i] \in Terminal \cup {NoJob}
      /\ \A i \in Imports : jobs'[i] = disk[i] \/ jobs'[i] = NoJob
                            \/ (jobs'[i] = "interrupted" /\ disk[i] \notin Terminal \cup {NoJob})
  BY <1>1 DEF Load, Table, Status, Terminal
<1>5. ITypeOK'
  BY <1>1, <1>2, <1>3, <1>4 DEF ImportInv, ITypeOK, LinkInv, RTypeOK, InProgress
<1>6. RowInv'
  <2>1. \A c \in AllChunks : c \in Calls
    BY ChunkFacts
  <2> QED  BY <1>1, <1>2, <1>3, <2>1, RowFrame DEF ImportInv
<1>7. \A i \in Imports : pc'[i] = pc[i] \/ pc'[i] = "lost"
  BY <1>1
<1>8. FileInv'
  <2>1. \A j \in Uploads : j \in Imports
    BY ChunkFacts
  <2>2. \A j \in Imports : pc[j] \in {"new", "error"} => pc'[j] = pc[j]
    BY <1>1 DEF InProgress
  <2> QED  BY <1>1, <1>2, <1>7, <2>1, <2>2 DEF ImportInv, FileInv
<1>9. Tables' = {jobs', disk}
  BY <1>1 DEF Tables
<1>10. disk \in Tables
  BY DEF Tables
<1>11. JobInv'
  <2>1. ASSUME NEW i \in Imports, ~async[i] PROVE \A t \in Tables' : t[i] = NoJob
    BY <1>4, <1>9, <1>10, <2>1 DEF ImportInv, JobInv
  <2>2. \A i \in Imports : jobs'[i] \notin Status \ Terminal
    BY <1>4, JobAssumption DEF Status, Terminal
  <2> QED  BY <1>1, <1>7, <2>1, <2>2 DEF ImportInv, JobInv
<1>12. DoneInv'
  <2>1. ASSUME NEW i \in Imports, NEW t \in Tables', t[i] = "done" PROVE disk[i] = "done"
    BY <1>4, <1>9, <2>1, JobAssumption DEF Status, Terminal
  <2> QED  BY <1>3, <1>7, <1>10, <2>1 DEF ImportInv, DoneInv
<1> QED  BY <1>2, <1>5, <1>6, <1>8, <1>11, <1>12 DEF ImportInv

LEMMA ImportNext == ImportInv /\ [INext]_ivars => ImportInv'
<1> SUFFICES ASSUME ImportInv, [INext]_ivars PROVE ImportInv'
  OBVIOUS
<1>1. ASSUME UNCHANGED ivars PROVE ImportInv'
  <2>1. UNCHANGED <<rvars, pc, async, at, jobs, disk, writes, docs, files>>
    BY <1>1 DEF ivars, jvars
  <2>2. LinkInv' /\ issued' = issued
    BY <2>1, LinkNext DEF ImportInv, rvars
  <2>3. ITypeOK'
    BY <2>1, <2>2 DEF ImportInv, ITypeOK, LinkInv
  <2>4. Tables' = Tables
    BY <2>1, TablesSame
  <2>5. RowInv' /\ FileInv' /\ DoneInv'
    BY <2>1, <2>2, <2>4, RowSame, FileFrame, DoneFrame DEF ImportInv
  <2>6. JobInv'
    BY <2>1, <2>4 DEF ImportInv, JobInv
  <2> QED  BY <2>2, <2>3, <2>5, <2>6 DEF ImportInv
<1>2. ASSUME INext PROVE ImportInv'
  BY <1>2, StartKeeps, ProceedKeeps, ThrowKeeps, PersistedKeeps, PersistFailsKeeps, SweepKeeps,
     MethodKeeps, TaskPanicsKeeps, LinkTurn, SidecarDiesKeeps, RestartKeeps DEF INext
<1> QED  BY <1>1, <1>2

-----------------------------------------------------------------------------
(* The theorems.                                                             *)

\* The invariant of the link and the imports, for any number of each.
THEOREM ImportsInvariant == ISpec => []ImportInv
BY ImportInit, ImportNext, PTL DEF ISpec

\* sidecar.ts and both loops: as long as the process runs, each call that waits
\* is in one place, and the answers on their way are whole lines.
THEOREM NoCallIsLost == ISpec => []NoneLost
<1>1. ImportInv => NoneLost
  BY InOnePlace DEF ImportInv
<1> QED  BY <1>1, ImportsInvariant, PTL

\* runner.ts captureChunks: an import leaves a beginning of its text.
THEOREM TextsHaveNoGaps == ISpec => []NoGaps
<1>1. ASSUME ImportInv PROVE NoGaps
  <2>1. ASSUME NEW i \in Imports, NEW k \in 1 .. Chunks[i], Chunk(i, k) \in docs, NEW j \in 1 .. k
        PROVE  Chunk(i, j) \in docs
    <3>1. Chunks[i] \in Nat
      BY ChunkFacts
    <3>2. j = k \/ j \in 1 .. k - 1
      BY <3>1
    <3> QED  BY <1>1, <2>1, <3>2 DEF ImportInv, RowInv
  <2> QED  BY <2>1 DEF NoGaps
<1> QED  BY <1>1, ImportsInvariant, PTL

\* chunker.ts does what it is for: all of a text is in its chunks.
TextsAreCut == \A i \in Imports : Complete(Source[i], Cut[i], DOMAIN Cut[i])

\* runner.ts, jobs.ts: an import that is reported as done, in memory, in the file
\* or in the answer, has stored all of its text, if its chunks have it.
THEOREM AllTextIsStored == ASSUME TextsAreCut PROVE ISpec => []TextIsStored
<1>1. ASSUME ImportInv PROVE TextIsStored
  <2>1. ASSUME NEW i \in Imports, "done" \in {jobs[i], disk[i]} \/ pc[i] = "ok"
        PROVE  {k \in DOMAIN Cut[i] : Chunk(i, k) \in docs} = DOMAIN Cut[i]
    <3>1. jobs \in Tables /\ disk \in Tables
      BY DEF Tables
    <3>2. ChunksOf(i) \subseteq docs
      BY <1>1, <2>1, <3>1 DEF ImportInv, DoneInv
    <3> QED  BY <3>2, ChunkFacts
  <2> QED  BY <2>1 DEF TextIsStored, TextsAreCut
<1> QED  BY <1>1, ImportsInvariant, PTL

\* jobs.ts initJobs: no job is shown as running that nobody runs.
THEOREM ShownJobsRun == ISpec => []RunningIsRun
<1>1. ImportInv => RunningIsRun
  BY DEF ImportInv, JobInv, RunningIsRun, InProgress
<1> QED  BY <1>1, ImportsInvariant, PTL

\* admin.ts: the original of what is in the store can be downloaded.
THEOREM OriginalsStay == ISpec => []OriginalIsKept
<1>1. ImportInv => OriginalIsKept
  BY ChunkFacts DEF ImportInv, FileInv, RowInv, OriginalIsKept
<1> QED  BY <1>1, ImportsInvariant, PTL
=============================================================================
