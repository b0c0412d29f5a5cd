------------------------------- MODULE ChatStream -------------------------------
(***************************************************************************)
(* One streamed answer on its way from a provider to the client: the bytes  *)
(* of the provider arrive in pieces cut anywhere; a parser (sse_parsers.ts, *)
(* anthropic_provider.ts, gemini_provider.ts, ollama_provider.ts) puts the  *)
(* frames together and queues the chunks they hold; an encoder              *)
(* (openai_sse.ts) turns the chunks into the frames the client gets.        *)
(*                                                                          *)
(* A payload is [kind, text]: text is 0 where there is none.  On the wire   *)
(* its line is two halves that a piece may come between, and the ends of    *)
(* lines are CR and LF, that a piece may come between as well.              *)
(***************************************************************************)
EXTENDS Naturals, SequencesExt

CONSTANTS
    Answers  \* for each provider, what it may answer: sequences of payloads

\* What a payload is for its parser: only some have a text, and only anthropic
\* has one that stops the answer.
Payloads == [kind : {"text", "fin", "stop", "DONE", "skip"}, text : Nat]
MeantBy(p, d) ==
    /\ d.text # 0 => d.kind = "text" \/ (d.kind = "fin" /\ p # "anthropic")
    /\ d.kind = "stop" => p = "anthropic"
ASSUME AnswersAssumption ==
    /\ DOMAIN Answers \subseteq {"openai", "anthropic", "gemini", "ollama"}
    /\ \A p \in DOMAIN Answers : \A a \in Answers[p] :
           a \in Seq(Payloads) /\ \A k \in DOMAIN a : MeantBy(p, a[k])

VARIABLES
    provider, \* who answers (llama.cpp speaks as openai)
    answer,   \* the payloads of the whole answer
    wire,     \* what has not arrived
    buf,      \* the parser's buffer
    parser,   \* "off", "reading", "closed" or "failed"
    terminal, \* terminalEmitted: the chunk that says done has been queued
    chunks,   \* the chunks that wait for the encoder
    encoder,  \* "off", "open" or "closed"
    out,      \* the frames given to the client
    gone      \* the client has left

svars == <<provider, answer, wire, buf, parser, terminal, chunks, encoder, out, gone>>

-----------------------------------------------------------------------------
(* The wire.                                                                 *)

CR == [u |-> "cr", of |-> 0]
LF == [u |-> "lf", of |-> 0]
Halves(k) == <<[u |-> "a", of |-> k], [u |-> "b", of |-> k]>>

\* Payload k of provider p as it is sent: anthropic names the event in a line
\* of its own, and ollama sends one line for each payload.
Sent(p, k, nl) ==
    CASE p = "anthropic" -> <<[u |-> "event", of |-> k]>> \o nl \o Halves(k) \o nl \o nl
      [] p = "ollama"    -> Halves(k) \o nl
      [] OTHER           -> Halves(k) \o nl \o nl

\* replace(/\r\n/g, "\n"), then replace(/\r/g, "\n"), on one piece alone.
Normal(piece) ==
    FlattenSeq([i \in DOMAIN piece |->
        CASE piece[i] = CR                               -> <<LF>>
          [] piece[i] = LF /\ i > 1 /\ piece[i - 1] = CR -> <<>>
          [] OTHER                                       -> <<piece[i]>>])

\* What a piece adds to the buffer; only a trim() takes the CR from a line of ollama.
Decoded(piece) == IF provider = "ollama" THEN piece ELSE Normal(piece)

\* The frames the buffer holds: where each one's separator begins.
Separator == IF provider = "ollama" THEN <<LF>> ELSE <<LF, LF>>
Ends(b) == {i \in 1 .. Len(b) + 1 - Len(Separator) :
                SubSeq(b, i, i + Len(Separator) - 1) = Separator}

\* The payload of a frame, if all of its line is there; 0 otherwise.
Payload(frame) ==
    LET whole == {k \in DOMAIN answer : Range(Halves(k)) \subseteq Range(frame)}
    IN  IF \E k \in whole : whole = {k} THEN CHOOSE k \in whole : TRUE ELSE 0

-----------------------------------------------------------------------------
(* What the parsers make of a payload: the chunks, and whether they go on.   *)

Text(t) == IF t = 0 THEN <<>> ELSE <<[text |-> t, done |-> FALSE]>>
Done(t) == <<[text |-> t, done |-> TRUE]>>

OpenAi(d) ==
    CASE d.kind = "text" -> [chunks |-> Text(d.text), closes |-> FALSE]
      [] d.kind = "fin"  -> [chunks |-> Text(d.text) \o Done(0), closes |-> TRUE]
      [] d.kind = "DONE" -> [chunks |-> <<>>, closes |-> TRUE]
      [] OTHER           -> [chunks |-> <<>>, closes |-> FALSE]

Anthropic(d) ==
    CASE d.kind = "text" -> [chunks |-> Text(d.text), closes |-> FALSE]
      [] d.kind = "fin"  -> [chunks |-> Done(0), closes |-> FALSE]
      [] d.kind = "stop" -> [chunks |-> IF terminal THEN <<>> ELSE Done(0), closes |-> TRUE]
      [] OTHER           -> [chunks |-> <<>>, closes |-> FALSE]

Gemini(d) ==
    CASE d.kind = "text" -> [chunks |-> Text(d.text), closes |-> FALSE]
      [] d.kind = "fin"  -> [chunks |-> Text(d.text) \o Done(0), closes |-> FALSE]
      [] OTHER           -> [chunks |-> <<>>, closes |-> FALSE]

Ollama(d) ==
    CASE d.kind = "text" -> [chunks |-> <<[text |-> d.text, done |-> FALSE]>>, closes |-> FALSE]
      [] d.kind = "fin"  -> [chunks |-> Done(d.text), closes |-> TRUE]
      [] OTHER           -> [chunks |-> <<>>, closes |-> FALSE]

Parsed(d) ==
    CASE provider = "openai"    -> OpenAi(d)
      [] provider = "anthropic" -> Anthropic(d)
      [] provider = "gemini"    -> Gemini(d)
      [] provider = "ollama"    -> Ollama(d)

IsDone(cs) == \E i \in DOMAIN cs : cs[i].done

-----------------------------------------------------------------------------

SInit ==
    /\ provider = "openai" /\ answer = <<>> /\ wire = <<>> /\ buf = <<>>
    /\ parser = "off" /\ terminal = FALSE /\ chunks = <<>>
    /\ encoder = "off" /\ out = <<>> /\ gone = FALSE

\* A stream that is over; the next one has a parser and an encoder of its own.
Forget ==
    /\ provider' = "openai" /\ answer' = <<>> /\ wire' = <<>> /\ buf' = <<>>
    /\ parser' = "off" /\ terminal' = FALSE /\ chunks' = <<>>
    /\ encoder' = "off" /\ out' = <<>> /\ gone' = FALSE

\* The provider has accepted the request: its answer is parsed and encoded from now on.
OpenStream(p, a, nl) ==
    /\ parser = "off"
    /\ provider' = p /\ answer' = a
    /\ wire' = FlattenSeq([k \in DOMAIN a |-> Sent(p, k, nl)])
    /\ parser' = "reading" /\ encoder' = "open"
    /\ UNCHANGED <<buf, terminal, chunks, out, gone>>

\* Mutant: each piece is taken for itself.
ReadAlone(n) ==
    /\ parser = "reading" /\ Ends(buf) = {}
    /\ buf' = Decoded(SubSeq(wire, 1, n))
    /\ wire' = SubSeq(wire, n + 1, Len(wire))
    /\ UNCHANGED <<provider, answer, parser, terminal, chunks, encoder, out, gone>>

\* A piece arrives; the frames of the one before have all been taken.
Read(n) ==
    /\ parser = "reading" /\ Ends(buf) = {}
    /\ buf' = buf \o Decoded(SubSeq(wire, 1, n))
    /\ wire' = SubSeq(wire, n + 1, Len(wire))
    /\ UNCHANGED <<provider, answer, parser, terminal, chunks, encoder, out, gone>>

\* The first frame of the buffer.  A frame without a payload, or with one that
\* is not understood, is left out and the parser goes on.
TakeFrame ==
    /\ parser = "reading" /\ Ends(buf) # {}
    /\ LET at == CHOOSE i \in Ends(buf) : \A j \in Ends(buf) : i <= j
           k  == Payload(SubSeq(buf, 1, at - 1))
           r  == IF k = 0 THEN [chunks |-> <<>>, closes |-> FALSE] ELSE Parsed(answer[k])
       IN  /\ buf' = SubSeq(buf, at + Len(Separator), Len(buf))
           /\ chunks' = chunks \o r.chunks
           /\ terminal' = (terminal \/ IsDone(r.chunks))
           /\ parser' = IF r.closes THEN "closed" ELSE "reading"
    /\ UNCHANGED <<provider, answer, wire, encoder, out, gone>>

\* The connection ends, after the whole answer or before.  Gemini and ollama look
\* at what is left in the buffer; gemini then says done if no frame has said it.
Eof ==
    /\ parser = "reading" /\ Ends(buf) = {}
    /\ LET k == Payload(buf)
           r == IF k = 0 \/ provider \notin {"gemini", "ollama"}
                THEN [chunks |-> <<>>, closes |-> TRUE] ELSE Parsed(answer[k])
           last == IF provider = "gemini" /\ ~terminal /\ ~IsDone(r.chunks) THEN Done(0) ELSE <<>>
       IN  /\ chunks' = chunks \o r.chunks \o last
           /\ terminal' = (terminal \/ IsDone(r.chunks))
    /\ parser' = "closed" /\ buf' = <<>> /\ wire' = <<>>
    /\ UNCHANGED <<provider, answer, encoder, out, gone>>

\* The connection breaks: controller.error() throws away the chunks that wait.
Break ==
    /\ parser = "reading" /\ Ends(buf) = {}
    /\ parser' = "failed" /\ chunks' = <<>> /\ buf' = <<>> /\ wire' = <<>>
    /\ UNCHANGED <<provider, answer, terminal, encoder, out, gone>>

-----------------------------------------------------------------------------

Frame(f, t) == [f |-> f, text |-> t]

\* The frames of a chunk: the first one is preceded by the role.
Encoded(c) ==
    (IF out = <<>> THEN <<Frame("role", 0)>> ELSE <<>>)
        \o (IF c.text # 0 THEN <<Frame("text", c.text)>> ELSE <<>>)
        \o (IF c.done THEN <<Frame("finish", 0), Frame("DONE", 0)>> ELSE <<>>)

\* Mutant: the encoder reads on after the chunk that says done.
EncodeOn ==
    /\ encoder = "open" /\ chunks # <<>>
    /\ chunks' = Tail(chunks)
    /\ out' = IF gone THEN out ELSE out \o Encoded(Head(chunks))
    /\ encoder' = IF gone /\ Encoded(Head(chunks)) # <<>> THEN "closed" ELSE "open"
    /\ UNCHANGED <<provider, answer, wire, buf, parser, terminal, gone>>

\* One chunk.  After the client has gone an enqueue throws, and the handler of
\* that error throws as well: the source is let go.
Encode ==
    /\ encoder = "open" /\ chunks # <<>>
    /\ LET c == Head(chunks)
       IN  /\ chunks' = Tail(chunks)
           /\ out' = IF gone THEN out ELSE out \o Encoded(c)
           /\ encoder' = IF c.done \/ (gone /\ Encoded(c) # <<>>) THEN "closed" ELSE "open"
    /\ UNCHANGED <<provider, answer, wire, buf, parser, terminal, gone>>

\* The source has closed, without a chunk that says done.
EncodeEnd ==
    /\ encoder = "open" /\ chunks = <<>> /\ parser = "closed"
    /\ encoder' = "closed"
    /\ UNCHANGED <<provider, answer, wire, buf, parser, terminal, chunks, out, gone>>

\* Mutant: a source that has failed is closed like one that has ended.
EncodeErrorSilent ==
    /\ encoder = "open" /\ parser = "failed"
    /\ encoder' = "closed"
    /\ UNCHANGED <<provider, answer, wire, buf, parser, terminal, chunks, out, gone>>

\* The source has failed.
EncodeError ==
    /\ encoder = "open" /\ parser = "failed"
    /\ out' = IF gone THEN out ELSE out \o <<Frame("error", 0), Frame("DONE", 0)>>
    /\ encoder' = "closed"
    /\ UNCHANGED <<provider, answer, wire, buf, parser, terminal, chunks, gone>>

\* cancel(): the encoder holds the lock of the source, so source.cancel() is
\* rejected and that is swallowed; the provider goes on.
ClientLeaves ==
    /\ encoder = "open" /\ ~gone /\ gone' = TRUE
    /\ UNCHANGED <<provider, answer, wire, buf, parser, terminal, chunks, encoder, out>>

StreamStep ==
    \/ \E n \in DOMAIN wire : Read(n)
    \/ TakeFrame \/ Eof \/ Break
    \/ Encode \/ EncodeEnd \/ EncodeError \/ ClientLeaves

\* The provider goes on sending, though it may keep the connection open once all
\* is sent; the loops of the parser and of the encoder go on.
StreamFairness ==
    /\ WF_svars(\E n \in DOMAIN wire : Read(n))
    /\ WF_svars(TakeFrame)
    /\ WF_svars(Encode \/ EncodeEnd \/ EncodeError)

-----------------------------------------------------------------------------

\* The texts of payloads, of chunks or of frames: only those of text have one.
Texts(s) == FlattenSeq([i \in DOMAIN s |-> IF s[i].text = 0 THEN <<>> ELSE <<s[i].text>>])

\* The payloads up to the one that ends the answer.
Enders(a) == {k \in DOMAIN a : a[k].kind \in {"fin", "stop"}}
UpToEnd(a) == IF Enders(a) = {} THEN a
              ELSE SubSeq(a, 1, CHOOSE k \in Enders(a) : \A j \in Enders(a) : k <= j)

\* The client gets the texts the provider sent, in their order and without a
\* gap, however the bytes were cut; and a stream that says it has finished has
\* given all of them (but see README on gemini, whose parser says so at any end).
FinishMeansComplete ==
    /\ IsPrefix(Texts(out), Texts(UpToEnd(answer)))
    /\ Frame("finish", 0) \in Range(out) /\ (terminal \/ provider # "gemini")
       => Texts(out) = Texts(UpToEnd(answer))

\* [DONE] comes once, at the very end, after a finish or an error; and a client
\* that stays gets it, unless the provider has closed without an ending.
MarkedOnce ==
    /\ \A i \in DOMAIN out : out[i].f = "DONE" =>
           i = Len(out) /\ out[i - 1].f \in {"finish", "error"}
    /\ encoder = "closed" /\ ~gone /\ (terminal \/ parser = "failed")
       => out # <<>> /\ Last(out).f = "DONE"

\* A stream ends once the provider has sent the ending of its answer, even if
\* the provider does not close the connection.
StreamEnds == (encoder = "open" /\ Enders(answer) # {}) ~> encoder = "closed"
=============================================================================
