------------------------------ MODULE ModelPulls ------------------------------
(***************************************************************************)
(* The pulls of the llama.cpp manager (llamacpp-manager/models.ts): a pull  *)
(* opens <name>.partial and truncates it, writes what its source sends, and *)
(* renames it to <name>.  Nothing keeps two pulls of one name apart, nothing *)
(* removes the .partial of a pull that fails, and neither what write() says *)
(* it has written nor the length that was announced is compared with what   *)
(* has come.                                                                *)
(*                                                                         *)
(* Files are told from their names, because a writer keeps the file that it *)
(* has opened when the name moves.  A file is named by the pull that has    *)
(* created it, or by the model that was there at the beginning; its content *)
(* is a sequence that says for each byte which source it is from.           *)
(***************************************************************************)
EXTENDS Naturals, Sequences

CONSTANTS
    Models,  \* the names
    Pulls,   \* each of them runs once
    Asked,   \* the names and sources that each of them may be asked for
    Sources,
    Size,    \* what each source has to send
    Given,   \* the source of the files that are there at the beginning
    MaxSize, \* MAX_PULL_BYTES
    Nothing  \* no file, and the bytes that a file has where nothing was written

ASSUME SizeAssumption ==
    /\ Size \in [Sources -> Nat] /\ MaxSize \in Nat
    /\ Asked \in [Pulls -> SUBSET (Models \X Sources)]
    /\ Given \in Sources /\ Size[Given] <= MaxSize
ASSUME FilesAssumption == Models \cap Pulls = {} /\ Nothing \notin Models \cup Pulls \cup Sources

VARIABLES
    installed, \* the file of each name
    partial,   \* that of its .partial
    content,
    pull,
    shared,    \* history: the files opened while another pull of the name was in progress
    cut        \* history: the files whose source ended early, or a part of which write() left out

disk == <<installed, partial, content, pull, shared, cut>>

Files   == Models \cup Pulls
files   == {m \in Models : installed[m] # Nothing}
Sent(s, n) == [k \in 1 .. n |-> s]

PInit(ps) ==
    /\ installed = [m \in Models |-> m] /\ partial = [m \in Models |-> Nothing]
    /\ content = [f \in Files |-> IF f \in Models THEN Sent(Given, Size[Given]) ELSE <<>>]
    /\ pull = [p \in Pulls |-> [pc |-> IF p \in ps THEN "new" ELSE "over", model |-> Nothing, source |-> Nothing,
                                file |-> Nothing, at |-> 0, put |-> 0]]
    /\ shared = {} /\ cut = {}

Pulling(p, m) == pull[p].pc \in {"writing", "closed"} /\ pull[p].model = m
Over(p) == pull' = [pull EXCEPT ![p].pc = "over"]

Opened(p, m) == IF partial[m] = Nothing THEN p ELSE partial[m]
Opens(p, m, s, old) ==
    LET f == Opened(p, m)
    IN  /\ pull[p].pc = "new"
        /\ pull' = [pull EXCEPT ![p] = [pc |-> "writing", model |-> m, source |-> s, file |-> f, at |-> 0,
                                          put |-> 0]]
        /\ partial' = [partial EXCEPT ![m] = f]
        /\ content' = [content EXCEPT ![f] = old]
        /\ shared' = IF \E q \in Pulls : Pulling(q, m) THEN shared \cup {f} ELSE shared \ {f}
        /\ cut' = cut \ {f}
        /\ UNCHANGED installed

\* Mutant: what is in the .partial already stays there.
OpenKeepsOld(p, m, s) == Opens(p, m, s, content[Opened(p, m)])

\* The source has answered; a length in the answer that is too large was refused.
Open(p, m, s) == Opens(p, m, s, <<>>)

PutAt(c, k, b) ==
    [j \in 1 .. (IF k > Len(c) THEN k ELSE Len(c)) |->
        IF j = k THEN b ELSE IF j <= Len(c) THEN c[j] ELSE Nothing]

\* A piece arrives: it is one too much, it is written after those before it, or
\* write() leaves it out, and the next one goes to where it should have been.
Piece(p) ==
    /\ pull[p].pc = "writing" /\ pull[p].at < Size[pull[p].source]
    /\ \/ pull[p].at = MaxSize /\ Over(p) /\ UNCHANGED <<content, cut>>
       \/ /\ pull[p].at < MaxSize
          /\ content' = [content EXCEPT ![pull[p].file] = PutAt(@, pull[p].put + 1, pull[p].source)]
          /\ pull' = [pull EXCEPT ![p].at = @ + 1, ![p].put = @ + 1]
          /\ UNCHANGED cut
       \/ /\ pull[p].at < MaxSize
          /\ pull' = [pull EXCEPT ![p].at = @ + 1]
          /\ cut' = cut \cup {pull[p].file}
          /\ UNCHANGED content
    /\ UNCHANGED <<installed, partial, shared>>

\* The body of the answer ends, whether all of it has come or not.
LastPiece(p) ==
    /\ pull[p].pc = "writing"
    /\ pull' = [pull EXCEPT ![p].pc = "closed"]
    /\ cut' = IF pull[p].at < Size[pull[p].source] THEN cut \cup {pull[p].file} ELSE cut
    /\ UNCHANGED <<installed, partial, content, shared>>

\* The connection breaks, or the disk is full: the .partial is left as it is.
PullBreaks(p) ==
    /\ pull[p].pc = "writing" /\ Over(p)
    /\ UNCHANGED <<installed, partial, content, shared, cut>>

\* The rename takes what has the name by now, or fails if nothing has.
RenamePartial(p) ==
    /\ pull[p].pc = "closed" /\ Over(p)
    /\ LET m == pull[p].model
       IN  IF partial[m] = Nothing THEN UNCHANGED <<installed, partial>>
           ELSE /\ installed' = [installed EXCEPT ![m] = partial[m]]
                /\ partial' = [partial EXCEPT ![m] = Nothing]
    /\ UNCHANGED <<content, shared, cut>>

PullStep(p) ==
    \/ \E ask \in Asked[p] : Open(p, ask[1], ask[2])
    \/ Piece(p) \/ LastPiece(p) \/ PullBreaks(p) \/ RenamePartial(p)

\* deleteModel.
RemoveFile(m) ==
    /\ installed' = [installed EXCEPT ![m] = Nothing]
    /\ UNCHANGED <<partial, content, pull, shared, cut>>

\* The container stops: nobody goes on, and the files stay.
PullsStop ==
    /\ pull' = [p \in Pulls |-> IF pull[p].pc \in {"writing", "closed"}
                                THEN [pull[p] EXCEPT !.pc = "over"] ELSE pull[p]]
    /\ UNCHANGED <<installed, partial, content, shared, cut>>

-----------------------------------------------------------------------------
PTypeOK ==
    /\ installed \in [Models -> Files \cup {Nothing}] /\ partial \in [Models -> Pulls \cup {Nothing}]
    /\ content \in [Files -> Seq(Sources \cup {Nothing})] /\ shared \subseteq Files /\ cut \subseteq Files
    /\ pull \in [Pulls -> [pc : {"new", "writing", "closed", "over"}, model : Models \cup {Nothing},
                           source : Sources \cup {Nothing}, file : Pulls \cup {Nothing}, at : Nat, put : Nat]]

\* models.ts (pullFromUrl, by a .partial and a rename): whatever pulls break, stop
\* with the container and are begun again from another source, the file of a model
\* has come from one source, in order and not too large, and it is all that the
\* source has to send unless that very pull was cut - or two pulls of one name met.
InstalledIsSent ==
    \A m \in files : installed[m] \notin shared =>
        \E s \in Sources : \E n \in 0 .. Size[s] :
            /\ n <= MaxSize /\ content[installed[m]] = Sent(s, n)
            /\ installed[m] \notin cut => n = Size[s]
=============================================================================
