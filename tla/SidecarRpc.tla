------------------------------ MODULE SidecarRpc ------------------------------
(***************************************************************************)
(* The JSON-RPC link between the server and the retrieval sidecar: the      *)
(* client (server/sidecar.ts) and the loops of the two sidecars it can      *)
(* start, retrieval/sidecar.py and sidecar-rs.  A call is the id it gets    *)
(* from nextId.  A request line is read whole by readline; an answer        *)
(* reaches the client in pieces, a line being its opening piece and its     *)
(* closing one, and only the closing piece ends with the newline.           *)
(***************************************************************************)
EXTENDS Naturals, Sequences, FiniteSetsExt

CONSTANTS
    Calls,
    InRoom, OutRoom   \* what the pipes hold: requests, pieces of answers

ASSUME RoomAssumption == InRoom \in Nat \ {0} /\ OutRoom \in Nat \ {0}

VARIABLES
    runtime,     \* OB2_SIDECAR_RUNTIME
    up,          \* the sidecar process runs
    panicked,    \* the calls whose task has ended without an answer, in the Rust sidecar
    issued,      \* the ids given out by nextId
    pending,     \* the calls with an entry in pending
    told,        \* how each call has been settled
    writeQueue, stdin, work, out, stdout, buf

rvars == <<runtime, up, panicked, issued, pending, told, writeQueue, stdin, work, out, stdout, buf>>

Result == {"ok", "error"}
Opening(c, v) == [id |-> c, res |-> v, end |-> FALSE]
Closing(c, v) == [id |-> c, res |-> v, end |-> TRUE]

RInit ==
    /\ runtime \in {"python", "rust"}
    /\ up = TRUE /\ panicked = {}
    /\ issued = {} /\ pending = {} /\ told = [c \in Calls |-> "nothing"]
    /\ writeQueue = <<>> /\ stdin = <<>> /\ work = {}
    /\ out = <<>> /\ stdout = <<>> /\ buf = <<>>

-----------------------------------------------------------------------------
(* The client's half.                                                       *)

\* Sidecar.call; nobody looks whether the process still runs.
Call(c) ==
    /\ c \notin issued
    /\ issued' = issued \cup {c} /\ pending' = pending \cup {c}
    /\ writeQueue' = Append(writeQueue, c)
    /\ UNCHANGED <<runtime, up, panicked, told, stdin, work, out, stdout, buf>>

\* The write at the head of writeQueue comes to its end ...
Written ==
    /\ writeQueue # <<>> /\ up /\ Len(stdin) < InRoom
    /\ stdin' = Append(stdin, Head(writeQueue))
    /\ writeQueue' = Tail(writeQueue)
    /\ UNCHANGED <<runtime, up, panicked, issued, pending, told, work, out, stdout, buf>>

\* Mutant: the entry goes and nobody is told.
WriteFailsSilently ==
    /\ writeQueue # <<>> /\ ~up
    /\ pending' = pending \ {Head(writeQueue)}
    /\ writeQueue' = Tail(writeQueue)
    /\ UNCHANGED <<runtime, up, panicked, issued, told, stdin, work, out, stdout, buf>>

\* ... or fails, because nobody will read it.
WriteFails ==
    /\ writeQueue # <<>> /\ ~up
    /\ pending' = pending \ {Head(writeQueue)}
    /\ told' = [told EXCEPT ![Head(writeQueue)] = "rejected"]
    /\ writeQueue' = Tail(writeQueue)
    /\ UNCHANGED <<runtime, up, panicked, issued, stdin, work, out, stdout, buf>>

\* The answers in s: the lines that parse, for the calls that still wait.
Ends(s) == {k \in DOMAIN s : s[k].end}
Parses(s, k) ==
    /\ k > 1 /\ s[k - 1] = Opening(s[k].id, s[k].res)
    /\ k > 2 => s[k - 2].end
Answers(s) == {s[k] : k \in {e \in Ends(s) : Parses(s, e) /\ s[e].id \in pending}}
Settle(A) ==
    /\ pending' = pending \ {a.id : a \in A}
    /\ told' = [c \in Calls |-> IF \E a \in A : a.id = c
                                THEN (CHOOSE a \in A : a.id = c).res ELSE told[c]]

\* Mutant: what follows the last newline of a chunk is thrown away.
ReadForgetsRest(n) ==
    LET s == buf \o SubSeq(stdout, 1, n)
    IN  /\ n \in 1..Len(stdout)
        /\ Settle(Answers(s))
        /\ buf' = IF Ends(s) = {} THEN s ELSE <<>>
        /\ stdout' = SubSeq(stdout, n + 1, Len(stdout))
        /\ UNCHANGED <<runtime, up, panicked, issued, writeQueue, stdin, work, out>>

\* One turn of readLoop: a chunk of any length, and every line it completes.
Read(n) ==
    LET s == buf \o SubSeq(stdout, 1, n)
    IN  /\ n \in 1..Len(stdout)
        /\ Settle(Answers(s))
        /\ buf' = SubSeq(s, Max(Ends(s) \cup {0}) + 1, Len(s))
        /\ stdout' = SubSeq(stdout, n + 1, Len(stdout))
        /\ UNCHANGED <<runtime, up, panicked, issued, writeQueue, stdin, work, out>>

-----------------------------------------------------------------------------
(* The sidecar's half.                                                      *)

\* The next request line.  The Python loop is one thread, which first writes
\* its answer and flushes it; the Rust one spawns a task for each line.
Take ==
    /\ up /\ stdin # <<>>
    /\ runtime = "python" => work = {} /\ out = <<>>
    /\ work' = work \cup {Head(stdin)}
    /\ stdin' = Tail(stdin)
    /\ UNCHANGED <<runtime, up, panicked, issued, pending, told, writeQueue, out, stdout, buf>>

\* A method returns or raises: either way there is an answer.
Finish(c, v) ==
    /\ up /\ c \in work \ panicked
    /\ work' = work \ {c}
    /\ out' = out \o <<Opening(c, v), Closing(c, v)>>
    /\ UNCHANGED <<runtime, up, panicked, issued, pending, told, writeQueue, stdin, stdout, buf>>

\* A task of the Rust loop panics: the process goes on, and nobody answers.
Panic(c) ==
    /\ up /\ runtime = "rust" /\ c \in work \ panicked
    /\ panicked' = panicked \cup {c}
    /\ UNCHANGED <<runtime, up, issued, pending, told, writeQueue, stdin, work, out, stdout, buf>>

\* The one writer goes on as the pipe has room.
Flush ==
    /\ up /\ out # <<>> /\ Len(stdout) < OutRoom
    /\ stdout' = Append(stdout, Head(out))
    /\ out' = Tail(out)
    /\ UNCHANGED <<runtime, up, panicked, issued, pending, told, writeQueue, stdin, work, buf>>

\* The process ends; what it had in its hands goes with it.
Die ==
    /\ up /\ up' = FALSE /\ panicked' = {}
    /\ stdin' = <<>> /\ work' = {} /\ out' = <<>>
    /\ UNCHANGED <<runtime, issued, pending, told, writeQueue, stdout, buf>>

\* The server starts again, with a new sidecar.
Respawn ==
    /\ up' = TRUE /\ panicked' = {}
    /\ pending' = {} /\ told' = [c \in Calls |-> "nothing"]
    /\ writeQueue' = <<>> /\ stdin' = <<>> /\ work' = {}
    /\ out' = <<>> /\ stdout' = <<>> /\ buf' = <<>>
    /\ UNCHANGED <<runtime, issued>>

-----------------------------------------------------------------------------
Piece == [id : Calls, res : Result, end : BOOLEAN]
RTypeOK ==
    /\ runtime \in {"python", "rust"} /\ up \in BOOLEAN
    /\ pending \subseteq issued /\ issued \subseteq Calls
    /\ told \in [Calls -> {"nothing", "rejected"} \cup Result]
    /\ writeQueue \in Seq(Calls) /\ stdin \in Seq(Calls) /\ work \subseteq Calls /\ panicked \subseteq Calls
    /\ {out, stdout, buf} \subseteq Seq(Piece)
    /\ Len(stdin) <= InRoom /\ Len(stdout) <= OutRoom

\* What has left the methods and not reached the callers.
Stream == buf \o stdout \o out
In(c, s) == \E k \in DOMAIN s : s[k] = c
Answered(c) == \E k \in DOMAIN Stream : Stream[k].id = c

\* sidecar.ts and both loops: a call is settled unless the process dies or its
\* task panics under it.  As long as the process runs, each pending call is in one place on its way, and
\* the answers on theirs are whole lines, however they are cut and mixed.
NoneLost ==
    up => /\ \A c \in pending :
                1 = Cardinality({p \in {"queue", "stdin", "work", "answer"} :
                                   \/ p = "queue" /\ In(c, writeQueue)
                                   \/ p = "stdin" /\ In(c, stdin)
                                   \/ p = "work" /\ c \in work
                                   \/ p = "answer" /\ Answered(c)})
          /\ \A k \in DOMAIN Stream :
                IF k % 2 = 0 THEN Parses(Stream, k) ELSE ~Stream[k].end

RFairness ==
    /\ WF_rvars(Written) /\ WF_rvars(WriteFails) /\ WF_rvars(Take) /\ WF_rvars(Flush)
    /\ WF_rvars(\E n \in 1..OutRoom : Read(n))
=============================================================================
