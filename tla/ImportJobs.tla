------------------------------ MODULE ImportJobs ------------------------------
(***************************************************************************)
(* Imports of files and pages: the pipeline (server/import/runner.ts), the  *)
(* jobs of the long ones (server/import/jobs.ts), the upload route          *)
(* (server/routes/admin.ts) - over the calls of SidecarRpc.  An import is   *)
(* one call to convert its source, then one capture for each chunk, one     *)
(* after the other; between two awaits the server runs nothing else.        *)
(***************************************************************************)
EXTENDS SidecarRpc, Chunker

CONSTANTS
    Imports,
    Source,   \* the text each import is converted to
    Uploads,  \* the imports of an uploaded file; the others fetch a page
    Sweeper, NoJob, NoWrite

Cut    == [i \in Imports |-> chunkMarkdown(Source[i])]
Chunks == [i \in Imports |-> Len(Cut[i])]

Convert(i) == <<i, 0>>
Chunk(i, k) == <<i, k>>
ChunksOf(i) == {Chunk(i, k) : k \in 1..Chunks[i]}

\* The second conjunct, that chunkMarkdown returns a list, follows from its
\* definition by induction over the text.
ASSUME ImportsAssumption ==
    /\ Source \in [Imports -> Seq([kind : {"h1", "h2", "text"}, size : Nat])] /\ Uploads \subseteq Imports
    /\ \A i \in Imports : Cut[i] \in Seq(Range(Cut[i]))
    /\ Calls = UNION {{Convert(i)} \cup ChunksOf(i) : i \in Imports}

VARIABLES
    pc, async, at,  \* where each import is, how it answers, the chunk it waits for
    jobs, disk,     \* _jobs and import-jobs.json
    writes,         \* the contents persist is writing, for whom
    docs,           \* the chunks that are rows of the store
    files           \* the imports whose source is on disk

jvars == <<pc, async, at, jobs, disk, writes, docs, files>>
ivars == <<rvars, jvars>>

Terminal == {"done", "error", "interrupted"}
Status   == Terminal \cup {"queued", "converting"}
Table    == [Imports -> Status \cup {NoJob}]
ASSUME JobAssumption == NoJob \notin Status
Writers  == Imports \cup {Sweeper}
InProgress(i) == pc[i] \in {"creating", "marking", "convert", "capture", "finishing", "failing"}

IInit ==
    /\ RInit
    /\ pc = [i \in Imports |-> "new"] /\ async = [i \in Imports |-> FALSE] /\ at = [i \in Imports |-> 0]
    /\ jobs = [i \in Imports |-> NoJob] /\ disk = jobs
    /\ writes = [w \in Writers |-> NoWrite]
    /\ docs = {} /\ files = {}

Goto(i, c) == pc' = [pc EXCEPT ![i] = c]
\* updateJob and createJob: the map, then persist with the map as it is now.
Set(i, s) == jobs' = [jobs EXCEPT ![i] = s] /\ writes' = [writes EXCEPT ![i] = jobs']
Unlink(S) == files' = files \ S

\* dispatch: a short source is imported at once, a long one gets a job.
Start(i, b) ==
    /\ pc[i] = "new"
    /\ async' = [async EXCEPT ![i] = b]
    /\ files' = files \cup {i}
    /\ IF b
       THEN Set(i, "queued") /\ Goto(i, "creating") /\ UNCHANGED rvars
       ELSE Call(Convert(i)) /\ Goto(i, "convert") /\ UNCHANGED <<jobs, writes>>
    /\ UNCHANGED <<at, disk, docs>>

\* Mutant: a short import unlinks its source whatever it is.
SucceedUnlinks(i) ==
    IF async[i]
    THEN Set(i, "done") /\ Goto(i, "finishing") /\ UNCHANGED files
    ELSE Goto(i, "ok") /\ Unlink({i}) /\ UNCHANGED <<jobs, writes>>

\* The pipeline ends: the job is marked, or the caller is answered.  A fetched
\* page is unlinked by dispatch; an upload by its route if dispatch throws.
Succeed(i) ==
    IF async[i]
    THEN Set(i, "done") /\ Goto(i, "finishing") /\ UNCHANGED files
    ELSE Goto(i, "ok") /\ Unlink({i} \ Uploads) /\ UNCHANGED <<jobs, writes>>
Fail(i) ==
    IF async[i]
    THEN Set(i, "error") /\ Goto(i, "failing") /\ UNCHANGED files
    ELSE Goto(i, "error") /\ Unlink({i}) /\ UNCHANGED <<jobs, writes>>

\* Mutant: a chunk that cannot be captured is passed over.
ProceedOnError(i) ==
    /\ pc[i] \in {"convert", "capture"} /\ told[<<i, at[i]>>] \in Result
    /\ IF at[i] < Chunks[i]
       THEN /\ Call(Chunk(i, at[i] + 1))
            /\ at' = [at EXCEPT ![i] = at[i] + 1] /\ Goto(i, "capture")
            /\ UNCHANGED <<jobs, writes, files>>
       ELSE Succeed(i) /\ UNCHANGED <<rvars, at>>
    /\ UNCHANGED <<async, disk, docs>>

\* Mutant: the last chunk is forgotten.
ProceedShort(i) ==
    /\ pc[i] \in {"convert", "capture"} /\ told[<<i, at[i]>>] = "ok"
    /\ IF at[i] + 1 < Chunks[i]
       THEN /\ Call(Chunk(i, at[i] + 1))
            /\ at' = [at EXCEPT ![i] = at[i] + 1] /\ Goto(i, "capture")
            /\ UNCHANGED <<jobs, writes, files>>
       ELSE Succeed(i) /\ UNCHANGED <<rvars, at>>
    /\ UNCHANGED <<async, disk, docs>>

\* captureChunks: the call the import waits for has been answered.
Proceed(i) ==
    /\ pc[i] \in {"convert", "capture"} /\ told[<<i, at[i]>>] = "ok"
    /\ IF at[i] < Chunks[i]
       THEN /\ Call(Chunk(i, at[i] + 1))
            /\ at' = [at EXCEPT ![i] = at[i] + 1] /\ Goto(i, "capture")
            /\ UNCHANGED <<jobs, writes, files>>
       ELSE Succeed(i) /\ UNCHANGED <<rvars, at>>
    /\ UNCHANGED <<async, disk, docs>>

Throw(i) ==
    /\ pc[i] \in {"convert", "capture"} /\ told[<<i, at[i]>>] \in {"error", "rejected"}
    /\ Fail(i)
    /\ UNCHANGED <<rvars, async, at, disk, docs>>

-----------------------------------------------------------------------------
(* The ends of persist: its snapshot is renamed over the file, or not.      *)

Persisted(i) ==
    /\ writes[i] # NoWrite
    /\ disk' = writes[i]
    /\ \/ /\ pc[i] = "creating" /\ Set(i, "converting") /\ Goto(i, "marking")
          /\ UNCHANGED <<rvars, files>>
       \/ /\ pc[i] = "marking" /\ Call(Convert(i)) /\ Goto(i, "convert")
          /\ writes' = [writes EXCEPT ![i] = NoWrite]
          /\ UNCHANGED <<jobs, files>>
       \/ /\ pc[i] \in {"finishing", "failing"} /\ Goto(i, "over") /\ Unlink({i} \ Uploads)
          /\ writes' = [writes EXCEPT ![i] = NoWrite]
          /\ UNCHANGED <<rvars, jobs>>
    /\ UNCHANGED <<async, at, docs>>

\* createJob throws and dispatch with it; later the background task catches,
\* and tries to mark the job.
PersistFails(i) ==
    /\ writes[i] # NoWrite
    /\ \/ /\ pc[i] = "creating" /\ Goto(i, "error") /\ Unlink({i} \cap Uploads)
          /\ writes' = [writes EXCEPT ![i] = NoWrite]
          /\ UNCHANGED jobs
       \/ /\ pc[i] \in {"marking", "finishing"} /\ Fail(i)
    /\ UNCHANGED <<rvars, async, at, disk, docs>>

\* sweep: finished jobs older than a day, so that no import of theirs runs.
Sweep(S) ==
    /\ writes[Sweeper] = NoWrite
    /\ \A i \in S : jobs[i] \in Terminal /\ ~InProgress(i)
    /\ jobs' = [i \in Imports |-> IF i \in S THEN NoJob ELSE jobs[i]]
    /\ writes' = [writes EXCEPT ![Sweeper] = jobs']
    /\ UNCHANGED <<rvars, pc, async, at, disk, docs, files>>

Swept ==
    /\ writes[Sweeper] # NoWrite
    /\ disk' \in {disk, writes[Sweeper]}
    /\ writes' = [writes EXCEPT ![Sweeper] = NoWrite]
    /\ UNCHANGED <<rvars, pc, async, at, jobs, docs, files>>

-----------------------------------------------------------------------------
(* The sidecar's methods, and the ends of the two processes.                *)

\* The Rust sidecar has no convert_to_markdown.  A capture can raise before
\* it has written the row or after.
Method(c, v) ==
    /\ Finish(c, v)
    /\ runtime = "rust" /\ c \in {Convert(i) : i \in Imports} => v = "error"
    /\ LET rows == {c} \cap UNION {ChunksOf(i) : i \in Imports}
       IN  docs' \in {docs \cup rows} \cup (IF v = "error" THEN {docs} ELSE {})
    /\ UNCHANGED <<pc, async, at, jobs, disk, writes, files>>

\* What it was doing may have been done.
TaskPanics(c) ==
    /\ Panic(c)
    /\ docs' \in {docs, docs \cup ({c} \cap UNION {ChunksOf(i) : i \in Imports})}
    /\ UNCHANGED <<pc, async, at, jobs, disk, writes, files>>

Rows == (work \ panicked) \cap UNION {ChunksOf(i) : i \in Imports}
SidecarDies ==
    /\ Die
    /\ \E S \in SUBSET Rows : docs' = docs \cup S
    /\ UNCHANGED <<pc, async, at, jobs, disk, writes, files>>

\* Mutant: the jobs come back as they were.
LoadKeepsStatus ==
    jobs' \in {disk, [i \in Imports |-> NoJob]}

\* initJobs; a file that cannot be read counts as empty.
Load ==
    jobs' \in {[i \in Imports |-> IF disk[i] \in Terminal \cup {NoJob} THEN disk[i] ELSE "interrupted"],
               [i \in Imports |-> NoJob]}

\* The server stops at any moment - also by the rejection nobody handles when
\* the mark "error" cannot be written - and starts again.
Restart ==
    /\ Respawn /\ Load
    /\ \E S \in SUBSET Rows : docs' = docs \cup S
    /\ pc' = [i \in Imports |-> IF InProgress(i) THEN "lost" ELSE pc[i]]
    /\ writes' = [w \in Writers |-> NoWrite]
    /\ UNCHANGED <<async, at, disk, files>>

-----------------------------------------------------------------------------
Link ==
    /\ \/ Written \/ WriteFails \/ Take \/ Flush
       \/ \E n \in 1..OutRoom : Read(n)
    /\ UNCHANGED jvars

INext ==
    \/ \E i \in Imports :
          \/ \E b \in BOOLEAN : Start(i, b)
          \/ Proceed(i) \/ Throw(i) \/ Persisted(i) \/ PersistFails(i)
    \/ \E S \in (SUBSET Imports) \ {{}} : Sweep(S)
    \/ Swept
    \/ \E c \in Calls : TaskPanics(c) \/ \E v \in Result : Method(c, v)
    \/ Link \/ SidecarDies \/ Restart

\* The processes run, the files and pipes are served, a method returns or panics.
IFairness ==
    /\ RFairness
    /\ \A c \in Calls : WF_ivars(\E v \in Result : Method(c, v))
    /\ \A i \in Imports : WF_ivars(Proceed(i)) /\ WF_ivars(Throw(i)) /\ WF_ivars(Persisted(i))

ISpec == IInit /\ [][INext]_ivars
FairISpec == ISpec /\ IFairness

-----------------------------------------------------------------------------
ITypeOK ==
    /\ RTypeOK
    /\ pc \in [Imports -> {"new", "creating", "marking", "convert", "capture", "finishing",
                           "failing", "over", "ok", "error", "lost"}]
    /\ async \in [Imports -> BOOLEAN] /\ at \in [Imports -> Nat]
    /\ jobs \in Table /\ disk \in Table /\ writes \in [Writers -> Table \cup {NoWrite}]
    /\ docs \subseteq Calls /\ files \subseteq Imports

\* chunker.ts, runner.ts: once an import is reported as done - in memory, in the
\* file a restart would load, in the answer - every character of its text is in the
\* store, in a chunk that names the headings it stands under, whatever writes of
\* the file overtook each other.
TextIsStored ==
    \A i \in Imports :
        "done" \in {jobs[i], disk[i]} \/ pc[i] = "ok" =>
            Complete(Source[i], Cut[i], {k \in DOMAIN Cut[i] : Chunk(i, k) \in docs})

\* runner.ts captureChunks: an import leaves a beginning of its text, never a
\* text with gaps, wherever it fails or stops.
NoGaps ==
    \A i \in Imports : \A k \in 1..Chunks[i] :
        Chunk(i, k) \in docs => \A j \in 1..k : Chunk(i, j) \in docs

\* jobs.ts initJobs: a job that is shown as running is run by someone - but for
\* the one whose creation could not be written, and whose id nobody has.
RunningIsRun ==
    \A i \in Imports : jobs[i] \in Status \ Terminal => InProgress(i) \/ pc[i] = "error"

\* admin.ts: the original of a captured chunk can be downloaded, unless a short
\* import failed after its first chunks.
OriginalIsKept ==
    \A i \in Uploads : ChunksOf(i) \cap docs # {} => i \in files \/ (pc[i] = "error" /\ ~async[i])

\* runner.ts, sidecar.ts: an import comes to an end, unless the sidecar dies
\* with its call, or its task panics.
Stranded(i) ==
    \E c \in {Convert(i)} \cup ChunksOf(i) :
        c \in pending /\ (c \in panicked \/ (~up /\ ~In(c, writeQueue)))
ImportsEnd == \A i \in Imports : InProgress(i) ~> ~InProgress(i) \/ Stranded(i)
=============================================================================
