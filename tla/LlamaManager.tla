----------------------------- MODULE LlamaManager -----------------------------
(***************************************************************************)
(* The manager of the llama-server process (llamacpp-manager/): the routes  *)
(* that load, unload, restart and delete models (main.ts), the supervisor   *)
(* of the child process (process.ts), .last_loaded.json (state.ts) and the  *)
(* restore at boot, which does not take part in loadMutex.  A child is      *)
(* named by the request that has spawned it.                                *)
(***************************************************************************)
EXTENDS ModelPulls

CONSTANTS
    Requests, Boot, NoModel, Nobody,
    Mixes     \* which requests and pulls there are in one behaviour, and what was loaded last

Ops == Requests \cup {Boot}
ASSUME OpsAssumption == Boot \notin Requests /\ Nobody \notin Ops /\ NoModel \notin Models
ASSUME MixesAssumption == Mixes \subseteq [requests : SUBSET Requests, pulls : SUBSET Pulls,
                                    lasts : SUBSET (Models \cup {NoModel})]

VARIABLES
    last,     \* .last_loaded.json
    procs,    \* the llama-server processes
    healthy,  \* the one that answers on the port
    child,    \* this.child of the supervisor, and its state
    req,      \* the requests, and the restore
    queue,    \* the operations chained to loadMutex; the first one runs
    fell,     \* history: the processes that ended by themselves
    meddled   \* history: the restore has killed a child under another request

vars == <<disk, last, procs, healthy, child, req, queue, fell, meddled>>
hist == <<fell, meddled>>

New == [kind |-> "none", model |-> NoModel, pc |-> "new", victim |-> Nobody, ending |-> FALSE, later |-> FALSE,
        result |-> "none"]
Gone == [New EXCEPT !.pc = "gone"]
At(o, c) == req[o].pc = c
Goto(o, c) == req' = [req EXCEPT ![o].pc = c]
InProgress(o) == req[o].pc \notin {"new", "done", "gone"}
Holder(o) == queue # <<>> /\ Head(queue) = o
Leave(o) == queue' = IF Holder(o) THEN Tail(queue) ELSE queue
Answer(o, v) == req' = [req EXCEPT ![o] = [New EXCEPT !.pc = "done", !.model = req[o].model, !.result = v]]

Init ==
    /\ procs = {} /\ healthy = {} /\ child = Nobody
    /\ \E mix \in Mixes :
           /\ last \in mix.lasts
           /\ req = [o \in Ops |-> IF o = Boot \/ o \in mix.requests THEN New ELSE Gone]
           /\ PInit(mix.pulls)
    /\ queue = <<>>
    /\ fell = {} /\ meddled = FALSE

-----------------------------------------------------------------------------
(* The supervisor.                                                          *)

\* What kill() does before it waits; e: in the handler of a failure.
Waiting(q, p) == At(q, "term") /\ req[q].victim = p
Kill(o, e) ==
    /\ req' = [req EXCEPT ![o].pc = IF child = Nobody THEN "killed" ELSE "term",
                          ![o].victim = child, ![o].ending = e,
                          ![o].later = \E q \in Ops : Waiting(q, child)]
    /\ meddled' = (meddled \/ (o = Boot /\ child # Boot /\ child # Nobody)
                           \/ (o = Boot /\ child # Nobody /\ queue # <<>>))

\* Ten seconds have gone: SIGKILL.  Whoever has begun first comes first.
KillHarder(o) ==
    /\ At(o, "term") /\ req[o].victim \in procs
    /\ req[o].later => \A q \in Ops \ {o} : ~Waiting(q, req[o].victim)
    /\ Goto(o, "kill")
    /\ UNCHANGED <<disk, last, procs, healthy, child, queue, hist>>

\* A process ends; _watchExit is the first to hear.
Exit(p) ==
    /\ p \in procs
    /\ procs' = procs \ {p} /\ healthy' = healthy \ {p}
    /\ child' = IF child = p THEN Nobody ELSE child
    /\ fell' = IF At(p, "health") /\ ~\E o \in Ops : req[o].pc \in {"term", "kill"} /\ req[o].victim = p
               THEN fell \cup {p} ELSE fell
    /\ UNCHANGED <<disk, last, req, queue, meddled>>

\* A process comes up; the port is for one of them.
Listen(p) ==
    /\ p \in procs /\ healthy = {}
    /\ healthy' = {p}
    /\ UNCHANGED <<disk, last, procs, child, req, queue, hist>>

\* Mutant: kill does not wait for the end of the process.
WokenAtOnce(w) == {o \in Ops : At(o, w)}

\* The end of kill() for those that wait in the same way: their promises are
\* settled together, and each of them clears the child it finds.
Woken(w) == {o \in Ops : At(o, w) /\ req[o].victim \notin procs}
Wake(w) ==
    /\ Woken(w) # {}
    /\ child' = Nobody
    /\ req' = [o \in Ops |-> IF o \in Woken(w) THEN [req[o] EXCEPT !.pc = "killed"] ELSE req[o]]
    /\ UNCHANGED <<disk, last, procs, healthy, queue, hist>>

Spawn(o) ==
    /\ child = Nobody
    /\ child' = o /\ procs' = procs \cup {o}
    /\ Goto(o, "health")
    /\ UNCHANGED <<healthy, queue, meddled>>

\* What follows kill() in the operation that has called it.
Continue(o) ==
    /\ At(o, "killed")
    /\ \/ /\ req[o].ending
          /\ Answer(o, "failed") /\ Leave(o)
          /\ UNCHANGED <<procs, healthy, child, meddled>>
       \/ /\ ~req[o].ending /\ req[o].kind = "unload"
          /\ Goto(o, "clear")
          /\ UNCHANGED <<procs, healthy, child, queue, meddled>>
       \/ ~req[o].ending /\ req[o].kind # "unload" /\ Spawn(o)
       \/ /\ ~req[o].ending /\ req[o].kind # "unload" /\ child # Nobody
          /\ Answer(o, "failed") /\ Leave(o)
          /\ UNCHANGED <<procs, healthy, child, meddled>>
    /\ UNCHANGED <<disk, last, fell>>

\* awaitHealth: somebody answers on the port while there is a child ...
Healthy(o) ==
    /\ At(o, "health") /\ child # Nobody /\ healthy # {}
    /\ IF o = Boot THEN Answer(o, "ok") ELSE Goto(o, "write")
    /\ UNCHANGED <<disk, last, procs, healthy, child, queue, hist>>

\* Mutant: the wait has no end of its own.
UnhealthyIfGone(o) ==
    /\ At(o, "health") /\ child = Nobody
    /\ Kill(o, TRUE)
    /\ UNCHANGED <<disk, last, procs, healthy, child, queue, fell>>

\* ... or there is no child any more, or the time is over: kill().
Unhealthy(o) ==
    /\ At(o, "health")
    /\ Kill(o, TRUE)
    /\ UNCHANGED <<disk, last, procs, healthy, child, queue, fell>>

-----------------------------------------------------------------------------
(* The routes.                                                              *)

Begin(o, k, m) ==
    /\ At(o, "new") /\ o # Boot
    /\ req' = [req EXCEPT ![o].kind = k, ![o].model = m, ![o].pc = "queued"]
    /\ queue' = Append(queue, o)
    /\ UNCHANGED <<disk, last, procs, healthy, child, hist>>

Load(o, m) == m \in files /\ Begin(o, "load", m)

\* Mutant: unload kills without waiting for its turn.
UnloadAtOnce(o) ==
    /\ At(o, "new") /\ o # Boot
    /\ req' = [req EXCEPT ![o].kind = "unload", ![o].victim = child,
                          ![o].pc = IF child = Nobody THEN "killed" ELSE "term"]
    /\ UNCHANGED <<disk, last, procs, healthy, child, queue, hist>>

Unload(o) == Begin(o, "unload", NoModel)

\* /v1/restart has read the file before it waits for its turn.
RestartModel(o) == last # NoModel /\ Begin(o, "restart", last)

\* The operation at the head of the chain starts.
Go(o) ==
    /\ Holder(o) /\ At(o, "queued")
    /\ Kill(o, FALSE)
    /\ UNCHANGED <<disk, last, procs, healthy, child, queue, fell>>

\* Mutant: a failed write is not reported.
WriteSwallows(o) ==
    /\ \/ At(o, "write") /\ last' = NoModel /\ Goto(o, "writing") /\ UNCHANGED queue
       \/ At(o, "writing") /\ last' \in {last, req[o].model} /\ Answer(o, "ok") /\ Leave(o)
    /\ UNCHANGED <<disk, procs, healthy, child, hist>>

\* writeLoaded truncates, then writes.
Write(o) ==
    /\ \/ At(o, "write") /\ last' = NoModel /\ Goto(o, "writing") /\ UNCHANGED queue
       \/ At(o, "writing") /\ last' = req[o].model /\ Answer(o, "ok") /\ Leave(o)
       \/ At(o, "writing") /\ last' = last /\ Answer(o, "failed") /\ Leave(o)
    /\ UNCHANGED <<disk, procs, healthy, child, hist>>

\* clearLoaded says nothing of a removal that fails.
Clear(o) ==
    /\ At(o, "clear")
    /\ last' \in {last, NoModel} /\ Answer(o, "ok") /\ Leave(o)
    /\ UNCHANGED <<disk, procs, healthy, child, hist>>

\* DELETE /v1/models: the check, then the removal.
Delete(o, m) ==
    /\ At(o, "new") /\ o # Boot /\ m \in files
    /\ child # Nobody => req[child].model # m
    /\ req' = [req EXCEPT ![o].kind = "delete", ![o].model = m, ![o].pc = "remove"]
    /\ UNCHANGED <<disk, last, procs, healthy, child, queue, hist>>
Remove(o) ==
    /\ At(o, "remove")
    /\ RemoveFile(req[o].model)
    /\ Answer(o, IF req[o].model \in files THEN "ok" ELSE "failed")
    /\ UNCHANGED <<last, procs, healthy, child, queue, hist>>

\* A step of a pull; the client who has asked for it may have left.
PullGoesOn(p) ==
    PullStep(p) /\ UNCHANGED <<last, procs, healthy, child, req, queue, hist>>

-----------------------------------------------------------------------------
(* restoreOnStartup, while the routes are served already.                   *)

RestoreReads ==
    /\ At(Boot, "new") /\ last # NoModel
    /\ req' = [req EXCEPT ![Boot].kind = "restore", ![Boot].model = last, ![Boot].pc = "spawn"]
    /\ UNCHANGED <<disk, last, procs, healthy, child, queue, hist>>

\* spawn() throws if there is a child, and every failure ends in kill().
RestoreSpawns ==
    /\ At(Boot, "spawn")
    /\ \/ Spawn(Boot)
       \/ child # Nobody /\ Kill(Boot, TRUE) /\ UNCHANGED <<procs, healthy, child, queue>>
    /\ UNCHANGED <<disk, last, fell>>

\* The container stops and starts again.
Reboot ==
    /\ procs' = {} /\ healthy' = {} /\ child' = Nobody /\ queue' = <<>>
    /\ req' = [o \in Ops |-> IF o = Boot THEN New
                             ELSE IF At(o, "new") THEN New ELSE Gone]
    /\ fell' = {} /\ meddled' = FALSE
    /\ PullsStop /\ UNCHANGED last

-----------------------------------------------------------------------------
\* What the end of a process has set going is done before anything else: first
\* those that have sent SIGKILL, what follows in their operations, the others.
Settling == (\E w \in {"term", "kill"} : Woken(w) # {}) \/ \E o \in Ops : At(o, "killed")
Microtasks ==
    \/ Wake("kill")
    \/ Woken("kill") = {} /\ \E o \in Ops : Continue(o)
    \/ Woken("kill") = {} /\ (\A o \in Ops : ~At(o, "killed")) /\ Wake("term")

Calls(o) == (\E m \in Models : Load(o, m) \/ Delete(o, m)) \/ Unload(o) \/ RestartModel(o)
Steps(o) == Go(o) \/ (o = Boot /\ RestoreSpawns) \/ KillHarder(o) \/ Healthy(o) \/ Unhealthy(o) \/ Write(o) \/ Clear(o) \/ Remove(o)

Next ==
    \/ Microtasks
    \/ /\ ~Settling
       /\ \/ \E o \in Ops : Calls(o) \/ Steps(o) \/ Exit(o) \/ Listen(o)
          \/ \E p \in Pulls : PullGoesOn(p)
          \/ RestoreReads
    \/ Reboot

\* The event loop turns, timers fire, and SIGKILL ends a process.
Fairness ==
    /\ WF_vars(Microtasks)
    /\ \A o \in Ops : WF_vars(~Settling /\ Steps(o))
    /\ WF_vars(~Settling /\ \E o \in Ops : At(o, "kill") /\ Exit(req[o].victim))

Spec == Init /\ [][Next]_vars /\ Fairness

-----------------------------------------------------------------------------
TypeOK ==
    /\ PTypeOK /\ last \in Models \cup {NoModel}
    /\ procs \subseteq Ops /\ healthy \subseteq procs /\ child \in Ops \cup {Nobody}
    /\ queue \in Seq(Requests)
    /\ req \in [Ops -> [kind : {"none", "load", "unload", "restart", "delete", "restore"},
                        model : Models \cup {NoModel},
                        pc : {"new", "queued", "term", "kill", "killed", "health", "write", "writing",
                              "clear", "remove", "spawn", "done", "gone"},
                        victim : Ops \cup {Nobody}, ending : BOOLEAN, later : BOOLEAN,
                        result : {"none", "ok", "failed"}]]
    /\ \A o \in Requests : req[o].pc \in {"term", "kill", "killed", "health", "write", "writing", "clear"}
                           => Holder(o)

\* main.ts: the manager supervises one llama-server, so that no other process
\* is left on the port or the GPU - unless the restore killed under a request.
OneServer == ~meddled => procs \subseteq {child}

\* main.ts (/v1/unload): a load does not see its child killed underneath it;
\* it is gone only if it ended by itself, or the restore killed it.
LoadNotKilled ==
    \A o \in Requests : At(o, "health") /\ child # o => o \in fell \/ meddled

\* state.ts: what would be restored after a crash is what a load or a restart
\* has brought up, as soon as nothing is in progress.
LastIsServed ==
    (\A o \in Ops : ~InProgress(o)) /\ child \in Requests /\ req[child].result = "ok"
        => last = req[child].model

\* main.ts: every request comes to its end, whatever the processes and the
\* requests before it do.
RequestsEnd == \A o \in Ops : InProgress(o) ~> ~InProgress(o)
=============================================================================
