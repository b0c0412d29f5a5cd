------------------------------ MODULE OllamaAdmin ------------------------------
(***************************************************************************)
(* The administration of an Ollama host over the runtime configuration: the *)
(* switch of the active model and the deletion of a model (the /ollama and  *)
(* /llm routes of server/routes/admin.ts and admin_llm.ts), the pulls that  *)
(* run in the background (server/ollama/pulls.ts, client.ts), and those of  *)
(* the /llm route, which no list knows of.  The host is a set of models on  *)
(* its disk.  Each handler that awaits the host goes on later with what it  *)
(* has read; calls that fail may have been done.                            *)
(***************************************************************************)
EXTENDS RuntimeConfig, Sequences, FiniteSets

CONSTANTS
    Models,
    ModelKey,    \* ollama.model
    OllamaKeys,  \* the settings of the section ollama
    Requests,    \* the handlers that can be in progress at the same time
    Pulls,       \* the pulls that can be known at the same time
    MaxRetained, \* MAX_RETAINED_JOBS
    Mixes,       \* the kinds of calls that meet in one behaviour
    NoModel

ASSUME ModelAssumption ==
    /\ ModelKey \in OllamaKeys /\ OllamaKeys \subseteq Keys \ MailKeys
    /\ Models \subseteq Values /\ NoModel \notin Models /\ MaxRetained \in Nat
    /\ IsFiniteSet(Pulls)

VARIABLES
    installed,   \* the models on the disk of the host
    req,         \* the handlers in progress
    pull,        \* each pull: its model and its status
    listed,      \* the keys of _jobs
    controllers, \* the keys of _controllers
    aborted,     \* the controllers that have been aborted
    finished,    \* the listed pulls that have ended, in that order
    mix          \* the kinds of calls of this behaviour

jobs  == <<pull, listed, controllers, aborted, finished>>
ovars == <<cvars, installed, req, jobs, mix>>

Active(s) == s.served[ModelKey]
Idle   == [pc |-> "idle", model |-> NoModel]
NoPull == [model |-> NoModel, status |-> "new"]

OInit ==
    /\ CInit
    /\ installed \in SUBSET Models
    /\ req = [r \in Requests |-> Idle]
    /\ pull = [j \in Pulls |-> NoPull]
    /\ listed = {} /\ controllers = {} /\ aborted = {} /\ finished = <<>>
    /\ mix \in Mixes

At(r, c) == req[r].pc = c
Return(r) == req' = [req EXCEPT ![r] = Idle]

-----------------------------------------------------------------------------
(* The switch of the active model.                                           *)

\* The middleware of /ollama reads the configuration; a model the environment
\* pins is refused; the host is asked what it has, and m is there.  Without a
\* section ollama nobody knows the host.
Switch(r, m) ==
    LET s == Reload(cfg, env, now)
    IN  /\ At(r, "idle") /\ env[ModelKey] = Absent /\ m \in installed /\ Active(s) # Null
        /\ Becomes(s)
        /\ req' = [req EXCEPT ![r] = [pc |-> "listed", model |-> m]]
        /\ UNCHANGED <<now, env, installed, jobs>>

\* The file becomes the section that is served, with the new model in it.
OllamaAlone(s, m) ==
    [k \in Keys |-> IF k \notin OllamaKeys THEN Absent
                    ELSE IF k = ModelKey THEN m ELSE s.served[k]]

\* The handler throws if the section has been emptied meanwhile.  The unload of
\* the previous model and the warm-up of the new one change nothing that is
\* modelled, whether they succeed or not.
SwitchWrite(r) ==
    LET s == Reload(cfg, env, now)
    IN  /\ At(r, "listed")
        /\ \/ Active(s) = Null /\ Becomes(s)
           \/ Active(s) # Null /\ Becomes(WriteRuntime(s, OllamaAlone(s, req[r].model), env, now))
        /\ Return(r)
        /\ UNCHANGED <<now, env, installed, jobs>>

-----------------------------------------------------------------------------
(* Deletions.                                                                *)

\* DELETE /admin/ollama/models/:name refuses the active model, then awaits the unload.
Delete(r, m) ==
    LET s == Reload(cfg, env, now)
    IN  /\ At(r, "idle") /\ Active(s) \notin {m, Null}
        /\ Becomes(s)
        /\ req' = [req EXCEPT ![r] = [pc |-> "unloading", model |-> m]]
        /\ UNCHANGED <<now, env, installed, jobs>>

DeleteOnHost(r) ==
    /\ At(r, "unloading") /\ Return(r)
    /\ \/ installed' = installed \ {req[r].model}
       \/ installed' = installed
    /\ UNCHANGED <<cvars, jobs>>

\* DELETE /admin/llm/models/:name asks the host, without a look at the configuration.
DeleteByProvider(m) ==
    /\ m \in installed /\ installed' = installed \ {m}
    /\ UNCHANGED <<cvars, req, jobs>>

-----------------------------------------------------------------------------
(* Pulls.                                                                    *)

Busy(j) == pull[j].status \in {"running", "installed"}

\* Mutant: the oldest jobs are dropped, whether they have ended or not.
TrimAny(known, done) ==
    IF Cardinality(known) <= MaxRetained THEN known
    ELSE CHOOSE kept \in SUBSET known : Cardinality(kept) = MaxRetained

\* _trimRetention: how many of the jobs that have ended go, and the jobs that stay.
Over(known, done) ==
    LET over == Cardinality(known) - MaxRetained
    IN  IF over <= 0 THEN 0 ELSE IF over <= Len(done) THEN over ELSE Len(done)
Trim(known, done) == known \ {done[i] : i \in 1 .. Over(known, done)}

\* startPull for a model that no listed job is pulling; otherwise it returns that job.
StartPull(m, j) ==
    LET kept == Trim(listed \cup {j}, finished)
    IN  /\ pull[j].status = "new"
        /\ ~ \E i \in listed : pull[i].model = m /\ Busy(i)
        /\ listed' = kept
        /\ finished' = SubSeq(finished, Over(listed \cup {j}, finished) + 1, Len(finished))
        /\ pull' = [i \in Pulls |-> IF i = j THEN [model |-> m, status |-> "running"]
                                     ELSE IF i \in listed \ kept /\ ~Busy(i) THEN NoPull ELSE pull[i]]
        /\ controllers' = controllers \cup {j}
        /\ UNCHANGED <<cvars, installed, req, aborted>>

\* The last frame of the host: the model is there.
HostFinishes(j) ==
    /\ pull[j].status = "running"
    /\ installed' = installed \cup {pull[j].model}
    /\ pull' = [pull EXCEPT ![j].status = "installed"]
    /\ UNCHANGED <<cvars, req, listed, controllers, aborted, finished>>

\* cancelPull, for a job that has a controller.
CancelPull(j) ==
    /\ j \in controllers /\ aborted' = aborted \cup {j}
    /\ UNCHANGED <<cvars, installed, req, pull, listed, controllers, finished>>

Ends(j, status) ==
    /\ pull' = IF j \in listed THEN [pull EXCEPT ![j].status = status] ELSE [pull EXCEPT ![j] = NoPull]
    /\ finished' = IF j \in listed THEN Append(finished, j) ELSE finished
    /\ controllers' = controllers \ {j} /\ aborted' = aborted \ {j}
    /\ UNCHANGED <<cvars, installed, req, listed>>

\* The stream ends, with all frames or without, breaks or carries an error, or an
\* abort has broken it: what the job then becomes is asked of the signal.
PullEnds(j) ==
    /\ Busy(j)
    /\ Ends(j, "done") \/ Ends(j, IF j \in aborted THEN "canceled" ELSE "error")

-----------------------------------------------------------------------------

\* The jobs are not persisted; the host stops pulling when its client is gone.
RestartAll(e, torn) ==
    /\ Restart(e, torn)
    /\ req' = [r \in Requests |-> Idle]
    /\ pull' = [j \in Pulls |-> NoPull]
    /\ listed' = {} /\ controllers' = {} /\ aborted' = {} /\ finished' = <<>>
    /\ UNCHANGED installed

EditStep ==
    \/ (Tick \/ \E d \in Edits, t \in 1 .. now : Edit(d, t)) /\ UNCHANGED <<installed, req, jobs>>
    \/ \E e \in Envs, torn \in BOOLEAN : RestartAll(e, torn)

SaveStep ==
    /\ \/ \E c \in Puts : PutConfig(c)
       \/ \E change \in [MailKeys -> Values \cup {Absent}] : SaveMail(change)
    /\ UNCHANGED <<installed, req, jobs>>

ModelStep ==
    \/ \E r \in Requests, m \in Models : Switch(r, m) \/ Delete(r, m)
    \/ \E r \in Requests : SwitchWrite(r) \/ DeleteOnHost(r)
    \/ \E m \in Models : DeleteByProvider(m)

\* POST /admin/llm/pull has the host pull at once, asks nobody who else does, and
\* goes on when its client has left.
PullDirect(r, m) ==
    /\ At(r, "idle")
    /\ req' = [req EXCEPT ![r] = [pc |-> "pulling", model |-> m]]
    /\ UNCHANGED <<cvars, installed, jobs>>

DirectPullEnds(r) ==
    /\ At(r, "pulling") /\ Return(r)
    /\ \/ installed' = installed \cup {req[r].model}
       \/ installed' = installed
    /\ UNCHANGED <<cvars, jobs>>

PullStep ==
    \/ \E m \in Models, j \in Pulls : StartPull(m, j)
    \/ \E j \in Pulls : HostFinishes(j) \/ CancelPull(j) \/ PullEnds(j)
    \/ \E r \in Requests : DirectPullEnds(r) \/ \E m \in Models : PullDirect(r, m)

Step ==
    \/ ReadConfig /\ UNCHANGED <<installed, req, jobs>>
    \/ "edit" \in mix /\ EditStep
    \/ "save" \in mix /\ SaveStep
    \/ "model" \in mix /\ ModelStep
    \/ "pull" \in mix /\ PullStep

ONext == Step /\ UNCHANGED mix
OSpec == OInit /\ [][ONext]_ovars

-----------------------------------------------------------------------------

OTypeOK ==
    /\ CTypeOK /\ installed \subseteq Models
    /\ req \in [Requests -> [pc : {"idle", "listed", "unloading", "pulling"}, model : Models \cup {NoModel}]]
    /\ pull \in [Pulls -> [model : Models \cup {NoModel},
                           status : {"new", "running", "installed", "done", "error", "canceled"}]]
    /\ listed \subseteq Pulls /\ controllers \subseteq Pulls /\ aborted \subseteq controllers
    /\ finished \in Seq(Pulls)

\* pulls.ts ("If there's already a running pull for the same model, reuse it"): no
\* two jobs pull one model at a time, however many are started, cancelled and
\* trimmed: a job that runs stays listed, where the next start looks.
OneJobPerModel ==
    \A i, j \in controllers : i # j => pull[i].model # pull[j].model
=============================================================================
