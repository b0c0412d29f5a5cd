--------------------------- MODULE OllamaAdmin_proofs ---------------------------
(***************************************************************************)
(* Proofs about RuntimeConfig, and about OllamaAdmin, whose switches write   *)
(* the same file.  The first half is the configuration alone: types, that    *)
(* the environment wins, and that the file that is served is the one on      *)
(* disk, for any settings, edits, environments and number of steps.  All     *)
(* changes go through _reloadIfChanged, so that the invariant is one of the  *)
(* record its steps work on, and the main lemma says that a reload keeps it. *)
(* The second half, for any number of models, handlers, pulls and retained   *)
(* jobs: the steps of the administration keep that invariant, and no two     *)
(* jobs pull one model at a time.                                            *)
(***************************************************************************)
EXTENDS OllamaAdmin, TLAPS, FiniteSetTheorems, SequenceTheorems

\* The invariant, of the record s under the environment e.
TypeOf(s) ==
    /\ DOMAIN s = {"disk", "mtime", "last", "file", "served", "loaded", "skewed"}
    /\ s.disk \in Disks /\ s.mtime \in Nat \ {0} /\ s.last \in Nat
    /\ s.file \in Contents /\ s.served \in Served
    /\ s.loaded \in BOOLEAN /\ s.skewed \in BOOLEAN
Overrides(c, e) ==
    \A k \in Keys : e[k] # Absent => c[k] = e[k] \/ (k \notin MailKeys /\ c[k] = Null)
EnvOf(s, e) == s.loaded => Overrides(s.served, e)
FileOf(s, e) ==
    s.disk \in Contents /\ s.mtime <= s.last /\ ~s.skewed =>
        /\ s.file = s.disk
        /\ Mergeable(s.disk) => s.served = Merge(e, s.disk)
Sound(s, e) == TypeOf(s) /\ EnvOf(s, e) /\ FileOf(s, e)

CInv == Sound(cfg, env) /\ env \in Environments /\ env \in Envs /\ now \in Nat \ {0}

-----------------------------------------------------------------------------

\* Defaults, file and environment together give every setting a value, and the
\* environment's where it has one, but for the sections the file has emptied.
LEMMA MergeFacts ==
    ASSUME NEW e \in Environments, NEW f \in Contents, Mergeable(f)
    PROVE  Merge(e, f) \in Served /\ Overrides(Merge(e, f), e)
<1>1. /\ Merge(e, f) \in [Keys -> Values \cup {Null}]
      /\ \A k \in Keys : f[k] # Null => Merge(e, f)[k] \in Values
  BY DefaultsAssumption DEF Environments, Contents, Settings, Merge
<1>2. Merge(e, f) \in Served
  BY <1>1, KeysAssumption, SpecialAssumption DEF Mergeable, Served
<1>3. \A k \in Keys : Merge(e, f)[k] = IF f[k] = Null THEN Null
                          ELSE IF e[k] # Absent THEN e[k]
                          ELSE IF f[k] # Absent THEN f[k] ELSE Defaults[k]
  BY DEF Merge
<1>4. Overrides(Merge(e, f), e)
  BY <1>3 DEF Mergeable, Overrides
<1> QED  BY <1>2, <1>4

\* The first file is one of those that can be on disk.
LEMMA DefaultsAreContents ==
    Defaults \in Contents /\ Empty \in Contents /\ Defaults \in Served
BY DefaultsAssumption, KeysAssumption, SpecialAssumption DEF Settings, Contents, Empty, Served

\* Loading a file that is there keeps the invariant.
LEMMA LoadSound ==
    ASSUME NEW s, NEW e \in Environments, Sound(s, e), s.disk # Missing
    PROVE  Sound(Load(s, e), e)
<1> DEFINE x == Load(s, e)
<1> SUFFICES Sound(x, e)
  OBVIOUS
<1>1. CASE s.disk = Torn
  <2>1. /\ TypeOf(x) /\ x.disk = s.disk /\ x.served = s.served /\ x.loaded = s.loaded
    BY <1>1 DEF Load, Sound, TypeOf
  <2>2. s.disk \notin Contents
    BY <1>1, SpecialAssumption
  <2> HIDE DEF x
  <2> QED  BY <2>1, <2>2 DEF Sound, EnvOf, FileOf
<1>2. CASE s.disk # Torn /\ Mergeable(s.disk)
  <2>1. s.disk \in Contents
    BY <1>2 DEF Disks, Sound, TypeOf
  <2>2. Merge(e, s.disk) \in Served /\ Overrides(Merge(e, s.disk), e)
    BY <1>2, <2>1, MergeFacts
  <2>3. TypeOf(x) /\ x.disk = s.disk /\ x.file = s.disk /\ x.served = Merge(e, s.disk)
    BY <1>2, <2>1, <2>2 DEF Load, Sound, TypeOf
  <2> HIDE DEF x
  <2> QED  BY <2>2, <2>3 DEF Sound, EnvOf, FileOf
<1>3. CASE s.disk # Torn /\ ~Mergeable(s.disk)
  <2>1. s.disk \in Contents
    BY <1>3 DEF Disks, Sound, TypeOf
  <2>2. /\ TypeOf(x) /\ x.disk = s.disk /\ x.file = s.disk
        /\ x.served = s.served /\ x.loaded = s.loaded
    BY <1>3, <2>1 DEF Load, Sound, TypeOf
  <2> HIDE DEF x
  <2> QED  BY <1>3, <2>2 DEF Sound, EnvOf, FileOf
<1> QED  BY <1>1, <1>2, <1>3

\* A file whose time is still to be seen asks nothing of what is served.
LEMMA UnseenSound ==
    ASSUME NEW s, NEW e, TypeOf(s), s.last = 0, EnvOf(s, e)
    PROVE  Sound(s, e)
BY DEF Sound, TypeOf, FileOf

\* So does a call of _reloadIfChanged, whatever is on disk.
LEMMA ReloadSound ==
    ASSUME NEW s, NEW e \in Environments, NEW t \in Nat \ {0}, Sound(s, e)
    PROVE  Sound(Reload(s, e, t), e)
<1> DEFINE x == Reload(s, e, t)
<1> SUFFICES Sound(x, e)
  OBVIOUS
<1>1. CASE s.disk = Missing
  <2>1. Defaults \in Disks
    BY DefaultsAreContents DEF Disks
  <2>2. TypeOf(x) /\ x.last = 0 /\ x.served = s.served /\ x.loaded = s.loaded
    BY <1>1, <2>1 DEF Reload, Sound, TypeOf
  <2> HIDE DEF x
  <2> QED  BY <2>2, UnseenSound DEF Sound, EnvOf
<1>2. CASE s.disk # Missing /\ s.mtime <= s.last
  BY <1>2 DEF Reload
<1>3. CASE s.disk # Missing /\ ~(s.mtime <= s.last)
  <2>1. x = Load(s, e)
    BY <1>3 DEF Reload
  <2> QED  BY <2>1, <1>3, LoadSound
<1> QED  BY <1>1, <1>2, <1>3

\* And so does a file that the server writes itself.
LEMMA WriteSound ==
    ASSUME NEW s, NEW e \in Environments, NEW t \in Nat \ {0}, NEW c \in Contents, Sound(s, e)
    PROVE  Sound(WriteRuntime(s, c, e, t), e)
<1> DEFINE w == [s EXCEPT !.disk = c, !.mtime = t, !.last = 0, !.skewed = FALSE]
<1>1. c \in Disks
  BY DEF Disks
<1>2. TypeOf(w) /\ w.last = 0 /\ w.served = s.served /\ w.loaded = s.loaded
  BY <1>1 DEF Sound, TypeOf
<1>3. WriteRuntime(s, c, e, t) = Reload(w, e, t)
  BY DEF WriteRuntime
<1> HIDE DEF w
<1>4. Sound(w, e)
  BY <1>2, UnseenSound DEF Sound, EnvOf
<1> QED  BY <1>3, <1>4, ReloadSound

\* A process that starts serves the defaults until it has loaded the file.
LEMMA InitSound ==
    ASSUME NEW s, NEW e \in Environments, NEW t \in Nat \ {0},
           DOMAIN s = {"disk", "mtime", "last", "file", "served", "loaded", "skewed"},
           s.disk \in Disks, s.mtime \in Nat \ {0}
    PROVE  Sound(InitRuntime(s, e, t), e)
<1> DEFINE w == [s EXCEPT !.last = 0, !.file = Empty, !.served = Defaults, !.loaded = FALSE,
                          !.skewed = FALSE]
<1>1. TypeOf(w) /\ w.last = 0 /\ ~w.loaded
  BY DefaultsAreContents, DefaultsAssumption DEF TypeOf
<1>2. InitRuntime(s, e, t) = Reload(w, e, t)
  BY DEF InitRuntime
<1> HIDE DEF w
<1>3. Sound(w, e)
  BY <1>1, UnseenSound DEF EnvOf
<1> QED  BY <1>2, <1>3, ReloadSound

\* The variables after a step that works on a record are those of the record.
LEMMA BecomesSound ==
    ASSUME NEW s, NEW e, Sound(s, e), Becomes(s)
    PROVE  Sound(cfg', e)
<1>1. /\ DOMAIN cfg' = DOMAIN s
      /\ cfg'.disk = s.disk /\ cfg'.mtime = s.mtime /\ cfg'.last = s.last /\ cfg'.file = s.file
      /\ cfg'.served = s.served /\ cfg'.loaded = s.loaded /\ cfg'.skewed = s.skewed
  BY DEF Becomes, cfg, Sound, TypeOf
<1> QED  BY <1>1 DEF Sound, TypeOf, EnvOf, FileOf

-----------------------------------------------------------------------------

\* It holds at the start,
LEMMA CInvInit == CInit => CInv
<1> SUFFICES ASSUME CInit PROVE CInv
  OBVIOUS
<1>1. env \in Envs /\ env \in Environments /\ now = 1
  BY InputsAssumption DEF CInit
<1>2. PICK d \in Edits :
          LET s == InitRuntime([disk |-> d, mtime |-> 1, last |-> 0, file |-> Empty,
                                served |-> Defaults, loaded |-> FALSE, skewed |-> FALSE], env, 1)
          IN  /\ disk = s.disk /\ mtime = s.mtime /\ last = s.last /\ fileCfg = s.file
              /\ served = s.served /\ loaded = s.loaded /\ skewed = s.skewed
  BY DEF CInit
<1> DEFINE s == InitRuntime([disk |-> d, mtime |-> 1, last |-> 0, file |-> Empty,
                             served |-> Defaults, loaded |-> FALSE, skewed |-> FALSE], env, 1)
<1>3. Sound(s, env)
  <2>1. d \in Disks
    BY InputsAssumption
  <2> QED  BY <1>1, <2>1, InitSound
<1> HIDE DEF s
<1>4. /\ DOMAIN cfg = DOMAIN s
      /\ cfg.disk = s.disk /\ cfg.mtime = s.mtime /\ cfg.last = s.last /\ cfg.file = s.file
      /\ cfg.served = s.served /\ cfg.loaded = s.loaded /\ cfg.skewed = s.skewed
  BY <1>2, <1>3 DEF cfg, Sound, TypeOf, s
<1>5. Sound(cfg, env)
  BY <1>3, <1>4 DEF Sound, TypeOf, EnvOf, FileOf
<1> QED  BY <1>1, <1>5 DEF CInv

\* and every step keeps it.
LEMMA CInvNext == CInv /\ [CNext]_cvars => CInv'
<1> SUFFICES ASSUME CInv, [CNext]_cvars PROVE CInv'
  OBVIOUS
<1> USE DEF CInv
<1>1. CASE ReadConfig
  <2>1. Sound(Reload(cfg, env, now), env)
    BY ReloadSound
  <2> QED  BY <1>1, <2>1, BecomesSound DEF ReadConfig
<1>2. ASSUME NEW c \in Puts, PutConfig(c) PROVE CInv'
  <2>1. c \in Contents
    BY InputsAssumption
  <2>2. Sound(WriteRuntime(cfg, c, env, now), env)
    BY <2>1, WriteSound
  <2> QED  BY <1>2, <2>2, BecomesSound DEF PutConfig
<1>3. ASSUME NEW change \in [MailKeys -> Values \cup {Absent}], SaveMail(change) PROVE CInv'
  <2> DEFINE s == Reload(Reload(cfg, env, now), env, now)
  <2>1. Sound(s, env)
    BY ReloadSound
  <2> HIDE DEF s
  <2>2. WithMail(s, change) \in Contents
    BY <2>1, KeysAssumption DEF WithMail, Contents, Served, Sound, TypeOf
  <2>3. Sound(WriteRuntime(s, WithMail(s, change), env, now), env)
    BY <2>1, <2>2, WriteSound
  <2>4. Becomes(WriteRuntime(s, WithMail(s, change), env, now)) /\ UNCHANGED <<now, env>>
    BY <1>3 DEF SaveMail, s
  <2> QED  BY <2>3, <2>4, BecomesSound
<1>4. ASSUME NEW d \in Edits, NEW t \in 1 .. now, Edit(d, t) PROVE CInv'
  <2>1. d \in Disks /\ t \in Nat \ {0}
    BY InputsAssumption
  <2>2. TypeOf(cfg)'
    BY <1>4, <2>1 DEF Edit, Sound, TypeOf, cfg
  <2>3. EnvOf(cfg, env)'
    BY <1>4 DEF Edit, Sound, EnvOf, cfg
  <2>4. FileOf(cfg, env)'
    BY <1>4 DEF Edit, FileOf, cfg
  <2> QED  BY <1>4, <2>2, <2>3, <2>4 DEF Edit, Sound
<1>5. CASE Tick
  <2>1. cfg' = cfg /\ env' = env /\ now' \in Nat \ {0}
    BY <1>5 DEF Tick, cfg
  <2> QED  BY <2>1
<1>6. ASSUME NEW e \in Envs, NEW torn \in BOOLEAN, Restart(e, torn) PROVE CInv'
  <2> DEFINE w == IF torn THEN [cfg EXCEPT !.disk = Torn, !.mtime = now] ELSE cfg
             s == InitRuntime(w, e, now)
  <2>1. e \in Environments
    BY InputsAssumption
  <2>2. /\ DOMAIN w = {"disk", "mtime", "last", "file", "served", "loaded", "skewed"}
        /\ w.disk \in Disks /\ w.mtime \in Nat \ {0}
    <3>1. Torn \in Disks
      BY DEF Disks
    <3> QED  BY <3>1 DEF Sound, TypeOf
  <2>3. Sound(s, e)
    <3> HIDE DEF w
    <3> QED  BY <2>1, <2>2, InitSound
  <2>4. Becomes(s) /\ env' = e /\ now' = now
    BY <1>6 DEF Restart
  <2> HIDE DEF s, w
  <2> QED  BY <2>1, <2>3, <2>4, BecomesSound
<1>7. CASE UNCHANGED cvars
  <2>1. cfg' = cfg /\ env' = env /\ now' = now
    BY <1>7 DEF cvars, cfg
  <2> QED  BY <2>1
<1> QED  BY <1>1, <1>2, <1>3, <1>4, <1>5, <1>6, <1>7 DEF CNext

\* Every reachable state: what is on disk, loaded and served have their types, the
\* environment wins, and the file that has been read is the one that is served.
THEOREM InductiveInvariant == CSpec => []CInv
BY CInvInit, CInvNext, PTL DEF CSpec

\* The type invariant of runtime_config.ts.
THEOREM TypeCorrect == CSpec => []CTypeOK
<1>1. CInv => CTypeOK
  BY DEF CInv, Sound, TypeOf, cfg, CTypeOK
<1> QED  BY <1>1, InductiveInvariant, PTL

\* The mail form keeps what it does not show: the file on disk is the one that is
\* loaded by the time the form is laid over it.
LEMMA ReloadKeepsDisk ==
    ASSUME NEW s, NEW e \in Environments, NEW t, Sound(s, e), s.disk \in Contents, ~s.skewed
    PROVE  LET x == Reload(s, e, t) IN x.disk = s.disk /\ x.file = s.disk /\ ~x.skewed
<1> DEFINE x == Reload(s, e, t)
<1> SUFFICES x.disk = s.disk /\ x.file = s.disk /\ ~x.skewed
  OBVIOUS
<1>1. s.disk # Missing /\ s.disk # Torn
  BY SpecialAssumption
<1>2. CASE s.mtime <= s.last
  BY <1>1, <1>2 DEF Reload, Sound, FileOf
<1>3. CASE ~(s.mtime <= s.last)
  BY <1>1, <1>3 DEF Reload, Load, Sound, TypeOf
<1> QED  BY <1>2, <1>3

\* What writeRuntime was given is on disk afterwards.
LEMMA WriteKeepsDisk ==
    ASSUME NEW s, NEW e \in Environments, NEW t \in Nat \ {0}, NEW c \in Contents, Sound(s, e)
    PROVE  WriteRuntime(s, c, e, t).disk = c
<1> DEFINE w == [s EXCEPT !.disk = c, !.mtime = t, !.last = 0, !.skewed = FALSE]
<1>1. DOMAIN w = DOMAIN s /\ w.disk = c /\ w.mtime = t /\ w.last = 0
  BY DEF Sound, TypeOf
<1>2. c # Missing /\ c # Torn /\ ~(t <= 0)
  BY SpecialAssumption
<1>3. WriteRuntime(s, c, e, t) = Reload(w, e, t)
  BY DEF WriteRuntime
<1> HIDE DEF w
<1>4. Reload(w, e, t) = Load(w, e)
  BY <1>1, <1>2 DEF Reload
<1>5. Load(w, e).disk = c
  BY <1>1, <1>2 DEF Load, Sound, TypeOf
<1> QED  BY <1>3, <1>4, <1>5

\* One save of the form.
LEMMA MailStep ==
    ASSUME CInv, NEW change \in [MailKeys -> Values \cup {Absent}], SaveMail(change),
           disk \in Contents, ~skewed
    PROVE  \A k \in Keys \ MailKeys : disk'[k] = disk[k]
<1> DEFINE r == Reload(cfg, env, now)
           s == Reload(r, env, now)
<1>1. Sound(r, env) /\ Sound(s, env)
  BY ReloadSound DEF CInv
<1>2. cfg.disk = disk /\ cfg.skewed = skewed
  BY DEF cfg
<1>3. r.disk = disk /\ ~r.skewed
  BY <1>2, ReloadKeepsDisk DEF CInv
<1>4. s.file = disk
  <2> HIDE DEF r
  <2> QED  BY <1>1, <1>3, ReloadKeepsDisk DEF CInv
<1> HIDE DEF s
<1>5. WithMail(s, change) \in Contents
  BY <1>1, KeysAssumption DEF WithMail, Contents, Served, Sound, TypeOf
<1>6. disk' = WriteRuntime(s, WithMail(s, change), env, now).disk
  BY DEF SaveMail, Becomes, s
<1>7. disk' = WithMail(s, change)
  BY <1>1, <1>5, <1>6, WriteKeepsDisk DEF CInv
<1> QED  BY <1>4, <1>7 DEF WithMail

\* Env vars always override file values, once a file has been loaded, but in the
\* sections that the file has emptied.
THEOREM TheEnvironmentWins == CSpec => []EnvWins
<1>1. CInv => EnvWins
  BY DEF CInv, Sound, EnvOf, Overrides, cfg, EnvWins
<1> QED  BY <1>1, InductiveInvariant, PTL

\* No edit and no save is missed: the file on disk, if the server has seen its
\* time, is the one it serves.
THEOREM TheFileIsServed == CSpec => []ServedFollowsFile
<1>1. CInv => ServedFollowsFile
  BY DEF CInv, Sound, FileOf, cfg, ServedFollowsFile
<1> QED  BY <1>1, InductiveInvariant, PTL
\* A saved form keeps the other sections of a file the server has read.
THEOREM TheFormKeepsSections == CSpec => MailKeepsSections
<1>1. CInv => [\A change \in [MailKeys -> Values \cup {Absent}] :
                  SaveMail(change) /\ disk \in Contents /\ ~skewed =>
                      \A k \in Keys \ MailKeys : disk'[k] = disk[k]]_cvars
  BY MailStep
<1> QED  BY <1>1, InductiveInvariant, PTL DEF MailKeepsSections

-----------------------------------------------------------------------------
(* The administration of the Ollama host.                                    *)

Statuses == {"new", "running", "installed", "done", "error", "canceled"}

\* A switch that is going to write holds a model.
QInv ==
    /\ req \in [Requests -> [pc : {"idle", "listed", "unloading", "pulling"}, model : Models \cup {NoModel}]]
    /\ \A r \in Requests : At(r, "listed") => req[r].model \in Models

\* A pull has a controller as long as it runs, and is listed; those that have
\* ended are listed once, and none of them runs.
PInv ==
    /\ pull \in [Pulls -> [model : Models \cup {NoModel}, status : Statuses]]
    /\ listed \subseteq Pulls /\ controllers \subseteq listed
    /\ finished \in Seq(Pulls)
    /\ \A j \in Pulls : j \in controllers <=> Busy(j)
    /\ \A i \in DOMAIN finished :
           finished[i] \notin controllers /\ pull[finished[i]].status # "new"
    /\ \A i, k \in DOMAIN finished : i # k => finished[i] # finished[k]
    /\ OneJobPerModel

OInv == CInv /\ QInv /\ PInv

\* What the invariants of the two halves do not look at may change.
LEMMA QFrame == QInv /\ UNCHANGED req => QInv'
BY DEF QInv, At
LEMMA PFrame == PInv /\ UNCHANGED <<pull, listed, controllers, finished>> => PInv'
BY DEF PInv, Busy, OneJobPerModel

-----------------------------------------------------------------------------
(* The handlers that wait for the host.                                      *)

\* A call that has only looked at the configuration.
LEMMA LookSound ==
    ASSUME CInv, Becomes(Reload(cfg, env, now)), UNCHANGED <<now, env>>
    PROVE  CInv'
<1>1. Sound(Reload(cfg, env, now), env)
  BY ReloadSound DEF CInv
<1> QED  BY <1>1, BecomesSound DEF CInv

LEMMA SwitchSound ==
    ASSUME OInv, NEW r \in Requests, NEW m \in Models, Switch(r, m)
    PROVE  OInv'
<1>1. CInv'
  BY LookSound DEF OInv, Switch
<1>2. QInv'
  BY DEF OInv, QInv, Switch, At
<1>3. PInv'
  BY PFrame DEF OInv, Switch, jobs
<1> QED  BY <1>1, <1>2, <1>3 DEF OInv

LEMMA SwitchWriteSound ==
    ASSUME OInv, NEW r \in Requests, SwitchWrite(r)
    PROVE  OInv'
<1> DEFINE s == Reload(cfg, env, now)
           c == OllamaAlone(s, req[r].model)
<1>1. Sound(s, env)
  BY ReloadSound DEF OInv, CInv
<1>2. req[r].model \in Values
  BY ModelAssumption DEF OInv, QInv, SwitchWrite
<1>3. UNCHANGED <<now, env>> /\ (Becomes(s) \/ Becomes(WriteRuntime(s, c, env, now)))
  BY DEF SwitchWrite
<1> HIDE DEF s
<1>4. c \in Contents
  BY <1>1, <1>2 DEF OllamaAlone, Contents, Served, Sound, TypeOf
<1> HIDE DEF c
<1>5. Sound(WriteRuntime(s, c, env, now), env)
  BY <1>1, <1>4, WriteSound DEF OInv, CInv
<1>6. CInv'
  BY <1>1, <1>3, <1>5, BecomesSound DEF OInv, CInv
<1>7. QInv'
  BY DEF OInv, QInv, SwitchWrite, Return, Idle, At
<1>8. PInv'
  BY PFrame DEF OInv, SwitchWrite, jobs
<1> QED  BY <1>6, <1>7, <1>8 DEF OInv

LEMMA DeletionSound ==
    ASSUME OInv, NEW r \in Requests,
           DeleteOnHost(r) \/ \E m \in Models : Delete(r, m) \/ DeleteByProvider(m)
    PROVE  OInv'
<1>1. CASE DeleteOnHost(r)
  <2>1. CInv'
    BY <1>1, CInvNext DEF OInv, DeleteOnHost
  <2>2. QInv'
    BY <1>1 DEF OInv, QInv, DeleteOnHost, Return, Idle, At
  <2>3. PInv'
    BY <1>1, PFrame DEF OInv, DeleteOnHost, jobs
  <2> QED  BY <2>1, <2>2, <2>3 DEF OInv
<1>2. ASSUME NEW m \in Models, Delete(r, m) PROVE OInv'
  <2>1. CInv'
    BY <1>2, LookSound DEF OInv, Delete
  <2>2. QInv'
    BY <1>2 DEF OInv, QInv, Delete, At
  <2>3. PInv'
    BY <1>2, PFrame DEF OInv, Delete, jobs
  <2> QED  BY <2>1, <2>2, <2>3 DEF OInv
<1>3. ASSUME NEW m \in Models, DeleteByProvider(m) PROVE OInv'
  <2>1. CInv'
    BY <1>3, CInvNext DEF OInv, DeleteByProvider
  <2> QED  BY <1>3, <2>1, QFrame, PFrame DEF OInv, DeleteByProvider, jobs
<1> QED  BY <1>1, <1>2, <1>3

-----------------------------------------------------------------------------
(* Pulls.                                                                    *)

\* What is left of a sequence without its first n elements.
LEMMA RestFacts ==
    ASSUME NEW S, NEW s \in Seq(S), NEW n \in 0 .. Len(s)
    PROVE  LET rest == SubSeq(s, n + 1, Len(s))
           IN  /\ rest \in Seq(S) /\ Len(rest) = Len(s) - n
               /\ \A i \in 1 .. Len(s) - n : rest[i] = s[i + n]
<1> DEFINE rest == SubSeq(s, n + 1, Len(s))
<1>1. PICK len \in Nat : len = Len(s)
  OBVIOUS
<1>2. n \in Nat /\ n <= len
  BY <1>1
<1>3. n + 1 \in Int /\ len \in Int /\ \A i \in n + 1 .. len : s[i] \in S
  BY <1>1, <1>2
<1>4. /\ rest \in Seq(S)
      /\ Len(rest) = IF n + 1 <= len THEN len - (n + 1) + 1 ELSE 0
      /\ \A i \in 1 .. len - (n + 1) + 1 : rest[i] = s[(n + 1) + i - 1]
  BY <1>1, <1>3, SubSeqProperties
<1> HIDE DEF rest
<1>5. Len(rest) = len - n
  <2>1. (IF n + 1 <= len THEN len - (n + 1) + 1 ELSE 0) = len - n
    BY <1>2
  <2> QED  BY <1>4, <2>1
<1>6. ASSUME NEW i \in 1 .. len - n PROVE rest[i] = s[i + n]
  <2>1. i \in 1 .. len - (n + 1) + 1 /\ (n + 1) + i - 1 = i + n
    BY <1>2
  <2> QED  BY <1>4, <2>1
<1> QED  BY <1>1, <1>4, <1>5, <1>6 DEF rest

\* The list keeps every job that runs: what is trimmed has ended.
LEMMA TrimFacts ==
    ASSUME PInv, NEW j \in Pulls
    PROVE  LET n == Over(listed \cup {j}, finished)
           IN  /\ n \in 0 .. Len(finished)
               /\ Trim(listed \cup {j}, finished) = (listed \cup {j}) \ {finished[i] : i \in 1 .. n}
<1>1. IsFiniteSet(listed \cup {j})
  BY ModelAssumption, FS_Subset DEF PInv
<1>2. Cardinality(listed \cup {j}) \in Nat
  BY <1>1, FS_CardinalityType
<1>3. Len(finished) \in Nat
  BY DEF PInv
<1> QED  BY <1>2, <1>3, ModelAssumption DEF Over, Trim

LEMMA StartPullSound ==
    ASSUME PInv, NEW m \in Models, NEW j \in Pulls, StartPull(m, j)
    PROVE  PInv'
<1> DEFINE n == Over(listed \cup {j}, finished)
           gone == {finished[i] : i \in 1 .. n}
<1>1. n \in 0 .. Len(finished) /\ Trim(listed \cup {j}, finished) = (listed \cup {j}) \ gone
  BY TrimFacts
<1>2. /\ listed' = (listed \cup {j}) \ gone
      /\ finished' = SubSeq(finished, n + 1, Len(finished))
      /\ controllers' = controllers \cup {j}
      /\ pull' = [i \in Pulls |->
                     IF i = j THEN [model |-> m, status |-> "running"]
                     ELSE IF i \in listed \ listed' /\ ~Busy(i) THEN NoPull ELSE pull[i]]
      /\ pull[j].status = "new" /\ ~ \E i \in listed : pull[i].model = m /\ Busy(i)
  BY <1>1 DEF StartPull
<1> HIDE DEF n
<1>3. finished \in Seq(Pulls) /\ Len(finished) \in Nat /\ DOMAIN finished = 1 .. Len(finished)
  BY DEF PInv
<1>4. \A i \in DOMAIN finished : finished[i] # j /\ finished[i] \notin controllers
  BY <1>2 DEF PInv
<1>5. j \notin controllers
  BY <1>2 DEF PInv, Busy
<1>6. gone \cap controllers = {} /\ j \notin gone
  BY <1>1, <1>3, <1>4
<1>7. /\ finished' \in Seq(Pulls) /\ Len(finished') = Len(finished) - n
      /\ \A i \in 1 .. Len(finished) - n : finished'[i] = finished[i + n]
  <2>1. /\ SubSeq(finished, n + 1, Len(finished)) \in Seq(Pulls)
        /\ Len(SubSeq(finished, n + 1, Len(finished))) = Len(finished) - n
        /\ \A i \in 1 .. Len(finished) - n :
               SubSeq(finished, n + 1, Len(finished))[i] = finished[i + n]
    BY <1>1, <1>3, RestFacts
  <2>2. finished' = SubSeq(finished, n + 1, Len(finished))
    BY <1>2
  <2> QED  BY <2>1, <2>2
<1>8. \A i \in DOMAIN finished' :
          i + n \in DOMAIN finished /\ finished'[i] = finished[i + n] /\ finished'[i] \notin gone
  <2> SUFFICES ASSUME NEW i \in DOMAIN finished'
               PROVE  i + n \in DOMAIN finished /\ finished'[i] = finished[i + n] /\ finished'[i] \notin gone
    OBVIOUS
  <2>1. i \in 1 .. Len(finished) - n
    BY <1>7
  <2>2. i + n \in DOMAIN finished /\ i + n \notin 1 .. n
    BY <2>1, <1>1, <1>3
  <2>3. \A k \in 1 .. n : k \in DOMAIN finished /\ k # i + n
    BY <2>2, <1>1, <1>3
  <2>4. finished[i + n] \notin gone
    BY <2>2, <2>3 DEF PInv
  <2> QED  BY <2>1, <2>2, <2>4, <1>7
<1>9. \A i \in controllers : pull'[i] = pull[i] /\ i # j
  BY <1>2, <1>5 DEF PInv
<1> HIDE DEF gone
<1>10. pull' \in [Pulls -> [model : Models \cup {NoModel}, status : Statuses]]
  BY <1>2 DEF PInv, NoPull, Statuses
<1>11. listed' \subseteq Pulls /\ controllers' \subseteq listed'
  BY <1>2, <1>6 DEF PInv
<1>12. \A i \in Pulls : i \in controllers' <=> Busy(i)'
  BY <1>2, <1>9 DEF PInv, Busy, NoPull
<1>13. \A i \in DOMAIN finished' :
           finished'[i] \notin controllers' /\ pull'[finished'[i]].status # "new"
  <2> SUFFICES ASSUME NEW i \in DOMAIN finished'
               PROVE  finished'[i] \notin controllers' /\ pull'[finished'[i]].status # "new"
    OBVIOUS
  <2> DEFINE x == finished'[i]
  <2>1. x \in Pulls /\ x # j /\ x \notin controllers /\ x \notin gone /\ pull[x].status # "new"
    BY <1>8, <1>4, <1>3 DEF PInv
  <2>2. x \notin listed \ listed'
    BY <2>1, <1>2
  <2>3. pull'[x] = pull[x]
    BY <2>1, <2>2, <1>2
  <2> QED  BY <2>1, <2>3, <1>2
<1>14. \A i, k \in DOMAIN finished' : i # k => finished'[i] # finished'[k]
  <2> SUFFICES ASSUME NEW i \in DOMAIN finished', NEW k \in DOMAIN finished', i # k
               PROVE  finished'[i] # finished'[k]
    OBVIOUS
  <2>1. i + n # k + n
    BY <1>7, <1>1, <1>3
  <2> QED  BY <2>1, <1>8 DEF PInv
<1>15. OneJobPerModel'
  <2> SUFFICES ASSUME NEW i \in controllers', NEW k \in controllers', i # k
               PROVE  pull'[i].model # pull'[k].model
    BY DEF OneJobPerModel
  <2>1. pull'[j].model = m
    BY <1>2
  <2>2. \A x \in controllers : pull'[x].model # m
    BY <1>2, <1>9 DEF PInv
  <2>3. CASE i = j \/ k = j
    BY <2>1, <2>2, <2>3, <1>2
  <2>4. CASE i # j /\ k # j
    BY <2>4, <1>2, <1>9 DEF PInv, OneJobPerModel
  <2> QED  BY <2>3, <2>4
<1> QED  BY <1>7, <1>10, <1>11, <1>12, <1>13, <1>14, <1>15 DEF PInv

LEMMA HostFinishesSound ==
    ASSUME PInv, NEW j \in Pulls, HostFinishes(j)
    PROVE  PInv'
<1>1. /\ pull' = [pull EXCEPT ![j].status = "installed"] /\ pull[j].status = "running"
      /\ UNCHANGED <<listed, controllers, finished>>
  BY DEF HostFinishes
<1>2. /\ pull' \in [Pulls -> [model : Models \cup {NoModel}, status : Statuses]]
      /\ \A i \in Pulls : pull'[i].model = pull[i].model /\ (Busy(i)' <=> Busy(i))
      /\ \A i \in Pulls : pull'[i].status = "new" => pull[i].status = "new"
  BY <1>1 DEF PInv, Busy, Statuses
<1>3. OneJobPerModel'
  BY <1>1, <1>2 DEF PInv, OneJobPerModel
<1>4. \A i \in DOMAIN finished : finished[i] \in Pulls
  BY DEF PInv
<1> QED  BY <1>1, <1>2, <1>3, <1>4 DEF PInv

LEMMA PullEndsSound ==
    ASSUME PInv, NEW j \in Pulls, PullEnds(j)
    PROVE  PInv'
<1>1. PICK status \in {"done", "error", "canceled"} : Ends(j, status)
  BY DEF PullEnds
<1>2. j \in controllers /\ j \in listed
  BY DEF PullEnds, PInv
<1>3. /\ pull' = [pull EXCEPT ![j].status = status]
      /\ finished' = Append(finished, j) /\ controllers' = controllers \ {j} /\ listed' = listed
  BY <1>1, <1>2 DEF Ends
<1>4. /\ pull' \in [Pulls -> [model : Models \cup {NoModel}, status : Statuses]]
      /\ \A i \in Pulls \ {j} : pull'[i] = pull[i]
      /\ pull'[j].status = status
  BY <1>3 DEF PInv, Statuses
<1>5. finished \in Seq(Pulls) /\ Len(finished) \in Nat /\ DOMAIN finished = 1 .. Len(finished)
  BY DEF PInv
<1>6. /\ finished' \in Seq(Pulls) /\ DOMAIN finished' = 1 .. Len(finished) + 1
      /\ finished'[Len(finished) + 1] = j
      /\ \A i \in DOMAIN finished : finished'[i] = finished[i] /\ finished[i] \in Pulls \ {j}
  BY <1>2, <1>3, <1>5 DEF PInv
<1>7. \A i \in Pulls : i \in controllers' <=> Busy(i)'
  BY <1>3, <1>4 DEF PInv, Busy
<1>8. \A i \in DOMAIN finished' :
          finished'[i] \notin controllers' /\ pull'[finished'[i]].status # "new"
  BY <1>3, <1>4, <1>5, <1>6 DEF PInv
<1>9. \A i, k \in DOMAIN finished' : i # k => finished'[i] # finished'[k]
  BY <1>5, <1>6 DEF PInv
<1>10. OneJobPerModel'
  BY <1>3, <1>4 DEF PInv, OneJobPerModel
<1> QED  BY <1>3, <1>4, <1>6, <1>7, <1>8, <1>9, <1>10 DEF PInv

-----------------------------------------------------------------------------

\* No handler and no pull at the start.
LEMMA OInvInit == OInit => OInv
<1> SUFFICES ASSUME OInit PROVE OInv
  OBVIOUS
<1>1. CInv
  BY CInvInit DEF OInit
<1>2. QInv
  BY DEF OInit, QInv, Idle, At
<1>3. PInv
  BY DEF OInit, PInv, NoPull, Busy, Statuses, OneJobPerModel
<1> QED  BY <1>1, <1>2, <1>3 DEF OInv

LEMMA RestartAllSound ==
    ASSUME OInv, NEW e \in Envs, NEW torn \in BOOLEAN, RestartAll(e, torn)
    PROVE  OInv'
<1>1. CInv'
  BY CInvNext DEF OInv, RestartAll, CNext
<1>2. QInv'
  BY DEF RestartAll, QInv, Idle, At
<1>3. PInv'
  BY DEF RestartAll, PInv, NoPull, Busy, Statuses, OneJobPerModel
<1> QED  BY <1>1, <1>2, <1>3 DEF OInv

\* Every step keeps the invariant.
LEMMA OInvNext == OInv /\ [ONext]_ovars => OInv'
<1> SUFFICES ASSUME OInv, [ONext]_ovars PROVE OInv'
  OBVIOUS
<1>1. ASSUME CNext, UNCHANGED <<req, jobs>> PROVE OInv'
  BY <1>1, CInvNext, QFrame, PFrame DEF OInv, jobs
<1>2. CASE ReadConfig /\ UNCHANGED <<installed, req, jobs>>
  BY <1>1, <1>2 DEF CNext
<1>3. CASE EditStep
  <2>1. CASE Tick /\ UNCHANGED <<installed, req, jobs>>
    BY <1>1, <2>1 DEF CNext
  <2>2. CASE (\E d \in Edits, t \in 1 .. now : Edit(d, t)) /\ UNCHANGED <<installed, req, jobs>>
    BY <1>1, <2>2 DEF CNext
  <2>3. CASE \E e \in Envs, torn \in BOOLEAN : RestartAll(e, torn)
    BY <2>3, RestartAllSound
  <2> QED  BY <1>3, <2>1, <2>2, <2>3 DEF EditStep
<1>4. CASE SaveStep
  BY <1>1, <1>4 DEF SaveStep, CNext
<1>5. CASE ModelStep
  <2>1. ASSUME NEW m \in Models, DeleteByProvider(m) PROVE OInv'
    <3>1. CInv'
      BY <2>1, CInvNext DEF OInv, DeleteByProvider
    <3> QED  BY <2>1, <3>1, QFrame, PFrame DEF OInv, DeleteByProvider, jobs
  <2> QED  BY <1>5, <2>1, SwitchSound, SwitchWriteSound, DeletionSound DEF ModelStep
<1>6. CASE PullStep
  <2>1. CInv'
    <3>1. UNCHANGED cvars
      BY <1>6 DEF PullStep, StartPull, HostFinishes, CancelPull, PullEnds, Ends,
                  PullDirect, DirectPullEnds
    <3> QED  BY <3>1, CInvNext DEF OInv
  <2>4. QInv'
    <3>1. CASE UNCHANGED req
      BY <3>1, QFrame DEF OInv
    <3>2. ASSUME NEW r \in Requests, NEW m \in Models, PullDirect(r, m) PROVE QInv'
      BY <3>2 DEF OInv, QInv, PullDirect, At
    <3>3. ASSUME NEW r \in Requests, DirectPullEnds(r) PROVE QInv'
      BY <3>3 DEF OInv, QInv, DirectPullEnds, Return, Idle, At
    <3> QED
      BY <1>6, <3>1, <3>2, <3>3 DEF PullStep, StartPull, HostFinishes, CancelPull, PullEnds, Ends
  <2>5. ASSUME NEW r \in Requests, DirectPullEnds(r) \/ \E m \in Models : PullDirect(r, m)
        PROVE  PInv'
    BY <2>5, PFrame DEF OInv, DirectPullEnds, PullDirect, jobs
  <2>2. ASSUME NEW j \in Pulls, CancelPull(j) PROVE PInv'
    BY <2>2, PFrame DEF OInv, CancelPull
  <2>3. PInv'
    BY <1>6, <2>2, <2>5, StartPullSound, HostFinishesSound, PullEndsSound DEF OInv, PullStep
  <2> QED  BY <2>1, <2>3, <2>4 DEF OInv
<1>7. CASE UNCHANGED ovars
  BY <1>7, CInvNext, QFrame, PFrame DEF OInv, ovars, jobs
<1> QED  BY <1>2, <1>3, <1>4, <1>5, <1>6, <1>7 DEF ONext, Step

\* Every reachable state: the configuration is sound, and the list of pulls, the
\* controllers and what runs agree.
THEOREM AdminInvariant == OSpec => []OInv
BY OInvInit, OInvNext, PTL DEF OSpec

\* The same over switches of the model, which write the section that is served.
THEOREM EnvWinsOverSwitches == OSpec => []EnvWins
<1>1. OInv => EnvWins
  BY DEF OInv, CInv, Sound, EnvOf, Overrides, cfg, EnvWins
<1> QED  BY <1>1, AdminInvariant, PTL

\* The file on disk, if the server has seen its time, is the one it serves,
\* switches of the model included.
THEOREM FileIsServedOverSwitches == OSpec => []ServedFollowsFile
<1>1. OInv => ServedFollowsFile
  BY DEF OInv, CInv, Sound, FileOf, cfg, ServedFollowsFile
<1> QED  BY <1>1, AdminInvariant, PTL

\* A saved form keeps the other sections of a file the server has read.
THEOREM FormKeepsSections == OSpec => MailKeepsSections
<1>1. OInv => [\A change \in [MailKeys -> Values \cup {Absent}] :
                  SaveMail(change) /\ disk \in Contents /\ ~skewed =>
                      \A k \in Keys \ MailKeys : disk'[k] = disk[k]]_cvars
  BY MailStep DEF OInv
<1> QED  BY <1>1, AdminInvariant, PTL DEF MailKeepsSections

\* No two jobs pull one model at a time, whatever MAX_RETAINED_JOBS is and whatever
\* the /llm route pulls beside them.
THEOREM PullsDoNotMeet == OSpec => []OneJobPerModel
<1>1. OInv => OneJobPerModel
  BY DEF OInv, PInv
<1> QED  BY <1>1, AdminInvariant, PTL
=============================================================================
