----------------------------- MODULE RuntimeConfig -----------------------------
(***************************************************************************)
(* The runtime configuration: config.yaml, the copy the server keeps of it  *)
(* (server/runtime_config.ts), the admin calls that replace the file        *)
(* (server/routes/config_api.ts, the mail form of routes/admin.ts), and     *)
(* everything that changes it from outside: an editor, a restored backup, a *)
(* server that stops in the middle of a write.  All of the server's own     *)
(* functions are synchronous, so each is one step.                          *)
(***************************************************************************)
EXTENDS Naturals

CONSTANTS
    Keys,      \* the settings, "section.leaf"
    MailKeys,  \* those of the section mail
    Values,
    Defaults,
    Absent,    \* a setting that the file, or the environment, does not have
    Null,      \* what the settings are in a section that is there but empty
    Torn,      \* a file that cannot be read, or is not a YAML object
    Missing,   \* no file
    Envs,      \* the environments the server may be started with
    Edits,     \* what somebody may put in the place of the file
    Puts,      \* the bodies of PUT /admin/config
    MaxTime

Contents == [Keys -> Values \cup {Absent, Null}]
Disks    == Contents \cup {Torn, Missing}
Settings == [Keys -> Values]
Served   == {c \in [Keys -> Values \cup {Null}] : \A k \in MailKeys : c[k] # Null}
Environments == [Keys -> Values \cup {Absent}]
Empty    == [k \in Keys |-> Absent]

ASSUME KeysAssumption == MailKeys \subseteq Keys
ASSUME DefaultsAssumption == Defaults \in Settings
ASSUME SpecialAssumption ==
    /\ Values \cap {Absent, Null} = {} /\ Absent # Null
    /\ Torn \notin Contents /\ Missing \notin Contents /\ Torn # Missing
ASSUME InputsAssumption ==
    /\ Envs \subseteq Environments /\ Edits \subseteq Disks /\ Puts \subseteq Contents
    /\ MaxTime \in Nat \ {0}

VARIABLES
    disk,     \* config.yaml
    mtime,    \* its time of modification
    now,      \* the clock
    last,     \* _lastMtime
    fileCfg,  \* _fileConfig
    served,   \* _cached
    env,      \* the environment of this process
    loaded,   \* history: some file has been loaded since the start
    skewed    \* history: the file was put there with a time the server had already seen

cvars == <<disk, mtime, now, last, fileCfg, served, env, loaded, skewed>>

-----------------------------------------------------------------------------
(* The functions of runtime_config.ts, on a record of what they change.      *)

Files == [disk : Disks, mtime : Nat, last : Nat, file : Contents, served : Served,
          loaded : BOOLEAN, skewed : BOOLEAN]
cfg == [disk |-> disk, mtime |-> mtime, last |-> last, file |-> fileCfg, served |-> served,
        loaded |-> loaded, skewed |-> skewed]
Becomes(s) ==
    /\ disk' = s.disk /\ mtime' = s.mtime /\ last' = s.last /\ fileCfg' = s.file
    /\ served' = s.served /\ loaded' = s.loaded /\ skewed' = s.skewed

\* Defaults, then the file, then the environment: it skips a section that the file
\* has emptied, which is served as null.
Merge(e, f) ==
    [k \in Keys |-> IF f[k] = Null THEN Null
                    ELSE IF e[k] # Absent THEN e[k] ELSE IF f[k] # Absent THEN f[k] ELSE Defaults[k]]

\* An empty section mail makes the merge throw: it is looked into afterwards.
Mergeable(f) == \A k \in MailKeys : f[k] # Null

\* Mutant: a file that cannot be merged makes the defaults come back.
LoadOrReset(s, e) ==
    IF s.disk = Torn THEN [s EXCEPT !.last = s.mtime, !.served = Defaults]
    ELSE IF Mergeable(s.disk)
         THEN [s EXCEPT !.last = s.mtime, !.file = s.disk, !.served = Merge(e, s.disk), !.loaded = TRUE]
         ELSE [s EXCEPT !.last = s.mtime, !.file = s.disk]

\* The time is remembered before the file is read and parsed: a file that does
\* not parse or merge is not tried again, and what was served is served on.
Load(s, e) ==
    IF s.disk = Torn THEN [s EXCEPT !.last = s.mtime]
    ELSE IF Mergeable(s.disk)
         THEN [s EXCEPT !.last = s.mtime, !.file = s.disk, !.served = Merge(e, s.disk), !.loaded = TRUE]
         ELSE [s EXCEPT !.last = s.mtime, !.file = s.disk]

\* _reloadIfChanged.  A missing file is written, and read on the next call.
Reload(s, e, t) ==
    IF s.disk = Missing
    THEN [s EXCEPT !.disk = Defaults, !.mtime = t, !.last = 0, !.skewed = FALSE]
    ELSE IF s.mtime <= s.last THEN s ELSE Load(s, e)

\* Mutant: the remembered time stays when the server writes the file itself.
WriteKeepingTime(s, c, e, t) ==
    Reload([s EXCEPT !.disk = c, !.mtime = t, !.skewed = FALSE], e, t)

\* writeRuntime replaces the whole file.
WriteRuntime(s, c, e, t) ==
    Reload([s EXCEPT !.disk = c, !.mtime = t, !.last = 0, !.skewed = FALSE], e, t)

\* initRuntime in a process that has just started.
InitRuntime(s, e, t) ==
    Reload([s EXCEPT !.last = 0, !.file = Empty, !.served = Defaults, !.loaded = FALSE,
                     !.skewed = FALSE], e, t)

CInit ==
    /\ env \in Envs /\ now = 1
    /\ \E d \in Edits :
           LET s == InitRuntime([disk |-> d, mtime |-> 1, last |-> 0, file |-> Empty,
                                 served |-> Defaults, loaded |-> FALSE, skewed |-> FALSE], env, 1)
           IN  /\ disk = s.disk /\ mtime = s.mtime /\ last = s.last /\ fileCfg = s.file
               /\ served = s.served /\ loaded = s.loaded /\ skewed = s.skewed

-----------------------------------------------------------------------------
(* The calls.                                                                *)

\* Any call that asks for the configuration: a chat, a mail, GET /admin/config.
ReadConfig ==
    /\ Becomes(Reload(cfg, env, now))
    /\ UNCHANGED <<now, env>>

\* validateRuntime: every section that is there is an object with fields of the right type.
Valid(c) == \A k \in Keys : c[k] # Null

\* PUT /admin/config: once the body is there, all of it is one step.
PutConfig(c) ==
    /\ Valid(c)
    /\ Becomes(WriteRuntime(cfg, c, env, now))
    /\ UNCHANGED <<now, env>>

\* Mutant: the form is written without the sections the file has.
MailAlone(s, change) ==
    [k \in Keys |-> IF k \notin MailKeys THEN Absent
                    ELSE IF change[k] # Absent THEN change[k] ELSE s.served[k]]

\* The form laid over what is served, and that over the other sections of the file.
WithMail(s, change) ==
    [k \in Keys |-> IF k \notin MailKeys THEN s.file[k]
                    ELSE IF change[k] # Absent THEN change[k] ELSE s.served[k]]

\* POST /admin/config/mail asks twice for the configuration before it writes; a
\* password that is empty or the mask is Absent in change.
SaveMail(change) ==
    LET s == Reload(Reload(cfg, env, now), env, now)
    IN  /\ Becomes(WriteRuntime(s, WithMail(s, change), env, now))
        /\ UNCHANGED <<now, env>>

\* Somebody replaces the file, by an older one with its own time perhaps; or it can
\* be read again, with the time it had when that failed.
Edit(d, t) ==
    /\ disk' = d /\ mtime' = t
    /\ skewed' = (t <= last)
    /\ UNCHANGED <<now, last, fileCfg, served, env, loaded>>

Tick ==
    /\ now < MaxTime /\ now' = now + 1
    /\ UNCHANGED <<disk, mtime, last, fileCfg, served, env, loaded, skewed>>

\* The server stops, between two calls or with the file truncated and not yet
\* written, and is started again.
Restart(e, torn) ==
    /\ env' = e
    /\ Becomes(InitRuntime(IF torn THEN [cfg EXCEPT !.disk = Torn, !.mtime = now] ELSE cfg, e, now))
    /\ UNCHANGED now

CNext ==
    \/ ReadConfig
    \/ \E c \in Puts : PutConfig(c)
    \/ \E change \in [MailKeys -> Values \cup {Absent}] : SaveMail(change)
    \/ \E d \in Edits, t \in 1 .. now : Edit(d, t)
    \/ Tick
    \/ \E e \in Envs, torn \in BOOLEAN : Restart(e, torn)

CSpec == CInit /\ [][CNext]_cvars

-----------------------------------------------------------------------------
(* What it promises.                                                         *)

CTypeOK ==
    /\ disk \in Disks /\ mtime \in Nat \ {0} /\ now \in Nat \ {0} /\ last \in Nat
    /\ fileCfg \in Contents /\ served \in Served /\ env \in Envs
    /\ loaded \in BOOLEAN /\ skewed \in BOOLEAN

\* "Env vars ALWAYS override file values" (runtime_config.ts), from the first
\* file that could be loaded on, whatever is done to the file - but for what is
\* in a section that the file has emptied, where nothing is served.
EnvWins ==
    loaded => \A k \in Keys : env[k] # Absent =>
        served[k] = env[k] \/ (k \notin MailKeys /\ served[k] = Null)

\* A file that could be loaded and is not newer than the last one read is the
\* one that is served, merged with the environment: no edit and no save is
\* missed, unless the file came with a time the server had already seen.
ServedFollowsFile ==
    disk \in Contents /\ mtime <= last /\ ~skewed =>
        /\ fileCfg = disk
        /\ Mergeable(disk) => served = Merge(env, disk)

\* What the mail form does not show is what it was in the file (routes/admin.ts,
\* "other sections ... are preserved untouched"), if the server could read that.
MailKeepsSections ==
    [][\A change \in [MailKeys -> Values \cup {Absent}] :
          SaveMail(change) /\ disk \in Contents /\ ~skewed =>
              \A k \in Keys \ MailKeys : disk'[k] = disk[k]]_cvars
=============================================================================
