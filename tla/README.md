# A TLA+ verification of OB2 TurboQuant

OB2 TurboQuant keeps documents by domain, embeds them, and serves them to LLM
clients as compressed context. A Deno gateway (`server/`) speaks HTTP and MCP
and drives a retrieval sidecar (`retrieval/sidecar.py`, or its Rust port
`sidecar-rs/`) over JSON-RPC on stdin and stdout. The sidecar stores documents
in SQLite and, in the default configuration, copies them to pgvector in the
background. A second Deno program, `llamacpp-manager/`, runs a `llama-server`
process on request.

This directory holds TLA+ models of the parts of the system where order,
failure and concurrency matter, the TLC configurations that check them on small
instances, and proofs, checked by TLAPS, for every value of the constants.
`PROJECT.json` relates every definition to the lines it models and lists the
runs, the hazards, the findings and the theorems.

Contents: 1 the system; 2 the modules; 3 what is checked; 4 fairness; 5 what is
proved; 6 where code and documentation disagree; 7 what is not modelled; 8 the
plan.

## 1. The system

| Component | State | Operations | Talks to |
|---|---|---|---|
| Two-tier storage (`retrieval/storage/`) | SQLite rows with `synced_at`; pgvector rows; the SyncWorker with its lock and backoff | upsert, batch upsert, delete, delete domain, reads, close; the drain every few seconds | PostgreSQL |
| Engines (`retrieval/sidecar.py`) | `_engines`, one index per domain, in memory | capture, batch capture, describe, create and delete domains, retrieve, build context | storage, under its own RPC loop; the extraction thread writes rows too |
| Graph (`retrieval/sidecar.py`) | the extraction queue, backfill jobs, entities, mentions and edges | extract, backfill, rerank, aliases | storage, an LLM over HTTP |
| RPC link (`server/sidecar.ts`) | pending calls by id, a chain of writes, the buffer of stdout | call, the read loop | the two loops of the sidecar |
| Imports (`server/import/`, `routes/admin.ts`) | the job map and `import-jobs.json`; the uploaded files | upload, crawl, status, sweep | RPC link |
| Reset and invite tokens (`server/auth/reset-tokens.ts`) | `reset-tokens.json`, its copy in memory and the copy's mtime | create, consume, invalidate, purge | mail, the account routes |
| Accounts (`server/users.ts`, `auth/sessions.ts`, `routes/auth.ts`, `routes/admin.ts`, `scripts/reset-admin.ts`) | `users.json`, the sessions in memory | bootstrap, create, revoke, edit by form or as a file, login, logout, change and reset a password | tokens; the script is another process |
| llama.cpp manager (`llamacpp-manager/`) | the child process, `.last_loaded.json`, the model files, `loadMutex` | load, unload, restart, pull, delete, restore at boot | the operating system |
| Runtime configuration (`server/runtime_config.ts`, `routes/config_api.ts`) | `config.yaml`, its loaded copy, what is served, the mtime they are compared by | read, replace, save the mail form, switch the model | every route; an editor or a restored backup |
| Ollama administration (`server/ollama/`, `routes/admin.ts`, `routes/admin_llm.ts`) | the jobs and controllers of the pulls | pull, cancel, switch, delete by two routes | the Ollama host, runtime configuration |
| Permissions, chat, MCP tools, domain routes (`routes/gateway.ts`, `mcp.ts`, `admin.ts`, `users.ts`) | the copy of `users.json` that is checked, and its mtime; one `McpServer` with the transport it is connected to; the rights of a call are taken once | chats, tools, reads and changes of domains | `users.json`, the sidecar, the providers |
| LLM providers and streams (`server/llm/`) | the buffer of a parser, the chunks that wait, what has been sent | parse, encode, cancel | the provider and the client of one request |
| Open WebUI bridge, mail, rate limits, dashboard, CLI | caches and small maps | translations and I/O | other services |

What makes this code hard to test, and what has to be true of it:

* **Storage.** Four threads meet (RPC loop, SyncWorker, closer, extraction).
  `list_unsynced`, the push of each domain and `mark_synced` are separate
  transactions; a delete is two; pgvector may be away at any of them, or accept
  a transaction and lose the answer. Both tiers must end up equal, deleted
  documents must not come back, the backlog must drain, and `close()` must
  return without pulling the connections from under a drain.
* **Engines.** A cached index must not serve what was deleted and must not
  miss what was there when it was filled, whatever happened in between.
* **RPC link and imports.** Pipes cut messages anywhere, the Rust loop answers
  in another order, the process may die. An answer must reach its call, a job
  called `done` must have captured everything, and every import must end.
* **Tokens.** Loads and saves await the file system, and each of these operations may
  fail. A token must work once, and survive until then.
* **Accounts.** A handler that waits for an argon2 hash goes on with what it
  read before. A revoked user must stay out, a
  session must not outlive the password it was opened with, and some global
  admin must always be left.
* **Configuration.** A file that anyone may edit, restore or tear, and a copy
  reloaded by mtime. The newest file must be what is served, the environment
  must win, sections that are empty or not, and a form must not lose what it does not show.
* **Ollama.** A handler that awaits the host goes on with what it compared; the
  list of pulls is trimmed while they run. No two jobs may pull one model at a time.
* **Gateway.** Rights are taken when a call comes, from a copy of `users.json` that is
  reloaded by mtime, and used after an await. Nothing may be found for, or changed by, somebody
  who had no right to it at any time during the call.
* **Streams.** Bytes arrive cut anywhere, connections break, clients leave. An
  answer that says it has finished must be whole, its end is marked once, and it
  must end.
* **llama.cpp manager.** One server on the port, whoever kills and spawns; nobody
  waits for ever; what is restored is what was served; a pull finds the `.partial`
  of one that broke, and two of one name share it.

## 2. The modules

| Module | Models | Builds on |
|---|---|---|
| `TwoTierSync` | `two_tier.py`, the document statements of `sqlite_vec.py` and `pg_vector.py` | |
| `EngineCache` | the engines and the document methods of `sidecar.py` | EXTENDS `TwoTierSync`: every storage step is also a step here |
| `EngineCache_proofs` | the inductive invariants of both, and that each method takes steps of the store, proved | `EngineCache` |
| `TokenService` | what the token store promises: an abstract specification | |
| `ResetTokens` | `reset-tokens.ts` between its awaits, and the file | shown to implement `TokenService` |
| `ResetTokens_proofs` | its inductive invariant and the refinement, for calls that overlap and fail, proved | `ResetTokens` |
| `Accounts` | users, sessions, the handlers of `auth.ts` and `admin.ts`, the break-glass script | `TokenService` (INSTANCE): its token steps are those of the abstract store |
| `Accounts_proofs` | that an admin remains; and what holds of sessions and revocations outside the recorded races, proved | `Accounts` |
| `SidecarRpc` | `sidecar.ts` with the two sidecar loops | |
| `Chunker` | `chunker.ts`: how a text is cut | |
| `ImportJobs` | `runner.ts`, `jobs.ts`, the upload route | EXTENDS `SidecarRpc`: a capture is a call; and `Chunker`: the calls are those of the chunks |
| `ImportJobs_proofs` | the invariants of the link and of the imports, proved | `ImportJobs` |
| `ModelPulls` | `models.ts` of the manager: pulls and the files they write | |
| `LlamaManager` | `main.ts`, `process.ts`, `state.ts` of the manager | EXTENDS `ModelPulls`: what is loaded and deleted are its files |
| `LlamaManager_proofs` | the invariants of the files and of the processes, proved | `LlamaManager` |
| `RuntimeConfig` | `runtime_config.ts`, the calls that replace the file, editors, restarts | |
| `OllamaAdmin` | `pulls.ts`, the switch and the deletions of models | EXTENDS `RuntimeConfig`: a switch is a write of the file |
| `OllamaAdmin_proofs` | the inductive invariants of both and all properties of the run `config`, proved | `OllamaAdmin` |
| `ChatStream` | the parsers and the encoder of one streamed answer | |
| `ChatStream_proofs` | induction and lemmas on sequences; the order of the payloads on the wire, proved | `ChatStream` |
| `Gateway` | permissions, chats, tools and domain routes | EXTENDS `ChatStream`: a chat may end in a stream |
| `Gateway_proofs` | the invariants of the calls and of the streams, proved | `Gateway`, `ChatStream_proofs` |
| `MC...` | small instances for TLC | |

### TwoTierSync

`sq` and `pg` are the two `docs` tables, a row being a domain and a value that
stands for text, embedding and metadata. `pending` is `synced_at IS NULL`;
`older` keeps the order of `doc_key` that the LIMIT of `list_unsynced` follows.
`upsert_doc` commits each of its statements by itself, so that it may be cut off after the row
of `docs` (`UpsertCut`): the row is then in `bare`, waits until it is written again, and neither the drain nor a search
sees it. A batch is one transaction.
One action is one call under SQLite's lock or one PostgreSQL transaction. `Drain`
is `_drain_once` cut at its calls: it lists a batch, pushes it domain by domain,
then marks by `doc_id`. A push may commit and lose its answer; a value in
`Rejected` (a NUL byte in a text, which SQLite takes) fails its transaction each time. A
delete is `DeletePg` then `DeleteSq`, and a crash, a drain or the extraction
thread may come between. `CloseBegins` and the closer's steps are `close()` with the timeout
of its `join`; `Restart` is a stop or a crash at any point, and a new process on the same
files.

`risk` is a history variable: the documents that have met one of the races or
failures in which the code itself gives up agreement (an upsert or a delete
while the row is in a drain's hands; a delete of which one half failed or was
cut off; a move to another domain). The invariants hold for all other documents:
they say that there is no further way to lose agreement, and nothing of the ways on that list, of
which the violation run shows the first. A row that was cut off is no risk to agreement, as it stays pending;
`PendingDrains` names it.

### EngineCache

`cached` is the set of keys of `_engines`, `held` what each engine has indexed.
`CountPg`, `CountPending`, `UseEngine` and `FillFromSQLite` are the reads of
`_get_engine` and of its callers one by one, with the storage threads between
them. Each domain's engine is filled in one list; a document whose text is
blank (`Blank`) stops the filling there. `StampReads` and
`StampWrites` are the end of `method_extract_entities`, on its own thread. `Seeds`
are the documents that create a domain.

### TokenService and ResetTokens

`TokenService` is a store of tokens that are valid, then spent or expired, once
each. It may give tokens up (`forfeit`) and promises nothing of these. `ResetTokens` has the file, the
array in memory, the mtime they are compared by, and requests that stop at each `await`: at the `stat`,
the read, the write of the temporary file, the rename. Any number of requests run between the
awaits of one another, each of the four operations may fail, and the process may stop anywhere. The mtime is
remembered before the read, so that a read that fails leaves the array as it is: after a restart
without any token, and the next save replaces the whole file by it.

`risk` is a history variable, the tokens that the code may lose or accept twice: those of
two calls that are in progress at the same time, those of a call whose write failed or that changed
an array into which nothing had been loaded, and all that were in a file replaced by
such an array. The properties are about every other token, whatever the calls about tokens at risk do
to the array and the file around it. The refinement mapping is the file itself, without the tokens at
risk: each rename is one issue, use, revocation or sweep, and nothing else changes it.

### Accounts

`file` is `users.json`: its functions are synchronous, so each is a step, except
those that await a hash. A handler that does keeps the snapshot it has read in
`req[r].snap` and writes it back later. A login, a change, a reset, a revocation and an invitation are
requests too, each cut at its awaits, and any number of them, with the script (another process, which a restart of the
server does not end), may be in progress. The raw editor (`Raw`) compares the mtime before it writes and is one
step; it takes any entries: users removed, hashes replaced, several at once. Each session carries
the password it was opened under, which the code does not store: it lets
`NoStaleSession` be said. The admin routes have no guard in the model because some global admin, or the
brain key as long as there is none, can always call them. Keys are not in the model: nothing reads
them but the authentication in `Gateway`, where a caller who comes with a key is named by its user.

`risk` is a history variable with the users whom one of these has met: a write while
somebody else holds an older `users.json` that differs in them (`Overtaken`); a new password while
a login or another change of theirs is about to open a session (`Late`); a password set by the script or the raw editor, which close
no session; and `_admin`, if a file written back, or the script, has made the first admin.
`NoStaleSession`, `RevocationHolds` and `NoBootstrapSession` are about the others: how the handlers interleave
does not matter beyond this list. `AdminRemains` has no such exception, from the time on that the file and all snapshots have an admin.

### SidecarRpc and ImportJobs

`SidecarRpc` has the calls by number, the chain of writes, the two pipes with
the room they have (`InRoom`, `OutRoom`, in messages and pieces of messages), and a sidecar
that answers what it has taken in any order (the Rust loop; the Python loop's
order is one of them), until it dies. A task of the Rust loop may panic (`Panic`): the process goes on
and its call is never answered. `Sidecar.close` is modelled by nothing
because nothing calls it. `ImportJobs` adds the imports: `runIngest` with one
call per chunk, the job map in memory, and `persist()`, which writes the map as
it was when it was called, so that two writes can land in the opposite order.

A text is a sequence of lines, and `chunkMarkdown` cuts it as the code does:
sections by headings, trimmed bodies, hard cuts that overlap. A chunk carries the
numbers of the characters it has and of its two headings. `TextIsStored` joins the
two halves: when an import is reported as done, each character of its text has
been stored in a chunk under the headings it stands under, which `Above` says
without walking through the text. `MCImportJobs` checks the same of every text of up
to five lines. `hardCut` never ends if the overlap is not less than a chunk
(`ChunkAssumption`); the one caller takes the defaults, 1500 and 200.

### RuntimeConfig and OllamaAdmin

Every function of `runtime_config.ts` is synchronous, so that each call is one
step; the steps are written as functions of a record of what they change, as the
code's functions call each other. A setting stands for a section and a leaf, `Null` for a
section that is there and empty: the merge of an empty `mail:` throws after the
file has been taken over; any other empty section is merged as null, and what the environment has for it is
skipped. `Torn` is a file that cannot be parsed, or read at the moment; when it can be read again it has the time
that has been remembered (`Edit`, `skewed`). Time is that of the file system: two writes in one
tick have one mtime. `skewed` records that the file was put there with a time the
server had already seen, which it cannot notice.

`OllamaAdmin` adds handlers that wait for the host, and the pulls: `_jobs` and
`_controllers` are two maps with two lives, since the list is trimmed and the
controller goes when the pull ends. `POST /admin/llm/pull` is outside both (`PullDirect`): it has the host pull
a model whoever else does, so that `OneJobPerModel` is about jobs. `Delete` compares the model with the
active one, then awaits the unload, and a switch or an edit may make it the active one meanwhile;
`DeleteByProvider` compares nothing. So the active model can be deleted, and no property says otherwise.
Whether a stream that ends early counts as done is left open, as in the code.

### ChatStream and Gateway

In `ChatStream` the wire is a sequence of halves of payload lines and of the ends
of lines, CR LF or LF; `Read` takes any number of them. Each provider has its way
to frame payloads and to understand them (`OpenAi` is also llama.cpp). The queue
of the parser's `ReadableStream` is unbounded, as in the code in effect: nothing
asks for it to be read before it goes on.

`Gateway` has a record for each call in progress: who asks, which domains it has
been allowed, what it has found. `Bearer` and `Mcp` are the two doors with their
credentials; every tool and every domain route is an action with its door, its
level and the effect it has in the sidecar later (`Looks`, `Changes`).

The doors read `users`, the copy (`_users`). `Reloads` is `_reloadIfChanged`, a part of every
request: a file that is newer (`copy = "due"`) replaces the copy; one that cannot be read leaves it and is not
tried again, nor is one that has come with an older time (`"behind"`). `SaveUsers` is every
function that writes the file: it must leave a global admin or only add a user, and is in force at once.
`EditFile` puts anything in its place at any moment, a torn file included, and one behaviour begins with one. `Law` is what is
in force by this: the file, or what had been loaded if the file cannot be read or came with an older time.
`may` is a history variable: the rights the caller had by `Law` at some time since the call began. A chat
without a domain takes all names in the caller's entry, also one with a word that is no level.

One `McpServer` serves all MCP requests. `Connects` connects it to the request's transport; when the body has been read (`HandleRequest`)
the answer is bound to the transport that is connected by then, so that with overlapping
requests it goes to another client or is lost (`Given`, `to`, `handed`). What the library does is
external; that the code connects one server again and again is not.

`Mixes` says which kinds of steps meet in one behaviour, how many calls, which domains they name and with which file
it begins; each behaviour draws one at the start.

### ModelPulls and LlamaManager

`ModelPulls` tells files from their names, since a writer keeps the file it has
opened when the rename moves it. `Open` truncates the `.partial` that is there, `Piece`
writes at the writer's own place, or is left out, wholly or in part, since nobody looks at what `write()` returns;
the body may end before the announced length (`LastPiece`), which is not compared; `RenamePartial` takes what has
the name by then.
Nobody removes a `.partial`; a pull that broke, or that a stop of the container ended,
leaves it to the next one. `cut` is a history variable: the files whose body ended early or lost bytes; they are
installed like the others, and `InstalledIsSent` says of them that they hold bytes of one source in order, of
all others that they are whole. `shared` has the files that were
opened while another pull of the name was in progress. Two such pulls do mix their bytes, and
nothing in the code promises otherwise. The client may leave at any time: the
pull goes on, so leaving is no step. Checks of names and addresses only refuse.

Requests are chained by `loadMutex` (`queue`), except deletes and the restore at boot
(`Boot`). A child process is named by the request that spawned it. When a process
ends, its exit watcher, the waiting `kill()` calls and what follows them run in
the same turn of the event loop; `Microtasks` gives them the order they have: those
that had sent SIGKILL, what follows in their operations, then the rest. `meddled`
records that the restore killed a child while the routes were in use; the
properties hold up to that, and section 6 names it.

## 3. What is checked

Every run ends with its whole state space explored.

| Run | Question | Properties |
|---|---|---|
| `tier_safety` | Do the tiers agree under every order of writes, deletes, drains, outages, refused rows, close and crashes? | `TypeOK`, `IInv`, `SettledRowsAgree`, `NoZombies`, `NoDrainAfterClose` |
| `tier_progress` | Does the backlog drain, does `close()` return? | `PendingDrains`, `CloseReturns` |
| `tier_update_race` (violated) | Is every update pushed, as a comment says? | `UpdatesReachPg` |
| `engine_safety` | Do engines serve only live documents and miss none they could see? | `EngineServesLiveDocs`, `EngineMissesOnlyMissed` |
| `tokens` | Two calls that overlap, reads and writes that fail, restarts at every await: is the store what it promises of the tokens that met none of these? | `SingleUse`, `SpentIsGone`, `GivenIsKept`, `ImplementsService` |
| `tokens_overlap` (violated) | Is every token single-use, as a comment says? | `TokensAreSingleUse` |
| `accounts` | Handlers of every kind beside another password change, the script and the raw editor, from an empty server or a running one: is an admin left, do sessions and revocations hold outside the recorded races? | `TypeOK`, `AdminRemains`, `NoStaleSession`, `RevocationHolds`, `NoBootstrapSession` |
| `accounts_revoke` (violated) | Does a revocation survive a password change in progress? | `RevokedStaysOut` |
| `imports` | Two imports over the pipes of a sidecar that may die, job files written in any order, restarts: is all of the text stored? | `NoneLost`, `TextIsStored`, `NoGaps`, `RunningIsRun`, `OriginalIsKept`, `ImportsEnd` |
| `llama` | Overlapping loads, unloads, restarts and deletes beside the restore; pulls that break, are cut and meet | `OneServer`, `LoadNotKilled`, `LastIsServed`, `InstalledIsSent`, `RequestsEnd` |
| `config` | Saves, edits, old backups, empty sections, torn files and restarts; switches, deletions and pulls that overlap them | `EnvWins`, `ServedFollowsFile`, `MailKeepsSections`, `OneJobPerModel` |
| `gateway` | Chats, tools and routes of every kind of caller while `users.json`, its copy and the domains change, MCP requests that overlap; answers cut and broken anywhere | `GroundedInReadable`, `ChangesAreAllowed`, `FinishMeansComplete`, `MarkedOnce`, `StreamEnds` |

Each property of a passing run has a mutant: a changed definition (a dropped
guard, a missing reset) under which the same run fails.

### Bounds

* **Storage.** Two documents and two domains are enough for two rows of one
  batch in two domains, for a row that moves, and for one that overtakes another.
  `BatchSize` is 2 for safety (a partial push needs two domains in one batch) and 1
  for progress (a batch must leave something behind). Two values, one of them
  refused, tell an update from its predecessor. The bounds are on data only: any
  number of writes, outages, crashes and restarts is explored.
* **Engines.** One captured document and one seed in one domain; engines of
  different domains share no state. Ids are used once (`used`): imports and MCP
  captures make new ones.
* **Tokens.** Two tokens of one user and two requests: a call about one token can overlap a call about
  the other, about the same one, or about all of the user. `MaxTime` is 3: three writes of the file, so that two can land
  in the opposite order after a first one. The proof has no bound on tokens, users or requests.
* **Accounts.** Two users, two passwords and one token, an invite; four calls (`MaxCalls`) of handlers, the script and the
  raw editor: enough for a change, another change, a login and a revocation of one user. One request may be of any kind, the other sets a
  password (`Kinds`); more of them, and other pairs, need the proof, which has no bound but `MaxCalls`, any number. The raw editor has a file with an entry
  removed, one with a hash replaced, and one with two entries changed.
* **Configuration.** Two settings, one of them of the mail section, three values,
  three environments, six files (one with an empty mail section, one with an empty other one, a torn one and none)
  and two ticks (`MaxTime`): enough for a file older than, as old as and newer than the copy.
  Two handlers, two models, three pulls with one retained (`MaxRetained`): one pull is
  trimmed while another one runs. `Mixes` lets two kinds of calls meet in a behaviour,
  with reads among them; the proofs have none of these bounds.
* **Gateway.** Two users, of whom one is a reader, disabled or an editor and the other a global admin or a reader, in three files; a document in each of two
  domains. Two calls meet where they share the one `McpServer`, or two chats; one call at a time meets the changes of `users.json`
  (`Mixes`), since calls otherwise share only the domains and the copy. One behaviour begins with a `users.json`
  that cannot be read. Answers of up to
  four payloads, for each provider with its ending and without; the client may leave and
  the connection break at any point.
* **Imports.** A text of one section that is cut in two and a page whose heading has
  no text (`MaxChars` 2, `Overlap` 1): a file of two chunks and a page of one, one message of room in
  stdin and three pieces in stdout: less than the calls, so that writes block.
* **llama.** In each behaviour two requests, a request and a pull, or two pulls meet
  (`Mixes`), beside the restore, with two models and sources of one, two and (one too many) three
  pieces: a pull shorter than what a broken one left is among them. Reboots are
  unbounded, and requests do not come back after them. A variant with three
  requests (safety only) finds nothing else.

## 4. Fairness

* `TwoTierSync`: weak fairness of the drain, of the worker's loop and of the
  closer. Threads that can run do run, a PostgreSQL call returns or fails within its timeouts, a
  backoff sleep ends. None for writes, crashes or PostgreSQL's recovery:
  `PendingDrains` assumes that pgvector stays up in the end and that nobody
  writes, deletes or closes any more.
* `ImportJobs`: the pipes move, the sidecar's loop takes and answers, its
  methods return, file writes end. None for the sidecar's death. `ImportsEnd`
  says that an import ends unless the sidecar has died: then the code waits for
  ever, which is the hazard at `sidecar.ts:72`.
* `LlamaManager`: the event loop turns, timers fire, a process sent SIGKILL
  ends. None for a process that comes up, answers or obeys SIGTERM.

* `ChatStream`: the provider goes on sending what its answer has, and the two
  loops go on. None for the end of the connection: `StreamEnds` says that an
  encoder ends once the answer's own ending has been sent, also if the provider
  keeps the connection open. None for handlers of `Gateway`.

`TwoTierSync`'s safety run, `EngineCache`, `ResetTokens`, `Accounts`, `RuntimeConfig` and
`OllamaAdmin` assume no fairness.

## 5. What is proved

All theorems hold for every value of the constants, from the named assumptions
of the modules. No proof has an unproved leaf.

**`EngineCache_proofs`**, of the store, from `BatchAssumption` (the batch is not empty) and
`DataAssumption` (the absence of a row is not a row).

* `InductiveInvariant`: `Spec => []IInv`, with `TypeCorrect`, `TiersAgree`,
  `NoneComesBack` (`NoZombies`) and `CloseIsSafe` drawn from it.
* `SettledRowsAgree` (a row not pending is equal in both tiers, outside `risk`)
  is not inductive: a drain marks rows by id after it has pushed them. `FlightInv` says what is
  true in the drain's hands: a row not pushed yet is pending and as it was
  listed, a pushed one is in pgvector. `DeleteInv` does the same for a delete
  between its halves, `LockInv` ties the lock to the places of the
  threads; from the latter `NoDrainAfterClose` follows. The proof has one step
  per action.

**`EngineCache_proofs`**, of the engines, from the same and `HomeAssumption` (each document has a domain).

* `MethodsUseTheStore` is `ESpec => Spec`: what a method does to the tables is a step of
  `TwoTierSync`, so the store's invariant holds under the sidecar and its theorems carry over.
* `ServedIsLive` and `MissedIsKnown` prove the two properties of the run. They need that a
  document has one text wherever it is (`TextInv`: in the tables, in a drain's hands, in the
  extraction thread's; `OneTextPerDocument`) and one domain (`HomeInv`), since an engine is
  filled from one table while rows move to the other. `UsedInv` keeps the
  extraction thread, which writes back what it has read, from making a document that was never captured.

**`ResetTokens_proofs`**, from `OwnerAssumption` and `NobodyAssumption`, for any number of calls that overlap.

* `UsedOnce`, `SpentStaysGone` and `GivenStays`; `FileIsTheService` is the refinement:
  the file without the tokens at risk behaves as `TokenService` says.
* `RInv` follows each token by itself, because the array and the file differ by what all calls have
  changed and not written. A token not at risk is the concern of one call at most (`AloneInv`). As long as it
  is of none, array, file and every copy that will become either agree on it (`CopyInv`); while it is, they
  differ by that call's change until the rename (`TokenInv`). So other calls may load old files, write in any order and
  fail, and carry the token along unchanged. `PlaceInv` says of a call that works on an array into which nothing was
  loaded that all it can write, and all it replaces, is at risk.

**`Accounts_proofs`**, from `OwnerAssumption`, `FilesAssumption`, `BoundAssumption` and `NamesAssumption`, for any number of handlers that overlap.

* `InductiveInvariant` with `TypeCorrect`, `OldSessionsAreGone`, `RevokedAreOut` and `BrainKeyIsOut`. The
  invariant is about what each handler holds (`CallOK`): of the users outside `risk` its snapshot says what the file says,
  so that writing it back undoes nothing of theirs; and one that is about to open a session does so under the password
  that is in the file.
* `AnAdminRemains`: once the file and every snapshot that somebody will write back have a global admin (`Sealed`), that stays so,
  with no exception for `risk`. It shows why the lost updates of section 6 do not cost the last
  admin: no stale content is without one.

**`ImportJobs_proofs`**, from `RoomAssumption` (the pipes have room), `ImportsAssumption`
(each import has a list of chunks, is an upload or not) and `JobAssumption`.

* `NoCallIsLost` proves `NoneLost`: a call that waits is in the queue, in a pipe, at work or
  answered, in one of them. Neither half is inductive. `LinkInv` adds that no
  call is twice in a queue, and that what is on its way back (`Stream`: the reader's buffer,
  the pipe, and what the sidecar still has to write) is made of pairs of pieces that open and close one
  answer, of which the buffer holds at most the first: however the pipe cuts
  them, `readLoop` parses whole lines.
* `TextsHaveNoGaps`: an answer that says ok has its row (`RowInv`), and a chunk is only
  issued when those before it are rows. `OriginalsStay` is about the upload's file
  (`FileInv`), `ShownJobsRun` about the jobs that are not ended (`JobInv`).
* `AllTextIsStored` looks at all tables of jobs at once, in memory, on disk and in the
  writes between (`Tables`, `DoneInv`), because writes that land in the opposite order bring old tables
  back. It has one hypothesis, `TextsAreCut`: the chunks have all of the text. That is what
  the chunker promises, and what `MCImportJobs` checks of every text of up to five lines; for every
  text it would take an induction.

**`OllamaAdmin_proofs`**, which also has the proofs of `RuntimeConfig`, from the assumptions of
the two modules: the special values are none of the settings, the files and bodies that are
enumerated are files, models are values, and only finitely many pulls are known at a time.

* `TheEnvironmentWins` and `EnvWinsOverSwitches` have the exception that `EnvWins` has: a section, other than mail, that
  the file has emptied, and that is served as null (`Served` is the type of this).
* Each step of the configuration is a function of a record, so the invariant
  (`Sound`) is one of a record and an environment, and its core is `ReloadSound`:
  a call of `_reloadIfChanged` keeps it, whatever is on disk. A write or a new
  process sets the remembered time to 0, about which the invariant says nothing
  (`UnseenSound`), and then reloads. `ServedFollowsFile` needs its history `skewed` in the
  invariant: an edit may make it false, and only a newer time makes it true again.
* `MailStep` follows the form through two reloads and a write: the file is loaded by
  the time the form is laid over it (`ReloadKeepsDisk`).
* `OllamaAdmin` writes the file too, so `AdminInvariant` is about its own steps.
  `PullsDoNotMeet` proves `OneJobPerModel`, which is not inductive: the next pull is refused by looking at the
  list, which is trimmed. `PInv` says that what has a controller runs and is listed, and
  that the jobs that may be trimmed have all ended, each one listed once.

The run `config` checks the same properties on a small instance; the proofs hold
for any number of settings, handlers, pulls and retained jobs, and without `Mixes`'
separation.

**`Gateway_proofs`**, from `HomeAssumption` (the caller without a name is no user),
`FilesAssumption` (`users.json` holds records or cannot be read) and `AnswersAssumption` (answers are
sequences of payloads, of the kinds that have a meaning for the provider's parser).

* `OnlyReadableIsGiven` and `OnlyAllowedChanges` prove `GroundedInReadable` and
  `ChangesAreAllowed`. The first is not inductive: what is found later depends on
  the domains that a call has been allowed before. `GInv` adds what each call may
  still need (`Entitled`): the levels of its operation (`Need`) on its domains,
  and all domains while an admin's are being listed.
* `AInv` says that a copy that has been read is that of the file, so that what a request is checked
  against is `Law` (`ReloadedIsLaw`).
* `DoorRights` is the core: whatever door a caller has come through, the rights
  that the authentication stands for are those that `may` notes. The door
  without a user passes only before there is a global admin (`KeyRights`). The
  steps that follow only add to `may`, so a later edit of `users.json` takes nothing away.
* `EndIsMarked` proves `MarkedOnce`: `[DONE]` comes last, once, after a finish or an error.
  `MarkInv` looks at the chunks as well: a parser that has said done and not failed has left that
  chunk for the encoder, and an encoder that closes for a client who is still there has
  marked the end, unless its source ended without saying so.
* `FinishIsComplete` proves `FinishMeansComplete` for answers of any length and bytes cut anywhere,
  in two halves. **The wire** (`ChatStream_proofs`): `WireInv(n)` says of the buffer and what has not
  arrived, taken together, that they hold the payloads after the n-th in their order (`InOrder`), each
  followed by two ends of lines (one for ollama) that stay ends in the buffer whatever a piece
  cuts through: `Normal` drops an LF only after a CR of its own piece, which has become an LF. A frame has no
  separator inside, so it cannot reach past the payload it begins with: it holds payload n + 1
  or none (`FrameKeepsOrder`). **The texts** (`FlowInv`): what the client
  has got, and what the encoder will still take of the chunks that wait (`Owed`: up to the
  first that says done), are together what the n payloads say, until one ends the
  answer; from then on they are all of it. `ParsedSays` is where the four formats meet: the chunks
  made of a payload say what it says, and end as it ends.
* `FlattenSeq` is a recursive function. What it computes follows by an induction
  that `ChatStream_proofs` takes from the library's theorem that intervals are
  well-founded (`Least`, `Induct`): the induction theorems with an operator as parameter are
  of no use to the provers, one over a set of numbers is.
* The proof holds for any number of calls and for any `Mixes`, among them the
  one in which everything meets; the run separates them.

**`LlamaManager_proofs`**, from `SizeAssumption`, `FilesAssumption` and `OpsAssumption` (the
restore is no request).

* `InstalledModelsAreSent` proves `InstalledIsSent`. It is not inductive: a rename
  installs whatever has the name. `NameInv` says that a file never changes its name, so that what
  is opened again is never what is installed; `WriteInv` that a file outside `shared`
  has one writer, who holds the `.partial` and has written all that is in it, and all that has come unless it was cut (`Alone`), and that any
  other `.partial` a pull may find at its rename is in `shared`.
* `OneServerOnly`, `LoadsLive` and `RestoredIsServed` prove the properties of the
  processes. `ChainInv` says that whoever is between its first kill and its answer
  has the turn (`loadMutex`); `ChildInv` whose child there may be, by where the request has come;
  `ServedInv` that a loaded child's model is in `.last_loaded.json`. `OrderInv` holds until the restore has killed under a request
  (`meddled`): its victim is its own child, nobody waits for a process that has ended, and a
  request that waits for the same process as the restore comes after it, so that it is not
  the restore that drops the request's child from supervision.
* The run has at most two requests beside the restore, the proof any number.

**Only model-checked:** all liveness (it needs ENABLED, which the prover does not handle), and
`TextsAreCut`, the hypothesis of `AllTextIsStored`: an induction over lines and pieces that
is not written. Every other property of a passing run is stated by a theorem. The abstract token store is used in `Accounts` as `TokenService` specifies
it; `ResetTokens` implements it for any calls, and may give up tokens that met an overlap or a failure; `Accounts` lets
such a token be used again, or not at all, as `TokenService` does.

## 6. Where code and documentation disagree

Shown by a run:

1. `tier_update_race`: an update during a drain is marked synced and never
   pushed (`sqlite_vec.py:931` against the comment at 269).
2. `tokens_overlap`: two requests that overlap both consume one token, because the mtime is remembered before
   the file is read (`reset-tokens.ts:46` against the comment at 10).
3. `accounts_revoke`: a revocation during a password change is undone
   (`users.ts:445` against `docs/api-reference.md:896`).

Seen while modelling; no run is spent on them:

* A token file that could not be read once after a restart is replaced, with all its tokens, by the next save
  (`reset-tokens.ts:46`, `:51`); a save that fails leaves the array changed and the file not.
* A single upsert that is cut off leaves a row without a vector that nothing pushes (`sqlite_vec.py:178`, `:907`).
* A pull whose body ends early is installed (`models.ts:268`).
* What the environment has for a section that the file leaves empty is lost (`runtime_config.ts:359` against the comment at 4).
* An engine filled from pgvector misses the documents that wait in SQLite
  (`sidecar.py:218` against the comment at 275); `missed` in `EngineCache` has them.
* A delete that meets a drain is undone by the push, and a delete while
  pgvector is away leaves its row there, which reads prefer (`two_tier.py:100`,
  `:246`; `sidecar.py:783` says a deleted document does not surface). Both are
  in `risk`.
* `close()` drains one batch, `two_tier.py:16` says it flushes.
* A blank document stops the filling of an engine half way, and the half stays.
* `domain_stats` counts in two reads; a drain between them makes a domain with
  one document look empty, and a query is told that it is unknown.
* The stamp at the end of an extraction writes back a row deleted meanwhile.
* The path of a missing token file can drop the first token (`reset-tokens.ts:53`).
* A login that waits for its hash opens a session after a password change has
  closed the user's sessions. The change of a password skips the check of the
  current one for a user disabled in the middle of the request
  (`routes/auth.ts:359`). A password set during bootstrap undoes the first admin.
* `docs/deployment.md:65` says a fixed secret keeps sessions over restarts; they
  are in memory and go. `:164` documents a timeout of the sync that nothing reads.
* A revoked user's sessions stay in memory and come back if the user is enabled
  again. The break-glass script leaves the brain key's sessions of the running
  server alone.
* The upload route removes the original when a short import throws, also after
  chunks that name it have been captured (`admin.ts:397` says before).
* Two writes of the job file may land in the opposite order. If the first write
  of a job fails, the job stays `queued` in memory; if the write of `error`
  fails, nothing handles the rejection and the server stops.
* The restore at boot kills a load's child, though `main.ts:140` promises a
  load that this does not happen; two `kill()` calls that wait for one process
  can drop the next one from supervision; an unload between the restore's read and its spawn is
  answered and the model is loaded all the same; `/v1/restart` reads the file
  before its turn.
* Configuration: a server started with a file that does not parse, or with none,
  serves the defaults without the environment until the next load
  (`runtime_config.ts:4` and `docs/architecture.md:55` say it always overrides). The
  comment at `admin.ts:919` says that fields pinned by the environment are
  rejected; they are taken, and a save or a switch writes the environment's
  values into the file. A switch of the model writes the section `ollama` alone and
  loses the others (`docs/api-reference.md:611` says it persists `ollama.model`). A restored backup with an older time
  is not noticed until the next write or restart.
* `DELETE /admin/llm/models` deletes the active model unchecked, and the other route after a check that a switch may
  overtake; `POST /admin/llm/pull` pulls a model that a job is pulling; a pull whose
  stream ends without a success counts as done.
* A `users.json` that does not parse, or has an older time than the one before, is not in force until the next save or
  a newer one: who was revoked in it stays (`users.ts:84`). A chat without a domain looks into every
  domain that an entry names, also with a word that is no level (`gateway.ts:339`).
* `users.ts:183` says that the service token alone is refused with 403; it passes
  every check for global administration. `knowledge_stats` checks nothing.
  A capture into an unknown domain creates it, and so does the change of a
  description with domain rights, though `POST /admin/domains` asks for a global admin.
* The grants and the originals of a domain stay when it is deleted
  (`docs/api-reference.md:362` says the links are gone): a new domain of that
  name is open to the old users.
* A chat with one domain signs citation links for the label of a capture instead
  of the domain (`docs/api-reference.md:309`).
* `openai_sse.ts:84` says that a client that leaves lets the provider stop: the
  source is locked, its cancel is rejected and swallowed, and the parser reads on.
  The gemini parser says that the answer has finished at any end of the
  connection, which `FinishMeansComplete` leaves out by name.
* One `McpServer` is connected to the transport of each request in turn
  (`mcp.ts:575`): the answers of overlapping requests go to the last one's client, or to nobody.

## 7. What is not modelled

`PROJECT.json` lists each part with its reason. In short: ranking and compression
(pure computations on text and floating point), the dashboard (browser code),
what a provider's request looks like, mail, proxying, signatures and scripts. The graph
tables, aliases, source records, domain transfers and the Rust sidecar have state
worth modelling and are in the plan.

Within the modelled parts: similarity search and metadata filters (reads),
recovery addresses, rate limits, the conversion of files, links with a signature
(`admin.ts:177`, which need no login), aliases and backfill jobs,
and a `llama-server` binary that cannot be started at all. `Accounts` has no
per-domain rights and no keys, so no rotation of them, and no copy of `users.json`: all its writers rename a
new file into place, which the next call reads. `Gateway` has the copy, and no passwords. Of the configuration:
sections that are a single value, fields that are null, numbers in the environment that do not parse, and a read
that fails right after the server's own write.

## 8. The plan

Done, in this order: `TwoTierSync` and its proofs, `EngineCache`, `ResetTokens`
with `TokenService`, `Accounts` and its proofs, `SidecarRpc`, `ImportJobs`,
`LlamaManager` with `ModelPulls`, `RuntimeConfig` and `OllamaAdmin` with their proofs, `ChatStream`,
`Gateway` and its proofs, `Chunker`; then the proofs of `EngineCache`, `ResetTokens` and
`ImportJobs`, of the processes of `LlamaManager`, of the sessions of `Accounts` and of the
order, the texts and the end of a stream; then overlapping and failing token calls and account handlers, cut pulls and
the copy of `users.json`.

Next, most important first:

1. `RustSidecar`: overlapping RPC calls over `engine_for`, the tokio worker of
   `two_tier.rs` and its shutdown; `EmbedBatcher` (both languages) with many
   callers: every caller is answered, also at shutdown and when the model fails.
2. `GraphExtraction`: the queue, the worker, entities and mentions of both tiers,
   the backfill jobs; composed with `TwoTierSync` for the deletes. Property:
   mentions belong to documents, a stamped document was extracted.
3. `DomainTransfer`: export, import, merge and rename as sequences of
   statements, with failures between any two. Property: no document is in
   neither domain.
4. Proofs: the completeness of `Chunker` for every text, with the induction of `ChatStream_proofs`.
