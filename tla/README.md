# Husarz: a verification project

Husarz is a self-hosted platform for teams of AI agents: a FastAPI application in front of
an orchestrator, a router of language models, tools in a sandbox, and a security core
(audit log, rules of engagement, accounts, a secret store). This directory holds TLA+
modules of its core logic, TLC configurations that check them on small instances, and
proofs that TLAPS checks for every value of the constants. Paths below are relative to
`src/src/husarz/` unless they start with `src/`.

## Inventory

| Part | State it keeps | Operations | Hard behaviour | What makes it correct |
|---|---|---|---|---|
| **Audit log** `security/audit.py`, `core/filelock.py` | entries in memory, JSONL file, anchor file, rotation marker, thread and file lock | `record`, `verify`, `build_audit_log`, `otworz_do_wgladu` (`husarz audit verify`) | several processes on one file, threads in each, crash or power failure between any two writes, `OSError` in the middle of a line, key rotation, a file changed from outside | the chain is never forked, what `record` returned is never lost, the anchor never promises what may be lost, a start never refuses an honest log, a loss is refused |
| **Model router** `router/router.py`, `router/zdrowie.py`, `router/rate_limit.py` | failures of each model, the token bucket | `complete`, `complete_stream`, `odsuniety`, `odnotuj_*`, `acquire` | requests in parallel in a thread pool, a clock read at different moments, failures in the middle of a stream | one answer comes from one model, every candidate has its turn, only calls count as failures, the limit holds, requests end |
| **Accounts** `accounts/` | accounts (memory and JSON file), failed attempts, sessions | `register`, `authenticate`, `login`, `resolve_session`, `logout`, `check_quota`, `record_usage` | password checks outside the lock, a failed write after the change in memory, parallel use of one quota | the lockout bounds guesses, at most so many sessions, no use is lost, the file follows the memory |
| **Secret store** `security/secret_store.py` | entries in memory, encrypted file, marker of its version | `put`, `delete`, `resolve`, reload | several processes, a reload beside a write, failed writes | no write is lost, a reader sees a write in the end |
| **Git connections** `git/`, `api/app.py` | connections (memory and file), their secrets | wizard, removal | two stores changed in turn, failure of the second, crash in between | a connection has its secret, no secret without connection |
| **Configuration** `config/` | layers: files, environment, runtime overrides | `load_config`, `POST /api/config/runtime` | a stack rebuilt outside the lock and swapped under it | config and router are always of one version; no request brings a profile |
| **Orchestrator, agents, tool loop** `orchestrator/`, `agents/` | plan, observations, budget of tool calls, usage | plan, delegate (in parallel), reflect, synthesise | parallel delegations, untrusted plans, failures of one of several | bounded work, order of the plan, every call counted |
| **Tools, sandbox, plugins** `tools/`, `plugins/` | registry | dispatch, run | processes and containers | every gate is asked |
| **Rules of engagement** `security/roe_*.py`, `puszkarz.py` | signed consent | `authorize` | time windows | deny unless all of it holds |
| **Access control** `security/rbac.py` | roles, tokens | decision | — | deny by default |
| **Runs, memory** `runs/`, `memory/` | records, vectors | save, search | bounds, swallowed errors | append only, bounded |
| **Updates** `launcher/instalacja.py`, `aktualizacja.py` | binary, pending binary, old binary | stage, swap at start, clean up | crash between two renames | a signed binary in place |
| **Launcher, doctor, evaluation, web interface** | — | reports, bootstrap | — | — |

How they interact: an API handler takes the stack (`state` under `counter_lock`), checks
access and quota, calls the router or the orchestrator, whose tool loop calls tools after the
rules-of-engagement gate; all of them call `AuditLog.record` of one shared log. The router
resolves API keys through the secret store. `husarz audit verify` and other processes share
the audit file. Shared state between threads is the rule, as FastAPI runs handlers in a pool.

## Plan

Modules, most important behaviour first. A component's `X.tla` is the model, `XInv.tla` its
properties and, where it is proved about, the inductive invariant, `XProofs.tla` the proofs,
`MCX.tla` the small instances. `AuditLogDisturbedInv` is proved about in `AuditLogProofs`, and
`GatesInv`, the invariants of the three gates, in `StackProofs`, as it is the stack that holds the
gates. No module that is proved about declares a recursive operator.

| Step | Modules | Composition, abstract specification | Theorems |
|---|---|---|---|
| 1 (done) | `AuditLog`, `AuditTrail`, `AuditLogDisturbed` | `AuditLog` implements `AuditTrail`; `AuditLogDisturbed` puts outside changes of the file around it | types, chain, anchor, receipts, starts, generations, memory; implements `AuditTrail`; loss refused, evidence kept, no false fork |
| 2 (done) | `ModelRouter` | router, breaker and token bucket in one module, as `complete` calls them | types, one voice, limit, breaker, steady order, no candidate passed over |
| 3 (done) | `Accounts` | service and file store in one module, under the handlers of the API | types, lockout, quota, reports, single charge, session cap |
| 4 (done) | `SecretStore`, `SecretMap`, `GitConnections` | the secret store with several processes on its file, which implements `SecretMap`: one map, changed once by each call; the Git wizard, the removal and the rebuild of the Git service over such a map of names to tokens | implements `SecretMap`; no lost write, receipts, fresh reads; a connection has its token, no unexplained token |
| 5 (done) | `Orchestrator`, `BoundedRun` | plan, parallel delegations, reflection, tool loop, budget, meter and records in one module; it implements `BoundedRun`: tools within the limit, every token of an answered run charged | types, budget, meter, no stray thread, agreement, implements `BoundedRun` |
| 6 (done) | `Selection`, `Addresses`, `Egress`, `Roe`, composed in `MCGates` | what a request has to pass: the choice of its models against the reference "what preferences and fallbacks reach", the rules of engagement, the way out | addresses, policy first, engagement, trace, candidates, order of the strategies |
| 7 (done) | `Installation`, `Stack` | the update of the binary; the configuration, router, orchestrator and tool loop of a process and their replacement at run time | types, signed content, way back, promise; one version of configuration and router, no leak, frozen parts, profile |

Every safety property of the passing runs is proved but `NoDeadlock`, see "Proofs".

The number of runs is kept small on purpose: one passing run for each question, and the runs
that hold the code against a sentence of its documentation.

## The modules and the code

### Audit log: `AuditLog`

| In the model | In the code |
|---|---|
| `file`, `torn`, `glue`, `synced` | the JSONL file, an incomplete last line, the entry that is whole but for its newline, what fsync has forced out |
| `anchor`, `anchorOld` | the anchor file, and what a power failure may bring back in its place |
| `flock`, `lock[p]` | `blokada_pliku`, `AuditLog._lock` |
| `mem[p]` | `_entries`, `_last_hash`, the size remembered |
| `boot[p]`, `Load`, `Check`, `BootTimeout` | `build_audit_log` and how it ends |
| `Begin`, `TakeFileLock`, `LockTimeout`, `Refresh`, `Build`, `BuildFails`, `Write`, `WriteFails`, `Commit`, `WriteAnchor` | `record()` between its places of failure, each one step |
| `VerifyStat` … `VerifyCheck` | `verify()` of a live log (`GET /api/audit`), which takes no lock, cut at its reads of files and of shared attributes |
| `InspectLoad`, `InspectVerify` | `husarz audit verify` |
| `Crash`, `PowerLoss`, `RotateKey` | outside events: the end of a process, the loss of what was not forced out, the operator's new key |

A write that fails, and a loss of power, may cut a line anywhere. Cut before its newline it is still
an entry (`_wczytaj` splits at line ends), until the next record writes its own behind it on the
same line and the file cannot be read any more (`Readable`). A verification puts its copy in memory in
two steps: entries and head (audit.py:353-354, between which CPython looks for no thread switch), then
the size after one more call (audit.py:355).

A hash is the identity of its entry. `AuditTrail` is what callers may rely on: a trail that
grows, receipts for what was recorded, and a loss of power that takes only events without a
receipt. `AuditLogDisturbed` lets somebody cut the tail of the file, rotate the whole file
away or put another history in its place between two records, while any number of processes record
and verify. Its properties do not assume those processes away; they except what some races of the
program's own break, and `slips` notes when one has happened: a verification of a recording
process has put a copy in memory that was outdated (`overtaken`), a writer has added to a file that
lacks what another writer remembers (`refilled`), or the entries were lost before a running
writer had seen them (`behind`).

### Model router: `ModelRouter`

`pc` goes through the questions of `uporzadkuj` (`Screen`, two passes, each question with
the clock of its own moment), `RateLimiter.acquire` in the pieces between its calls
(`ReadClock`, `ReadStamp`, `Refill`, `Take`), and the loop over candidates (`Skip`,
`BuildFails`, `Call`, then `CallFails`, `CallSucceeds`, or `Fragment` and `Abandon` of a
stream). The gates of a request (vision, context window, egress) are the set `fit` of models
that they let through. `tried`, `steady`, `admitted`, `raced` are history.

The token bucket has no lock. A thread switch is taken to happen where CPython looks for one
in this code, at calls, so that the arithmetic between two of them is one step; a free-threaded
build may interleave more finely.

### Accounts: `Accounts`

| In the model | In the code |
|---|---|
| `file`, `mem` | accounts.json, `_by_id` with `_id_by_name` |
| `flock`, `lock` | `FileAccountStore._file_lock`; `AccountService._lock`, where it is held across steps (`record_usage`) |
| `failed`, `sessions` | `_failed`, `_sessions` |
| `Boot`, `UserAdd`, `Crash` | `build_account_service` with the administrator's account, `husarz useradd`, the end of the process |
| `Register`, `Add`, `Save`, `SaveFails` | `auth_register`, `FileAccountStore.add`, `_persist` and its `OSError` |
| `Login`, `Ask`, `Check`, `Mistake`, `Verified`, `Stamp`, `Issue` | `login` and `authenticate`: both readings of the clock and each critical section |
| `Expire`, `Logout` | `resolve_session` of an expired token, `auth_logout` |
| `Present`, `Admit`, `Reply`, `CallFails`, `Charge`, `Update` | a request to a model: session, `check_quota`, the answer, `record_usage` |

Account names are taken as normalised; the two dictionaries of the store change together under
one lock and are one set. A password is a choice between right and wrong. `husarz useradd` is
modelled with the server down, as the store is documented for one process (store.py:107-110).
Requests to models are a stream, which is not charged, and everything else ("orchestrate"; a
chat is one that makes a single call).

### Secret store: `SecretStore`, `SecretMap`

| In the model | In the code |
|---|---|
| `hist`, `synced` | the versions of the encrypted file, each put there by `os.replace`, and the one whose directory entry was forced out |
| `entries[p]`, `marker[p]`, `lock[p]`, `flock` | `_entries`, `_znacznik`, `_lock` of a process; the file `.lock` |
| `Start`, `Mark` | `__init__`: `_load`, then `_stan_pliku` |
| `Write`, `TakeLock`, `TakeFileLock`, `GiveUp`, `Persist`, `PersistFails`, `Adopt` | `put` and `delete` through `_modyfikuj`, cut where another process or thread can come in between |
| `Resolve`, `Compare`, `Reload`, `ReloadFails`, `Read` | `resolve`, `names`, `describe` over `_przeladuj_jesli_zmieniony`, which reads the marker without a lock |
| `Crash`, `PowerLoss` | outside events |

`seen` is what the file has held under a name while a thread reads it, and `blind` holds the
processes that missed a write between `_load` and `_stan_pliku` of the constructor; both
are history. Two versions of the file are taken to differ in their marker (mtime, size), and
the file system to support an fsync of a directory (`_fsync_katalogu` ignores one that does
not). Sealing is left out: a process with the master key reads what was put.

`SecretMap` is what the callers of `put` and `delete` may rely on: one map, in which a call
takes effect once or not at all, on the latest map and under its own name; one that raised
has no effect; and when one returns, a loss of power no longer reaches its version. The versions are those of the
file; a call is asked for until `os.replace`, made until it returns.

### Git connections: `GitConnections`

| In the model | In the code |
|---|---|
| `cfg`, `svc` | `state["config"]` (whether Git and the secret store are on), `state["git_service"]` with `_ostatni_git`, which are replaced together |
| `stores`, `mem[s]`, `file` | the `FileGitConnectionStore` objects of a process, `_by_name` of each, their one file |
| `secret` | the secret store, entry `git/<name>` |
| `mutex` | `_mutex_polaczen` |
| `Boot`, `Crash` | `create_app` at a start, the end of the process |
| `Build`, `Swap`, `Refuse` | `POST /api/config/runtime`: the stack is built outside every lock and swapped in under `counter_lock` |
| `Wizard`, `Take`, `Admit`, `PutToken`, `AddWithToken`, `CleanUp` | `POST /api/git/connections/wizard` |
| `AddRef`, `Add` | `POST /api/git/connections`, with a reference of the caller's choice |
| `Remove`, `Withdraw`, `Drop` | `DELETE /api/git/connections/{name}` |

A token is the number of the request that brought it. `put` and `delete` of the secret store
are one step each that may fail, as in `SecretMap`, where a call that raised has no effect; the connections' file belongs to one process. The launcher has made a secret store
at the start, and `security.secret_store.enabled` is what is switched. `left`
names the tokens that may stay behind for a known reason, `split` says that one store
object was written while another was in use, `off` that Git has been off; all three are history.
The properties hold until `split`; the invariant shows that this takes a switch-off of Git
(`OneStoreInv`); what happens after it is among the disagreements below.

### Orchestrator and tool loop: `Orchestrator`, `BoundedRun`

| In the model | In the code |
|---|---|
| `phase`, `Plan`, `Reflect`, `Synthesize`, `Charge` | `Orchestrator.run` and the handler of `POST /api/orchestrate` around it |
| `Batch`, `Turn`, `Collect`, `NoticeFailure`, `Unwind`, `RoundOver` | `_deleguj_wiele`: one round on the threads of its executor, results in the order of the plan, an exception in its turn, the wait at the end of the `with` |
| `SkipUnknown`, `Withhold`, `GateFails`, `Start`, `Ask` | `_delegate` up to the agent, `BaseAgent.run` |
| `Final`, `Malformed`, `Action`, `Deny`, `Dispatch`, `Note`, `Stop` | a turn of `ToolLoop.run`, with `_authorize_and_dispatch`; a tool may raise what `dispatch` does not catch (dispatch.py:343-364) |
| `ChargeFails` | `record_usage` cannot write the accounts: the account in memory may be charged, the request fails |
| `SpendRead`, `SpendWrite`, `MeterRead`, `MeterWrite`, `lock` | `ToolCallBudget.try_spend`, `UsageMeter.add` and their locks, each cut between reading and writing |
| `own[i]`, `log[i]` | the meter and the record of one agent's run |
| `records`, `tally` | `OrchestrationRecord`, `RunRecord`, `_Tally` |

An agent is one that is asked once (`Plain`), one with a tool loop (`Looper`), one that needs
rules of engagement (`Guarded`), or none that is known (`Stranger`). A plan is a sequence of
agents. `planned`, `used`, `calls`, `trail` and `charged` are history; `BoundedRun` sees them
and whether a run is open.

### Updates: `Installation`

| In the model | In the code |
|---|---|
| `cel`, `stara`, `oczekujaca`, `podpis` | the binary, `.old`, `.new`, `.new.sig` |
| `Check`, `CheckFails`, `Fetch`, `Put`, `PutSignature`, `PutFails` | `husarz update apply`: `sprawdz`, the second `najnowsze()`, `pobierz` and `zweryfikuj_podpis`, `przygotuj` |
| `Look`, `LookSignature`, `Read`, `Verify`, `MoveAway`, `MoveIn`, `Tidy`, `SwapFails`, `Sweep` | `zastosuj_oczekujaca` at the next `husarz up`, `_sprzataj_stara` |
| `Publish`, `Withdraw`, `Kill`, `Decay`, `Return` | outside events: releases come and go, a command is killed, a file on the disk is spoilt, the operator puts `.old` back |

A step is one operation on the files. A version that is in `Broken` does not start, so nothing
of it runs. The server may answer with any release there has been, correctly signed. `Decay` spoils
the waiting file at any moment; when that is after a command has read it for the verification, or before it
has signed it, `spoilt` says so, and `OnlyReleased` or `PromiseKept` says nothing any more. `proven`,
`overlapped`, `promised` and `spoilt` are history.

### Configuration at run time: `Stack`

| In the model | In the code |
|---|---|
| `files`, `Merge`, `CliOverride`, `Start` | `load_config` with its layers, `_cmd_up`, `create_app` |
| `Apply`, `Load`, `Build`, `Swap`, `Close`, `Record` | `POST /api/config/runtime` between its effects |
| `Dead` | `_martwe_zmiany`, against the configuration of the start |
| `open`, `stranded`, `busy` | the connection of each tool loop (its sqlite store), loops whose build was refused, the lock of each store |
| `Snapshot`, `Answer` | the handlers of chats, which take router and configuration under `counter_lock` |
| `Orchestrate`, `UseBegins`, `UseEnds`, `Finish` | a run that keeps its orchestrator and tool loop, and its calls of the memory tool |

A configuration is its profile, whether the secret store is on, its key, the settings of the
audit log and whether an engagement has consent. `Valid` stands for the checks of the schema.
An edit of the files may change anything in them, the profile too, which comes into service with
the next change at run time; `offered` (history) are the profiles that the operator gave, at the start or by an edit.

### What a request has to pass: `Selection`, `Roe`, `Addresses`, `Egress`

`Selection` is `select_candidates` with `_expand`, whose recursion is a list of what is still to
be added; the reference it is held against, `Reachable`, is the least set that has the preferred
models and the fallbacks of its own. A strategy is the order in which it puts the places of the
registry, that of the registry where it does not decide.

`Roe` is one call after another of `authorize_delegation` or of a gate, cut where the
time and the key are read, with `Tick`, `Rotate` and `Amend` in between. An orchestration keeps the gates it
began with (`roe`) when the configuration changes under it (`configured`); the next one has the new ones
(`Adopt`). `UnderEngagement` is about the gates that decide. `Addresses` holds the
functions of `ssrf.py`, `egress.py` and `net.py` over classes of addresses: what they tell
apart, public, private, loopback, link-local and the explicitly listed. `Egress` takes one request on one of
the ten ways out (web, model, stream, embedder, Git, the list and the call of a plugin,
the file of an update, the newest release, the manifest of a model) through `Gates`, the
one question to the resolver (`Resolve`), `Connect` and what comes back (`Receive`, or
`Follow` a redirect of a download).

The three share no state. `MCGates` holds them side by side; `gate` says which of them a behaviour
is about. A broken connection, a bad certificate and a timeout are one reply. An audit entry of a gate
that cannot be written (an exception in `RoeGate`) is in `Orchestrator` (`GateFails`), not in `Roe`.

## Runs

| Run | Instance | What it shows |
|---|---|---|
| `AuditLogRecord` | 2 processes, 3 recorders, 3 entries, 1 rotation of the key, crashes and power failures | chain, anchor and marker are sound; refinement of `AuditTrail`; `record()` ends though the other process hangs with the lock; 187 947 states |
| `AuditLogDisturbed` | a recording process, beside it a second one or a `verify()` of its own with 3 entries, both of them (without crashes) or a run of `husarz audit verify` with 2 (`beside`), outside changes, one beside a second writer | lost entries are refused by the process that wrote them, the evidence stays, a fork is reported only of a file that was rewritten; 980 067 states |
| `AuditLogFork` | 2 processes, the first also verifies, 4 entries | a disagreement, see below |
| `ModelRouter` | 2 threads, 3 models, 3 kinds of request, 2 requests, 2 ticks, capacity 1, 1 failure opens | no mixed answers, steady order, no candidate passed over, the breaker learns from calls only, requests end |
| `Accounts` | 2 threads, 2 users (one with a quota of 1), 4 requests, 2 ticks, lockout after 1 attempt, 2 sessions | all the properties of accounts; 783 175 states |
| `SecretStore` | a process of 2 threads and one of 1, 2 names, 2 writes, crashes and power failures | refinement of `SecretMap`; fresh reads; 336 433 states |
| `GitConnections` | 2 threads, 2 names, 5 requests, 2 stores of a process | tokens and connections belong together, no token is removed that is used; 574 473 states |
| `Orchestrator` | 2 requests, plans of up to 3 steps over 4 kinds of agents, 2 threads, 1 reflection, 1 tool call, 2 iterations | answer, record, audit and account agree; nothing outlives its round; refinement of `BoundedRun`; tools that raise and a charge that fails; runs end; 477 794 states |
| `Installation` | 2 commands, 3 releases, one of which does not start | only signed releases in place, a way back to a version that started, promises kept; 1 361 580 states |
| `Stack` | 2 changes, a chat, an orchestration with 1 tool call, 1 edit of the files, 3 loops | one version of configuration and router, no loop left open, no profile but the operator's, every change is answered; 334 079 states |
| `StackProfile` | 1 change after `husarz up --profile prod` over files that say dev | a disagreement, see below |
| `Gates` | every host form and scheme on every way out, 3 policies, any answers of the resolver; 2 engagements over 3 kinds of terms, a clock of 3, one change; 4 models with all chains of fallbacks of length up to 2 that matter | connections go where they may, the policy comes first, nothing is allowed without an engagement, every decision in the audit, candidates as the reference says; 3 076 585 states |

The state of the older components is now checked by the properties that relate several steps;
their type and inductive invariants are proved (below) and no longer run.

Why the bounds are enough: three entries give a beginning, a middle and an end of the chain,
and two processes that each fall behind the other; the second recorder in one process is what the
thread lock is for, and one rotation gives two generations. In the router two threads meet
at every place, a cooldown of two ticks can end between any two questions, and one failure
opens a circuit, so that every circuit is seen opening and closing during a request. In
accounts the limits are one or two so that four requests reach and pass all of them: two
attempts meet at a lockout of one, two requests at a quota of one token, three logins at two
sessions. A lockout time of zero ends at the next tick. In the secret store two writes are one
by each process, or two that meet in one, and reads are not bounded. Five requests on Git
connections are a connection, one that borrows its token, the removal of either, a wizard
beside it and a change of the configuration; two stores are the least at which one may be
written beside another. Three steps on two threads are one that waits and two that meet at
the budget of a single tool call; the second request shows that nothing of the first is left.
Three releases are a good one, one that does not start and the one after it. Two writers of
the configuration are one that builds while the other swaps; a third loop is the one of the
start. Clocks, entries, rotations, requests, releases, edits
and the tokens of one request are the only bounded quantities (`MaxEntries`, `MaxGen`,
`MaxTime`, `MaxRequests`, `MaxJobs`, `MaxUse`, `MaxWrites`, `MaxVersion`, `MaxEdits`, `MaxAmends`), and the
stores and loops that one process builds (`MaxStores`, `MaxLoops`). Deadlock is not reported by TLC because the
bounds stop every run; in `Accounts` the property `NoDeadlock` asks for it instead.

## Fairness

`AuditLog`: weak fairness of `RecordStep` for the recorders of the processes in `Responsive`.
Nothing is assumed of other processes, which may stop for ever inside their critical
section; what saves the others is the time limit of `_zajmij` (filelock.py:89-115).
`ModelRouter`: weak fairness of `Serve`, for every call to a backend has a time limit and
the loop over candidates waits for nothing else. `Orchestrator`: weak fairness of the thread of
the request (`Serve`) and of each thread of the pool (`Delegate`); the two locks are held for
one addition, and every question to a model ends. `Stack`: weak fairness of a change once it
was accepted (`Write`) and of an orchestration (`Work`), whose tool calls end and are bounded by
the budget, so that the lock that a closing waits for is free in the end. `Installation`, `Roe`, `Egress`
and `Selection` state no liveness: a command may be killed at any step. `Accounts`, `SecretStore` and
`GitConnections` state no liveness: their threads wait for locks, and CPython's locks
promise no order.

## Proofs

All proofs are checked by TLAPS for any number of processes, threads, models and users, and for
any bounds.

* `AuditLogProofs`, in every behaviour. `GroundInv` is what the two locks give by themselves,
  also when a process verifies while it records: who holds which lock (`LockInv`), that a copy of the file,
  however old, is no longer than the file (`CopyInv`), that the entry on its way is the last
  one of a file without a torn line and is forced out before the anchor (`EntryInv`, `SyncInv`), that
  a running process has the key of the configuration (`GenInv`), and that a hash is handed out
  once (`FreshInv`). So receipts, the order of key generations and the rotation marker depend
  on nothing that `verify()` may do, and neither does `TrailImplemented`: every step is one of
  `AuditTrail` or none, as the hash that is about to be written is not in the file.
* `AuditLogProofs`, with `Apart`. The chain, the anchor, the honest start and the log in memory
  rest on what a process knows of the file: its log is a beginning of it (`MemInv`), and the new
  entry points at the last hash of the file as long as it has not been written (`DraftInv`). Without them
  `ChainUnbroken` is not inductive, an entry built on an old log would fork the chain in one step. A
  `verify()` breaks `DraftInv` when it puts its copy in memory between the refresh of a record and
  its end, and it does so at no other moment: `Apart` excludes just these steps, which is what
  taking `_lock` would do, and `ApartProcesses` shows that it costs nothing where no process both
  records and verifies. `AuditLogFork` shows that the condition is needed.
* `AuditLogProofs` on the disturbed log. `DisturbedInv` drops what the outside can break and keeps, as
  long as no foreign history was put in the file and no slip but `behind` has happened, that the memory of each writer
  and the file are beginnings of one history (`KeptInv`), that in the critical section they are the same
  (`WriterInv`), and that every copy of the log was a sound chain when it was taken (`SoundInv`). The theorems
  assume nothing of the processes: all of them may record, and verify while they do. What is excepted is in
  the properties, one moment at a time, and TLC finds each exception needed: a verification that was overtaken
  puts back a log without the entries recorded since, also between two records (`Apart` is not enough here), and
  a second writer may fill a file that was cut off up to the length that the first remembers. `EvidenceInv`, and with
  it `EvidenceKept`, is about blocking mode, in which a process does not start on less than the anchor
  counts; it excepts every slip, as a writer that never saw the lost entries appends where they were.
* `ModelRouterProofs`. `OneVoice` needs `VoiceInv`: before a call nothing has been seen, and
  during one all that was seen came from it. `LimitHolds` needs `BucketInv`: what the bucket
  holds and what it has handed out never exceed what time has put in, also in the middle of `acquire`.
  `SteadyOrder` needs `ScreenInv`, what the two passes of `uporzadkuj` have put into which list so far
  (each list follows the order of the candidates), and `FailsOnlyAfterTrying` needs `QueueInv`: an ordered
  candidate is in the queue, or is not suitable, or has been called.
  `OnlyCallsCount` is an action property that follows from types and the steps alone.
* `AccountsProofs`. `JobInv` says what a thread has in hand while others work: a new account is
  in the file before it is logged in, and between the reading and the update of a charge
  nobody else changes a use. `SaveInv` says that a charge about to be written leaves room
  for its report, which with `LedgerInv` gives `ReportedKept`. The quota is passed by
  at most one request for each thread because of `QuotaInv`: what is charged and what the
  admitted requests may still use stay under the limit together. `LockoutBounded` is
  inductive once the sets it counts are known to be finite. `ChargedOnce` needs `ChargeInv`: what was
  charged and what threads still owe is no more than what was reported. The sum over the threads is
  the size of a set, one element for each owed token, so that a charge takes away as many as it adds.
  `SessionsCapped` is proved from `SessionInv` (tokens are new, no thread has read a time to come).
  `NotAllWait` is what `NoDeadlock` rests on: some thread with a request waits for neither lock.
* `SecretStoreProofs`. `LockInv` ties the two locks to the place of their holder, and with it
  `ChangeInv` says that from the load under the locks to the write the memory is the file;
  `NoWriteLost` follows. `ReadsFresh` needs `MarkerInv`, a marker is never newer than the
  entries that it stands for, and `SeenInv`, which makes what the file holds now one of the answers
  allowed. `ReceiptsKept` needs the stronger fact that the version of a receipt was forced out.
  `MapImplemented` makes every step one of `SecretMap` or none: `os.replace` is where a call takes effect,
  and `ChangeInv` makes it a change of the latest version; nobody else is between `os.replace` and its
  return then (`LockInv`), so that the version a call reports is its own.
* `GitConnectionsProofs`. `HasSecret` and `OrphansExplained` are inductive with `CopyInv`, a
  store in use remembers what the file holds while no other was written, and
  `HalfwayInv`, what a request between its two writes relies on: the name is free and the
  token under it is its own. Both are the work of `_mutex_polaczen` (`LockInv`).
  `OneStoreInv` shows that while Git stays on a process has one store. The action properties
  `ConnectionsKept` and `InUseKept` follow from the invariant at each step.
* `OrchestratorProofs`. The budget and the meter are exact (`BudgetExact`, `MeterExact`) because what
  a step has read under a lock is still there when it writes (`LockInv`), because a step that
  waits or is done has nothing of its own left to add (`OwnInv`), and because the pool is empty when the
  request is with its orchestrator (`StageInv`, of which `NoStray` is a corollary). With them every step is
  one of `BoundedRun` or none: a dispatch finds `calls < MaxCalls`, and a charge finds the meter
  equal to what was used. `Agreement` needs `AgreementInv`: the round under way is the last part of what was
  planned (`RoundInv`), there is an observation for each step that `pula.map` has handed over, in that order
  (`ObservationInv`), the tally counts the steps that have begun (`TallyInv`), and as long as none has
  failed a call that is not in the audit log, or not in the records, is in the hands of a step (`TrailInv`, `LogInv`).
* `InstallationProofs`. `Checked` follows the waiting file from `Verify` to the rename, which
  may move another file than the one verified, but only one that was signed, unless the file was spoilt in between. `Alone` says what a
  command has found and done when no other overlaps it: before the first rename the binary in place is
  the one that runs, after it the previous one has.
* `StackProofs`. `NoLeak` is inductive with `Distinct`: the loop in service, those of refused builds
  and those in the hands of writers are different ones, so that closing one closes no other. `Paired`
  needs `OnePair`, `Frozen` needs `Prepared` (what a writer loaded is not dead to the objects of the start), and
  `ProfileAnchored` needs `OneProfile`, what the files say now and what any writer has loaded was offered, with the assumption that no profile is on the command line,
  which `StackProfile` shows to be needed.
* `StackProofs` on the gates. `CheckedAddress` and `PolicyFirst` need `EgressInv`: the target comes from the
  one answer, which passed the test that goes with the host (`Pinned`). `UnderEngagement` and
  `TraceComplete` need what has been asked of an engagement so far (`Examined`) and that the gates before it
  have left their refusals (`UnderWay`). `CandidatesReachable` needs `Spread`: what is added and what is to be added is within
  every closed set, and is closed itself when nothing is left. `StrategyOrders` says what
  `UporzadkujStrategia` is for: the models that fit, each once, in the order of the strategy, those
  it does not tell apart in the order of the registry (Python's `sorted` is stable). The lemma that
  the preferences of the rules are a sequence of names is an induction over their number, done by hand: the least
  counterexample (`LeastNatural`) has a predecessor that is none.

Assumptions are those on the constants (`ThreadAssumption`, `BoundAssumption`,
`SwitchAssumption`, `ModelAssumption`, `LimitAssumption`, `NameAssumption`,
`NumberAssumption`, `ProcessAssumption`, `WriteAssumption`, `AgentAssumption`,
`VersionAssumption`, `ConfigAssumption`, `ActorAssumption`, `EgressAssumption`, `NamesAssumption`,
`RoeAssumption`, `SelectionAssumption` and `NoneAssumption`, the last of which only says that two
constants of the model differ). TLC evaluates them in the runs. The
conditions that a theorem adds (`Apart`, no profile on the command line) are
in its statement, and the instances of the runs meet them where it is the theorem's property that they check.

Only model-checked: liveness (`RecordEnds`, `RequestEnds`, `RunEnds`, `Answered`) and `NoDeadlock`,
which is about ENABLED; both are out of the prover's reach.

## Disagreements between the code and what is said of it

With a run that shows them:

* `AuditLogFork`: `verify()` in a process that also records takes no lock and may put an old log in
  memory between the refresh and the build of a record (audit.py:404, 609): the chain forks. On the same instance
  `AnchorCovered` and `HonestStart` are violated too, see the doubled entry below.
* `StackProfile`: a change at run time loads the configuration from the files, the environment and the
  request (app.py:1115) without the profile that `husarz up --profile` put on top at the start
  (cli.py:561-566). Any accepted change takes the profile back to that of the files, where
  app.py:1103-1104 says that it changes by the configuration of the start only.

Seen while modelling, without a run of their own:

* a candidate whose cooldown ends between the two passes of `uporzadkuj` is in neither list, and one
  whose circuit opens in between is in both (zdrowie.py:110, against zdrowie.py:9-10 and docs/ROUTER.md:231-232);
* a client that cannot be built raises outside the try of the loop, and the fallback is not tried
  (router.py:94, 234, against router.py:81);
* `/api/chat/stream` asks for the quota but never charges (app.py:926-1020), where
  docs/API.md:117 calls the limit of the account identical to that of a chat;
* two concurrent changes of the configuration that both switch Git on, or a request that holds the
  old store while Git is switched off and on, leave two `FileGitConnectionStore` objects over one
  file (app.py:536); each writes the whole file from its own memory, and a connection made through
  the other is overwritten, where git/builder.py:31-34 says that a rebuild leaves the data untouched;
* the swap of the binary has no way back of its own: when the second rename fails, or two `husarz up`
  run at a time, no binary is left in its place until somebody renames `.old`
  (instalacja.py:278-283, against cli.py:832-834);
* two starts at once may remove `.old` before the new version has ever started
  (instalacja.py:290-298, against its docstring and docs/LAUNCHER.md:521);
* an `update apply` that dies in its second turn may leave a new file beside the old signature: the update
  that was ready is lost, and the next start refuses it; a failed `chmod` reports a
  failure although the binary was installed (instalacja.py:280-283); a slow `apply` that overlaps a
  newer one may take the version back; the signature does not cover the version, so that a server which
  answers the second question with an older release takes it back too (cli.py:1028-1045);
  the file that is renamed is not read again after its verification (instalacja.py:269-279);
* overrides of the configuration replace those before, they do not add up, and are gone after a restart
  (app.py:1149); the order of two changes in the audit log may differ from that of their swaps
  (app.py:1147, 1164); a running orchestration keeps the policy it was started with, its gates of the rules of
  engagement included, where app.py:567-569 says that a changed engagement is in force without a restart;
* a stack whose rules of engagement are refused has already opened the memory of its tool loop, and nobody
  closes it (app.py:545-586, 1143-1146);
* after a step of an orchestration has failed, later steps are started until its turn comes in
  `pula.map` (husarz.py:284-286);
* the pull of a model through the local engine asks the policy but pins no address
  (bootstrap.py:330-377);
* `verify()` between the write of an entry and its commit doubles the entry in memory; the
  anchor counts one too many and the next start is refused (audit.py:299, 810-814), where audit.py:301-305
  takes an anchor on an entry that is not there for what the order of the two writes excludes;
* `husarz audit verify` reads the log and then a newer anchor, and reports a tail cut off
  that is not, with exit code 1 (audit.py:936; docs/LAUNCHER.md:328);
* a live `verify()` may report a fork or a short log while a record is under way (audit.py:609;
  docs/BEZPIECZENSTWO.md:2857);
* a file with a foreign history is refused once and accepted at the second record, as the log in
  memory is replaced before the old head is looked for (audit.py:404);
* in the mode that only warns, a shortened log may grow back over the number in the anchor
  (audit.py:456, 775-776);
* after a failed write or a loss of power that cut a line just before its newline, the next `record()` takes the
  line for an entry, writes its own behind it on the same line and returns; from then on no other process can
  record, and no start gets past the reading of the log (audit.py:347-352, 742-745, 816-840), where
  audit.py:297 takes a failed write for one after which one can go on;
* a log that was moved away is not compared with its anchor at a start (audit.py:842);
* two threads in the router's token bucket may hand out the same token twice (rate_limit.py:41);
* the tokens of an orchestration that fails half-way are charged to nobody (app.py:896-914);
* the administrator's account is seeded whenever it is missing, not only in an empty store
  (accounts/builder.py:4-6 and 45);
* a registration may create the account and then fail in its login: the answer is 409, and
  nothing is written to the audit log (app.py:1179-1186);
* a process that starts while another one writes may load the old secrets and remember the marker
  of the new ones; it sees the write only after the next change (secret_store.py:128-129;
  docs/BEZPIECZENSTWO.md:1926-1929, which `ForeignWritesSeen` states);
* the wizard asks again under its lock whether the secret store is on, but the configuration
  changes under another lock, and a token may be stored after the switch-off (app.py:1478-1495,
  1147);
* the clean-up of a failed wizard deletes, and its `put` overwrites, a token that another connection
  refers to (app.py:1495, 1504); only a removal asks for other users (app.py:1578);
* a connection that is removed, and that used the token of a name removed before it, leaves that
  token behind (app.py:1579).

## Not modelled

Text and its encodings (JSON, prompts, SSE, attachments), cryptography (scrypt, HMAC,
Ed25519, ciphers), the parsing of URLs, processes and containers of tools, the web interface, the
doctor and the evaluation harness: either pure functions of data, or I/O whose outcomes
appear as choices in the models. Also left out: `RateLimiterPerPrincipal` (one dictionary under one
lock), the store of Git connections that lives in memory only, the search of the memory, the file
of the run records, the consent dialogue of the bootstrap, `rbac.py` (a table of roles), and the declarative
part of the schema. `PROJECT.json` lists each component with what is left out of it.
