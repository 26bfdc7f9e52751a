# A verification of the Humanoid AGI plugin system

TLA+ models of the plugin system in `src/`, TLC configurations that check them on small
instances, and TLAPS proofs of what must hold for every instance. File and line numbers
refer to the sources under `src/`; `PROJECT.json` maps every definition to its lines.

## 1. The system

| Part | Source | State it keeps | Operations | Talks to |
|---|---|---|---|---|
| Installed plugin record | `models.py` | `InstalledPlugin`: metadata, status, grants, permission review, hash | validation | held by loader, gateway, sandbox: one mutable object until an install or a discover replaces it |
| Plugin loader | `loader.py` | `installed_plugins` in memory; per plugin a directory with `.plugin-install.json`; `.plugin-governance.json`; `_staging/` | discover, install, grant, enable, transition, revoke, revoke version, verify | the file system, shared with every other process |
| Plugin engine | `engine.py` | `sandboxes`, listener callbacks, runtime states (semaphore, failure counter) | start, stop, call tool / memory provider / middleware, install, grant, enable, disable, quarantine, revoke | loader, gateway, event bus, sandbox, audit |
| Gateway | `gateway.py` | registered plugins, active sandboxes, stores; `socket.getaddrinfo` while a request is pinned | call tool, handle a sandbox's request, check permissions, pinned network requests | engine, sandboxes, event bus, name servers |
| Event bus | `event_bus.py` | listeners | subscribe, unsubscribe, publish (on a snapshot) | engine, plugins |
| Sandbox | `sandbox.py`, `sandbox_stdio_worker.py` | worker process, pipe or stdio queue | start, execute with timeout, stop | gateway, worker process |
| Sandbox backends | `sandbox_backend.py` | OS handles | attach, terminate, close | the operating system |
| Audit log | `audit.py` | hash chained file, checkpoint | record, verify, checkpoint | everything |
| Policy engine | `policy.py` | policy | evaluate install, enable, start | loader, engine |
| Signing, trust store | `signing.py` | publisher keys, revoked keys | add, revoke, sign, verify | registry client, CLI |
| Registry client | `marketplace.py` | index, cache directory shared by all installs | find, install with rollback protection | loader, trust store |
| Release gate | `release_gate.py` | none | ten evidence files in, one decision out | evidence scripts, CLI |
| Evidence scripts | `scripts/collect_rc_evidence.py` and the commands it runs | the output directory, which outlives a collection | collect, approve | doctor, scanner, drills, release gate, git and gh |
| Command line | `cli.py` | none | one loader or engine per command | all of the above |

What is hard about it:

* **Several processes, one directory, no lock.** The engine's process and each command of
  `cli.py` build their own `PluginLoader` on the same directory, append to the same audit
  log, edit the same trust store and install through the same cache.
* **Many small files, no atomic replace.** Install moves a tree aside, copies another,
  prepares dependencies and only then writes the manifest; a manifest is rewritten in place,
  so is the audit checkpoint.
* **Defaults on what cannot be read.** A missing or torn manifest is an empty one, and an
  empty value falls back to the trust level's default; an evidence command that prints
  nothing is answered by the file an earlier collection left.
* **Threads without locks in the engine.** Calls, starts and stops of one plugin interleave;
  the sandbox's pipe carries no correlation of answers to requests.
* **One resolver for the process.** A network request replaces `socket.getaddrinfo` and puts
  back what it found there, which may be the pin of another request.

What makes each part correct: a plugin runs only after its permissions were reviewed, with
no more permissions than were approved, never after it was stopped, quarantined or revoked;
a failed change leaves the old state; what the files say after a restart is what the process
believed; a call is answered with its own answer or an error; a connection goes where it was
vetted for; what the loader is handed was verified; the audit log verifies unless it was
disturbed, and a disturbance of what a checkpoint sealed shows; a release is approved on
evidence for the commit it is made from.

## 2. Modules

| Module | Models |
|---|---|
| `PluginStatus` | the statuses and the table of transitions (operators) |
| `PluginRecords` | the pure rules of `loader.py`: new install, upgrade, approval, reading back (operators) |
| `PluginLoader` | `loader.py` run by several processes on one directory, for one plugin name |
| `PluginLifecycle` | abstract: what the engine promises about one plugin |
| `PluginEngine` | `engine.py` called by several threads, for one plugin, with what it calls of `sandbox.py`, `gateway.py` and `event_bus.py` |
| `SandboxChannel` | one `SandboxManager` and its worker: start-up, calls, gateway requests, time-outs, stop, on the pipe and on stdio |
| `GatewayRequests` | what the gateway does with the requests of a plugin's calls; the pinned resolver |
| `AuditLog` | the hash chained log of several threads and processes, its checkpoint, crashes and changes from outside |
| `RegistryInstall` | installs of one plugin through a shared cache from a registry that changes, and the trust store |
| `ReleaseGate` | the decision over the evidence (operators) |
| `EvidenceCollection` | collections of evidence over several commits and the approval that follows |
| `PluginLoaderProofs`, `PluginEngineProofs`, `GatewayRequestsProofs`, `AuditLogProofs`, `RegistryInstallProofs`, `SandboxChannelProofs`, `EvidenceCollectionProofs` | theorems about the module of that name, the last one with the gate's |
| `PluginEngineAloneProofs` | theorems about `PluginEngine` with a single thread, among them that it implements `PluginLifecycle` |
| `MC...` | values for TLC |

`PluginLoader` and `PluginEngine` use `PluginStatus`; `PluginEngine` is checked against
`PluginLifecycle`; `EvidenceCollection` extends `ReleaseGate`. The others meet where the code
hands over: a refusal of the loader is an outcome of `Unpack` in `RegistryInstall` and of an
install in `PluginEngine`; a call that `PluginEngine` answers, times out or loses with its
worker is followed message by message in `SandboxChannel`; what the gateway does between
`ReceiveAsk` and `Reply` there is `GatewayRequests`.

### PluginLoader

One plugin name; the packages (`Pkg`) are its releases. The state and the code:

| Variable | Code |
|---|---|
| `tree`, `manifest` | `plugins_dir/<name>` and its `.plugin-install.json` (None: missing or unparsable) |
| `unpacked`, `backup` | `_staging/<hash>` and `_staging/<hash>.backup` |
| `revoked` | `.plugin-governance.json` |
| `mem[p]` | `installed_plugins[name]` of process `p` |
| `pc`, `pend`, `seal`, `again`, `gov` | where the call of `p` stands and its local variables |
| `approved`, `shown`, `stopped` | history, read by no action |

Actions and code: `Discover` is `discover_installed`; `InstallBegin`, `MoveAside`, `CopyTree`,
`InstallEnd` are the steps of `install` and `_replace_plugin_tree`, `MoveFail`, `CopyFail`,
`PrepareFail` their error paths; `Grant`, `Enable`, `Transition`, `Revoke` are the calls that
change a record, each up to the read of `_persist_installed`, and `PersistWrite`,
`PersistFail` its write; `RevokeVersion` and `GovernanceWrite` are the read and the write of
`revoke_plugin_version`; `CrashRestart` is a process that dies inside a call and a new one.

A call is split where another process can act or the process can die. What a split hides:

* A write of a file is one step towards the writes of others; a reader may find the file
  empty while `pc[p] = "persist"`, and a crash may leave it so.
* A tree that is being copied becomes visible with its `plugin.yaml` in one step.
* The checks of `install` that refuse a package (zip, signature, lock, dependency and
  install policy) happen before anything changes and are not steps: the packages of `Pkg`
  are those that pass.
* Of a plugin's metadata the model keeps trust, version and permission declarations; of the
  review record `required` and `reviewer`, the only entries any code reads.
* `installed_at`, `source`, the config keys and the dependency environment are left out.
* `transition_status(..., "enabled")` is reached through `enable_plugin` only, as within `src/`.

### PluginEngine

One plugin of one process, called by the threads `Thread`; a sandbox object is a number of
`Box`, and `Free` ones may be made.

| Variable | Code |
|---|---|
| `rec` | `loader.installed_plugins[name]`: package and status |
| `gate` | `gateway.plugins[name]`: the same object as `rec` ("shared") or an older one with the status it had |
| `slot`, `active` | `engine.sandboxes[name]`, `gateway.active_sandboxes[name]` |
| `live` | the sandbox objects whose worker process runs |
| `subs`, `own` | the plugin's callbacks on the event bus; those in `_event_listener_callbacks[name]` |
| `limiter` | `_runtime_states[name]`: capacity, free permits, consecutive failures |
| `th[t]` | the call thread `t` is in: operation, step, sandbox, record and permit it holds |
| `streak`, `overtaken` | history, read by no action |

| Actions | Code |
|---|---|
| `StartCheck`, `StartRefused`, `Launch`, `BootFail`, `Ready`, `Register`, `Listen` | `start_plugin`, `SandboxManager.start`, `register_sandbox`, `_register_event_listeners` |
| `Unlisten`, `Pop`, `Halt`, `Deregister` | `stop_plugin`, `SandboxManager.stop`, `unregister_sandbox` |
| `Settle`, `SettleFail` | the check of `transition_status` in `disable_plugin`, `quarantine_plugin`, `revoke_plugin` and the breaker (`loader.py:448`) |
| `Grant` | `grant_permissions` and `enable_plugin` up to their check (`loader.py:414`, `492`, `448`) |
| `Assign`, `Mirror` | the write of the status (`loader.py:418`, `467`); `gateway.register_plugin` |
| `Install`, `Discover` | `install`; `discover` |
| `Lookup`, `Deliver`, `Denied`, `NoState`, `Create`, `Admit`, `Run` | `call_tool`, `call_memory_provider`, `run_middlewares`, the event callback; `_execute_plugin_action`, `_runtime_state_for`, `call_plugin_tool` |
| `Answer`, `TimeOut`, `Die` | the ends of `execute_with_timeout`; a worker that dies |
| `Succeed`, `Fail` (parts of these) | `_record_plugin_success`, `_record_plugin_failure` with the breaker |

The engine takes no lock, so a call is split where another thread sees the difference: at each
access to a table it shares, and around what takes long (the start of a worker, a call of the
plugin). The breaker's `disable_plugin` runs inside the call that failed and goes through the
same stop steps while it still holds its permit; a callback of `publish` and an entry of a
middleware loop return to their loop (`AfterAction`).

What is abstracted:

* Of a change of status in the loader, which takes no lock either, the check and the write are two steps (`Settle` or `Grant`,
  then `Assign`); a thread that holds an object which is no longer in the loader's table changes
  that object only. An install and a discovery are one step; `PluginLoader` has the loader's files. What `enable_plugin` asks of
  grants and review is left open, so `Grant` allows more than the code.
* Integrity, scan and production policy may refuse a start at any time (`StartRefused`).
* The increment of the failure counter is one step.
* `discover` is one step; in the code a reader may find the tables empty while it runs.
* The plugin declares one event, and listens to events of the host, not to the engine's own
  `plugin.*` events. It runs in a subprocess.
* Audit records, which can fail a call as well, are left out.

`PluginLifecycle` has the two things a caller sees, the status and whether the gateway routes
calls to the plugin. `engine_serial` checks that `PluginEngine` with one thread implements it:
a plugin is registered from `enabled` only, and disabled, quarantined or revoked only once it
is not registered.

### SandboxChannel

| Variable | Code |
|---|---|
| `mode`, `transport` | the life of the `SandboxManager`; pipe, or stdio with a reader thread |
| `worker` | where `_isolated_worker` or the main of `sandbox_stdio_worker.py` stands, and for which call |
| `req`, `ans` | the two directions: the worker's stdin or end of the pipe; the manager's end, or stdout with the reader's queue |
| `deaf` | a message that was too long left the connection unreadable, or ended the reader |
| `th[t]`, `calls`, `got` | the call of a thread of the engine; how many there were; what each returned |
| `tainted` | history: an exchange broke off, or a shutdown request went into one, and the sandbox went on |

A message carries the number of its call so that the properties can tell calls apart. The code
sends no such number to the manager, and no action of the manager looks at it. `Launch`,
`StartReady`, `StartFails` are `_start_sub_process`; `Call` to `Timeout` are the loop of
`_execute_sub_process`, with `ReceiveAsk`, `Reply`, `ReplyUnsent` its gateway requests;
`BeginStop`, `Shutdown`, `Close` are `stop`. `Load`, `Take`, `Ask`, `TakeReply`, `Finish`, `Die`
are the worker. Its gateway requests, like its results, may come out invalid or, on a pipe, too
long; the call then fails and the worker goes on waiting for a response. A time-out fires only while nothing is there to read: it is a choice of the
model, as long as the silence lasts.

### GatewayRequests

| Variable | Code |
|---|---|
| `rec` | `gateway.plugins[name]`: status, permissions that are checked once, network rule |
| `resolver` | what `socket.getaddrinfo` is: plain, or with a host pinned |
| `pinLock` | `_DNS_PIN_LOCK` |
| `dns` | what the name servers say (external) |
| `th[t]` | the request of a thread: use, target, vetted addresses, the resolver it will put back, the connection it made |
| `late`, `overlap`, `fooled` | history, read by no action |

`Begin` is `handle_sandbox_request`, `Require` is `_require`, `Act` the one use of a store, a file or the
output; `Allow`, `Resolve`, `Capture`, `Pin`, `Connect`, `Unpin`, `Check` are the steps of
`network_request` and `_open_pinned_network_request` in their order. `Govern` is an operator who
stops the plugin or grants anew, `Move` a host that gets another address. A host has one address
at a time; the code vets a set, all of which must be allowed.

### AuditLog

| Variable | Code |
|---|---|
| `log` | the lines of the file: whole, without a line feed, cut off, unreadable, edited |
| `lock[p]` | `AuditLogger._lock` of the process |
| `anchor` | the file of `LocalCheckpointAnchor` |
| `th[t]` | the record or the checkpoint thread `t` is making, or the log it has read to verify it |
| `sealed`, `overlap`, `broken` | history, read by no action |

A record is its number, so two records never have the same hash. `Begin` and `Write` are the read
of the last hash and the append of `record`, `Due` and `Flush` the reasons a sink makes a
checkpoint, `Take` its reading of the log. `Truncate` and `Fill` are the two halves of `write_text`,
which empties the checkpoint file before it writes it (`audit.py:334`). An append is one write of
one line and is seen whole or not at all. `ReadLog`, `Vet` and `Compare` are `verify_audit_log`,
which takes no lock: it reads the log (384), then the checkpoint once for its signature (442)
and once more to compare (443); `Raises` is what makes it fail at each of the two. The
verification a sink does before it seals reads no checkpoint and is part of `Due` and `Take`.
`Crash` may cut off the line or the checkpoint being written, or leave the checkpoint file empty;
`Change` is a rollback or an edit by someone who can write the file, with or without a matching
hash for the line. The signature of a checkpoint is left out.

### RegistryInstall

| Variable | Code |
|---|---|
| `index` | the registry: per version an artifact, revoked versions, revoked keys |
| `cache` | the cache directory: one file per entry, written by every install of it |
| `installed` | the package in the plugin directory |
| `inst[i]` | the call of `PluginRegistryClient.install` by process `i` |
| `trust`, `admin[a]` | the file of `TrustStore`; the edit of operator `a`, who has read it and will write it |
| `vetted`, `inst[i].slips`, `revoked`, `clash` | history, read by no action |

`ReadIndex`, `Fetch`, `CheckHash`, `CheckMetadata`, `Verify`, `Compare` are the steps of `install`,
`LoadHash` and `Unpack` those of the `PluginLoader.install` it calls. The cached file is opened anew
five times: for its hash, its metadata and its signature, and by the loader for a hash and to unpack
it. Others write it in between, and `slips` remembers when they changed what an install was about
to read unchecked, or the directory after it had compared versions. The loader compares its hash with
the signed one after unpacking; the model refuses at once, which leaves the same directory.
`Begin` and `Commit` are the read and the write of `add_key` and `revoke_key`. `Older` is
`_semver_sort_key`: a release comes after its pre-releases, whose suffixes compare as texts.
The options `allow_downgrade` and `allow_same_version_reinstall` are off.

### ReleaseGate and EvidenceCollection

`ReleaseGate` has one operator per kind of finding of `release_gate.py` and `Decision` over all of
them. A payload is a record with the fields the gate reads. `EvidenceCollection` runs
`collect_rc_evidence.py` step by step: `Run` writes what a command printed, `Die` is a command that
dies before it prints (`run_json_command` then takes the file that is there), `Scan` and `Ci` take
reports made for any commit, `Gate` is the collector's own decision, `Approve` the operator's
with the evidence of external systems. `out` is the output directory, `items` the index. What
each command prints is an operator (`DoctorReport`, `BwrapReport`, `DrillReport`, ...) that depends on
what is broken on the commit. "hosted" is no defect but a place: a collection on a GitHub-hosted
runner, which `validate_bwrap_sandbox.py` notes in its report and does not judge by.

## 3. What TLC checks

| Run | Question | Properties |
|---|---|---|
| `loader_serial` | one process, both trust levels, no faults: do disk and memory agree, do revocations hold? | `TypeOK`, `RestartAgrees`, `RevokedVersionStaysOut`, `RevokedIsFinal` |
| `loader_faults` | one process, crash or failure at every step | `ActiveIsReviewed`, `GrantsWithinApproval`, `StoppedStaysStopped`, `SealMatchesTree` |
| `loader_two_procs` | an engine and an operator's command interleave | `ActiveIsReviewed`, `GrantsWithinApproval` |
| `engine_serial` | one thread, every operation: do the tables agree, do stops and the breaker hold, is it a `PluginLifecycle`? | `BlockedIsUnregistered`, `GatewayFollowsEngine`, `BreakerTrips`, `Implements` |
| `engine_threads` | two threads call, publish, quarantine, enable, with time-outs and a breaker that trips at once | `TypeOK`, `NoPermitLost`, `GatewayDenies`, `QuarantineTakesHold` |
| `channel` | calls, time-outs, stops, broken messages, a worker that dies: whose answer does a call get, does it come back? | `TypeOK`, `AnswersMatch`, `QuietBetweenCalls`, `RepliesReachTheirCall`, `CallsReturnOrAsk` |
| `gateway` | two requests overlap while hosts move and an operator stops or regrants | `TypeOK`, `ConnectsAsVetted`, `RebindingSeenAlone`, `ResolverComesBack`, `StopReachesRequests` |
| `audit` | threads of two processes record, seal and verify while processes die and someone changes the log | `TypeOK`, `CleanLogVerifies`, `SealedPrefixKept` |
| `registry` | two installs through one cache, a registry that changes, two operators at the trust store | `TypeOK`, `InstalledWasVetted`, `RevokedKeyStaysOut`, `NoDowngrade` |
| `evidence` | collections over two commits, failing checks, a hosted runner, commands that die, stale reports, an approval | `TypeOK`, `CollectorNeverApproves`, `IndexAgreesWithGate`, `ApprovalIsSound`, `FullGoNeedsEvidence` |

Two runs end in a violation, each of a sentence in the repository's documents (`PROJECT.json`, findings):

| Run | Sentence | What TLC finds |
|---|---|---|
| `gateway_rebinding` | `PRODUCTION_CHECKLIST.md:59`: the gateway rejects DNS rebinding | Of two overlapping requests, the second captures the first one's pin as the resolver to put back (`gateway.py:551`). The host stays pinned, and the check after the connection compares the pin with itself. |
| `evidence_stale` | `RISK_REGISTER.md:15`: stale drill output is not a pass | A drill that dies is answered by the file of an earlier commit, whose status and flag are kept (`collect_rc_evidence.py:365`): the index says pass. |

### What the same models hold besides

Behaviours TLC shows when the models are asked, without a run of their own. Six are named
definitions that fail under the code as it is, kept in `PluginLoader`, `PluginEngine`, `AuditLog` and
`EvidenceCollection`:

* `DeclarationsReapproved`: installing the package that waits for approval once more clears the
  pending review (`loader.py:776`); no permission is granted by it.
* `CondemnedFollowsTable`: an upgrade with new permissions takes a quarantined plugin to
  `pending_approval` (`loader.py:265`), which is not in the table of transitions.
* `BlockedIsStopped`: after two starts and a quarantine the first start's process runs on, in no
  table (`engine.py:368`).
* `IllegalMovesRejected` (`PRODUCTION_CHECKLIST.md:61`: "illegal status transitions are rejected"): an enable or
  a grant that has passed its check (`loader.py:414`, `448`, `492`) writes ENABLED over a quarantine that
  another thread wrote in between (`418`, `467`), and so does the breaker's disable with DISABLED. The plugin is then
  startable again. `QuarantineTakesHold` excepts this write (`overtaken`) and nothing else.
* `CleanLogNeverRaises`: with no fault at all, a record and a checkpoint of another thread
  between the verifier's reading of the log and of the checkpoint raise "audit log rollback detected"
  (`audit.py:449`), and a checkpoint file that is being rewritten reads as invalid (`audit.py:342`).
  `CleanLogVerifies` says that an undisturbed log sets off no other alarm.
* `HostedBwrapBlocks` (`CI_READINESS.md:155`: GitHub-hosted bwrap evidence "must remain blocking"): in the index of
  `collect_rc_evidence.py:424` a passing validation of a hosted runner does not block. The gate blocks it
  (`release_gate.py:301`), and `IndexAgreesWithGate` has it as the one disagreement.
* With a trusted plugin, a torn manifest brings a quarantined plugin back enabled:
  `StoppedStaysStopped` is checked without trusted packages where a crash may tear the file.
* With two threads that start and quarantine, a quarantined plugin may end registered and
  running (`engine.py:394`). `BlockedIsUnregistered` is checked for one thread; `GatewayDenies` says
  why no call gets through.
* With two processes `StoppedStaysStopped` and `RevokedVersionStaysOut` fail as well: a process
  with an older record in memory writes it over another one's quarantine (`loader.py:726`), and
  `revoke_plugin_version` revokes the record of its own memory only (`loader.py:527`).
* A failure after the tree was replaced leaves the new tree, and the backup is deleted
  (`loader.py:268`). Two starts and a stop leave a callback on the event bus (`engine.py:607`), and
  two first calls create a semaphore each (`engine.py:651`).
* Channel: a stop that overlaps a call lets the plugin take the shutdown request for the
  gateway's response: the stop of another thread (`tainted`), or that of the caller itself, who has
  timed out, which `RepliesReachTheirCall` allows. A message that is too long leaves a sandbox that
  answers nothing and runs on, and a gateway request that was refused as too long or invalid one
  whose worker takes the next call for its response (`tainted`). With `max_concurrency` above one,
  calls share the pipe and take each other's answers; `MaxConcurrency` is one in the run.
* Audit: half a line left by a crash makes the log fail for ever, since the next record is glued
  to it (`broken`); two processes that record at once fork the chain (`overlap`); of two checkpoints that are written
  at once the end of the longer one may stay behind the shorter (`broken`); and after a
  rollback a sink that still runs overwrites the checkpoint with one of the shorter log
  (`audit.py:317`), so the rollback shows only until then.
* Registry: a write of the cached file between the loader's hash (`loader.py:226`) and its unpacking
  (`loader.py:238`) installs content that nobody verified under the hash of the verified one; one
  between the hash and the metadata may let a package pass under another version; an install between
  another one's comparison and the loader gives a downgrade (`slips` names the three); of two edits of the trust store at once one is lost (`clash`).
* Evidence: the CI result is that of the latest run, whatever commit it was for; the gate
  compares no commits.

**Bounds.** `Pkg` has a first release, one that adds a declaration and one that changes a
value (`p1`, `p2`, `p3`), and trusted releases (`t1`, `t2`): the three ways two declarations
can differ. The environment's inputs are bounded by the constants `Installers`, `Revocable`,
`Targets`, `Reviewers`, `Grants`; `Faults` says which failures are injected. Two processes are
enough for stale memory and for a read during a write; only one of them installs in
`loader_two_procs`, while its two invariants are theorems for any number of installers. The loader's
variables count nothing, so its state spaces are finite without a constraint.

In the engine, `Box` bounds the sandbox objects in use; `Room` lets a call begin only while each
thread could make one, so a bound never stops a call half way. `FailBound` bounds the failure
counter: `Calm` lets nobody call the plugin after that many failures in a row. `engine_threads` has one package that the
breaker disables after one failure, and `FailBound` = 1. `Trips` are the
packages the breaker may disable. Two entries make a middleware loop. Two threads are enough for
a stop during a call or a delivery and for a lost permit. An upgrade that replaces the semaphore
while a call holds a permit is left to the theorem, which covers every set of operations.

| Module | Bounds | Why they are enough |
|---|---|---|
| `SandboxChannel` | `Calls` = 3, two threads, one call at a time | a call that breaks off, one that meets what it left, and one more; the second thread stops the sandbox under the first |
| `GatewayRequests` | two threads, two hosts, one public and one blocked address | one request that pins and one that captures the pin; `h1` is asked for by both, `h2` is the host a pin must not touch; nothing is counted |
| `AuditLog` | `Records` = 3, `Interval` = 2, one crash, one change, one verification at a time (`Readers`); threads `a`, `b` in one process, `c` in another; symmetry of `a` and `b` | two checkpoints with a record between them can overtake each other; one fault is enough to break a chain and a third record to build on it; a verifier changes nothing, so two see no more than one |
| `RegistryInstall` | two installers, two operators, one key, a release and its pre-release, `Edits` = 4 changes of index and trust store | a key added, two packages published and one revocation; symmetry of installers and of operators, which nothing distinguishes |
| `EvidenceCollection` | two commits, one command that dies, at most one commit with one thing broken or on a hosted runner, one collection per commit | a file of the first commit meets a collection of the second; a behaviour ends with an approval |

**Deadlock** is checked in every run of the loader and the engine, in `gateway` and in `audit`: a
process can always discover again, an idle thread can always call a stop, a host can always
move, an operator can always ask for a checkpoint. It is off where the bounds end a behaviour:
in `channel` when the calls are used up and the sandbox is down, in `evidence` and
`evidence_stale` after the approval, in `registry` when the edits are used up and nothing is
listed that could be installed.

**Fairness.** `QuarantineTakesHold` assumes weak fairness of `Advance(t)` for each thread, that is, a
thread inside the engine's code goes on with it, which nothing in the code can block (`Halt`
waits for bounded times only, the semaphore is never waited for). There is none for `Answer` and
`TimeOut`: every message of the plugin restarts the timeout of `_execute_sub_process`, so a plugin
may keep a call for ever; and none for `Request` and `Die`. `CallsReturnOrAsk` assumes weak fairness
of `Proceed(t)`: a thread in a call or a stop goes on, since `poll` and `get` have a time-out. The
worker is plugin code, and nothing is assumed of it: the property says that the only way to
keep a caller is to ask the gateway for ever.

**The properties of the engine are stated between calls** (`AllIdle`) where the code passes
through intermediate states on purpose; `GatewayDenies` and `NoPermitLost` hold at every step.

## 4. What is proved

In `PluginLoaderProofs`, for every set of packages, processes, inputs and faults, from
`RecordsAssumption` (a metadata's declarations are non-empty and unique by name, as
`models.py` validates), `AbsenceAssumption` (None is no record) and `LoaderAssumption` (the
bounds are subsets of what they bound):

* `TypeCorrect`: `Spec => []TypeOK`. The inductive invariant adds `Pending`: a call that is
  installing, persisting or revoking holds what it works on.
* `ReviewedBeforeActive`: `Spec => []ActiveIsReviewed`, and `GrantsApproved`:
  `Spec => []GrantsWithinApproval`. Both follow from `RecordsSound`: every record in memory,
  in a pending install, in the manifest and in a backup is `Sound`. It is inductive because
  each pure rule turns sound records into sound ones (`InstallRecordSound`, `ViewSound`,
  `EditedSound`, `ManifestOfSound`), and because any process may read any file at any time,
  the files must be sound as well as the memory. `ActiveFromActive` reads the status table:
  other than `enabled`, an active status is entered from an active one only.

Its second half is about a single process (`OneProcess`: `Proc` is a singleton). The hypotheses of each
theorem are those under which the run checks the property; section 3
says what a second process, a trusted package or a fault does.

* `SealsAgree`: `Spec => []SealMatchesTree`, with any faults. The invariant `SealKept` says the same of a
  manifest set aside with its tree, and that a persist which seals holds the hash of the
  tree that is there (`Vouches`).
* `StopsLast`: `Spec => []StoppedStaysStopped`, with any faults, for third-party packages. `StopKept` says that after a
  stop nothing an install, a rollback or a discovery could bring back is enabled: not the record,
  the pending record, the manifest or the one set aside, and that what is left of an
  install that has ended is nothing.
* `RestartReadsBack`, `RevokedVersionIsOut`, `RevocationIsFinal`: `RestartAgrees`, `RevokedVersionStaysOut` and the action property
  `RevokedIsFinal`, without faults. The invariant `Undisturbed` says at each step of a call what is on disk: a
  record reads back as it is (`ReadsBack`) except while an install replaces the tree and a
  persist has not written yet, an install works on a version nobody has revoked (`Installing`),
  and a record in a revoked version is revoked or uninstalled (`Recorded`). `Agrees` leaves the one
  difference a restart may make: where the record grants nothing, a trusted or an uninstalled
  plugin may read back with grants.

In `PluginEngineProofs`, for every set of threads, packages, limits, bounds and operations,
from `EngineAssumption` (the limits and the threshold are positive, as `models.py` validates;
threads and `Box` are finite) and `StateAssumption` (None is no runtime state):

* `TypeCorrect`: `Spec => []TypeOK`. The strengthening `Good` says what a call holds where: a
  sandbox from its launch to its registration, a permit only where it returns it or passes it
  on. That the semaphore stays a natural number needs it.
* `PermitsAccounted`: `Spec => []NoPermitLost`. The set `Holding` of threads with a current
  permit changes in one of a few ways with the semaphore; each action is shown to be one of
  these moves (`Moves`), and `MoveCounts` shows that each keeps the sum, by the cardinality
  theorems. `Backed` says a current permit has a semaphore it came from.
* `GatewayRefuses`: `Spec => []GatewayDenies`, for sets `Ops` without `install` and `discover`:
  then every holder of the record shares the loader's object (`Aliased`), so the status the
  gateway checks is the loader's at every step, with any number of threads. With them the
  gateway may keep an old object until the next start, grant or stop.

In `PluginEngineAloneProofs`, from the same assumptions and `Alone` (one thread), every operation included:

* `BlockedStaysOut`, `GatewayAgrees`, `BreakerHolds`: `BlockedIsUnregistered`, `GatewayFollowsEngine` and `BreakerTrips`. These speak of the moments
  between calls; the invariant `AInv` says what holds inside one. `OnTables`: which of the two tables
  a start or a stop has changed at each of its steps, and that only an enabled plugin is on its
  way into them. `OnFailures`: the counter of the runtime state never lags behind the history,
  and a plugin that has failed too often and is still enabled is being disabled (`Disabling`).
* `EngineImplements`: `Spec => Implements`, the refinement of `PluginLifecycle`. `SameTable` shows that the abstract
  table allows the loader's transitions, `LifecycleMove` that a change of the record, if it is
  one, is an abstract step; `RefinementStep` goes through the actions. Most are stutters: the
  abstract plugin is registered when the gateway's table gets its sandbox and no longer when
  that is taken out, and with one thread no change of status comes in between.

In `GatewayRequestsProofs`, for every set of threads, hosts, addresses, permissions and rules, from
`GatewayAssumption` (blocked addresses are addresses, None is neither address nor thread,
the network permission is none of the plain ones):

* `TypeCorrect` and `VettedConnections`: `Inv` says what a request knows at each place (`Placed`) and
  that the thread which holds `_DNS_PIN_LOCK`, and no other, is between pin and unpin with its
  own address pinned (`Pinned`). A captured resolver may be anyone's pin, so `Inv` also has that no
  resolver, installed or captured, ever answers with a blocked address; that is part of `TypeOK`.
* `StopReaches`: a thread that has used the stopped plugin once is `Spent`: it is idle or only puts
  the resolver back and looks at its answer, and to begin again it needs an enabled plugin.
* `AloneNotFooled` and `AloneRestores` follow from `Alone`: without overlap at most one request is
  between capture and check, what it captured is the plain resolver, and the plain resolver is
  in place whenever nobody holds the lock, hence at every check.

In `AuditLogProofs`, for every set of processes and threads, every interval and any number of
records, crashes and changes, from `AuditAssumption`:

* `TypeCorrect`, with `Locks`: a thread is in `record` exactly when it holds the lock of its process.
* `CleanVerifies`: `Spec => []CleanLogVerifies`. The strengthening has at most one writer, a chain of
  whole lines that the writer's hash ends, and every seal, taken or written, fits the log; and
  what a verifier has read is a beginning of the log. It is inductive because what fits a log
  fits every continuation of it, so the order in which checkpoints are written does not
  matter, and because a checkpoint that fits the log fits each beginning of it that is not shorter.
  The two alarms the property allows are those the code raises (section 3).
* `SealKeepsPrefix`: `Spec => []SealedPrefixKept`, undisturbed or not. The invariant `Kept` says that hashes name records: no
  two lines, and no two threads about to write, share one, and a checkpoint, in the file or
  under way, ends a copy of the log (`Copy`, `TakenOf`). The chain does the rest (`Agrees`): as far as the
  log is linked, one equal hash is an equal beginning.

In `RegistryInstallProofs`, for every set of installers, operators, keys, versions and packages, from
`RegistryAssumption`:

* `TypeCorrect`, with `Wanting`: an install past the choice of an entry wants a package.
* `VettedOnly` and `NeverOlder` follow from `AllCarried`: what an install holds at each place. From
  its signature check on it holds a package that verified, and `NotOlder` holds from the comparison
  on, and the file holds what was checked, unless `slips` says otherwise. `OlderIsStrict`: the order of versions is asymmetric, suffixes included.
* `RevokedVerifiesNothing` follows from `Turns`: while operators take turns, either nobody edits and
  no revoked key is trusted in the file, or the one who edits has a copy that trusts none.

In `SandboxChannelProofs`, for every set of threads, number of calls, transports and troubles, from
`ChannelAssumption` (threads are finite):

* `TypeCorrect`: `Spec => []TypeOK`, with any number of calls at once.
* With `MaxConcurrency = 1`, `AnswersAreOwn` (`AnswersMatch`), `NothingLeftOver` (`QuietBetweenCalls`) and `RepliesAreOwn` (`RepliesReachTheirCall`). No message carries a
  number; what keeps calls apart is that there is one message: `Exchange` says where it can be,
  on its way to the worker, with it, on its way back, or with the gateway. `Starting`, `Closing` and `Ended` say the
  same of a sandbox that starts, is being stopped or has lost its worker, and `GivenUp` what the worker
  of a caller that has timed out still has before it: a message of its own call at most, then
  shutdown requests, one of which it may take for the response. All of it holds until
  `tainted`. With two calls at once there are two messages, and the theorem is false.

In `EvidenceCollectionProofs`, for every number of commits and of commands that die and every kind of scanner
report, from `EvidenceAssumption` (there is a commit, and Missing is no file's content):

* `TypeCorrect`, `CollectorRefuses` (`CollectorNeverApproves`), `IndexAgrees` (`IndexAgreesWithGate`), `ApprovalsAreSound` (`ApprovalIsSound`) and `FullGoIsEvidenced` (`FullGoNeedsEvidence`). The
  invariant goes file by file: `Report` says what the words of each file promise about the commit it was
  made from, and each report, the one a dying command leaves included, keeps its promise
  (`PrintedReports`, `DeathReports`, `ScanReports`, `CiReports`). `DrillSound`, `CiSound`, `BwrapSound`, `AuditSound`, `DoctorSound` and `ScanSound` then say what the gate
  concludes from words that keep it. `Progress` ties each index entry to the file in the directory; where the two judge a file differently,
  the file is a bubblewrap report of a hosted runner.
  The collector's gate refuses because no report of its own has the external anchor.

Only model-checked: `QuarantineTakesHold` and `CallsReturnOrAsk`, which hold under fairness and need ENABLED, out of
the prover's reach. Every other property of a passing run is a theorem. The two runs that
end in a violation, and the behaviours listed at the end of section 3, are TLC's counterexamples.

## 5. Not modelled

* The policy engine, dependency, configuration and bill-of-materials code, the offline
  scanners and the source analysis: pure functions of metadata and file contents. Where they
  decide, a model has both outcomes.
* Job Objects, cgroups, bubblewrap and the import guards of the worker: effects in the
  operating system and the interpreter, which no state of the program records. A worker that
  a limit kills is `Die`.
* Cryptography: a signature verifies if the signer's key does, and hashes do not collide.
* The content of the gateway's stores and files, its checks of paths and links, the shape of
  requests; the parsing and the reports of the command line.
* The legacy plugin manager, the facades and the legacy market: compatibility layers that
  the loader and the engine never call.
* What a drill does inside: it calls the components above in one process, in order.

`PROJECT.json` lists it per component.

## 6. Plan

1. An abstract request/response specification (a call is open, then answered or failed) that
   `SandboxChannel` implements while one call is made at a time; `Exchange` is the invariant its proof needs.
2. An engine and a loader composed: what an upgrade and another process' revocation mean for a
   running sandbox; the channel in place of the engine's one-step answer.
3. Proofs: which of the loader's single-process results survive a second process that only
   reads; an upper bound on the calls that share the channel.
