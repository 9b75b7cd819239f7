# A verification of club-3090's control plane

club-3090 serves language models, images, voice and video from one host with two
consumer GPUs. Several independent programs may take those GPUs, and they agree on who
does through locks, claims and checks of the state of the host. The modules in this
directory model that part of the repository: they say what each mechanism does, TLC
checks it on small instances, and TLAPS proves its main properties for any number of
participants.

All paths below are relative to the repository's root.

1. [Inventory](#1-inventory)
2. [Modules and the code they model](#2-modules-and-the-code-they-model)
3. [Runs, bounds, fairness](#3-runs-bounds-fairness)
4. [Proofs](#4-proofs)
5. [Where the code differs from what is said of it](#5-where-the-code-differs-from-what-is-said-of-it)
6. [Plan](#6-plan)
7. [What is not modelled, and why](#7-what-is-not-modelled-and-why)


## 1. Inventory

### Parts, state, operations

| Part | State | Operations | Hard because |
|---|---|---|---|
| **Serve cockpit: write gate** `tools/serve-cockpit/club3090_cockpit/services.py`, `app.py` | `_write_lock`, `_pending_claims`, the plan and `ReconcileResult` of each `execute_action` | `dispatch_action`, `execute_action`, `reconcile_before_write`, `_teardown_conflicts`, `_release_claim_when_done` | one coroutine per write, an await between every two reads, workers that cancel each other, commands that outlive their coroutine |
| **switch.sh, estate CLI** `scripts/switch.sh`, `scripts/lib/profiles/estate_cli.py` | containers, VRAM | `down_running`, `up_variant`, `wait_ready`; boot, report-state | run as processes beside the cockpit; a container exists long before its memory does |
| **Subprocess runner** `tools/tui-core/club3090_tui_core/runner.py` | `current_run`, `_process`, `_cancel_event`; one `RunState` per run | `start_raw`, `_read_output`, `cancel` | one handle and one event for all runs, one reader per run; signals to process groups; time-outs |
| **Serve cockpit: download desk** `app.py` | `_active_downloads`, the shared download runner | `start_download`, `run_download`, `cancel_download` | several downloads over one runner and one worker group |
| **Test console** `tools/test-console` | one runner | start, cancel, on-complete | starts one run at a time: the client the runner was written for |
| **Studio production agent** `services/studio/production` | `_JOBS` under `_LOCK`, `.run.lock` (flock), the executor's position in its plan | `POST /produce`, `run.py`, acquire, plan, render, assemble, release | threads of a server against a command line; a lock across processes; a queue elsewhere that outlives its clients |
| **ComfyUI** (external) | prompt queue, history, input directory | submit, render, `/history` | keeps what was sent by a client that gave up or died; one input file name for all |
| **Studio orchestrator** `services/studio/orchestrator` | jobs, a thread each | `POST /extend`, status | no single flight, same ComfyUI queue |
| **step-voice** `services/studio/step-voice/server.py` | `_engine`, `_last_used`, `_load_lock` | clone, edit, unload, idle watch | executor threads against a watch thread and the studio's eviction |
| **model-switch** `tools/model-switch/server.py` | `_switch_lock` | `GET /status`, `POST /switch` | status outside the lock, a time-out that kills half of the command |
| **Model pull** `scripts/lib/profiles/downloader.py` | `<pulls>/<model>`: `.download.lock`, `.incomplete`, the files; `<model>.staged` | `download_model`: lock, fetch, check, publish | processes that are killed; a lock inside the directory it protects |
| **Pull pipeline around it** `pull.py`, `swap_apply.py`, `booter.py`, `capture.py` | compose registry, override files, containers | derive, swap, boot, capture, tear down | cleanup in generators, files replaced in place |
| **Thinking-budget loop** `fixes/pn119_router.py`, `fixes/pn162_ledger_update.py` | the router's sink: buffers, two files per boot of the engine; the ledger, its cursor | `_publish`, `on_finish`, `_sink_flush`, `_sink_close`; `read_sink_since`, `run_pass` | two threads and a hard cap on one side, a reader that sees half a line and may be killed on the other |
| **Other patches** `fixes/` | vLLM's source in the image | idempotent text patches | they are parts of another program |
| **gpu-mode, launch, preflight, setup** `scripts/*.sh` | scene files, containers | scene change, launch | operator scripts, run one at a time |
| **Profile derivation** `scripts/lib/profiles/{deriver,classifier,compat,gates,dedup}.py` | none | pure functions | decision tables |
| **Image shim, TTS, studio pipe, director intent, clip chaining** | none or one request's | translate and forward | retries |
| **residency instrument, grammar-eval, kv-calc, charts** | none | measure, plot | no protocol |
| **Compose files, vendored patches, configuration of third-party services** | none | none | not programs of this repository |

### How they interact

* The cockpit's gate starts `switch.sh`, `docker compose up -d` or a validation through the
  **runner**, and ends the claim of a write when the runner says the run is done. What the
  gate knows of the cards it reads from `nvidia-smi`, `docker ps` and `estate_cli.py
  report-state`; the estate CLI, an operator and model-switch change them without asking.
* The download desk drives `setup.sh` through a second runner that all downloads share.
* The production server and its command line meet in one **flock**; both send prompts to
  **ComfyUI**, and evict step-voice from the second card before a video lane. The
  orchestrator sends prompts to the same ComfyUI without the lock.
* Several processes may pull the same model: they meet in the **lock directory** of the
  model, which the publication of the files replaces. A pull goes on to boot the model in
  a **container** named after it, over a mount of that directory, without the lock.
* **model-switch** runs the same `switch.sh` as the gate and operators do; nothing but the
  containers tells one of the other.
* The engine's router and the ledger updater meet in **files** that one appends to and the
  other reads.

### What makes each part correct

* Gate: no two writes on the same cards; from its verdict on, a write is alone; a claim
  for as long as its write is on its way, no longer; every plan gets an answer.
* Runner: a reader reads its own command; done means gone; a cancel reaches the command
  that runs, is not lost, and ends.
* Production agent: one production at a time, the second request refused; a status that
  tells the truth; clips made from their own start image; every job ends; no lock left.
* Pull: one pull at a time; what is published is whole and checked; a dead holder's lock
  is taken over, a live one's never; nothing left behind by a failure.
* Download desk: what is listed is watched, by one worker, and shown; what has left the
  list does not stay at downloading.
* step-voice: no unload takes the engine from a call that has it; an idle engine goes; a
  video gets the card once calls are over.
* Long clips: each segment continues the clip's own last frame.
* model-switch: one switch at a time; no engine beside one that an earlier switch left.
* Pull pipeline: a pull leaves no container of its own, probes its own server, and calls a
  capture passed only if the weights it served were complete and checked.
* Budget loop: every pair of lines is credited once, a pair in flight is waited for, a
  line names its own feature row, a clean shutdown loses nothing.

`PROJECT.json` lists under `hazards` the lines where each of these is at stake, and the
properties that would notice.


## 2. Modules and the code they model

```
SingleFlight            what a single-flight lock promises (abstract)
   ^ refined by         (LeaseSpec in each)
CockpitGate             the cockpit's write gate, with the host around it
StudioProduction        the production agent, with ComfyUI around it
PullDownload            the pull of one model, with the file system around it
ModelSwitch             the switch service, with switch.sh and docker around it

SubprocessRunner        the runner under both terminal applications
   ^ EXTENDS
DownloadDesk            the cockpit's downloads over one runner

StudioProduction  StepVoice  ExtendChain
   ^ EXTENDS        ^ INSTANCE  ^ INSTANCE
StudioHost              productions, voice and long clips on one ComfyUI and one card

PullDownload
   ^ EXTENDS
PullPipeline            boot, probes, capture and teardown after the download

BudgetLedger            the router's sink and the ledger's passes

MC<module>              constants for TLC          MC<module>_<run>.cfg   one question each
<module>_proofs         theorems of the module, checked by TLAPS
```

An action of a model is the code between two points where another actor can run: between
two awaits (`CockpitGate`, `SubprocessRunner`, `DownloadDesk`), between two critical
sections or network calls (`StudioProduction`, `StepVoice`, `ExtendChain`), between two
system calls or commands on shared files and containers (`PullDownload`, `PullPipeline`,
`ModelSwitch`, `BudgetLedger`). Operators whose names have a suffix (`Reap_SetsDoneFirst`,
`Acquire_Unlocked`) are plausible mistakes in the definition they precede; no
specification uses them. They are there to test the properties: with the mistake in place
of the definition, TLC must find the property violated.

### CockpitGate

| Model | Code |
|---|---|
| `pc[w]` | the await at which the `execute_action` of write `w` is suspended: waiting for the lock (`queued`), for `detect`, `docker` ps, for `estate` (report-state not yet looking), for its answer (`report`), in the `teardown` of conflicts, in the `spawn` |
| `plan[w]` | the `ActionPlan`: `serve` (switch.sh), `generated` (compose up), `ungated` (`requires_reconcile=False`), forced or not, gate skipped or not |
| `lock`, `claims`, `expired` | `_write_lock`, `_pending_claims`, the claims past `_claim_ttl` |
| `seen[w]` | the part of `ReconcileResult` the verdict depends on |
| `cancelling` | workers that Textual has cancelled and that have not been resumed yet |
| `proc[w]`, `engine[h]` | the spawned command, and the container it leaves: created (`idle`), then with its memory (`loaded`) |

`Dispatch` is `dispatch_action` with the exclusive worker group. `AcquireLock`,
`ReadGpus`, `ReadDocker`, `ReadEstate`, `Reconcile` and `ReconcileFails` are the gate;
`Verdict` is what `execute_action` does with its result without another await: refuse,
stop the conflicts, or register the claim and spawn. `StopConflict`, `Spawn`,
`SpawnFails`, `Unwind` (CancelledError at any await) and `ReleaseClaim` are the rest.
`DownRunning`, `ComposeUp`, `Exit` are `switch.sh` and compose; `Load` and `Die` the
engine; `EstateBoot` is a boot that does not go through the cockpit.

The only caller of the gate asks for both cards, and `docker ps` never fills in the GPUs
of a container, so the model has no GPU indices: a conflict is any container seen while
a wanted card was seen busy, as in the code.

### SubprocessRunner

`run[r]` is where `start_raw` and then the reader task of run `r` is. `process` is
`_process`, named after the run it was spawned for; `handle[r]` is the local `proc` of the
reader, which it takes from `_process` when the loop first runs it. `os[r]` is the process
group: the leader may exit and leave `orphans`, which hold the pipe open and receive no
further signal. `cancel[c]` is the last signal that a call of `cancel` has sent.

`CommandEnds` and `Struck` allow everything a command may do: ignore any signal but
SIGKILL, leave children, end on its own. `Unreadable` names the runs that have a line the
reader's loop may raise on (no parser, a line over the stream's limit, a callback).
`Overlapping` distinguishes the cockpit (TRUE) from the test console (FALSE).

### StudioProduction

`req[r]` is the handler thread of a `POST /produce`, `status[r]` the job in `_JOBS`,
`stage[p]` the job thread or the run of `run.py`. A plan is a sequence of tasks: `i2v`
uploads a start image and submits, `image`, `t2v` and `music` submit, `tts` does not use
ComfyUI. `flock[d]` is who holds `.run.lock` in directory `d`; `Dir` gives each production
its directory. `queue`, `image` and `rendered` are ComfyUI's queue, the input file that
every upload overwrites, and its history. `ServerCrash` and `CliCrash` take the threads,
`_JOBS` and the flocks away and leave ComfyUI as it is.

Time is not modelled: `GiveUp` may strike an upload (`lanes.py:168`), a submission
(`comfy.py:40`) and the wait for a clip (`81-111`). A request that a production has given up, or
that was under way when its sender was killed, is in `late`, and ComfyUI may serve it at any
later time (`Arrives`): the file is overwritten, or the prompt queued. `strays` remembers the
images that came in so.

### PullDownload

`at[c]` is where caller `c` of `download_model` is, from the `mkdir` of the lock to its
removal. `lock` is the directory `.download.lock`: absent, or with a pid or without one,
young or not (`_LOCK_ACQUIRE_GRACE_S`). `staging`, `staged` and `published` are trees:
functions from the files present to whether their bytes are right. `Faults` names what
may go wrong: a kill, a full disk, a pid that cannot be written, the hub, bad bytes, a
file that cannot be read back.

`Look` and `Probe` are the two looks at another's lock, `Steal` its removal. `Move`,
`RemoveSome`, `Remove` and `Rename` are the publication: the removal of the old directory
goes entry by entry and takes the lock along.

`Overlapping = FALSE` keeps two callers from being in the lock's short windows together
(making it, looking at it, taking it over, replacing the directory under it, removing it);
fetches, checks, failures and kills still overlap. The code needs this to be a lock at all:
without the assumption `OneInside` fails ([section
5](#5-where-the-code-differs-from-what-is-said-of-it)).

### ModelSwitch

`handler[r]` is the thread of a `POST /switch`: it reads one container (`ReadContainer`),
asks that container's port for `/health` (`Probe`), answers `already` or goes for
`_switch_lock`, which is not waited for (`Acquire`, `Refuse`). `script[c]` is where a run of
`switch.sh` is, whether a handler or a shell has started it: `List` and `DownRunning` are
`down_running`, then `Preflight`, `UpVariant`, `FindContainer`, `WaitReady`. `box[s]` is the
container of a slug, `booting` until the engine has its memory.

`TimeOut` kills bash and leaves the docker command it was waiting for in `child[c]`, which
comes to its end on its own (`LeftBehind`). `ServiceCrash` takes both, as systemd kills the
whole control group. `Unseen` says that `Preflight` may pass whatever is up (`FORCE=1`, no
`nvidia-smi`, or GPUs that are not selected). `maker` and `met` are history: who has started
a container, and which runs were ever alive together.

### DownloadDesk

The module EXTENDS `SubprocessRunner`: an attempt to download a slug's weights is a run of
the runner. `tracked` is `_active_downloads`, `worker[r]` the `run_download` worker of an
attempt, `shown` the entries on screen at downloading, `restat` the look-ups that
`cancel_download` starts beside the kill. `StartDownload`, `Launch` (`start_raw`),
`Finishes` (the polling loop's end, by done event or because the slug has left the list) and
`CancelDownload` with `KillDownload` and `RestatAfterCancel` are the operations.
`CancelDownload` cancels the whole worker group, as the code does; `struck` remembers the
workers of other slugs that went with it.

`load_catalog` is two steps with awaits between them. `Populate` paints new entries, none of
them looked up or stamped (`stamped`); `Stamp` is the look-up with `_reapply_active_downloads`
behind it, and may never come. What had an old entry goes on with that: a worker that has not
been launched (`overtaken`), for it reports a failed launch to the entry it was started with
(`LaunchFails`, `app.py:7445`); a look-up after a cancel; and a dialog from before the refresh
(`dialog`), whose download is shown on the old entry (`StartStale`). `stray` remembers the slugs
whose last news went to an entry that nobody sees. A worker that watches is not overtaken, as
it reads the tracker's entry at each tick.

### StepVoice, ExtendChain, StudioHost

`StepVoice` has one action per stretch of a call between two locks: `FindsLoaded` or
`BeginsLoad`, `EncoderLoaded`, `EngineLoaded` under `_load_lock`, then `Stamp` for
`_last_used`, which is set after the lock is released. `eng[c]` is the reference a call
holds; an engine is on the card as long as the service or a call refers to it (`Resident`).
`WatchDecides` and `WatchUnloads` are the idle watch, which looks without the lock and does
not look again.

`ExtendChain` is the thread of a `POST /extend`: upload the last frame, submit, wait,
collect, join. `OwnNames = TRUE` is the orchestrator, which puts the job's id into a
frame's file name; `OwnNames = FALSE` is the command line `extend_chain.py`, which does not.

`StudioHost` EXTENDS `StudioProduction` and INSTANCEs the two others over one ComfyUI queue
and one card. `EvictVoice` is `_evict_voice` before a video: the request may be lost, or be
served after the production has stopped waiting for it (`Unload`). `Parties` bounds how many
productions, clips and calls a behaviour has, whichever they are.

### PullPipeline

The module EXTENDS `PullDownload` with `_run_derived_e_stage`: after the download has
returned a pull boots (`Up`, `UpFails`), waits (`Ready`, `ReadyTimesOut`), probes (`Smoke`),
writes what it saw (`Capture`) and takes the container down (`Down`), which is a `finally`
(`Raises`). Probes that raise leave an empty result (`pull.py:1274`), which is no red one. A
download that failed is noted and the boot goes on; one that raised ends the stage.
`container` says whose the container of that name is, whether its mount is still the model's
directory, and what its server has loaded.

### BudgetLedger

On the engine's side `Score` and `Finish` append a line to the buffer, and at the hard cap
the engine flushes itself. Lines and feature rows have a buffer each (`buf`, `fbuf`), and a
flush takes both at once (`out`, `fout`) but writes the rows first; `BeginFlush`,
`WriteFeats`, `WritePart`, `WriteLine`, `WriteFails` and `FlushReturns` are `_sink_flush` by
either thread, `Close` is `_sink_close`. On the updater's side `BeginPass` reads ledger and
cursor and lists the files, `ReadTail` and `ReadFile` are `read_sink_since`, `WriteLedger`
and `WriteCursor` the end of `run_pass`. A byte offset is the number of whole lines before
it; a file may end in part of a line, which may lack no more than its newline (`bare`).

The code reads a file line by line while the engine appends to it. What is whole by then is
read whole, and what comes later is left to the next pass, so one step at the end of the
file (`ReadFile`) stands for all lines but the last: the loop may get the beginning of that one
(`ReadTail`, `half`) and, if the rest has arrived meanwhile, go on with the rest as a line of
its own. Neither piece parses, and the second ends in a newline, so it moves the cursor:
`torn` are the lines that a pass has in two pieces, `lost` those that it has left behind its
cursor. A tail that lacks its newline alone parses, and its newline is a blank line.
`given_up` are the requests that have gone past one of the orphan bounds.

### SingleFlight

`flying` is the set of clients in flight; one starts only when there is none. It is
refined by the gate (`flying` = the writes whose command is on its way to the cards), by
the production agent (those between the lock and its release), by the pull (those between
the mkdir and the removal of the lock) and by the switch service (the handlers whose bash
is at work).


## 3. Runs, bounds, fairness

Distinct states in brackets. Deadlock is checked in the runs of the ledger, whose updater
never stops. Elsewhere every actor makes a bounded number of calls, so the models stop.

| Run | Shows | Bounds |
|---|---|---|
| `gate_safety` [892,794] | claims cover every write in flight; an overlap needs a forced blind write or an elapsed TTL | 2 writes of any kind, forced, skipped or not; every fault |
| `gate_calm` [38,472] | the gate is a lease; every plan settles; claims of spawned writes go | 2 writes of kind serve or ungated, forced or not; no call fails, no TTL runs out |
| `runner_serial` [33,744] | done means exited, cancels heard and never idle; a cancelled run ends | 3 runs one after another, one with unreadable lines, 2 cancels, callers cancelled |
| `studio_faults` [289,240] | own start image or one that came in late, a lock that is in use, lease; accepted jobs end | 2 requests, 1 command line, plans of a keyframe and its clip or of a narration (`Films`), every time-out, crashes, a lock file that cannot be written |
| `pull_apart` [890,113] | nothing unverified, whole unless killed, no residue, stale locks reclaimed, lease | 3 callers, a weight and a config file; kills, full disks, hub failures, bad bytes, unreadable files |
| `switch` [83,053] | requests' switches meet only after a time-out; two engines only from runs that met | 2 requests and a shell, 2 slugs with ports of their own; time-outs, a killed service, a check of the memory that passes; `docker ps` answers |
| `desk` [1,508,390] | what is listed is watched unless struck; one worker per slug | 3 attempts at 2 slugs, 1 cancel, refreshes in two steps at any moment, one dialog from before them; every line can be read, and no command leaves children behind (`NoOrphans`) |
| `desk_live` [160,633] | what has left the list does not stay at downloading but for a launch that failed with an old entry; a gone command is noticed | 2 attempts, 1 cancel, overlapping runs, no line can be read |
| `studio_shared` [325,472] | one production's prompts in the queue, clips continue themselves, a video gets the card, calls keep their engine; idle engines go | any 3 (`Parties`) of 1 request, 1 command line, 2 long clips of two segments and 2 voice calls; nothing times out or crashes |
| `pipeline` [140,552] | no orphan, own server, passed is verified, checked is published; what boots is torn down | 2 pulls; failing boots, dying engines, exceptions, kills, bad bytes, unreadable files |
| `ledger` [358,509] | credited once, pins hold, rows aligned, a clean shutdown loses nothing; the cursor catches up | 2 requests scored in one order (`AFirst`), 2 boots, a buffer of 2, 1 updater that may die while it reads, one line read in two pieces (`OneTorn`); kills and failing writes in the first boot (`LastBootWorks`) |
| `ledger_skip` | **violated**: `NeverSkipped`, with nothing going wrong | 2 requests, 1 boot |

Five more properties are stated in the modules and hold in the configurations named, but
have no run of their own (the two invariants among them, `LoadedTogether` and
`DoneIsComplete`, are proved instead): `LockIsFreed` (`MCModelSwitch_switch`), `LoadedTogether`,
`DoneIsComplete` and `EveryClipEnds` (`MCStudioHost_shared`), `CancelTerminates`
(`MCSubprocessRunner_serial`).

**Why the bounds are enough to see something.** A conflict is between two actors in every
part; the third run, attempt or caller is there for what is handed from one to the next (an
event not cleared, a stolen lock stolen again, a slug started again after its cancel). Two
files are the least with one that is checked and one that is not. Two tasks are the least
for a prompt of the first still queued at the second. Two boots are the least for a line
torn at the end of one file while the next is written; a buffer of two is the least at
which a flush overlaps an append. The proofs below take the bounds away from most of the
safety properties.

Symmetry is used over writes in `gate_safety`, over callers in `pull_apart` and over the two
attempts at one slug in `desk`, which check no liveness property. In `ledger` the requests
are alike too, but `CatchesUp` is a liveness property there, so a constraint names the one
that is scored first instead: up to their names, no behaviour is left out. `OneTorn`,
`LastBootWorks` and `NoOrphans` do leave some out: those with a second line read in two
pieces, those whose second boot fails as the first may, and those where a command of the
desk leaves children behind (which `runner_serial` and `desk_live` have). The theorems on
the same safety properties have no such bound.

**Fairness** is of the loop, of threads and of time, never of the outside:

* Gate: every coroutine whose await is over is resumed, as is the release task; the calls
  it awaits are subprocesses with time-outs. Commands end (`wait_ready` has a time-out,
  compose waits for nothing) and a loading engine fills its cards or dies. `Dispatch`,
  `EstateBoot`, `Die` and `ClaimExpires` need never happen.
* Runner and desk: start, reader, canceller and workers go on (asyncio, `wait_for`
  time-outs, the reader looks at the event every second). Nothing is assumed of commands
  and of users, so a run may last for ever; what is shown is that a cancelled one does not.
* Studio: handler and job threads go on, and every call to ComfyUI or the director has a
  time-out (`GiveUp` is one of the steps of the job). Nothing is assumed of ComfyUI. On the
  shared host a voice call that has begun goes on, the idle watch wakes up and time passes.
* Pull: the steps at the lock go on. Nothing is assumed of the hf command, which has no
  time-out. Everything after the download has one (`wait_ready`, the probes, docker), so in
  the pipeline a pull whose download has returned goes on.
* Switch: handlers and the steps of `switch.sh` go on; engines need never boot.
* Ledger: the timer starts pass after pass and a pass comes to the end of its files (weak
  fairness of `BeginPass` and `ReadFile`), not every pass is killed (strong fairness of its
  two writes, which a death disables), and lines grow old. Nothing is assumed of the engine.


## 4. Proofs

7,347 obligations, all discharged by Z3, Zenon and LS4. Constants are arbitrary: any set
of writes, runs, productions, callers, slugs, requests, boots, files, plans. Assumptions
are named; a theorem without one holds of the whole specification. Every invariant and
every action property that a run checks has a theorem, each module's type invariant
included. A composed module's proofs start from those of its parts: the composition is
shown to implement the part, and what is proved of the part without an assumption that the
composition drops holds in it.

**CockpitGate_proofs.** `TypeCorrect`, `ClaimsCover`, `PastGateAlone`, `OverlapExplained`
and `SerialGate` hold without an assumption. None of the safety properties is inductive: a
write starts flying at `Spawn`, and that its claim exists by then, and that nobody else is
flying, was decided at `Verdict`. `IInv` therefore joins to them `ProcBehindReturn` (a
subprocess exists only behind an `execute_action` that has returned) and
`ClaimBeforeSpawn`. The argument runs through `OwnerAlone`: the owner of the lock is the
one coroutine past `queued`, so nobody else can spawn between its verdict and its own
spawn; at the verdict an empty set of claims means that no one is in flight
(`ClaimCoversFlight`). Under `Calm` (no call fails, no TTL runs out, no plan skips the gate)
the exceptions are gone: `CalmHardBlock` and `ImplementsLease`.

**SubprocessRunner_proofs.** `TypeCorrect` without an assumption. Under `Serial` (one run
at a time) `OwnProcess`, `DoneMeansExited`, `CancelIsHeard` and `NoIdleCancel`; if moreover
every line can be read, `ReadsToTheEnd`. The invariant: at most one run is neither new nor
done (`Sole`), and `_process` is set exactly while that run has a reader
(`ProcessIsStreaming`); then whatever `ReaderBegins` finds there is its own. Of runs that
overlap `NothingReturnsEarly` says what is left of it: a reader or a cancel that holds a command,
be it another run's, waits for that command's leader (`WaitsForWhatItHolds`).

**StudioProduction_proofs.** `TypeCorrect`, `HonestStatus` (through `HoldsItsLock`: a
production at work holds the lock of its directory) and `NoLeakedLock` hold with any
directories and any faults; `OneAtATime`, `ImplementsLease` and `ClipsFromOwnImage` need
`OneDirectory`. The last is the deep one: an image is overwritten by the next upload, the
queue may hold prompts of productions long dead, and requests that nobody waits for arrive when
they like. `PromptInv` says that while a production is between upload and answer the input
file is still its own or came in late (`FileIsMine`, `strays`), each prompt is late, queued or
answered, and once (`Once`), and a prompt still queued is the last one its production sent
(`Queued`); so the prompt of a production that gave up may be rendered from a wrong image,
but nobody goes on with the clip. While nothing times out and nobody is killed no request is
late (`Awaited`): then the queue holds one production's prompts (`OneProductionsPrompts`), and
every clip that a production goes on with is from its own image (`OwnImageInTime`).

**PullPipeline_proofs**, on the download by itself. `TypeCorrect` without an assumption. The
rest under `Orderly` (callers do not meet in the lock's windows, and pids can be written).
`LockInv`: one caller inside, windows apart (`Spaced`), who owns the lock in each phase
(`Owned`), and a pid in the lock belongs to a holder or to a dead process (`PidIsHolders`).
From it `OnePull`, `StaleLocksGo` and `ImplementsLease`; with `Progress` (what the holder's
trees are in each phase) `PublishedIsVerified`, `NothingLeft` and, unless the disk may fill,
`AllIsPublished`. `PublishedIsWhole` adds `Unreturned` (a call still under way has no
result), which is what tells a pull killed in the middle from one that returned.

**PullPipeline_proofs**, on what comes after. `PipelineRunsPull`: a behaviour of the pipeline
is one of the pull, so all of the above holds of it. `PipelineTypes` and `OwnServer` without
an assumption: only the owner of a container takes it down, and nobody can put one up
under its name. `NothingOrphaned` needs that `docker compose down` works
(`"down" \notin BootFaults`). `OnlyVerifiedPass` needs `Orderly`, and uses the invariant of the
download together with `LoadedWhole`: a server loads the tree that is published at that
moment, and that tree is complete and checked.

**ModelSwitch_proofs.** `LockHeld`: whoever is between taking `_switch_lock` and releasing
it is its owner. From it `TypeCorrect`, `RequestsMeet` (an action of two requests at once
needs an earlier time-out) and `ImplementsLease`, without an assumption. `EnginesMet` needs
that `docker ps` answers (`~PsFails`). Its invariant carries three facts from the moment a
run of `switch.sh` lists the containers to the moment it brings its own up: runs alive
together have met (`AliveMet`), while it takes down, what is not on its list was started
by somebody it met (`DownMet`), and past that this is so of everything that is up
(`PastMet`). `OnlyUpAdds` reduces the rest to `UpVariant` and the docker command that
a time-out has left behind.

**DownloadDesk_proofs.** `ListedAreWatched`, `ListedAreShown` and `OneWorker`, without an
assumption, for any number of slugs and attempts. The invariant has the converse of the
first: a live worker is the one of its slug's entry (`WatchedIsTracked`), entries name
attempts at their own slug (`TracksItsOwn`), a look-up still to come belongs to a slug
that is off the list and still on the screen (`RestatPending`), and nothing is shown as
downloading between paint and stamp (`RefreshedSince`). `ListedAreShown` is therefore about the
screens that a refresh has finished stamping, and excepts what was started from an older dialog.

`DeskRunsRunner`: whatever the desk does to the runner is a step of the runner or none. The
desk's runs overlap (`DeskAssumption`), so only what is proved of the runner without `Serial`
comes over by it: its types, and with them `DeskTypesHold`, and `WaitsForWhatItHolds`, which is
`DownloadsReturnLate`. `DoneMeansExited`, `CancelIsHeard` and `NoIdleCancel` are theorems of a
runner with one run at a time, and the first and the last of them fail under the desk
([section 5](#5-where-the-code-differs-from-what-is-said-of-it)).
`WorkersFollowTheirRuns` relates the two: a worker waits for `start_raw` only while its run has
not got past it, and watches only a run that has (`WorkersInStep`).

**StudioHost_proofs.** A production shares ComfyUI with long clips and the card with the
voice. `HostRunsProductions` says that this takes nothing from it: leave the clips' prompts
out of the queue and of what was rendered (`OwnQueue`, `OwnRendered`), and the host's
behaviour is one of `StudioProduction`, where nobody is killed (the host's actions have no
crash). The filtered queue is defined by counting: `OwnQueue[k]` is the k-th place that
holds a production's prompt (`Rank`), so that appending and removing are facts about the
cardinality of sets of places, where a recursive filter would need induction. By the
instance `Own` the theorems of `StudioProduction_proofs` come over: `HostStatusHonest`,
`HostNoLeakedLock` without an assumption, `HostLease` and `HostOwnImage` with
`Own!OneDirectory`, `HostAloneInComfy` and `HostOwnImageInTime` if moreover nothing times
out.

`HostRunsVoice` is the same for `StepVoice`: an eviction is one of its unloads. Of the voice by
itself, `VoiceInv` says that a call that loads holds the load lock, that there is no engine
while it does, that the encoder it loads first stays its own, and that a call past the lock
has an engine of some call. From it `CallsHaveEngines` and `EngineHasItsEncoder`.
`VoiceGivesGpuAway` needs one fact more, `GaveInv`: the calls that were over when an unload was
served are still over, and the engine the service has now is none of theirs.

`ClipsContinue` needs file names of a clip's own (`OwnNames`). `ClipInv` says that the file of
each segment is missing or has the last frame of the segment before it (`FrameIsMine`), and
that it is there when a clip has uploaded (`UploadedIsThere`) and for every prompt in the
queue (`QueuedHasFrame`), whether or not its clip still waits for it. `DoneClipsAreComplete`
needs no such thing: a clip does not get past a segment that was not rendered, whatever
it shows (`DoneInv`).

**BudgetLedger_proofs.** `LedgerTypes` includes that the buffer never exceeds its cap.
`Bases` collects what both deeper theorems need: cursors and flushes stay within their
files, and each line, in a buffer, a flush or a file, is there once (`Unique`). `PinsHold`
is without an assumption: every score line behind the cursor, or behind where a pass under
way will put it, is settled, that is, given up or its finish line is on the disk, if only
its newline is yet to come, or else it was read in two pieces (`Settled`). A pass's offsets
stay settled while the engine goes on because finish lines stay where they are
(`FinishesStay`), and the tail of a file that is still written to is the beginning of the
line that comes next there (`TailIsNext`): a finish that a pass has taken for read without
its newline does not turn into another line. That the pin is a least offset is a fact about
sets of numbers (`LeastNatural`), taken from the well-foundedness of inclusion among finite
sets. `RowsStayAligned` and `NothingIsLost` need no assumption. A row's number is its place
among the rows of the boot, and these are in the file, then in what a flush has taken, then
in the buffer. A line in the file names a row in the file; a line that a flush has taken,
one in the file or taken with it (`Taken`); a line in the buffer, one in all three
(`Queued`), as long as the sink is open: after a failed write nothing more is taken. For the
clean shutdown, every row has its score line (`RowsNamed`) and every finished request its
finish line behind it (`Followed`), as long as the sink was not disabled; at the close there
is nothing left outside the file. `CreditsOnce` needs `Careful` (one updater, not killed
between its two writes): a request has credit exactly if its score line is behind the
cursor, or behind the offset that the pass will write next (`Behind`); as the line is there
once, no later pass sees it again.

**What has a theorem and no run.** `AlonePastGate`, `GateIsSerial`, `HardBlock` (under
`Calm`), `OwnProcess`, `ReadsToTheEnd`, `StatusIsHonest`, `OneProduction`, `OneInside`,
`ShownIsTracked`, `LoadedTogether`, `DoneIsComplete`, `WorkersInStep`, `WaitsForWhatItHolds`
and (in time) `OwnImage` are implied by what the runs check, or hold under the assumption
above only.

**Only model-checked:** all liveness (`EveryPlanSettles`, `ClaimOfExecutedReleased`,
`CancelEndsRun`, `EveryJobEnds`, `LeftIsLookedUp`, `GoneIsNoticed`, `IdleIsFreed`,
`BootedIsTornDown`, `CatchesUp`, and without a run `LockIsFreed`, `EveryClipEnds`,
`CancelTerminates`). It needs fairness, and with it ENABLED, which is out of the prover's
reach here.

## 5. Where the code differs from what is said of it

One disagreement is a run of its own, and quoted in `PROJECT.json`: `ledger_skip`. A pass
pins the cursor before the earliest score line without a finish. A pair that straddles the
pin, its score line before and its finish line after, is held back to be credited by the
next pass (`pn162_ledger_update.py:729-732`), but that pass starts at the pin and never reads
the score line again. Nothing has to fail for it. "A request in flight at a pass boundary is
therefore DELAYED to the next pass, never skipped" (`624-625`).

More were met. Each is a property stated in its module, with a comment that quotes the code,
and shows up when it is put in place of those of the configuration named, with the one
change given (and no SYMMETRY):

| Property | Configuration | Change | What happens |
|---|---|---|---|
| `HardBlock` (CockpitGate) | `MCCockpitGate_safety` | none | A forced write whose `detect`, `docker ps` or report-state failed never gets to the claims, so it spawns beside a write in flight. "force CANNOT override it" (`services.py:3010`). |
| `NoGap` | `MCCockpitGate_calm` | none | The cards are read first and the claims last (`services.py:2416`, `2535`). A write that loads, exits and drops its claim in between is seen by neither. "covered with no gap" (`3072-3075`). |
| `NoGap` | `MCCockpitGate_calm` | `Plans <- GatedPlans` | `docker compose up -d` exits, and ends the claim, before the engine holds memory; an idle container conflicts only if a card is busy (`2475-2484`). |
| `NoLeakedClaim` | `MCCockpitGate_calm` | none | A dispatch cancelled while `start_raw` spawns leaves its claim until the TTL: `except Exception` (`3064`) does not see CancelledError. "cleared when the write subprocess exits" (`328-329`). |
| `DoneMeansExited` (SubprocessRunner) | `MCSubprocessRunner_serial` | `Overlapping = TRUE` | Two runs started back to back: the first reader picks up the second command's process, and a done event is set while its own command runs. "never misattributed even if runs overlap" (`runner.py:29-32`). |
| `NoIdleCancel` | `MCSubprocessRunner_serial` | `Overlapping = TRUE` | The end of one run clears `_process` for the others (`runner.py:145`): cancelling a download after another has ended does nothing. |
| `ReadsToTheEnd` | `MCSubprocessRunner_serial` | none | Downloads pass `parser=None` (`services.py:559`, `577`, `1129`), and `parser.parse_line` (`runner.py:116`) raises at the first line; ten seconds later the command is killed. |
| `CancelKillsGroup` | `MCSubprocessRunner_serial` | none | The escalation ends with the leader: children that ignored SIGINT get no SIGTERM and no SIGKILL (`runner.py:164`; `services.py:581-583` says the group is killed). |
| `DoneMeansExited`, `NoIdleCancel` | `MCDownloadDesk_live` | none | The same two under the download desk, whose runs overlap: it looks on the disk for a download whose own command still runs, and a cancel finds nothing to kill. |
| `CancelsItsOwn` (DownloadDesk) | `MCDownloadDesk_desk` | none | What is killed is the command whose process the shared runner holds, and every worker of the group is cancelled, whatever slug they are for (`app.py:7506`-`7510`). "Cancel an in-flight download: stop the poll worker, kill the process group" (`7499-7500`). |
| `NothingStaysAtDownloading` | `MCDownloadDesk_live` | none | A download starts, a refresh is painted and stamped, the launch fails: the worker sets its own old entry to absent (`app.py:7445`), and the one on screen stays at downloading. "so updates always land on what's on screen (not the orphan)" (`7463`). |
| `ShownThroughRefreshes` | `MCDownloadDesk_live` | none | From the first paint (`app.py:7333`) to the stamp (`7350`), with awaits between them, what is being downloaded is not shown so. "In-flight downloads must survive a refresh" (`7347`). |
| `OwnImage` (StudioProduction) | `MCStudioProduction_faults` | none | An upload that is served after its minute (`lanes.py:168`), or after its sender was killed, overwrites the next production's start image under the same name (`158`). "conditioning the base video latent (node 14) on the start image (the keyframe/continuity anchor)" (`ltx_workflows.py:66-67`). |
| `SecondProduceRefused` (StudioProduction) | `MCStudioProduction_faults` | none | Two requests pass the check before either is registered; both get 200, one job fails on the lock. "a 2nd /produce 409s" (`server.py:18`). |
| `EveryProduceAnswered` | `MCStudioProduction_faults` | none | The 409 looks the active job up again and takes the first of an empty list (`server.py:172`). |
| `AloneInComfy` | `MCStudioProduction_faults` | none | A production that times out leaves its prompt in the queue (`comfy.py:111`), where the next one's join it (`lock.py:3-5`: "can't render into the same ComfyUI queue concurrently"). |
| `HolderIsARun` | `MCStudioProduction_faults` | none | An OSError after the flock (`lock.py:45`) leaves the file locked by a job that is over. "raises ProductionLockHeld immediately if another run holds it" (`24`). |
| `OneProduction` | `MCStudioProduction_faults` | `Dir <- TwoDirs` | The lock lies under `--productions-dir` (`run.py:113`), ComfyUI does not. |
| `OneInside` (PullDownload) | `MCPullDownload_apart` | `Overlapping = TRUE` | A caller finds no pid, the holder writes it, the caller finds a pid file, takes the lock for a dead one's and removes it. "two racing callers can't both proceed" (`downloader.py:152-154`). |
| `OneInside` | `MCPullDownload_apart` | `Faults = {"pid"}` | A pid that cannot be written is passed over (`downloader.py:502`); ten seconds later a live holder's lock is taken. |
| `VerifiedIsPublished` | `MCPullPipeline_pipeline` | `Overlapping = TRUE` | The lock goes with the old directory (`downloader.py:666`); a caller that makes it anew makes the rename fail, and the checked files are deleted. |
| `NoOrphan` (PullPipeline) | `MCPullPipeline_pipeline` | `"down"` in `BootFaults` | A failing `docker compose down` is swallowed (`booter.py:237-245`), and the container stays. "never leaves an orphaned container/project" (`379`). |
| `MountIsStable` | `MCPullPipeline_pipeline` | none | The lock ends with the download: a second pull replaces the directory under a container that is mounted on it. |
| `OneSwitch` (ModelSwitch) | `MCModelSwitch_switch` | none | A time-out (`server.py:233`) kills bash, frees the lock and leaves its docker command at work beside the next switch. "Only one switch may run at a time" (`66`). |
| `NoNoOpDuringSwitch` | `MCModelSwitch_switch` | none | The status is read outside the lock (`server.py:288`): a request is told `already-running` of a model that is being taken down. "`409` a switch is already in progress" (`tools/model-switch/README.md:28-29`). |
| `TwoEnginesMet` | `MCModelSwitch_switch` | `PsFails = TRUE` | `docker ps ... \|\| true` (`switch.sh:823`) reads as no containers; nothing is taken down and the new engine joins the old. |
| `OneEngine` (StepVoice) | `MCStudioHost_shared` | none | A call that still refers to the unloaded engine keeps it on the card while another loads the next. "serializes load/unload" (`server.py:50`). |
| `UnloadFrees` | `MCStudioHost_shared` | none | The same reference: an unload under a call frees nothing. "Free the model from GPU" (`server.py:75`). |
| `UnloadsWhenIdle` | `MCStudioHost_shared` | none | The watch decides without the lock (`server.py:98`) and the time is set after it (`71`), so a call may be served when it unloads. "unload the model after IDLE_UNLOAD_S of inactivity" (`92`). |
| `VoiceXorVideo` | `MCStudioHost_shared` | none | The eviction is best effort (`ensure.py:30`), and a call that has the engine keeps it. "makes the voice⊕video mutex deterministic" (`studio_pipe.py:755`). |
| `EncoderIsFreed` | `MCStudioHost_shared` | none | A load of the engine that raises leaves the encoder on the card, and the idle watch looks at `_engine` only (`server.py:98`). "the lazy service idle-unloads anyway" (`ensure.py:31`). |
| `NobodyElseInComfy` | `MCStudioHost_shared` | none | `POST /extend` takes no lock (`orchestrator.py:135`), and its prompts join a production's (`lock.py:3-5`). |
| `ContinuesItself` | `MCStudioHost_shared` | `OwnNames = FALSE` | The command line uploads the last frame under one name (`extend_chain.py:85`); two of them take each other's. The header promises to continue from the clip's last frame (`4-5`). |
| `CreditedOnce` (BudgetLedger) | `MCBudgetLedger_ledger` | `DiesAt = {"read", "credited"}`, or two `Updaters` | The ledger is written before the cursor (`pn162_ledger_update.py:1355`), and no lock keeps a second pass out. "One idempotent pass" (`1252`). |
| `TornStaysUnconsumed` | `MCBudgetLedger_ledger` | none | The loop goes on behind a torn tail (`pn162_ledger_update.py:678-686`): if the rest of the line has been appended meanwhile, it is read as a line of its own, whose newline moves the cursor past both pieces. "A torn tail must stay UNCONSUMED" (`681-683`). |
| `NeverSkipped` | `MCBudgetLedger_skip` | `Requests = {a}`, `Torn = TRUE` | A finish line that lacks only its newline parses, so its score line is no pin, but the pair is not behind the cursor: the next pass finds the finish line alone. The docstring's "DELAYED to the next pass, never skipped" (`624-625`). |

`WholeUnlessKilled` carries its exception in its name: a pull killed while it removes the
previous files (`downloader.py:666`) leaves a part of them published, where the comment at
`651` calls the move atomic, "ONLY on full success". `NoResidue` excepts the calls that
raise: an OSError of `_sha256_file` (`downloader.py:633`) leaves `.incomplete` behind, where
"each deletes the `.incomplete` tree" (`516-517`). `OwnOrStrayImage`, `LeftIsLookedUp`,
`ShownIsTracked` and `PinHolds` are what is left of `OwnImage`, `NothingStaysAtDownloading`,
`ShownThroughRefreshes` and of a cursor that leaves no open score line behind: each excepts
what its row in the table shows, and nothing else, by a history variable (`strays`, `stray`,
`lost`).

## 6. Plan

Done, in the order of importance: `CockpitGate` (who gets the cards), `SubprocessRunner`
(which the gate's claims depend on), `StudioProduction`, `PullDownload`, the abstract
`SingleFlight`; `DownloadDesk` over the runner; `StepVoice` and `ExtendChain`, composed with
the productions in `StudioHost`; `ModelSwitch`; `PullPipeline` over `PullDownload`;
`BudgetLedger`; and the proofs of their safety.

What is left, in this order:

1. Theorems for the modules' converses: which of the assumptions above (`Serial`,
   `OneDirectory`, `Orderly`, `Careful`) can be had in a weaker form, and the runner's theorems
   for a desk whose downloads follow one another.
2. The hf child of a killed pull as a writer of its own in `PullDownload`
   (`downloader.py:281`): what the next pull's check is worth while the orphan writes.
3. The cockpit whole: `CockpitGate` with the runner's real done event in place of
   `proc[w] = "exited"`, which overlapping writes would then break; a refinement from the
   composition to `CockpitGate` under `Serial`.
4. **AtomicFile** (`fixes/pn119_atomic.py`): writes with crashes between any two system
   calls; old or new, never neither.
5. **SwapApply** (`swap_apply.py`): override files and registry entries put back after a
   failure at any point.
6. **GpuMode** (`gpu-mode.sh`): scene changes with a failure at each step.
7. The gates' decision tables (`gates.py`, `compat.py`) against a reference definition over
   bounded inputs.

## 7. What is not modelled, and why

Most lines of this repository are not a program of its own: vendored copies of vLLM files
and patches to them under `models/`, compose files, benchmark data, result archives and user
interfaces. The modules cover the places where several actors of the repository meet, and
those are a small part of all lines. Of what is covered, and beside it:

* GPU indices, ports, power caps, variants, images: the gate treats both cards as one.
* The wording of verdicts, notices and logs; parsing of output and progress; buffering of
  output.
* The director, critic, prompts, manifest and ffmpeg: one step that succeeds or fails.
* Elapsed time: a time-out may strike whenever its wait lasts; the ten seconds of a young
  lock are assumed longer than the write of a pid takes.
* In `PullDownload`, the removal of `.incomplete`, `.staged` and of the lock is one step
  that succeeds, a fetch ends with its caller (the hf child of a killed caller goes on in
  reality), and pids are not reused.
* In `CockpitGate`, the operator's docker commands other than through `Die`.
* In `DownloadDesk`, the commands of the studio and of service start-up that share the
  runner without being listed (`services.py:563-579`, `1092-1130`).
* In `StudioHost`, what a voice call synthesises, and the order in which ComfyUI renders
  beyond first come, first served. A request of a long clip that nobody waits for any more
  is served at once or never: the clip is over by then, its file has a name of its own, and no
  property tells the one from the other.
* In `PullPipeline`, the gates before the download, the compose file it writes, the capture
  of overrides, the submission. A Ctrl-C during the teardown itself, which no `except` there
  catches (`booter.py:239-244`, `382-385`), is not a step of its own; its effect, a container
  that stays, is that of `"down" \in BootFaults`. Ports: a pull waits for its default port
  (`booter.py:320-321`), where the compose may publish another (`ESTATE_PORT`, `PORT`, `BIND_HOST`,
  `generate_compose.py:937`); with those set a server that is not of a pull might answer.
* In `BudgetLedger`, classification of rows, buckets and their arithmetic, the router's
  scores; the two orphan bounds are one step, after which a request is given up.
* Derivation, compatibility and gate tables: pure functions of a registry.
* Patches of vLLM: their behaviour is that of the patched program.
* Image shim, text to speech, text routing and intent: functions of one request.
* `launch.sh`, `gpu-mode.sh`, `preflight.sh`, `setup.sh`: operator scripts run one at a time.
* Compose files, third-party services, recipes, documentation, benchmarks, charts: no
  protocol of this repository.
