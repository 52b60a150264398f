# A formal model of `ci`

`ci` is a continuous-integration service: a client submits a commit, the service
expands its workflows into jobs, queues the jobs on NATS JetStream, runs each of
them in a virtual machine on a remote host, and keeps everything it knows in
Postgres. Any number of dispatcher processes share one database and one stream.
This directory holds TLA+ modules that model the parts in which those processes
meet, TLC configurations that check them on small instances, and proofs, checked
by TLAPS, that the main invariants hold for instances of every size.

Paths below are relative to the repository's root; `dispatch.rs` is
`src/dispatch.rs` and so on.

## The system

| Part | State | Operations | Meets |
|---|---|---|---|
| Scheduler (`dispatch.rs` `advance_run`, `should_run`; `store.rs` `needs_context`, `roll_up_run`) | none of its own; reads and writes `ci_job`, `ci_run` | one pass over a run: read rows, decide each pending job (fail, skip, queue + publish), roll up | called by submit, by every consumer after every delivery, by the reaper and the nudge, concurrently |
| Consumer loop (`consume`) | a client-side buffer of deliveries, a heartbeat | take a delivery, run the job under a time limit, ack / nak / give up, advance the run | JetStream, executor, scheduler |
| Executor (`run_job`, `run_claimed`, `checkout`, `run_steps`, `acquire_vm`, `release_vm`) | the attempt in progress; `ci_step` rows | claim the row, get a VM, start, check out, run steps, release, write the verdict | store, pool, the daemon's exec operations |
| Lease loop (`spawn_lease_loop`) | rows read by the last scan | renew leases and TTLs, reclaim lapsed ones, fail jobs nobody picked up, nudge stalled runs | pool, store, scheduler |
| Store (`store.rs`, `migrations/`) | runs, jobs, steps, users, logs | single SQL statements; only `create_run` is a transaction | everything |
| Warm VM pool (`pool.rs`) | `ci_vm_pool`: idle, claimed, building, draining; lessee and expiry | claim, begin_build, register, release, forget, renew, reclaim, sweep | executor, lease loop, dashboard |
| Bus (`bus.rs`) | a work-queue stream with one subject per host | publish with `Nats-Msg-Id`, deliver, `ack_wait`, `max_deliver` | scheduler, consumer loop |
| VM driver (`vm.rs`) | a lock per sandbox; the daemon's operation records | create, open, exec (post and poll), upload, destroy, renew TTL | executor |
| Image catalog (`image.rs`) | `ci_vm_image` rows with leases | claim, build, take over, wait | executor |
| Runners (`runners.rs`) | a snapshot of networks and hosts, a tunnel cache | refresh, place, dial, evict | scheduler, executor |
| Submit (`trigger.rs`, `dispatch.rs` `submit`), plan (`plan.rs`), workflow parser (`workflow.rs`), expressions (`expr.rs`), path filters (`paths.rs`) | none (a workspace directory per run) | request to workflows to jobs | store |
| Secrets and masking (`secrets.rs`), artifacts (`artifacts.rs`), workflow objects (`objects.rs`), repositories (`repos.rs`), NATS auth (`nats_auth.rs`), configuration (`config.rs`) | caches and rows | lookups, uploads, token checks | executor, web |
| Web (`web/`) | none (a stream key per process) | submit, cancel, VM cleanup, repositories and tokens, joining a network, pages, log stream | store, pool, scheduler, runners |
| Startup (`main.rs`), client (`bin/git-submit`) | none | start in order: reclaim, lease loop, consumers; sweep logs | all |

What is hard here is not in any one function. Rows and messages live in two
systems with no common transaction; every SQL statement is its own transaction;
a scheduling pass acts on a snapshot while several others do the same; a
delivery can arrive again while the first is still being worked on; a process
can die between any two statements; a VM outlives the job, the process and
sometimes the lease it was taken under. `PROJECT.json` lists these hazards at
the lines where they bite, each with the properties aimed at it.

## Modules

| Module | What it is |
|---|---|
| `RunPlan` | The stored plan of a run as constants, and the pure functions of it: terminal statuses, when needs are satisfied, `should_run`, `roll_up_run`'s value. |
| `Dispatch` | One run across any number of processes: scheduler, stream, consumers, lease loop (reaper and nudge), cancel, crashes. |
| `DagOrder` | What `Dispatch` promises, abstractly: launch in dependency order, settle once. |
| `VmPool` | The pool table, the sandboxes, and every statement that writes either. |
| `JobExec` | A claimed delivery from acquiring a VM to the verdict, with the daemon's operation records; several jobs sharing warm VMs, each over several deliveries, two of which may be at work at once. |
| `ImageCatalog` | One image on one host: `ensure_image`, the catalog row and its lease, the daemon's build tracker, the file. |
| `Placement` | Where a job runs: the pure half of `runners.rs` and of `assign_network`, `place`, `route_for`, `pick_runner`. |
| `Fleet` | `Placement` in time: control plane, snapshots, consumers, routes, and the tunnel cache. |
| `PathGlob`, `Expr`, `WorkflowPlan`, `Secrets` | Pure algorithms: glob matching and submit filters; the condition grammar; validation, matrix expansion, keys and order; secret lookup and masking. |
| `ListOps` | The map and vector operations the algorithms share. |
| `PlanInputs` | The pure algorithms as a specification: the first state draws an input, the one step computes. What their results should be, as definitions that know no algorithm, and what the inputs are assumed to be. |
| `Submit` | `POST /api/submit` from the credential to the runs, beside the repositories page and the object cache; uses `WorkflowPlan` and `PathGlob`. |
| `Records` | What a job leaves behind: step logs, artifacts, the live tail, the retention sweep. |
| `MCDispatch`, `MCVmPool`, `MCJobExec`, `MCImageCatalog`, `MCFleet`, `MCSubmit`, `MCRecords`, `MCPlan` | Instances for TLC (`MCPlan`: of `PlanInputs`). |
| `DispatchProofs`, `VmPoolProofs`, `JobExecProofs`, `CatalogProofs`, `FleetProofs`, `SubmitProofs`, `RecordsProofs`, `PlanProofs` | Theorems about the module each is named after (`CatalogProofs`: `ImageCatalog`, `PlanProofs`: `PlanInputs`), and their proofs. |

`RunPlan` is used by `Dispatch`; `Dispatch` refines `DagOrder`; `Fleet` extends
`Placement`; `Submit` extends `WorkflowPlan`, which extends `PathGlob` and
`ListOps`; `Secrets` extends `ListOps`, `Expr` extends `PathGlob`, and
`PlanInputs` extends `WorkflowPlan`, `Expr` and `Secrets`. The other modules meet through what they assume of one another: `Dispatch` starts
where `Submit` ends (a committed `create_run` with a plan in topological order),
abstracts `JobExec`, `VmPool` and `ImageCatalog` into an attempt that may take
long and may fail, and takes from `Fleet` the set of hosts whose subject has a
consumer.

### Dispatch

The unit of atomicity is one SQL statement or one message operation.
`status`, `runner` and `runStatus` are columns of `ci_job` and `ci_run`; `msg`
is the stream; `buffer` the deliveries a consumer's client has prefetched;
`exec`, `pass` and `loop` are the local state of consumer tasks, `advance_run`
calls and lease loops.

* `ReadJobs` and `ReadNeeds` are `advance_run`'s two SELECTs. Readiness is fixed
  by the first and `should_run` by the second, which may see a later state.
  `DecideFail`, `DecideSkip`, `DecideQueue` are the arms of its loop, taken in
  `job_key` order. `Publish`, `PublishFails` (the message may have landed all
  the same), `Unqueue` (whose own error is dropped), `RollUpRead` and
  `RollUpWrite` are the rest; `PassFails` is any `?`.
* `Fetch` counts a delivery when it reaches the client's buffer. `Take`,
  `ReadJob`, `ClaimJob`, `AcquireVm`, `StartJob`, `Checkout`, `CheckCancelled`,
  `RunStep`, `FinishJob` are one delivery; `AttemptFails` then `Nak` or `GiveUp`
  is the error path; `Ack` may be lost. Every one ends in a pass.
* `AckWaitLapses` happens to a delivery nobody heartbeats: one in a buffer
  behind other work, or one whose process died.
* `ReapScan`, `ReapOne`, `Nudge` are the lease loop in its order. How long a job
  has waited is left open.
* `CancelRun`, `CancelJobs` are `cancel_run`'s two UPDATEs.
* `Crash` empties a process: tasks, buffers, calls in progress.

Abstracted: a condition is one of *none*, *always*, *failure* or *bad*; an
attempt fails at any point; the stream deduplicates without its two-minute
window; a consumer that rebinds on an error (dropping its buffer) is not
modelled separately from a crash.

### VmPool

`row` is `ci_vm_pool` with the clock reduced to "this lease has lapsed";
`sandbox` is the daemon's side; `task` is where each executor is in
`acquire_vm` / `release_vm`. Instance ids are random per process, so a restart
is a new instance. A lease lapses only when its holder is dead, unless
`MayStall` lets a live instance miss its renewals for a whole
`CI_VM_LEASE_SECS`; the lease loop runs its passes in sequence three times per
lease, so that takes an outage, and the code's own comment says what it is
worth ("Losing a lease that is still in use would put two instances on one
VM"). The branch of `release_orphans` for rows without any lease is left out:
every statement that claims a row writes one.

### JobExec

`att` is indexed by delivery: a job and the count JetStream gives with each
delivery of its message. A message is delivered again when it was given back or
when nobody speaks for it (`Redelivers`), and that includes one somebody is still
working on: the ack window may lapse under a live dispatcher (fault *lapse*).
`get_job`, `claim_job` and `start_job` refuse a terminal row and nothing else, so
two dispatchers then run one job, each in a VM of its own, over the same rows;
and `SetJobStatus` writes a verdict over whatever the row says by then.

The pool is reduced to idle and held VMs. `op` is the daemon's record of exec
operations per sandbox: posting an id that is already there attaches to it, in
flight or finished; a second command in a busy guest fails at once. `tree` says
whose source is in the working directory. The checkout's several operations
(upload chunks, then the script that wipes and extracts) are one operation,
step 0. A step's `if:` is *none*, *always* or *failure*, and an expression may
turn out not to evaluate. A step may be a built-in action (`Uses`), for which a
daemon that cannot run it is a failure like any other, where for a command it
breaks the loop whatever `continue-on-error` says; steps (`Tolerated`) and jobs
(`Forgiven`) may have `continue-on-error`. Jobs on an existing VM (`uses:`) are
not modelled.

Histories: `shared` names the jobs that two dispatchers had at once; `cancel`
whether a job was cancelled and whether a verdict has been written over that
since (*overruled*); `late` counts the commands a delivery started after the
cancel; an attempt's `again` says that its VM has seen this job before.

### ImageCatalog

`entry` is the `ci_vm_image` row, its lease reduced to "lapsed"; `built` is the
file on the host. A delivery claims in one statement and explains a refusal with
a second (`Claim`, `ReadStatus`), waits (`WaitPoll`, `GiveUpWaiting`), or builds:
`Post`, `Poll`, `Repost` after a daemon restart, `Renew` while it polls, then
`MarkReady`, which writes whatever row is there, or `MarkFailed`, which spares a
ready one. `Create` is the boot that forgets an
image that is not there. What an image's name is computed from is left out: the
model is one name on one host.

### Placement and Fleet

Networks and hosts have an id and a name; a needle (a `uses:`, an entry of
`CI_NETWORK`, `CI_DEFAULT_NODE`) is either. `Load` turns the control plane's
answers into a snapshot: `Project` joins members with daemons, `Includes` and
`Preferred` are `CI_NETWORK`, `PickDefault` and `ResolveDefaultNode` choose the
default network and the orchestrator's own host. `Place`, `RouteFor` and
`PickRunner` are the same three questions the code asks of its snapshot, at
submit, at queueing and at delivery, by which time it may be another process's.

In `Fleet`, `CloudChanges` moves hosts and members, each orchestrator refreshes
on its own (`Refresh`, `RefreshUnread` when one network's members cannot be
read), and `SpawnConsumers` only ever adds. The tunnel cache is under a mutex
that `DialMiss` keeps through ticket, dial and probe; `DropDial` is what a
dropped future leaves. Where a transport error comes decides what follows it.
While the image is built and the VM acquired it leaves `run_claimed` as what it
is (`AcquireFails`), and `Evict` removes whatever is cached for the host by then.
Under the checkout and the steps only its text is left, in a `Checkout` or a
`StepFailed` (`StepsEnd`); `is_tunnel_failure` does not take those for one, and
nothing is evicted. `Verdict` may fail, and then the message goes back.

`open` counts tunnels that exist. Two histories remember, per job, a cached tunnel
an attempt died on: `met` one over which it got no image or no VM, `died` one that
died under its steps. A scenario (which jobs take part, which faults may happen)
is drawn in `Init`, so one run covers several without multiplying them. A job has
one attempt at a time here: its routes are fixed by the row, and the cache is a
process's own, so two attempts in two processes do not meet in it. Local mode (no
control plane) is not modelled.

### PathGlob, Expr, WorkflowPlan, Secrets

Text is a sequence of segments, of characters or of tokens, as far as the
algorithm looks into it. `MatchSegment` is the two-pointer loop with its
backtracking position, `Eval` the recursive descent over tokens with its
position, `FindCycle` the three-colour search, `ExpandMatrix` product, exclude
and include in the code's order, `UniqueKey` the suffixing until free,
`TopologicalOrder` Kahn's algorithm in the plan's order, `MaskOrder` the sort of
`Masker::new` and `Mask` its replacements. A loop of the code is a recursive
function of the state the loop carries, under a name of its own, so that the
proofs can speak of it: `SegmentLoop` (the four positions of `match_segment`),
`SegmentsFrom`, `Visits` (what is left of a list of jobs, which are open, which
done), `Products`, `Merged`, `CellsUpto` (the plan after so many jobs), `Waves`,
`ReplaceFrom`, `Struck`. `Expr` has one operator for each `parse_` function and one
function, `Parser`, of the grammar level and the position, which they are steps of.
It keeps the status functions, `changed` and `contains` on arrays, and leaves out
the functions on text (`startsWith`, `format`, `toJSON`, ...). `Written` and
`Meaning` are the reference: how a tree is written, and what it is worth. A
comparison under `!` is written in parentheses, so that what the reference means
by it does not depend on which of the two binds tighter.

### Submit

One action per await of the handler and of `Dispatcher::submit`: `Authenticate`
(the row read here is used to the end), `Prepare` (materialise, `changed_paths`,
sources from one snapshot of the objects), then per file `Pass`, `Decline`,
`Reject` or `Accept`, `CopyTree`, `CreateRun`, `Advanced`, and `Finish`. Between
any two, the repositories page, the object poll, the pool or a crash may move.
The nested loop over sources and files is `todo`, the set of pairs of a source
and a file still to come; `First` takes them in the code's order.
Repository URLs are in their normalised form; an archive that does not unpack,
or reaches outside its directory, is `MaterializeFails`.

### Records

A run is one job; a log is its length. Deliveries overlap as they do in `JobExec`.

`WriteLog` then `PointRow` are `append_log`. The file is written through tokio and
never flushed, so an append may return with its bytes on the way (`unwritten`):
`BytesLand` puts them down, or loses them, at any later time, past the row's
UPDATE and past the verdict too.

An upload is `PutBlob`, `PutManifest`, `PutTag`, `Record` in the store, where a tag
(`TagOf`, cut to 64 characters) may be that of several uploads; on disk it is
`PutDisk`, `WriteEnds`, `Record`. The write is a blocking thread's: it truncates the
file and fills it in place, at a path (`PathOf`) that other uploads and other
deliveries share, and goes on when the attempt that waits for it is dropped.
`FileState` tells apart a file never yet whole (*part*), one being written over
(*again*), and one that two writes went over at once (*mixed*). `UploadFails`
breaks the loop unless the step has `continue-on-error` (`Tolerated`), and a step
with an `if:` (`Optional`) may be skipped.

`CaptureVmLog` then `Verdict` are the end of a delivery. A tail's pass is `ReadJob`,
`ReadSteps`, one `ReadLog` per step, `EndPass`: the status is read before the logs.
The sweeper is `Tick`, `Remove`, `Forget` per run. Histories: `kept` is how much of
each log was on disk when its job was first given a verdict and `judged` whether it
was; `swept` and `raced` are about the sweep; the tail's `missed` is a query that
failed in its last pass.

## What TLC checks

Every run takes between a few seconds and three minutes on two cores.

| Run | Instance | Shows |
|---|---|---|
| `run_cancel` | one job, two processes on one subject, 1 cancel, 1 failing attempt | `TerminalStays`, `QueuedMeansUnclaimed` |
| `run_matrix` | two cells and a job needing both, two processes, no faults | `TypeOK`, `NeedsFirst`, `SuccessMeansDone`, `ImplementsDagOrder` |
| `run_lost` | one job, one process, 1 crash, 1 publish error, 2 failing attempts, 1 dropped store error, 1 lost ack, fair tasks | `NoJobForgotten`, `QueuedHasMessage` |
| `run_v_always` | chain of three with a failing head and an `always()` tail | violates `AlwaysJobRuns` |
| `pool_hold` | 3 tasks on 2 instances, 2 VMs, 1 failing call, 1 cut-off | `TypeOK`, `HeldExclusively`, `InUseIsLive`, `DrainingStaysOut` |
| `pool_live` | 2 tasks on 2 instances, 1 VM, missed renewals, fair lease loops | `OrphanReclaimed` |
| `exec_steps` | a job of three steps with one fault of each kind, or with 1 lapse under a delivery at work, 1 cancel, 1 crash and 1 cut-off; two jobs of one step with 1 crash and 1 cut-off, or with 1 lapse; 2 VMs, 2 deliveries | `TypeOK`, `SuccessMeansEveryStep`, `CancelStopsSteps`, `FirstRunsOnOwnTree` |
| `image_build` | three jobs after one image, one of each fault, fair tasks | `OneBuilder`, `UsableImage`, `ReadyNotUndone`, `WaiterServed` |
| `fleet_churn` | 2 orchestrators, 2 hosts, 2 networks, a pinned, a roaming and a `uses: default` job, scenarios of cloud, read, link, dial, verdict and cut-off faults | `RunsWhereSubmitted`, `OneTunnel`, `NeverTheSameDeadTunnel`, `QueueGetsOwner` |
| `submit_pipeline` | 2 submits of one repository, 8 kinds of workflow file in 2 directories, up to 3 administrative changes, an object change, a pool change, a fault, a crash | `AcceptedAccountsForAll`, `NeverDeclinedWrongly`, `OwnTree`, `NoDanglingRun` |
| `plan_inputs` | 90,000 inputs of the pure algorithms, each a state, and each result another | `GlobIsTiling`, `ConditionsMeanWhatTheySay`, `CyclesAreRejected`, `PlansAreRunnable`, `MatrixIsExact`, `MaskedTextHidesSecrets` |
| `records_kept` | 2 runs: a command and a required upload, and two uploads with one tag and one path, the first of them optional and tolerated; 2 deliveries, 2 sinks, 1 viewer; scenarios with every fault once, fair sweeper | `TailComplete`, `ListedIsStored`, `SuccessMeansListed`, `AgedLogsGo` |

What the properties say:

* `NeedsFirst`: no job is queued, delivered or decided before every cell of
  everything it needs is terminal, however stale the snapshot it was decided on.
* `QueuedHasMessage`: without crashes, a row that reads queued has a message, or
  somebody who is about to publish it or roll it back.
* `QueuedMeansUnclaimed`: pending and queued rows are in nobody's hands; the
  reaper relies on it.
* `TerminalStays`: nothing reopens a finished job.
* `SuccessMeansDone`: a run that reads success has nothing left to run.
* `NoJobForgotten`: a ready job of an open run does not wait for ever.
* `ImplementsDagOrder`: the rows refine `DagOrder`.
* `HeldExclusively`, `InUseIsLive`, `DrainingStaysOut`, `OrphanReclaimed`: one
  task per VM, a machine under every job, no way back from draining, no VM lost
  to a dead process.
* `SuccessMeansEveryStep`: a job that reads success had one guest in which its
  checkout and every step of it ended well, although overlapping deliveries write
  the same rows and over each other's verdicts. The rows say so too if no two
  overlapped; if two did, the row of the slower may say anything.
* `CancelStopsSteps`: after a cancel each delivery of the job starts at most one
  more command, the one whose boundary it had passed. It ends where the verdict of
  one delivery is written over the cancelled row of another; `MCJobExec_v_cancel.cfg` is
  that case.
* `FirstRunsOnOwnTree`: on a VM new to its job, a delivery never runs a step in
  another job's tree.
* `OneBuilder`, `UsableImage`, `ReadyNotUndone`, `WaiterServed`: one build of an
  image at a time, no boot from an image that is not on the host, no late verdict
  over a finished build, nobody waiting for a dead builder.
* `RunsWhereSubmitted`: whichever process routes and runs a job, and whatever its
  snapshot has become, the network is the one the submit decided on, and so is a
  pinned host.
* `OneTunnel`, `NeverTheSameDeadTunnel`: concurrent misses, failed dials and
  dropped futures leave at most one tunnel per host, and a redelivery does not
  meet the tunnel over which its predecessor got no image or no VM.
* `QueueGetsOwner`: a job queued for a host that is up in a served network does
  not wait for ever, although consumers are bound from snapshots.
* `AcceptedAccountsForAll`: an accepted submit has, for every triggered file of
  every source, exactly one run or one warning.
* `NeverDeclinedWrongly`: a file is declined only if the true change set would
  have it declined.
* `OwnTree`, `NoDanglingRun`: deleting the repository meanwhile does not leave a run
  pointing nowhere, and every run has a tree of its own, complete before its row
  exists.
* `GlobIsTiling`, `ConditionsMeanWhatTheySay`, `CyclesAreRejected`,
  `PlansAreRunnable`, `MatrixIsExact`: a pattern matches iff its parts tile the
  path; a condition has the value of its syntax tree; a workflow is planned iff
  its needs can be ranked; keys are unique, needs are resolved and come first;
  the cells are exactly what axes, exclude and include ask for. The rule for
  includes is the one stated where it is applied (`plan.rs`: merge into the
  combinations whose shared keys agree, else append); that is not the rule of
  GitHub, which `plan.rs:6` calls it.
* `MaskedTextHidesSecrets`: no maskable secret is readable in masked text, whatever
  secrets overlap, and nothing else of the text is lost.
* `TailComplete`: a tail that says done of a job with a verdict has sent what was on
  disk of every log when the job was first given one. Bytes that land later, of a
  slow append or of a second delivery, are on the page the browser reloads.
* `ListedIsStored`: an artifact was put before it was listed. In the store its bytes
  and its manifest are there and its tag leads to a manifest whose bytes are there,
  though perhaps another upload's. On disk its file was filled once; that it still
  is what was listed is not so (`MCRecords_v_uri.cfg`).
* `SuccessMeansListed`: a job that succeeded lists every upload that is not under an
  `if:` or `continue-on-error`, unless the job's own `continue-on-error` forgave a
  failure.
* `AgedLogsGo`: logs past their retention go, from the rows and the disk.

Runs without a deadlock check are those in which the system really stops: every
job is terminal, or every sandbox id is used up. `pool_hold` uses symmetry over
the two VMs, which nothing in the instance tells apart; the liveness runs use
none.

**Bounds.** Faults are counted per kind and bounded by `MaxFaults`. Two
deliveries (`MaxDeliver = 2`, four in the code) give a first, a repeated and a
last one, which is what the code distinguishes. One step per job is enough in
`Dispatch`, where a step is a boundary at which cancel is noticed; `exec_steps`
has three. One lapse makes two deliveries overlap at every point of either; a
third would need a third dispatcher. Two processes in `run_cancel` and
`run_matrix` are what overlapping passes and redeliveries need. Two VMs and two or
three tasks are enough for a VM to pass from one task to another by every route: handed back, reclaimed, replaced. Three
jobs after an image are a builder, its successor and a waiter. Two orchestrators
with different `CI_NETWORK`s are what disagreeing snapshots need; two link
failures let a tunnel die, be redialed and die again. Three administrative
changes give delete, register again and mint. A submit's trees hold up to three files, so that
one comes after a file that was passed over and one before a file that is
rejected. Glob patterns have up to three characters, stars included, over texts of up
to four; conditions are every tree two operators deep over four operands, workflows up to three jobs, matrices two axes of
two values with one exclude and two includes, among them an axis without values
and a job whose matrix excludes all it has, and secrets up to three characters
over two letters and the star that masks are made of, with the mask threshold
lowered from 4 to 2 accordingly. Cells are numbered up to `MaxIndex`, `usize::MAX`
in the code; 20 is more than twice the cells of any workflow there. The
sweep's batch is one run, so that a failing run stands before another. One slow
append and one lapse, in scenarios of their own, let bytes land at any time and
two deliveries write the same logs and files. The
theorems below remove these bounds for the properties they cover.

**Fairness.** `Dispatch`: a live task takes its next step (tokio polls ready
tasks), JetStream delivers what it holds and lapses what nobody heartbeats, and
the reaper's scan sees, again and again, every row that has waited long enough.
`VmPool`: the lease loop of a live instance keeps ticking and unrenewed leases
expire; strong fairness on the reclaims, because a crash may disable them in
between. `ImageCatalog`: tasks poll, the daemon finishes or fails what it builds,
unrenewed leases expire. `Fleet`: refresh and consumer loops keep ticking and a
bound consumer takes what is queued. `Records`: the sweeper ticks hourly for ever,
and its failures are bounded by the scenario. No run assumes that a step succeeds, that a fault happens or that
somebody cancels.

### Where the code and its documents disagree

`run_v_always` checks a sentence from a comment and finds a counterexample; it is
a finding in `PROJECT.json` with the line quoted. `if: always()` "gets a cleanup
job to run after a failure". In a chain build, deploy, cleanup, the pass after
build's failure skips deploy on a snapshot in which cleanup is not ready, rolls
the run up to failure, and is the last pass there is: no job is running, and
failed runs are not nudged.

Nine more properties state a sentence of the repository's and are refuted by
TLC under the configuration named; they are kept beside the modules and are not
among the project's runs.

* `MCDispatch_v_cancelled.cfg`, `CancelledStays`. "A cancelled job stays
  cancelled." A cancel that arrives after the last step boundary is overwritten
  by the executor's verdict, because `set_job_status` guards on nothing.
* `MCVmPool_v_timeout.cfg`, `TimedOutVmReclaimed`. The VM of a job that was cut
  off "is reclaimed once this dispatcher's lease on it lapses". The dispatcher is
  alive and renews it.
* `MCJobExec_v_cancel.cfg`, `CancelStopsAll`. Of a cancel, "What stops is
  everything after it." When two deliveries are at work, one whose step in hand
  fails writes *failure* over the cancelled row; `is_job_cancelled` compares with
  *cancelled* alone, and the other starts every step it has left.
* `MCJobExec_v_tree.cfg`, `RunsOnOwnTree`. "The working directory is wiped
  first." On a VM the job has been on, the checkout is answered from its record
  and nothing is wiped, although another job may have used the VM since.
* `MCFleet_v_default.cfg`, `PinnedStays`. "A pinned job does not silently
  migrate." `uses: default` is resolved again by whichever orchestrator routes or
  runs the job, and means that one's own host.
* `MCFleet_v_redial.cfg`, `NextJobRedials`. "A tunnel that dies mid-job fails the
  job rather than propagating", and evicting it lets the *next* job redial. A
  transport error under the checkout or a step is text in a `Checkout` or a
  `StepFailed` by then, the tunnel stays cached, and the next job is given it.
* `MCSubmit_v_refused.cfg`, `RefusedStartsNothing`. A submit naming a network that is
  not served "is refused at the client"; "The alternative is a run that exists".
  Each workflow file is placed by the pool of its own moment; when a network stops
  being served in between, the files before it have their runs.
* `MCPlan_v_bang.cfg`, `BangBindsTightest`. "GitHub Actions' expression language",
  with "One deliberate deviation", that of truthy strings. `parse_not` takes a
  whole comparison for its operand: `!a == b` is `!(a == b)`.
* `MCRecords_v_uri.cfg`, `UriGetsItBack`. `uri` is "How to get it back". The disk sink
  writes in place, so a repeated delivery that dies or fails in the middle leaves
  a stump under a row that already lists the file.

Reading the code for the model showed more of the kind, which have no run of
their own:

* `fail_jobs_waiting_for_a_runner` re-checks the runner a queued row names, and a
  queued row names none, so a host that is online does not keep its job
  (README: "a host that comes back in the meantime keeps its job").
* `should_run` looks at direct needs and does not count skipped ones, so a job
  two generations below a failure runs.
* Two overlapping `roll_up_run` calls can write in the other order than they
  read, and the run keeps the older value.
* A delivery in a consumer's buffer is not heartbeaten, and heartbeats may stay out;
  when it lapses, two dispatchers run one job, in two VMs, over the same rows.
  `JobExec` and `Records` say what still holds then.
* A dispatcher that dies during the last delivery leaves the row running for
  ever.
* `Pool::release` makes a row idle whatever its status. After a lease that lapsed
  under a live job this puts a draining VM back into the pool, which is why
  `DrainingStaysOut` is stated for `MayStall = FALSE`.
* `run_steps` breaks at the first failure, so a step with `if: always()` after it
  is not looked at.
* The redelivery of a dead dispatcher's job comes after a minute and its lease
  lasts three, so the redelivery gets another sandbox and starts its steps again
  there instead of reattaching.
* A submit whose second workflow file does not parse is answered with an error
  although the first file's run has been created and goes on: the case of
  `MCSubmit_v_refused.cfg` without any change of the pool.
* A workflow object asked for by id is used even when it is disabled
  (`WorkflowSet::find` ignores `enabled`).
* `evict` drops whatever tunnel is cached for the host, so a late failure closes
  the healthy one a newer attempt has dialed; and `client_for` keeps the mutex
  for the whole of a dial, so one slow host delays dials to every other.
* A network whose members cannot be read is empty until the next refresh.
* The stored plan names networks and hosts by their display names, which nothing
  in this program keeps distinct: of two that share a name, each orchestrator
  takes the first in its own snapshot.
* `plan.rs:6` calls its matrix rule GitHub's. An include entry merges into every combination it
  agrees with on shared keys, those that other include entries made too, which
  GitHub's does not; an exclude key that is no axis is ignored.
* `sanitize_component` folds runs of dashes, so two job keys may share a log
  path; an artifact's tag is cut to 64 characters and may name two artifacts, of
  which the later upload has it.
* `append_log` does not flush. A line may reach the file after the row's UPDATE and
  after the verdict, and its last write may fail with nobody to see it.
* The VM console's log and an image's build log are stored as they come, not
  masked (`attach_build_log`, `capture_vm_log`), where `secrets.rs:75` speaks of
  everything that is written to a log.
* The comment on `MIN_MASK_LEN` says three characters, the constant four. Of two
  secrets with the same leaf name the last listed wins.
* A live job page renders the logs it has and its stream sends each of them again
  from the first byte. A cancelled job's tail ends when the row says cancelled,
  before the executor's last lines. A failed query counts as "no logs".
  `pages.rs` describes rendered fragments where the stream sends JSON.
* The tail assumes that a log only grows; after a sweep it waits until the new
  log is longer than what it had sent.
* A delivery that appends between the sweep's unlink and its UPDATE leaves a file
  no row names; a batch of directories that cannot be removed keeps the sweep
  from the runs behind it.
* Repeated deliveries list an artifact twice.
* A sandbox created and not registered, or forgotten although its destruction
  failed, is unlisted until its TTL.
* Nothing deletes workspaces. `max-parallel` and `fail-fast` are parsed and never
  read. `Pool::take_for_sweep` has no caller outside the tests.

## What is proved

The theorems hold for every value of the constants that satisfies the modules'
ASSUMEs: any plan (finite, needs naming bases of the plan), any number of
processes, tasks, hosts, VMs, deliveries, steps, submits, files and faults, and
inputs of any size. Every inductive invariant was checked by TLC on the run's
instance before it was proved.

**`DispatchProofs`.**

* `TypeCorrect`. `TypeOK` is inductive together with `FinishHasOutcome` (a
  delivery about to write its verdict has one); without it `FinishJob` could
  write "none".
* `TerminalForEver`: `TerminalStays`, an action property, from the types and the
  guards of the four guarded statements.
* `UnclaimedWhileQueued`: `QueuedMeansUnclaimed` is inductive with the types; the
  case that matters is a rollback (`Unqueue`) meeting a claim.
* `NeedsComeFirst`: `NeedsFirst` needs `SchedInv`: every job in a pass's `todo`
  or between queue and publish (`PassReady`), every job past pending
  (`StatusReady`) and every message (`QueueReady`) has all its needs terminal.
  Since terminal stays terminal, a stale snapshot can only err towards waiting.
* `SuccessIsFinal`: `SuccessMeansDone` needs `RollInv`: a pass about to write
  *success* read a state in which all jobs were terminal, and they still are.
* `Refinement`: every step of `Dispatch` maps to `Launch`, `Settle` or a stutter
  of `DagOrder`.
* `QueuedIsOnASubject`: `QueuedHasMessage` needs six facts about the stream
  (`MessageInv`). A queued row without a message is in the hands of a pass that
  is about to publish it or take it back (`QueuedInv`); an ack is only on its way,
  or at the stream, once the row is terminal (`AckInv`, `AckedInv`); and the last
  delivery the stream allows is buffered or being worked on until the row is
  terminal (`LastInv`), so that a message is never dead under a queued row. All
  of it under the property's own condition, that no process has died and no store
  error was dropped.

**`VmPoolProofs`.** `TypeCorrect` for every constant; the others under
`MayStall = FALSE`, which is the assumption the code's comment on the lease loop
makes and which the late release described above shows to be needed.

* `VmExclusive` and `VmOutlivesJob` follow from `PoolInv`: a task holding a VM
  that has a row has it `claimed` in the name of its own live instance and not
  lapsed (`HoldInv`); a task that has created a VM and not registered it holds
  one with no row (`FreshInv`); an unmade sandbox is in nobody's hand and in no
  row (`UnmadeInv`); what a sweep is about to destroy is draining, or gone, or
  nobody's (`SweepInv`).
* `DrainedForGood` follows from the same invariant: only the holder releases,
  and its row is claimed.

**`CatalogProofs`.** For any number of jobs, deliveries and faults.

* `ImageIsThere` (`UsableImage`) follows from an invariant relating the row to the
  file: a row that reads ready, a delivery that has seen it ready, and a build
  the daemon reports done have the file under them, unless somebody deletes it.
* `ExclusiveBuild` (`OneBuilder`), while renewals are on time: the owner named by a
  building row is the only delivery past its claim, because a lease lapses only
  when its owner is gone.
* `ReadyIsKept` (`ReadyNotUndone`): `claim` and `mark_failed` spare a ready row and
  `mark_ready` only ever writes one, so it leaves only through `forget`.

**`JobExecProofs`.** For any number of jobs, steps, VMs, faults and deliveries, of
which any number may be at work on one job at once.

* `TypeCorrect` is inductive with `HoldInv`: whoever has a VM in hand is its only
  holder, and the VM is not an orphan; otherwise a VM could be handed back twice.
* `SuccessIsEarned` (`SuccessMeansEveryStep`). With deliveries that overlap the rows
  prove nothing, so the argument goes by the guest. `EarnInv`: below the position
  of its loop, a delivery's steps have ended well *in the VM it holds*, which no
  other writes under the same ids and where what ended well stays so (`OkStays`).
  For jobs that were never shared, `RecInv` adds that nobody else is at work
  (`Alone`) and that the rows up to there are good (`Tidy`).
* `CancelLetsOneThrough` (`CancelStopsSteps`) follows from `LateInv`: while the row
  still says cancelled, a delivery that has started a command since has it in hand
  and sees the cancel at its next boundary, or is on its way out, and no delivery
  is begun over it.
* `OwnTreeAtFirst` (`FirstRunsOnOwnTree`) follows from `TreeInv`: in a VM that had not
  seen the job before this delivery, the daemon knows only the operations of this
  attempt, so the checkout is really run; and while it and the steps run, nothing
  of another job does, because a busy guest refuses a second command.

**`RecordsProofs`.** For any number of runs, steps, sinks, viewers, faults and
overlapping deliveries, and any sharing of tags and paths.

* `TypeCorrect`.
* `ListedCanBeHad` (`ListedIsStored`) follows from `StoreInv`: an upload past its
  blob, its manifest, its tag has them (`UploadInv`), and a row comes after its tag.
  Nothing leaves the store and a filled file is never again one that was not
  (`StoreGrows`), so another delivery, or another upload under the tag, can only
  move it to another complete object.
* `SuccessIsListed` (`SuccessMeansListed`) follows from `SuccessInv`: a delivery whose
  outcome is still success has listed every required upload behind it
  (`PassedInv`), because an upload that fails and is not tolerated makes the
  outcome a failure (`OutcomeInv`).
* `TailSendsAll` (`TailComplete`) follows from `TailInv`. What a log held at the first
  verdict stays in it, and its row points at it, until the sweep (`KeptInv`); a
  tail that knows of a verdict read it after there was one (`JudgedInv`); and
  whatever it has not read since is still in its `todo` (`ReadInv`).

**`FleetProofs`.** For any fleet, any `CI_NETWORK`s and any changes of the cloud.

* `TypeCorrect`.
* `AtMostOneTunnel` (`OneTunnel`) and `RetryDialsAfresh` (`NeverTheSameDeadTunnel`)
  follow from `TunnelInv`: the mutex is held by exactly the attempt that is
  dialing (`LockInv`), to a host with nothing cached (`DialInv`), so the tunnels to
  a host are the cached one or the one being probed (`OpenInv`); and whose attempt
  got no image or no VM over a tunnel that is still cached has yet to evict it
  (`MetInv`). Of tunnels that die under the steps nothing is claimed.
* `RunsAtHome` (`RunsWhereSubmitted`) is proved under `UniqueNames`, that no two
  networks and no two hosts share a display name. The proof needs it:
  `assign_network` writes *names* into the stored plan ("Canonical names, so the
  stored plan and the job row say what the dashboard says"), and every later
  `Pool::find` takes the first network of that name in its own snapshot. `HomeInv`
  says that the stored plan names the network, and a pinned host, of the submit;
  `PickLeadsHome` that any snapshot, however stale, leads from there to them or to
  nothing.

**`SubmitProofs`.** For any number of submits, sources, files and administrative
changes. The assumptions on the inputs are that app-lb's objects have distinct ids,
a tree's files distinct paths, and the registrations there are at first distinct
ids under their own URLs. Each action is first reduced to one of eleven steps (a
request is prepared, passes over a file, declines it, ...), and the parts of the
invariant are proved for those.

* `TypeCorrect`, and `IdsAreNeverShared`: a registration's id is never handed out
  again, which is what makes `Live` and `RowOf` mean one row.
* `EveryRunItsTree` (`OwnTree`) follows from `TreeInv`: the workspaces of a submit are
  numbered by the runs it has reported, the run being made is the only one to
  have the next number, and its tree is there before it is.
* `RunsNameLiveRepos` (`NoDanglingRun`): the insert checks the registration, and the
  delete forgets it in the runs that name it.
* `DeclinedForGood` (`NeverDeclinedWrongly`) follows from `ChangesInv` (what a submit
  goes by is the truth or no answer) and the lemma `UnknownAdmitsMore` about the
  filters: an unknown change set admits whatever any known one does.
* `NothingIsLeftOut` (`AcceptedAccountsForAll`) follows from `AccountInv`, the account
  of the loop in progress: a file still in `todo` is neither declined nor run,
  except the one whose run is being advanced, and a file that is no longer there
  is exactly one of the two, once.

**`PlanProofs`.** For inputs of any size: what `PlanInputs` states of the
algorithms holds for all globs, conditions, workflows, matrices and logs that
satisfy its ASSUMEs, which say what the callers see to:

* `GlobsAssumption`, `LogsAssumption`, `MatricesAssumption`: patterns, texts, axes,
  includes and secrets are finite sequences, and a matrix has finitely many axes.
* `OperandsAssumption`: an operand is something that parses as one primary by
  itself: a literal, a path, a call, any expression in parentheses.
* `WorkflowsAssumption`: a workflow has finitely many jobs, and twice as many numbers
  fit in a `usize` as it has cells: then `UniqueKey` finds a free suffix.
* `NumbersAssumption`: two numbers are not printed alike.

TLA+ knows of a recursive function only that it satisfies its equation if some
function does, so each algorithm first gets that function: a recursion that asks
only for arguments of a smaller, bounded measure has a solution
(`RecursionHasSolution`, used by the lemmas named `...Equation`). `ParserExists` is
its counterpart for the parser, where the measure is the distance to the last token
and then the grammar level. What the code computes is then shown by induction over the same measures, as
membership of every number in a set (`NatSetInduction`).

* `GlobsAreTiled` (`GlobIsTiling`): the loop of `match_segment` only ever resumes at
  the *last* star. `TilesFrom` says that the rest of a pattern fits the rest of a
  text; the lemmas about it show that, once a later star is reached, giving an
  earlier one more of the text opens nothing new. `match_segments` is
  the same over segments, with `**` for the star.
* `ConditionsMean` (`ConditionsMeanWhatTheySay`): `||`, `&&`, chains and parentheses
  mean what they do in GitHub's language; `!` over a comparison is in parentheses,
  since without them the two differ. `Reads(level, w, v)` says that the
  parser, at that level, reads the words `w` as `v` and stops behind them,
  wherever they stand, if what follows cannot continue them. An operand reads as a
  primary because the parse of a closed word never looks further than one token
  past its end (`ReadInside`); an expression in parentheses does because the
  inner one reads at `or`; and each operator lifts its operands by one lemma
  (`BangReads`, `EqualReads`, `OperatorReads`). A chain needs one part more,
  `InChain`: `a && b && c` is written for a tree whose *first* operand is `a && b`
  and read by a recursion that descends to the right, and `SelectTwice` says that
  both select the same operand.
* `CyclesAreTurnedAway` (`CyclesAreRejected`): a ranking rules out that the search
  meets an open job again (`RankedHasNoCycle`), and a search that never does leaves
  every job finished after those it needs, which is a ranking
  (`NoCycleIsFinished`); for a ranked workflow every wave of `topological_order`
  finds a cell, so the plan is complete (`PlannedWhenRanked`).
* `PlansRun` (`PlansAreRunnable`): keys stay apart over all jobs and cells, whatever
  suffixes earlier cells took (`CellsAreOk`), and the order puts a cell after every
  cell of the jobs it needs (`OrderIsRunnable`).
* `MatricesAreExact` (`MatrixIsExact`): every surviving combination and every include
  is run, and no combination is invented or run in part (`ExpandMatrixIsExact`).
* `LogsKeepSecrets` (`MaskedTextHidesSecrets`): a replacement leaves no occurrence of its
  secret (`ReplaceRemoves`) and makes none of another, because a mask of stars is
  part of no secret that has no star; and since longer secrets go first, one that
  stands alone goes in one piece (`MaskedLine`).

**Only model-checked.** The liveness properties `NoJobForgotten`, `OrphanReclaimed`,
`WaiterServed`, `QueueGetsOwner` and `AgedLogsGo`: liveness under fairness is beyond
the prover. Every other property of the passing runs is a theorem.

## Plan

Every safety property is proved. What is left:

1. Conditions of any depth: `ConditionsMean` is about trees two operators deep
   over any operands; the lemmas about one operator (`OperatorTree`) are about
   any tree.
2. A composition of `Dispatch` and `VmPool` through the executor, with
   `HeldExclusively` for deliveries instead of tasks.
3. `JobExec` as a refinement of the attempt that `Dispatch` abstracts it to.

## Not modelled

YAML decoding, the expression functions on text and the substitution of
expressions into text, page rendering, HTTP, cryptography (submit signatures,
token hashes, NATS keys and JWTs), shell scripts, the S3 sink and artifact
downloads: conversions and I/O without shared state. Of the configuration only
`CI_NETWORK` has logic of its own; the rest are constants here. The local mode of
`runners.rs` replaces the control plane by one fixed host. The lock under which
`Store::migrate` runs and the users' table are left out. The `git-submit` client
is a shell script whose only effect on this program is its request.
