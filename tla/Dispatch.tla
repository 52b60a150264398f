------------------------------ MODULE Dispatch ------------------------------
(***************************************************************************)
(* One run, from the commit of its rows to its last status write.          *)
(*                                                                         *)
(* The rows live in Postgres and the job messages in JetStream; neither    *)
(* sees the other's transactions.  Three kinds of task act on them, on any *)
(* number of dispatcher processes: consumer tasks (`consume`, one per      *)
(* route and process), lease loops (`spawn_lease_loop`: the waiting-job    *)
(* reaper and the nudge, one per process) and the web handlers (submit and *)
(* cancel).  Every SQL statement and every message operation is a step of  *)
(* its own; tasks interleave between any two of them.                      *)
(***************************************************************************)
EXTENDS RunPlan, Sequences

CONSTANTS
    Process,     \* dispatcher processes sharing one database and one stream
    Worker,      \* consumer tasks
    Loop,        \* lease loops
    Web,         \* the web task: runs submit, and later cancel requests
    ProcessOf,   \* the process each task belongs to
    Runner,      \* hosts, each with its own subject
    NoRunner,    \* SQL NULL in ci_job.runner_hd_id
    RouteOf,     \* the host whose subject a worker consumes
    Route,       \* the host a job is pinned to
    Online,      \* hosts the runner snapshot reports dispatchable
    Steps,       \* steps of a job
    MaxDeliver,  \* bus::MAX_DELIVER
    MaxFaults    \* bound on each kind of fault

Actor == Worker \cup Loop \cup {Web}

(* What the environment may do to a process, a message or a call: a        *)
(* process dies; publish_job reports an error; a delivery's attempt ends   *)
(* in an error or in JobTimeout; a store call fails where the caller drops *)
(* the error; an ack is lost; somebody presses cancel.                     *)
Fault == {"crash", "publish", "attempt", "store", "ack", "cancel"}

ASSUME DispatchAssumption ==
    /\ NoRunner \notin Runner
    /\ ProcessOf \in [Actor -> Process]
    /\ RouteOf \in [Worker -> Runner]
    /\ Route \in [Job -> Runner]
    /\ Online \subseteq Runner
    /\ Steps \in Nat \ {0}
    /\ MaxDeliver \in Nat \ {0}
    /\ MaxFaults \in [Fault -> Nat]
    /\ Worker \cap Loop = {}
    /\ Web \notin Worker \cup Loop

VARIABLES
    status,     \* ci_job.status
    runner,     \* ci_job.runner_hd_id
    runStatus,  \* ci_run.status
    msg,        \* the message of each job in the work-queue stream
    buffer,     \* deliveries a worker's client has prefetched
    exec,       \* the delivery each worker is processing
    pass,       \* the advance_run call each task is in
    loop,       \* where each lease loop is, and the rows its scan returned
    cancel,     \* "jobs" between the two UPDATEs of cancel_run
    faults      \* faults so far, per kind

vars == <<status, runner, runStatus, msg, buffer, exec, pass, loop, cancel, faults>>

NoJob == 0

(* A message is absent, ready for delivery, out with a consumer, removed   *)
(* by an ack, or dead: delivered MaxDeliver times and never again.         *)
MsgState == {"none", "ready", "out", "acked", "dead"}
MsgRec == [state : MsgState, delivered : 0..MaxDeliver]
Delivery == [job : Job, attempt : 1..MaxDeliver]

ExecPc == {"idle", "read", "claim", "acquire", "start", "checkout", "check",
           "step", "finish", "err", "ack"}
Outcome == {"none", "success", "failure", "cancelled"}
ExecRec == [pc : ExecPc, job : Job \cup {NoJob}, attempt : 0..MaxDeliver,
            step : 0..Steps, outcome : Outcome]
IdleExec == [pc |-> "idle", job |-> NoJob, attempt |-> 0, step |-> 0, outcome |-> "none"]

(* todo: jobs of the pass's snapshot still to decide, each with what       *)
(* should_run said of it; roll: the value roll_up_run is about to write.   *)
PassPc == {"idle", "jobs", "needs", "decide", "publish", "unqueue", "write"}
PassRec == [pc : PassPc, todo : SUBSET Job, skip : SUBSET Job, fail : SUBSET Job,
            job : Job \cup {NoJob}, roll : RunStatus]
IdlePass == [pc |-> "idle", todo |-> {}, skip |-> {}, fail |-> {}, job |-> NoJob,
             roll |-> "running"]
StartPass == [IdlePass EXCEPT !.pc = "jobs"]

WaitingRow == [job : Job, runner : Runner \cup {NoRunner}]
LoopRec == [pc : {"idle", "reap"}, stuck : SUBSET WaitingRow]
IdleLoop == [pc |-> "idle", stuck |-> {}]

TypeOK ==
    /\ status \in [Job -> JobStatus]
    /\ runner \in [Job -> Runner \cup {NoRunner}]
    /\ runStatus \in RunStatus
    /\ msg \in [Job -> MsgRec]
    /\ buffer \in [Worker -> Seq(Delivery)]
    /\ exec \in [Worker -> ExecRec]
    /\ pass \in [Actor -> PassRec]
    /\ loop \in [Loop -> LoopRec]
    /\ cancel \in {"none", "jobs"}
    /\ faults \in [Fault -> Nat]

(* create_run has committed the run and its jobs in one transaction; the   *)
(* submit handler's next call is advance_run.                              *)
Init ==
    /\ status = [j \in Job |-> "pending"]
    /\ runner = [j \in Job |-> NoRunner]
    /\ runStatus = "queued"
    /\ msg = [j \in Job |-> [state |-> "none", delivered |-> 0]]
    /\ buffer = [w \in Worker |-> <<>>]
    /\ exec = [w \in Worker |-> IdleExec]
    /\ pass = [a \in Actor |-> IF a = Web THEN StartPass ELSE IdlePass]
    /\ loop = [l \in Loop |-> IdleLoop]
    /\ cancel = "none"
    /\ faults = [f \in Fault |-> 0]

-----------------------------------------------------------------------------
(* Rows: the statements of store.rs, as guards on and updates of `status`. *)

(* Every guarded UPDATE of a job row says NOT IN (the terminal statuses).  *)
Runnable(j) == status[j] \notin JobTerminal

set_job_status(j, s) == status' = [status EXCEPT ![j] = s]

(* queue_job and unqueue_job report rows_affected() > 0, so each is a      *)
(* guard and an assignment.                                                *)
queue_job_applies_always(j) == TRUE
queue_job_applies(j) == status[j] = "pending"
unqueue_job_applies(j) == status[j] = "queued"

(* runs_with_pending_jobs, for the one run of this model.                  *)
HasPendingJobs_running_only ==
    /\ runStatus = "running"
    /\ \E j \in Job : status[j] = "pending"
HasPendingJobs ==
    /\ runStatus \notin RunTerminal
    /\ \E j \in Job : status[j] = "pending"

(* jobs_waiting_longer_than returns whole rows.  How long a job has been   *)
(* queued is left open: any queued job may be past CI_RUNNER_WAIT_SECS.    *)
WaitingRows ==
    {[job |-> j, runner |-> runner[j]] :
        j \in {k \in Job : status[k] = "queued" /\ runStatus \notin RunTerminal}}

Spend(f) ==
    /\ faults[f] < MaxFaults[f]
    /\ faults' = [faults EXCEPT ![f] = @ + 1]

-----------------------------------------------------------------------------
(* advance_run.  jobs_of and needs_context are two SELECTs, so readiness   *)
(* and results may come from different states of the rows; should_run is a *)
(* function of what they returned, so its verdicts are fixed at the second *)
(* read.                                                                   *)

InPass(a, pc) == pass[a].pc = pc

(* A pass can end early: any store call's error propagates with `?`.       *)
PassFails(a) ==
    /\ pass[a].pc \in {"jobs", "needs", "decide", "write"}
    /\ Spend("store")
    /\ pass' = [pass EXCEPT ![a] = IdlePass]
    /\ UNCHANGED <<status, runner, runStatus, msg, buffer, exec, loop, cancel>>

(* jobs_of.  Rows not pending in it are never looked at again; a row whose *)
(* plan cannot be read is decided without consulting its needs.            *)
ReadJobs_no_needs(a) ==
    /\ InPass(a, "jobs")
    /\ pass' = [pass EXCEPT ![a].pc = "needs",
                            ![a].todo = {j \in Job : status[j] = "pending"}]
    /\ UNCHANGED <<status, runner, runStatus, msg, buffer, exec, loop, cancel, faults>>
ReadJobs(a) ==
    /\ InPass(a, "jobs")
    /\ pass' = [pass EXCEPT ![a].pc = "needs",
            ![a].todo = {j \in Job : /\ status[j] = "pending"
                                     /\ j \in BadPlan \/ NeedsTerminal(status, j)}]
    /\ UNCHANGED <<status, runner, runStatus, msg, buffer, exec, loop, cancel, faults>>

(* needs_context, and should_run on it for every ready job.                *)
ReadNeeds(a) ==
    /\ InPass(a, "needs")
    /\ LET said(v) == {j \in pass[a].todo \ BadPlan : ShouldRun(status, j) = v}
       IN  pass' = [pass EXCEPT ![a].pc = "decide",
                                ![a].skip = said("skip"),
                                ![a].fail = said("fail") \cup (pass[a].todo \cap BadPlan)]
    /\ UNCHANGED <<status, runner, runStatus, msg, buffer, exec, loop, cancel, faults>>

(* The loop body takes the snapshot's rows in job_key order.               *)
NextTodo(a, j) ==
    /\ InPass(a, "decide")
    /\ j \in pass[a].todo
    /\ \A k \in pass[a].todo : j <= k

Decided(a, j) == [pass EXCEPT ![a].todo = @ \ {j}]

(* An unreadable plan, a condition that does not evaluate, or a target     *)
(* that cannot be placed: the job fails where it stands.                   *)
DecideFail(a) ==
    \E j \in Job :
        /\ NextTodo(a, j)
        /\ j \in pass[a].fail \/ (j \in Unroutable /\ j \notin pass[a].skip)
        /\ set_job_status(j, "failure")
        /\ pass' = Decided(a, j)
        /\ UNCHANGED <<runner, runStatus, msg, buffer, exec, loop, cancel, faults>>

DecideSkip(a) ==
    \E j \in Job :
        /\ NextTodo(a, j)
        /\ j \in pass[a].skip
        /\ set_job_status(j, "skipped")
        /\ pass' = Decided(a, j)
        /\ UNCHANGED <<runner, runStatus, msg, buffer, exec, loop, cancel, faults>>

(* queue_job: false when another pass got there first.                     *)
DecideQueue(a) ==
    \E j \in Job :
        /\ NextTodo(a, j)
        /\ j \notin pass[a].skip \cup pass[a].fail
        /\ IF queue_job_applies(j)
           THEN /\ set_job_status(j, "queued")
                /\ pass' = [Decided(a, j) EXCEPT ![a].pc = "publish", ![a].job = j]
           ELSE /\ pass' = Decided(a, j)
                /\ UNCHANGED status
        /\ UNCHANGED <<runner, runStatus, msg, buffer, exec, loop, cancel, faults>>

(* Nats-Msg-Id: a second publish of the same job is dropped by the stream. *)
Landed(j) ==
    [msg EXCEPT ![j].state = IF @ = "none" THEN "ready" ELSE @]

Publish(a) ==
    /\ InPass(a, "publish")
    /\ msg' = Landed(pass[a].job)
    /\ pass' = [pass EXCEPT ![a].pc = "decide", ![a].job = NoJob]
    /\ UNCHANGED <<status, runner, runStatus, buffer, exec, loop, cancel, faults>>

(* publish_job returns an error; the message may have landed all the same. *)
PublishFails(a) ==
    /\ InPass(a, "publish")
    /\ Spend("publish")
    /\ msg' \in {msg, Landed(pass[a].job)}
    /\ pass' = [pass EXCEPT ![a].pc = "unqueue"]
    /\ UNCHANGED <<status, runner, runStatus, buffer, exec, loop, cancel>>

(* unqueue_job; its own failure is logged and leaves the row queued.       *)
Unqueue_missing(a) ==
    /\ InPass(a, "unqueue")
    /\ pass' = [pass EXCEPT ![a].pc = "decide", ![a].job = NoJob]
    /\ UNCHANGED <<status, runner, runStatus, msg, buffer, exec, loop, cancel, faults>>
Unqueue(a) ==
    /\ InPass(a, "unqueue")
    /\ \/ /\ status' = IF unqueue_job_applies(pass[a].job)
                       THEN [status EXCEPT ![pass[a].job] = "pending"] ELSE status
          /\ UNCHANGED faults
       \/ Spend("store") /\ UNCHANGED status
    /\ pass' = [pass EXCEPT ![a].pc = "decide", ![a].job = NoJob]
    /\ UNCHANGED <<runner, runStatus, msg, buffer, exec, loop, cancel>>

(* roll_up_run: a SELECT, and then an UPDATE that guards on nothing.       *)
RollUpRead(a) ==
    /\ InPass(a, "decide")
    /\ pass[a].todo = {}
    /\ pass' = [pass EXCEPT ![a].pc = "write", ![a].roll = RollUp(status)]
    /\ UNCHANGED <<status, runner, runStatus, msg, buffer, exec, loop, cancel, faults>>

set_run_status(s) == runStatus' = s

RollUpWrite(a) ==
    /\ InPass(a, "write")
    /\ set_run_status(pass[a].roll)
    /\ pass' = [pass EXCEPT ![a] = IdlePass]
    /\ UNCHANGED <<status, runner, msg, buffer, exec, loop, cancel, faults>>

AdvanceRun(a) ==
    \/ ReadJobs(a) \/ ReadNeeds(a)
    \/ DecideFail(a) \/ DecideSkip(a) \/ DecideQueue(a)
    \/ Publish(a) \/ PublishFails(a) \/ Unqueue(a)
    \/ RollUpRead(a) \/ RollUpWrite(a) \/ PassFails(a)

-----------------------------------------------------------------------------
(* JetStream's work queue, as the consumers see it.                        *)

Redeliverable(j) == IF msg[j].delivered < MaxDeliver THEN "ready" ELSE "dead"

(* `messages()` prefetches: a delivery is counted, and its ack window      *)
(* opens, when it reaches the client's buffer.                             *)
Fetch(w, j) ==
    /\ Route[j] = RouteOf[w]
    /\ msg[j].state = "ready"
    /\ msg[j].delivered < MaxDeliver
    /\ msg' = [msg EXCEPT ![j] = [state |-> "out", delivered |-> @.delivered + 1]]
    /\ buffer' = [buffer EXCEPT ![w] =
                    Append(@, [job |-> j, attempt |-> msg[j].delivered + 1])]
    /\ UNCHANGED <<status, runner, runStatus, exec, pass, loop, cancel, faults>>

(* The heartbeat runs from the start of a delivery's processing until      *)
(* run_job returns.  A delivery that is only buffered has none.            *)
HeartbeatPc == {"read", "claim", "acquire", "start", "checkout", "check", "step", "finish"}
Heartbeating(j) == \E w \in Worker : exec[w].job = j /\ exec[w].pc \in HeartbeatPc

(* ACK_WAIT is a minute and an idle task polls at once, so a delivery only *)
(* outlives its window in a buffer behind work in progress, or after the   *)
(* process that held it died.                                              *)
AboutToBeTaken(j) ==
    \E w \in Worker : /\ exec[w].pc = "idle" /\ pass[w].pc = "idle"
                      /\ \E i \in 1..Len(buffer[w]) : buffer[w][i].job = j

AckWaitLapses(j) ==
    /\ msg[j].state = "out"
    /\ ~Heartbeating(j) /\ ~AboutToBeTaken(j)
    /\ msg' = [msg EXCEPT ![j].state = Redeliverable(j)]
    /\ UNCHANGED <<status, runner, runStatus, buffer, exec, pass, loop, cancel, faults>>

-----------------------------------------------------------------------------
(* consume, run_job and run_claimed: one delivery through one worker.      *)

At(w, pc) == exec[w].pc = pc
Goto(w, pc) == exec' = [exec EXCEPT ![w].pc = pc]

Take(w) ==
    /\ At(w, "idle") /\ InPass(w, "idle")
    /\ buffer[w] # <<>>
    /\ exec' = [exec EXCEPT ![w] = [IdleExec EXCEPT !.pc = "read",
                    !.job = Head(buffer[w]).job, !.attempt = Head(buffer[w]).attempt]]
    /\ buffer' = [buffer EXCEPT ![w] = Tail(@)]
    /\ UNCHANGED <<status, runner, runStatus, msg, pass, loop, cancel, faults>>

(* get_job: a terminal row means the delivery is dropped as done.          *)
ReadJob(w) ==
    /\ At(w, "read")
    /\ Goto(w, IF Runnable(exec[w].job) THEN "claim" ELSE "ack")
    /\ UNCHANGED <<status, runner, runStatus, msg, buffer, pass, loop, cancel, faults>>

(* claim_job: running, on this worker's host; refused on a terminal row.   *)
ClaimJob(w) ==
    /\ At(w, "claim")
    /\ IF Runnable(exec[w].job)
       THEN /\ set_job_status(exec[w].job, "running")
            /\ runner' = [runner EXCEPT ![exec[w].job] = RouteOf[w]]
            /\ Goto(w, "acquire")
       ELSE /\ Goto(w, "ack")
            /\ UNCHANGED <<status, runner>>
    /\ UNCHANGED <<runStatus, msg, buffer, pass, loop, cancel, faults>>

(* Image and VM acquisition take minutes and touch no job row.             *)
AcquireVm(w) ==
    /\ At(w, "acquire")
    /\ Goto(w, "start")
    /\ UNCHANGED <<status, runner, runStatus, msg, buffer, pass, loop, cancel, faults>>

(* start_job: the second guard, after the boot.                            *)
StartJob_unguarded(w) ==
    /\ At(w, "start")
    /\ set_job_status(exec[w].job, "running")
    /\ runner' = [runner EXCEPT ![exec[w].job] = RouteOf[w]]
    /\ Goto(w, "checkout")
    /\ UNCHANGED <<runStatus, msg, buffer, pass, loop, cancel, faults>>
StartJob(w) ==
    /\ At(w, "start")
    /\ IF Runnable(exec[w].job)
       THEN /\ set_job_status(exec[w].job, "running")
            /\ runner' = [runner EXCEPT ![exec[w].job] = RouteOf[w]]
            /\ Goto(w, "checkout")
       ELSE /\ Goto(w, "ack")
            /\ UNCHANGED <<status, runner>>
    /\ UNCHANGED <<runStatus, msg, buffer, pass, loop, cancel, faults>>

Ends(w, o) == exec' = [exec EXCEPT ![w].pc = "finish", ![w].outcome = o]

Checkout(w) ==
    /\ At(w, "checkout")
    /\ \/ Goto(w, "check")
       \/ exec[w].job \in MayFail /\ Ends(w, "failure")
    /\ UNCHANGED <<status, runner, runStatus, msg, buffer, pass, loop, cancel, faults>>

(* The step boundary: is_job_cancelled, and only there.                    *)
CheckCancelled(w) ==
    /\ At(w, "check")
    /\ IF status[exec[w].job] = "cancelled" THEN Ends(w, "cancelled") ELSE Goto(w, "step")
    /\ UNCHANGED <<status, runner, runStatus, msg, buffer, pass, loop, cancel, faults>>

(* Mutant: the step loop ends without a verdict.                           *)
RunStep_no_verdict(w) ==
    /\ At(w, "step")
    /\ \/ exec[w].step + 1 < Steps
          /\ exec' = [exec EXCEPT ![w].pc = "check", ![w].step = @ + 1]
       \/ exec[w].step + 1 = Steps /\ Goto(w, "finish")
       \/ exec[w].job \in MayFail /\ Ends(w, "failure")
    /\ UNCHANGED <<status, runner, runStatus, msg, buffer, pass, loop, cancel, faults>>

RunStep(w) ==
    /\ At(w, "step")
    /\ \/ exec[w].step + 1 < Steps
          /\ exec' = [exec EXCEPT ![w].pc = "check", ![w].step = @ + 1]
       \/ exec[w].step + 1 = Steps /\ Ends(w, "success")
       \/ exec[w].job \in MayFail /\ Ends(w, "failure")
    /\ UNCHANGED <<status, runner, runStatus, msg, buffer, pass, loop, cancel, faults>>

(* The outcome as a job status, written over whatever the row says now.    *)
FinalStatus(w) ==
    IF exec[w].outcome = "failure" /\ exec[w].job \in ContinueOnError
    THEN "success" ELSE exec[w].outcome

FinishJob(w) ==
    /\ At(w, "finish")
    /\ set_job_status(exec[w].job, FinalStatus(w))
    /\ Goto(w, "ack")
    /\ UNCHANGED <<runner, runStatus, msg, buffer, pass, loop, cancel, faults>>

(* run_job returns an error: no runner online, no VM, a store error, or    *)
(* CI_MAX_JOB_SECONDS elapsing wherever the attempt happens to be.         *)
AttemptFails(w) ==
    /\ exec[w].pc \in HeartbeatPc
    /\ Spend("attempt")
    /\ Goto(w, "err")
    /\ UNCHANGED <<status, runner, runStatus, msg, buffer, pass, loop, cancel>>

(* Whatever happened to the delivery, the task then advances the run.      *)
ThenAdvance(w) ==
    /\ exec' = [exec EXCEPT ![w] = IdleExec]
    /\ pass' = [pass EXCEPT ![w] = StartPass]

(* A negative ack, with the ladder's delay.                                *)
Nak(w) ==
    /\ At(w, "err")
    /\ exec[w].attempt < MaxDeliver
    /\ msg' = [msg EXCEPT ![exec[w].job].state =
                 IF @ = "out" THEN Redeliverable(exec[w].job) ELSE @]
    /\ ThenAdvance(w)
    /\ UNCHANGED <<status, runner, runStatus, buffer, loop, cancel, faults>>

(* The last delivery marks the job failed and then acks; the status        *)
(* write's own error is dropped.                                           *)
GiveUp(w) ==
    /\ At(w, "err")
    /\ exec[w].attempt >= MaxDeliver
    /\ \/ set_job_status(exec[w].job, "failure") /\ UNCHANGED faults
       \/ Spend("store") /\ UNCHANGED status
    /\ Goto(w, "ack")
    /\ UNCHANGED <<runner, runStatus, msg, buffer, pass, loop, cancel>>

Ack(w) ==
    /\ At(w, "ack")
    /\ \/ msg' = [msg EXCEPT ![exec[w].job].state = "acked"] /\ UNCHANGED faults
       \/ Spend("ack") /\ UNCHANGED msg
    /\ ThenAdvance(w)
    /\ UNCHANGED <<status, runner, runStatus, buffer, loop, cancel>>

Consume(w) ==
    \/ Take(w) \/ ReadJob(w) \/ ClaimJob(w) \/ AcquireVm(w) \/ StartJob(w)
    \/ Checkout(w) \/ CheckCancelled(w) \/ RunStep(w) \/ FinishJob(w)
    \/ Nak(w) \/ GiveUp(w) \/ Ack(w)

-----------------------------------------------------------------------------
(* The lease loop's two passes over the run, in its order.                 *)

(* fail_jobs_waiting_for_a_runner: the SELECT.                             *)
ReapScan(l) ==
    /\ loop[l].pc = "idle" /\ InPass(l, "idle")
    /\ \E rows \in SUBSET WaitingRows :
         loop' = [loop EXCEPT ![l] = [pc |-> "reap", stuck |-> rows]]
    /\ UNCHANGED <<status, runner, runStatus, msg, buffer, exec, pass, cancel, faults>>

(* One row of that result.  The re-check consults the runner the row named *)
(* when it was read.                                                       *)
ReapOne(l) ==
    /\ loop[l].pc = "reap" /\ InPass(l, "idle")
    /\ \E row \in loop[l].stuck :
        /\ loop' = [loop EXCEPT ![l].stuck = @ \ {row}]
        /\ IF row.runner \in Online
           THEN UNCHANGED <<status, pass, faults>>
           ELSE \/ /\ set_job_status(row.job, "failure")
                   /\ pass' = [pass EXCEPT ![l] = StartPass]
                   /\ UNCHANGED faults
                \/ Spend("store") /\ UNCHANGED <<status, pass>>
    /\ UNCHANGED <<runner, runStatus, msg, buffer, exec, cancel>>

(* nudge_stalled_runs, once the reaper's rows are done.                    *)
Nudge(l) ==
    /\ loop[l].pc = "reap" /\ loop[l].stuck = {} /\ InPass(l, "idle")
    /\ loop' = [loop EXCEPT ![l] = IdleLoop]
    /\ pass' = [pass EXCEPT ![l] = IF HasPendingJobs THEN StartPass ELSE @]
    /\ UNCHANGED <<status, runner, runStatus, msg, buffer, exec, cancel, faults>>

LeaseLoop(l) == ReapScan(l) \/ ReapOne(l) \/ Nudge(l)

-----------------------------------------------------------------------------
(* POST /runs/{id}/cancel: the run's UPDATE, then the jobs'.               *)

CancelRun ==
    /\ cancel = "none"
    /\ runStatus \notin RunTerminal
    /\ Spend("cancel")
    /\ set_run_status("cancelled")
    /\ cancel' = "jobs"
    /\ UNCHANGED <<status, runner, msg, buffer, exec, pass, loop>>

CancelJobs ==
    /\ cancel = "jobs"
    /\ status' = [j \in Job |-> IF Runnable(j) THEN "cancelled" ELSE status[j]]
    /\ cancel' = "none"
    /\ UNCHANGED <<runner, runStatus, msg, buffer, exec, pass, loop, faults>>

(* A process dies and is started again: its tasks, their buffers and their *)
(* calls in progress are gone, the rows and the stream are not.            *)
Crash(p) ==
    /\ Spend("crash")
    /\ buffer' = [w \in Worker |-> IF ProcessOf[w] = p THEN <<>> ELSE buffer[w]]
    /\ exec' = [w \in Worker |-> IF ProcessOf[w] = p THEN IdleExec ELSE exec[w]]
    /\ pass' = [a \in Actor |-> IF ProcessOf[a] = p THEN IdlePass ELSE pass[a]]
    /\ loop' = [l \in Loop |-> IF ProcessOf[l] = p THEN IdleLoop ELSE loop[l]]
    /\ cancel' = IF ProcessOf[Web] = p THEN "none" ELSE cancel
    /\ UNCHANGED <<status, runner, runStatus, msg>>

Next ==
    \/ \E a \in Actor : AdvanceRun(a)
    \/ \E w \in Worker : Consume(w)
    \/ \E w \in Worker : AttemptFails(w)
    \/ \E w \in Worker, j \in Job : Fetch(w, j)
    \/ \E j \in Job : AckWaitLapses(j)
    \/ \E l \in Loop : LeaseLoop(l)
    \/ CancelRun
    \/ CancelJobs
    \/ \E p \in Process : Crash(p)

Spec == Init /\ [][Next]_vars

(* Tasks that are alive keep running: tokio polls every ready task, so a   *)
(* pass, a delivery in progress and the lease loop take their next step.   *)
(* JetStream delivers what it holds and lapses what nobody heartbeats.  A  *)
(* row that stays queued is old enough for every scan after some time, so  *)
(* the scan that returns all waiting rows recurs.  Faults, cancel requests *)
(* and a step's success or failure are never assumed.                      *)
Fairness ==
    /\ \A a \in Actor : WF_vars(AdvanceRun(a))
    /\ \A w \in Worker : WF_vars(Consume(w))
    /\ \A w \in Worker, j \in Job : WF_vars(Fetch(w, j))
    /\ \A j \in Job : WF_vars(AckWaitLapses(j))
    /\ \A l \in Loop : /\ WF_vars(LeaseLoop(l))
                       /\ SF_vars(ReapScan(l) /\ loop'[l].stuck = WaitingRows)
    /\ WF_vars(CancelJobs)

FairSpec == Spec /\ Fairness

-----------------------------------------------------------------------------
(* Properties.                                                             *)

(* No job reaches a queue, a VM or a verdict of its own before every cell  *)
(* of everything it `needs:` is terminal, however many advance_run calls   *)
(* overlap and however stale their snapshots are (dispatch.rs advance_run: *)
(* "a base id is only satisfied once every cell of it is terminal").       *)
NeedsFirst ==
    \A j \in Job \ BadPlan :
        \/ status[j] \in {"queued", "running", "success", "skipped"}
        \/ msg[j].state # "none"
        => NeedsTerminal(status, j)

(* A job that reached a terminal status never becomes pending, queued or   *)
(* running again, whatever redelivery, rollback or late claim follows: the *)
(* guards of queue_job, unqueue_job, claim_job and start_job together.     *)
TerminalStays ==
    [][\A j \in Job : status[j] \in JobTerminal => status'[j] \in JobTerminal]_vars

(* `queued` means on a subject and unclaimed: no consumer has committed to *)
(* the job and the row names no runner (fail_jobs_waiting_for_a_runner     *)
(* depends on it).                                                         *)
Committed == {"acquire", "start", "checkout", "check", "step", "finish"}
QueuedMeansUnclaimed ==
    \A j \in Job : status[j] \in {"pending", "queued"} =>
        /\ runner[j] = NoRunner
        /\ \A w \in Worker : exec[w].job = j => exec[w].pc \notin Committed

(* A run that reads `success` has no job still to run, even though         *)
(* roll_up_run's read and its unguarded write are separate statements.     *)
SuccessMeansDone ==
    runStatus = "success" => \A j \in Job : status[j] \in JobTerminal

(* Without a crash and without a dropped store error, a queued row always  *)
(* has its message: undelivered, delivered and not yet given up, or about  *)
(* to be published or rolled back by the pass that queued it.              *)
QueuedHasMessage ==
    (faults["crash"] = 0 /\ faults["store"] = 0) =>
        \A j \in Job : status[j] = "queued" =>
            \/ msg[j].state \in {"ready", "out"}
            \/ \E a \in Actor : pass[a].job = j
            \/ \E w \in Worker : exec[w].job = j
            \/ \E w \in Worker : \E i \in 1..Len(buffer[w]) : buffer[w][i].job = j

(* In an open run no ready job waits for ever: a crash or a failed publish *)
(* leaves it pending or queued, and the nudge or the reaper ends that.     *)
(* The nudge and the reaper both skip runs already `failure`, hence the    *)
(* restriction.                                                            *)
NoJobForgotten ==
    \A j \in Job : ~<>[](/\ runStatus \notin RunTerminal
                        /\ status[j] \in {"pending", "queued"}
                        /\ NeedsTerminal(status, j))

(* The rows implement DagOrder: pending and queued jobs wait, running ones *)
(* are launched, terminal ones are settled.                                *)
DagState == [j \in Job |-> IF status[j] \in JobTerminal THEN "settled"
                           ELSE IF status[j] = "running" THEN "launched"
                           ELSE "waiting"]
DagBefore == [j \in Job |-> {k \in Job : Base[k] \in Needs[j]}]
Dag == INSTANCE DagOrder WITH Task <- Job, Before <- DagBefore, state <- DagState

(* advance_run, the executor, the reaper and cancel together implement the *)
(* abstract promise: a job is launched only after everything it needs has  *)
(* settled, and a settled job stays settled.                               *)
ImplementsDagOrder == Dag!Spec

-----------------------------------------------------------------------------
(* What comments and documents say of this code, and it does not do.       *)

(* README, Cancelling: "A cancelled job stays cancelled."                  *)
CancelledStays ==
    [][\A j \in Job : status[j] = "cancelled" => status'[j] = "cancelled"]_vars

(* dispatch.rs, should_run: writing an explicit `if:` "is how `if:         *)
(* always()` gets a cleanup job to run after a failure".                   *)
AlwaysJobRuns ==
    \A j \in Job : Condition[j] = "always" => <>(status[j] \in JobTerminal)
=============================================================================
