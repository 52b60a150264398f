------------------------------ MODULE JobExec ------------------------------
(***************************************************************************)
(* What a delivery does once it is claimed: acquire a VM, check the source *)
(* out into it, run the steps, hand the VM back, write the verdict.  Jobs  *)
(* of several runs share warm VMs.  A job is delivered again after its     *)
(* dispatcher died or gave up on it, and also when the ack window lapsed   *)
(* under a dispatcher that is still at work: then two deliveries run at    *)
(* once, each in a VM of its own, over the same rows.                      *)
(*                                                                         *)
(* Commands run in the guest as the daemon's exec operations, which are    *)
(* recorded per sandbox under an id derived from the job and the step and  *)
(* are never run again under that id.  The VM pool is reduced to what a    *)
(* task sees of it (VmPool has the rest), the queue to what it delivers    *)
(* again (Dispatch has the rest).                                          *)
(***************************************************************************)
EXTENDS Naturals, FiniteSets

CONSTANTS
    Job,        \* jobs whose VMs have one runner and one fingerprint
    NoJob,      \* a working directory with nobody's tree, or a mixture
    Vm,         \* sandbox ids the daemon may assign
    NoVm,
    Steps,      \* how many steps each job has; the checkout is step 0
    Condition,  \* the `if:` of each step
    Tolerated,  \* steps with continue-on-error
    Uses,       \* steps that are a built-in action and not a command
    Reuse,      \* jobs with vm.reuse
    Forgiven,   \* jobs with a continue-on-error of their own
    MayFail,    \* jobs whose commands may exit non-zero
    MaxDeliver, \* bus::MAX_DELIVER
    Scenarios   \* which jobs are queued at the start, and the faults allowed then

(* The rows of ci_step a job can have, the checkout's first; and the steps *)
(* of its workflow.                                                        *)
Op == UNION {{j} \X (0..Steps[j]) : j \in Job}
StepNo == {o \in Op : o[2] > 0}
ConditionKind == {"none", "always", "failure"}

(* A job and the count JetStream gives with each delivery of its message.  *)
Delivery == Job \X (1..MaxDeliver)

(* A dispatcher dies; an attempt ends in an error or in JobTimeout; the    *)
(* store or the secret service errs under checkout or run_steps; the       *)
(* daemon does not run, or loses, a command; somebody presses cancel; the  *)
(* heartbeats of a delivery stay out, or a NAK of an older one comes late. *)
Fault == {"crash", "attempt", "store", "exec", "cancel", "lapse"}

ASSUME ExecAssumption ==
    /\ NoJob \notin Job /\ NoVm \notin Vm
    /\ Steps \in [Job -> Nat \ {0}] /\ MaxDeliver \in Nat \ {0}
    /\ Condition \in [StepNo -> ConditionKind]
    /\ Tolerated \subseteq StepNo /\ Uses \subseteq StepNo
    /\ Reuse \subseteq Job /\ Forgiven \subseteq Job /\ MayFail \subseteq Job
    /\ \A s \in Scenarios : s.queued \subseteq Job /\ s.faults \in [Fault -> Nat]

VARIABLES
    job,      \* ci_job.status
    row,      \* ci_step.status, per job and step
    att,      \* what each delivery is at
    vm,       \* per VM: in the warm pool, held, gone, or not made yet
    orphan,   \* VMs whose holder died: their leases will lapse
    tree,     \* whose source is in the VM's working directory
    op,       \* the daemon's exec operations, per VM
    left,     \* faults still allowed, per kind
    shared,   \* jobs that were in two dispatchers' hands at once
    cancel,   \* whether somebody cancelled the job, and its row still says so
    late      \* commands of steps a delivery started after that cancel

vars == <<job, row, att, vm, orphan, tree, op, left, shared, cancel, late>>

Terminal == {"success", "failure", "cancelled"}
StepStatus == {"absent", "pending", "running", "success", "failure", "skipped"}
Idle == {"due", "over"}
Pc == Idle \cup {"acquire", "start", "checkout", "post", "wait", "check", "decide",
                 "release", "finish"}

(* `again` remembers that the job has been on this VM before.              *)
AttRec == [pc : Pc, vm : Vm \cup {NoVm}, step : Nat, failed : BOOLEAN,
           outcome : Terminal, again : BOOLEAN]
NoVmAt(pc) == [pc |-> pc, vm |-> NoVm, step |-> 0, failed |-> FALSE,
               outcome |-> "success", again |-> FALSE]
Over == NoVmAt("over")

(* step_id, "<job>.checkout": the operation id names the job and the step. *)
OpOf_step_only(j, i) == <<CHOOSE k \in Job : \A l \in Job : Steps[l] <= Steps[k], i>>
OpOf(j, i) == <<j, i>>

TypeOK ==
    /\ job \in [Job -> {"queued", "running"} \cup Terminal]
    /\ row \in [Op -> StepStatus]
    /\ att \in [Delivery -> AttRec]
    /\ \A d \in Delivery : att[d].step <= Steps[d[1]]
    /\ \A d \in Delivery : att[d].vm = NoVm <=> att[d].pc \in Idle \cup {"acquire", "finish"}
    /\ vm \in [Vm -> {"unmade", "idle", "held", "gone"}]
    /\ orphan \subseteq {v \in Vm : vm[v] = "held"}
    /\ tree \in [Vm -> Job \cup {NoJob}]
    /\ op \in [Vm -> [Op -> {"none", "running", "ok", "bad", "failed"}]]
    /\ left \in [Fault -> Nat]
    /\ shared \subseteq Job
    /\ cancel \in [Job -> {"no", "stands", "overruled"}]
    /\ late \in [Delivery -> Nat]

(* A job that is not queued was cancelled before it was delivered.         *)
Init ==
    /\ \E s \in Scenarios :
        /\ job = [j \in Job |-> IF j \in s.queued THEN "queued" ELSE "cancelled"]
        /\ left = s.faults
    /\ row = [o \in Op |-> "absent"]
    /\ att = [d \in Delivery |-> NoVmAt("due")]
    /\ vm = [v \in Vm |-> "unmade"]
    /\ orphan = {}
    /\ tree = [v \in Vm |-> NoJob]
    /\ op = [v \in Vm |-> [o \in Op |-> "none"]]
    /\ shared = {}
    /\ cancel = [j \in Job |-> "no"]
    /\ late = [d \in Delivery |-> 0]

Spend(f) ==
    /\ left[f] > 0
    /\ left' = [left EXCEPT ![f] = @ - 1]

At(d, pc) == att[d].pc = pc
InHand == {d \in Delivery : att[d].pc \notin Idle}
Goto(d, pc) == att' = [att EXCEPT ![d].pc = pc]
SetRow(j, i, s) == row' = [row EXCEPT ![<<j, i>>] = s]

(* set_job_status, over whatever the row says by now.                      *)
SetJobStatus(j, s) ==
    /\ job' = [job EXCEPT ![j] = s]
    /\ cancel' = [cancel EXCEPT ![j] = IF @ = "stands" /\ s # "cancelled" THEN "overruled" ELSE @]

guest == <<vm, orphan, tree, op, late>>
told == <<shared, cancel>>

-----------------------------------------------------------------------------
(* run_job, up to the first command.                                       *)

(* JetStream delivers a message again that was given back, or that nobody  *)
(* speaks for any more; that includes one somebody is working on, after a  *)
(* lapse.                                                                  *)
Redelivers(d) ==
    LET before == <<d[1], d[2] - 1>> IN
    \/ (d[2] > 1 => At(before, "over")) /\ UNCHANGED left
    \/ d[2] > 1 /\ before \in InHand /\ Spend("lapse")

(* get_job and claim_job, which refuse a terminal job and nothing else.    *)
Deliver(d) ==
    /\ At(d, "due")
    /\ Redelivers(d)
    /\ job[d[1]] \notin Terminal
    /\ job' = [job EXCEPT ![d[1]] = "running"]
    /\ att' = [att EXCEPT ![d].pc = "acquire"]
    /\ shared' = IF \E e \in InHand : e[1] = d[1] THEN shared \cup {d[1]} ELSE shared
    /\ UNCHANGED <<row, guest, cancel>>

Warm(j) == {v \in Vm : j \in Reuse /\ vm[v] = "idle"}

(* acquire_vm: a warm VM if there is one, else a new one.                  *)
Acquire(d) ==
    /\ At(d, "acquire")
    /\ \E v \in IF Warm(d[1]) # {} THEN Warm(d[1]) ELSE {u \in Vm : vm[u] = "unmade"} :
        /\ vm' = [vm EXCEPT ![v] = "held"]
        /\ att' = [att EXCEPT ![d] = [@ EXCEPT !.pc = "start", !.vm = v,
                                      !.again = op[v][<<d[1], 0>>] # "none"]]
    /\ UNCHANGED <<job, row, orphan, tree, op, late, left, told>>

(* release_vm: back into the pool, or destroyed.                           *)
HandBack(d, corrupted) ==
    vm' = [vm EXCEPT ![att[d].vm] = IF d[1] \notin Reuse \/ corrupted THEN "gone" ELSE "idle"]

(* start_job refuses a job that went terminal while the VM booted.         *)
StartJob(d) ==
    /\ At(d, "start")
    /\ IF job[d[1]] \in Terminal
       THEN HandBack(d, FALSE) /\ att' = [att EXCEPT ![d] = Over]
       ELSE Goto(d, "checkout") /\ UNCHANGED vm
    /\ UNCHANGED <<job, row, orphan, tree, op, late, left, told>>

-----------------------------------------------------------------------------
(* checkout and run_steps.                                                 *)

(* The loop goes on to the next step, or is over.                          *)
NextStep(d, failed) ==
    IF att[d].step = Steps[d[1]]
    THEN [att EXCEPT ![d].pc = "release", ![d].failed = failed,
                     ![d].outcome = IF failed THEN "failure" ELSE "success"]
    ELSE [att EXCEPT ![d].pc = "check", ![d].step = @ + 1, ![d].failed = failed]
Break(d) == [att EXCEPT ![d].pc = "release", ![d].failed = TRUE, ![d].outcome = "failure"]

(* The checkout is recorded as a step of its own.  The submitted source    *)
(* may not be on this dispatcher's disk.                                   *)
Checkout(d) ==
    /\ At(d, "checkout")
    /\ \/ SetRow(d[1], 0, "running") /\ Goto(d, "post")
       \/ d[1] \in MayFail /\ SetRow(d[1], 0, "failure") /\ att' = Break(d)
    /\ UNCHANGED <<job, guest, left, told>>

(* is_job_cancelled, at every step boundary.                               *)
CheckCancelled_missing(d) ==
    /\ At(d, "check")
    /\ Goto(d, "decide")
    /\ UNCHANGED <<job, row, guest, left, told>>
CheckCancelled(d) ==
    /\ At(d, "check")
    /\ IF job[d[1]] = "cancelled"
       THEN att' = [att EXCEPT ![d].pc = "release", ![d].outcome = "cancelled"]
       ELSE Goto(d, "decide")
    /\ UNCHANGED <<job, row, guest, left, told>>

(* What the step's condition can come to.  An expression may be one that   *)
(* does not parse or evaluate.                                             *)
ShouldRunStep(failed, c) ==
    CASE c = "none"    -> {IF failed THEN "skip" ELSE "run"}
      [] c = "always"  -> {"run", "error"}
      [] c = "failure" -> {IF failed THEN "run" ELSE "skip", "error"}

(* create_step keeps a row an earlier delivery left; then `if:`.           *)
DecideStep(d) ==
    LET j == d[1]
        i == att[d].step
        says == ShouldRunStep(att[d].failed, Condition[<<j, i>>])
    IN  /\ At(d, "decide")
        /\ \/ "run" \in says  /\ SetRow(j, i, "running") /\ Goto(d, "post")
           \/ "skip" \in says /\ SetRow(j, i, "skipped") /\ att' = NextStep(d, att[d].failed)
           \/ /\ "error" \in says /\ j \in MayFail
              /\ SetRow(j, i, IF row[<<j, i>>] = "absent" THEN "pending" ELSE row[<<j, i>>])
              /\ att' = Break(d)
        /\ UNCHANGED <<job, guest, left, told>>

(* Vm::exec: the POST starts the operation, or finds it under its id, in   *)
(* flight or finished, and attaches to it.  A guest runs one command at a  *)
(* time; a second one does not queue, it fails.                            *)
Busy(v) == \E o \in Op : op[v][o] = "running"

Exec(d) ==
    LET v == att[d].vm
        o == OpOf(d[1], att[d].step)
    IN  /\ At(d, "post")
        /\ Goto(d, "wait")
        /\ \/ op[v][o] # "none" /\ UNCHANGED <<op, late>>
           \/ /\ op[v][o] = "none" /\ Busy(v)
              /\ op' = [op EXCEPT ![v][o] = "failed"]
              /\ UNCHANGED late
           \/ /\ op[v][o] = "none" /\ ~Busy(v)
              /\ op' = [op EXCEPT ![v][o] = "running"]
              /\ late' = [late EXCEPT ![d] =
                   IF cancel[d[1]] # "no" /\ att[d].step > 0 THEN @ + 1 ELSE @]
        /\ UNCHANGED <<job, row, vm, orphan, tree, left, told>>

(* The daemon runs a command to its end whether or not anybody still waits *)
(* for it.  The checkout's wipes the working directory and fills it.       *)
OpEnds(v, j, i) ==
    /\ op[v][OpOf(j, i)] = "running"
    /\ \E r \in {"ok", "bad"} :
        /\ r = "bad" => j \in MayFail
        /\ op' = [op EXCEPT ![v][OpOf(j, i)] = r]
        /\ tree' = IF i > 0 THEN tree
                   ELSE [tree EXCEPT ![v] = IF r = "ok" THEN j ELSE NoJob]
    /\ UNCHANGED <<job, row, att, vm, orphan, late, left, told>>

(* The poll loop sees the operation finished.                              *)
Poll_never_breaks(d) ==
    LET i == att[d].step
        r == op[att[d].vm][OpOf(d[1], i)]
    IN  /\ At(d, "wait")
        /\ r \in {"ok", "bad"}
        /\ SetRow(d[1], i, IF r = "ok" THEN "success" ELSE "failure")
        /\ att' = IF r = "ok" \/ i > 0 THEN NextStep(d, att[d].failed) ELSE Break(d)
        /\ UNCHANGED <<job, guest, left, told>>
Poll(d) ==
    LET i == att[d].step
        r == op[att[d].vm][OpOf(d[1], i)]
    IN  /\ At(d, "wait")
        /\ r \in {"ok", "bad"}
        /\ SetRow(d[1], i, IF r = "ok" THEN "success" ELSE "failure")
        /\ att' = IF r = "ok" \/ <<d[1], i>> \in Tolerated
                  THEN NextStep(d, att[d].failed) ELSE Break(d)
        /\ UNCHANGED <<job, guest, left, told>>

(* The daemon could not run the command.  For an action that is a failure  *)
(* like any other; for a command it breaks the loop whatever               *)
(* continue-on-error says.                                                 *)
Lost(d) ==
    /\ SetRow(d[1], att[d].step, "failure")
    /\ att' = IF <<d[1], att[d].step>> \in Uses \cap Tolerated
              THEN NextStep(d, att[d].failed) ELSE Break(d)
    /\ UNCHANGED <<job, guest, told>>

PollFailed(d) ==
    /\ At(d, "wait")
    /\ op[att[d].vm][OpOf(d[1], att[d].step)] = "failed"
    /\ Lost(d)
    /\ UNCHANGED left

(* The same, where it stopped answering: an operation that was started     *)
(* runs on.                                                                *)
ExecFails(d) ==
    /\ att[d].pc \in {"post", "wait"}
    /\ Spend("exec")
    /\ Lost(d)

(* An error under checkout or run_steps that is not a command's fails the  *)
(* job where it is, with the step's row as it was.                         *)
StoreFails(d) ==
    /\ att[d].pc \in {"checkout", "post", "wait", "check", "decide"}
    /\ Spend("store")
    /\ att' = [att EXCEPT ![d].pc = "release", ![d].outcome = "failure"]
    /\ UNCHANGED <<job, row, guest, told>>

-----------------------------------------------------------------------------
(* The end of the attempt.                                                 *)

(* Only a failed checkout can name a corrupted guest.                      *)
Release(d) ==
    /\ At(d, "release")
    /\ \E corrupted \in IF att[d].step = 0 /\ att[d].failed THEN BOOLEAN
                        ELSE {FALSE} : HandBack(d, corrupted)
    /\ att' = [att EXCEPT ![d].pc = "finish", ![d].vm = NoVm]
    /\ UNCHANGED <<job, row, orphan, tree, op, late, left, told>>

(* The verdict, then the ack.                                              *)
FinishJob(d) ==
    /\ At(d, "finish")
    /\ SetJobStatus(d[1], IF att[d].outcome = "failure" /\ d[1] \in Forgiven
                          THEN "success" ELSE att[d].outcome)
    /\ att' = [att EXCEPT ![d] = Over]
    /\ UNCHANGED <<row, guest, left, shared>>

(* An error propagates, or CI_MAX_JOB_SECONDS drops the attempt where it   *)
(* is, VM in hand.  The last delivery fails the job.                       *)
AttemptFails(d) ==
    /\ d \in InHand
    /\ Spend("attempt")
    /\ att' = [att EXCEPT ![d] = Over]
    /\ IF d[2] < MaxDeliver THEN UNCHANGED <<job, cancel>> ELSE SetJobStatus(d[1], "failure")
    /\ UNCHANGED <<row, guest, shared>>

(* A dispatcher dies.  Its VMs stay claimed until their leases lapse, what *)
(* runs in them runs on.                                                   *)
Crash ==
    /\ Spend("crash")
    /\ \E lost \in SUBSET InHand :
        /\ att' = [d \in Delivery |-> IF d \in lost THEN Over ELSE att[d]]
        /\ orphan' = {v \in Vm : vm[v] = "held" /\ \A d \in Delivery \ lost : att[d].vm # v}
    /\ UNCHANGED <<job, row, vm, tree, op, late, told>>

(* release_orphans, after the lease.                                       *)
Reclaim_again(v) ==
    /\ v \in orphan
    /\ vm' = [vm EXCEPT ![v] = "idle"]
    /\ UNCHANGED <<job, row, att, orphan, tree, op, late, left, told>>
Reclaim(v) ==
    /\ v \in orphan
    /\ vm' = [vm EXCEPT ![v] = "idle"]
    /\ orphan' = orphan \ {v}
    /\ UNCHANGED <<job, row, att, tree, op, late, left, told>>

Cancel(j) ==
    /\ job[j] \notin Terminal
    /\ Spend("cancel")
    /\ job' = [job EXCEPT ![j] = "cancelled"]
    /\ cancel' = [cancel EXCEPT ![j] = "stands"]
    /\ UNCHANGED <<row, att, guest, shared>>

RunJob(d) ==
    \/ Deliver(d) \/ Acquire(d) \/ StartJob(d)
    \/ Checkout(d) \/ CheckCancelled(d) \/ DecideStep(d) \/ Exec(d) \/ Poll(d)
    \/ PollFailed(d) \/ ExecFails(d) \/ StoreFails(d)
    \/ Release(d) \/ FinishJob(d) \/ AttemptFails(d)

Next ==
    \/ \E d \in Delivery : RunJob(d)
    \/ \E j \in Job : Cancel(j)
    \/ \E v \in Vm, o \in Op : OpEnds(v, o[1], o[2])
    \/ \E v \in Vm : Reclaim(v)
    \/ Crash

Spec == Init /\ [][Next]_vars

-----------------------------------------------------------------------------
(* Properties.                                                             *)

(* A job that reads success was earned in one guest: one delivery's        *)
(* checkout and every step of it ended well there, but for steps that are  *)
(* tolerated or kept for failures (run_steps, and run_claimed's verdict).  *)
(* The rows say so too, unless two dispatchers wrote them at once.  Jobs   *)
(* whose own continue-on-error forgives them are the exception.            *)
Passed(j, v) ==
    /\ op[v][<<j, 0>>] = "ok"
    /\ \A i \in 1..Steps[j] :
          \/ op[v][<<j, i>>] = "ok"
          \/ <<j, i>> \in Tolerated \/ Condition[<<j, i>>] = "failure"
Recorded(j) ==
    /\ row[<<j, 0>>] = "success"
    /\ \A i \in 1..Steps[j] :
          \/ row[<<j, i>>] \in {"success", "skipped"}
          \/ row[<<j, i>>] = "failure" /\ <<j, i>> \in Tolerated
SuccessMeansEveryStep ==
    \A j \in Job \ Forgiven : job[j] = "success" =>
        /\ \E v \in Vm : Passed(j, v)
        /\ j \notin shared => Recorded(j)

(* Cancelling stops everything but the step in hand: each delivery of the  *)
(* job starts at most one command after it, however many are at work       *)
(* (README, Cancelling: "What stops is everything after it").  That ends   *)
(* where the verdict of one of them is written over the cancelled row:     *)
(* is_job_cancelled reads nothing else.                                    *)
CancelStopsSteps ==
    \A d \in Delivery : late[d] <= 1 \/ cancel[d[1]] = "overruled"

(* On a VM its job has not been on before, a delivery never runs a command *)
(* in another job's tree, however warm the VM and however its previous     *)
(* users ended (checkout: "The working directory is wiped first").         *)
Starts(d) ==
    LET v == att[d].vm
        o == OpOf(d[1], att[d].step)
    IN  At(d, "post") /\ att[d].step > 0 /\ op[v][o] = "none" /\ op'[v][o] = "running"
FirstRunsOnOwnTree ==
    [][\A d \in Delivery : Starts(d) /\ ~att[d].again => tree[att[d].vm] = d[1]]_vars

-----------------------------------------------------------------------------
(* What the documents say of this code, and it does not do.                *)

(* dispatch.rs, checkout: the working directory is wiped first, because "a *)
(* build that succeeds only because a deleted file is still on disk is the *)
(* exact failure the pool must not introduce".  A later delivery of a job  *)
(* on a VM it has been on finds its checkout already done, and attaches to *)
(* that, though another job has had the VM in between.                     *)
RunsOnOwnTree ==
    [][\A d \in Delivery : Starts(d) => tree[att[d].vm] = d[1]]_vars

(* README, Cancelling: "What stops is everything after it."  With two      *)
(* deliveries at work, the one whose step in hand fails writes its verdict *)
(* over the cancelled row, and the other one runs all its steps.           *)
CancelStopsAll == \A d \in Delivery : late[d] <= 1
=============================================================================
