--------------------------- MODULE DispatchProofs ---------------------------
(***************************************************************************)
(* Proofs about Dispatch, for every plan, every number of processes,       *)
(* workers and lease loops, and every fault budget.                        *)
(***************************************************************************)
EXTENDS Dispatch, TLAPS

-----------------------------------------------------------------------------
(* The type invariant.  A finished attempt writes its outcome as the job's *)
(* status, so the types hold only together with the fact that it has one.  *)

FinishHasOutcome ==
    \A w \in Worker : exec[w].pc = "finish" => exec[w].outcome # "none"

TypeInv == TypeOK /\ FinishHasOutcome

(* The records a task starts from have the type of a task's state.         *)
LEMMA RecordTypes ==
    /\ IdleExec \in ExecRec
    /\ IdlePass \in PassRec
    /\ StartPass \in PassRec
    /\ IdleLoop \in LoopRec
<1>1. MaxDeliver \in Nat /\ Steps \in Nat
  BY DispatchAssumption
<1> QED BY <1>1 DEF IdleExec, ExecRec, ExecPc, NoJob, Outcome, IdlePass, StartPass, PassRec,
                    PassPc, RunStatus, RunTerminal, IdleLoop, LoopRec

(* roll_up_run computes a run status.                                      *)
LEMMA RollUpType == ASSUME NEW rows PROVE RollUp(rows) \in RunStatus
BY DEF RollUp, RunStatus, RunTerminal

LEMMA InitType == Init => TypeInv
<1>1. MaxDeliver \in Nat
  BY DispatchAssumption
<1>2. Init => TypeOK
  BY <1>1, RecordTypes DEF Init, TypeOK, JobStatus, RunStatus, MsgRec, MsgState
<1>3. Init => FinishHasOutcome
  BY DEF Init, FinishHasOutcome, IdleExec
<1> QED BY <1>2, <1>3 DEF TypeInv

(* A budgeted fault keeps the counters natural numbers.                    *)
LEMMA SpendType ==
    ASSUME NEW f \in Fault, faults \in [Fault -> Nat], Spend(f)
    PROVE  faults' \in [Fault -> Nat]
BY DEF Spend

(* A new status for one job, in its several forms.                         *)
LEMMA SetStatusType ==
    ASSUME status \in [Job -> JobStatus], NEW j, NEW s \in JobStatus, set_job_status(j, s)
    PROVE  status' \in [Job -> JobStatus]
BY DEF set_job_status

(* Landing a message changes at most its state.                            *)
LEMMA LandedType ==
    ASSUME msg \in [Job -> MsgRec], NEW j PROVE Landed(j) \in [Job -> MsgRec]
BY DEF Landed, MsgRec, MsgState

(* Every step of advance_run keeps the types.                              *)
LEMMA AdvanceRunType ==
    ASSUME TypeOK, NEW a \in Actor, AdvanceRun(a) PROVE TypeOK'
<1>p. pass \in [Actor -> PassRec]
  BY DEF TypeOK
<1>s. status \in [Job -> JobStatus]
  BY DEF TypeOK
<1>m. msg \in [Job -> MsgRec]
  BY DEF TypeOK
<1>f. faults \in [Fault -> Nat] /\ {"store", "publish"} \subseteq Fault
  BY DEF TypeOK, Fault
<1>j. {"failure", "skipped", "queued", "pending"} \subseteq JobStatus
  BY DEF JobStatus, JobTerminal
<1>1. CASE ReadJobs(a)
  <2>1. pass' \in [Actor -> PassRec]
    BY <1>1, <1>p DEF ReadJobs, PassRec, PassPc
  <2> QED BY <1>1, <2>1 DEF TypeOK, ReadJobs
<1>2. CASE ReadNeeds(a)
  <2>0. PICK S \in SUBSET Job, F \in SUBSET Job :
          pass' = [pass EXCEPT ![a].pc = "decide", ![a].skip = S, ![a].fail = F]
    <3> DEFINE said(v) == {j \in pass[a].todo \ BadPlan : ShouldRun(status, j) = v}
    <3>1. pass[a].todo \in SUBSET Job
      BY <1>p DEF PassRec
    <3>2. /\ said("skip") \in SUBSET Job
          /\ said("fail") \cup (pass[a].todo \cap BadPlan) \in SUBSET Job
      BY <3>1
    <3>3. pass' = [pass EXCEPT ![a].pc = "decide", ![a].skip = said("skip"),
                               ![a].fail = said("fail") \cup (pass[a].todo \cap BadPlan)]
      BY <1>2 DEF ReadNeeds
    <3> HIDE DEF said
    <3> QED BY <3>2, <3>3
  <2>1. pass' \in [Actor -> PassRec]
    <3>1. [pass[a] EXCEPT !.pc = "decide", !.skip = S, !.fail = F] \in PassRec
      BY <1>p DEF PassRec, PassPc
    <3> QED BY <2>0, <3>1, <1>p
  <2> QED BY <1>2, <2>1 DEF TypeOK, ReadNeeds
<1>3. CASE DecideFail(a)
  <2>1. pass' \in [Actor -> PassRec]
    BY <1>3, <1>p DEF DecideFail, Decided, PassRec
  <2>2. status' \in [Job -> JobStatus]
    BY <1>3, <1>s, <1>j, SetStatusType DEF DecideFail
  <2> QED BY <1>3, <2>1, <2>2 DEF TypeOK, DecideFail
<1>4. CASE DecideSkip(a)
  <2>1. pass' \in [Actor -> PassRec]
    BY <1>4, <1>p DEF DecideSkip, Decided, PassRec
  <2>2. status' \in [Job -> JobStatus]
    BY <1>4, <1>s, <1>j, SetStatusType DEF DecideSkip
  <2> QED BY <1>4, <2>1, <2>2 DEF TypeOK, DecideSkip
<1>5. CASE DecideQueue(a)
  <2>1. pass' \in [Actor -> PassRec]
    BY <1>5, <1>p DEF DecideQueue, Decided, PassRec, PassPc
  <2>2. status' \in [Job -> JobStatus]
    BY <1>5, <1>s, <1>j, SetStatusType DEF DecideQueue
  <2> QED BY <1>5, <2>1, <2>2 DEF TypeOK, DecideQueue
<1>6. CASE Publish(a)
  <2>1. pass' \in [Actor -> PassRec]
    BY <1>6, <1>p DEF Publish, PassRec, PassPc, NoJob
  <2>2. msg' \in [Job -> MsgRec]
    BY <1>6, <1>m, LandedType DEF Publish
  <2> QED BY <1>6, <2>1, <2>2 DEF TypeOK, Publish
<1>7. CASE PublishFails(a)
  <2>1. pass' \in [Actor -> PassRec]
    BY <1>7, <1>p DEF PublishFails, PassRec, PassPc
  <2>2. msg' \in [Job -> MsgRec]
    BY <1>7, <1>m, LandedType DEF PublishFails
  <2>3. faults' \in [Fault -> Nat]
    BY <1>7, <1>f, SpendType DEF PublishFails
  <2> QED BY <1>7, <2>1, <2>2, <2>3 DEF TypeOK, PublishFails
<1>8. CASE Unqueue(a)
  <2>1. pass' \in [Actor -> PassRec]
    BY <1>8, <1>p DEF Unqueue, PassRec, PassPc, NoJob
  <2>2. status' \in [Job -> JobStatus]
    BY <1>8, <1>s, <1>j DEF Unqueue
  <2>3. faults' \in [Fault -> Nat]
    BY <1>8, <1>f, SpendType DEF Unqueue
  <2> QED BY <1>8, <2>1, <2>2, <2>3 DEF TypeOK, Unqueue
<1>9. CASE RollUpRead(a)
  <2>1. pass' \in [Actor -> PassRec]
    BY <1>9, <1>p, RollUpType DEF RollUpRead, PassRec, PassPc
  <2> QED BY <1>9, <2>1 DEF TypeOK, RollUpRead
<1>10. CASE RollUpWrite(a)
  <2>1. pass' \in [Actor -> PassRec]
    BY <1>10, <1>p, RecordTypes DEF RollUpWrite
  <2>2. runStatus' \in RunStatus
    BY <1>10, <1>p DEF RollUpWrite, set_run_status, PassRec
  <2> QED BY <1>10, <2>1, <2>2 DEF TypeOK, RollUpWrite
<1>11. CASE PassFails(a)
  <2>1. pass' \in [Actor -> PassRec]
    BY <1>11, <1>p, RecordTypes DEF PassFails
  <2>3. faults' \in [Fault -> Nat]
    BY <1>11, <1>f, SpendType DEF PassFails
  <2> QED BY <1>11, <2>1, <2>3 DEF TypeOK, PassFails
<1> QED BY <1>1, <1>2, <1>3, <1>4, <1>5, <1>6, <1>7, <1>8, <1>9, <1>10, <1>11 DEF AdvanceRun

(* Every step of a delivery, and of the queue, keeps the types.            *)
LEMMA ConsumeType ==
    ASSUME TypeInv, NEW w \in Worker, Consume(w) \/ AttemptFails(w) PROVE TypeInv'
<1>e. exec \in [Worker -> ExecRec]
  BY DEF TypeInv, TypeOK
<1>s. status \in [Job -> JobStatus]
  BY DEF TypeInv, TypeOK
<1>r. runner \in [Job -> Runner \cup {NoRunner}] /\ RouteOf[w] \in Runner
  BY DispatchAssumption DEF TypeInv, TypeOK
<1>m. msg \in [Job -> MsgRec]
  BY DEF TypeInv, TypeOK
<1>b. buffer \in [Worker -> Seq(Delivery)]
  BY DEF TypeInv, TypeOK
<1>p. pass \in [Actor -> PassRec] /\ w \in Actor
  BY DEF TypeInv, TypeOK, Actor
<1>f. faults \in [Fault -> Nat] /\ {"store", "ack", "attempt"} \subseteq Fault
  BY DEF TypeInv, TypeOK, Fault
<1>j. {"running", "failure"} \subseteq JobStatus
  BY DEF JobStatus, JobTerminal
<1>n. MaxDeliver \in Nat /\ Steps \in Nat
  BY DispatchAssumption
<1>o. FinishHasOutcome
  BY DEF TypeInv
<1>1. CASE Take(w)
  <2>1. Head(buffer[w]) \in Delivery /\ Tail(buffer[w]) \in Seq(Delivery)
    BY <1>1, <1>b DEF Take
  <2>2. [IdleExec EXCEPT !.pc = "read", !.job = Head(buffer[w]).job,
                         !.attempt = Head(buffer[w]).attempt] \in ExecRec
    <3>1. Head(buffer[w]).job \in Job /\ Head(buffer[w]).attempt \in 0..MaxDeliver
      BY <2>1, <1>n DEF Delivery
    <3>2. ASSUME NEW j \in Job, NEW n \in 0..MaxDeliver
          PROVE  [IdleExec EXCEPT !.pc = "read", !.job = j, !.attempt = n] \in ExecRec
      BY RecordTypes DEF ExecRec, ExecPc
    <3> QED BY <3>1, <3>2
  <2>3. exec' \in [Worker -> ExecRec]
    BY <1>1, <1>e, <2>2 DEF Take
  <2>4. buffer' \in [Worker -> Seq(Delivery)]
    BY <1>1, <1>b, <2>1 DEF Take
  <2>5. FinishHasOutcome'
    BY <1>1, <1>e, <1>o DEF Take, FinishHasOutcome, IdleExec
  <2> QED BY <1>1, <2>3, <2>4, <2>5 DEF TypeInv, TypeOK, Take
<1>2. CASE ReadJob(w)
  <2>1. exec' \in [Worker -> ExecRec]
    BY <1>2, <1>e DEF ReadJob, Goto, ExecRec, ExecPc
  <2>2. FinishHasOutcome'
    BY <1>2, <1>e, <1>o DEF ReadJob, Goto, FinishHasOutcome, ExecRec
  <2> QED BY <1>2, <2>1, <2>2 DEF TypeInv, TypeOK, ReadJob
<1>3. CASE ClaimJob(w)
  <2>1. exec' \in [Worker -> ExecRec]
    BY <1>3, <1>e DEF ClaimJob, Goto, ExecRec, ExecPc
  <2>2. FinishHasOutcome'
    BY <1>3, <1>e, <1>o DEF ClaimJob, Goto, FinishHasOutcome, ExecRec
  <2>3. status' \in [Job -> JobStatus]
    BY <1>3, <1>s, <1>j, SetStatusType DEF ClaimJob
  <2>4. runner' \in [Job -> Runner \cup {NoRunner}]
    BY <1>3, <1>r DEF ClaimJob
  <2> QED BY <1>3, <2>1, <2>2, <2>3, <2>4 DEF TypeInv, TypeOK, ClaimJob
<1>4. CASE AcquireVm(w)
  <2>1. exec' \in [Worker -> ExecRec]
    BY <1>4, <1>e DEF AcquireVm, Goto, ExecRec, ExecPc
  <2>2. FinishHasOutcome'
    BY <1>4, <1>e, <1>o DEF AcquireVm, Goto, FinishHasOutcome, ExecRec
  <2> QED BY <1>4, <2>1, <2>2 DEF TypeInv, TypeOK, AcquireVm
<1>5. CASE StartJob(w)
  <2>1. exec' \in [Worker -> ExecRec]
    BY <1>5, <1>e DEF StartJob, Goto, ExecRec, ExecPc
  <2>2. FinishHasOutcome'
    BY <1>5, <1>e, <1>o DEF StartJob, Goto, FinishHasOutcome, ExecRec
  <2>3. status' \in [Job -> JobStatus]
    BY <1>5, <1>s, <1>j, SetStatusType DEF StartJob
  <2>4. runner' \in [Job -> Runner \cup {NoRunner}]
    BY <1>5, <1>r DEF StartJob
  <2> QED BY <1>5, <2>1, <2>2, <2>3, <2>4 DEF TypeInv, TypeOK, StartJob
<1>6. CASE Checkout(w)
  <2>1. exec' \in [Worker -> ExecRec]
    BY <1>6, <1>e DEF Checkout, Goto, Ends, ExecRec, ExecPc, Outcome
  <2>2. FinishHasOutcome'
    BY <1>6, <1>e, <1>o DEF Checkout, Goto, Ends, FinishHasOutcome, ExecRec
  <2> QED BY <1>6, <2>1, <2>2 DEF TypeInv, TypeOK, Checkout
<1>7. CASE CheckCancelled(w)
  <2>1. exec' \in [Worker -> ExecRec]
    BY <1>7, <1>e DEF CheckCancelled, Goto, Ends, ExecRec, ExecPc, Outcome
  <2>2. FinishHasOutcome'
    BY <1>7, <1>e, <1>o DEF CheckCancelled, Goto, Ends, FinishHasOutcome, ExecRec
  <2> QED BY <1>7, <2>1, <2>2 DEF TypeInv, TypeOK, CheckCancelled
<1>8. CASE RunStep(w)
  <2>1. exec' \in [Worker -> ExecRec]
    <3>1. ASSUME exec[w].step + 1 < Steps,
                 exec' = [exec EXCEPT ![w].pc = "check", ![w].step = @ + 1]
          PROVE  exec' \in [Worker -> ExecRec]
      BY <3>1, <1>e, <1>n DEF ExecRec, ExecPc
    <3>2. ASSUME NEW o \in Outcome, Ends(w, o) PROVE exec' \in [Worker -> ExecRec]
      BY <3>2, <1>e DEF Ends, ExecRec, ExecPc
    <3> QED BY <1>8, <3>1, <3>2 DEF RunStep, Outcome
  <2>2. FinishHasOutcome'
    BY <1>8, <1>e, <1>o DEF RunStep, Ends, FinishHasOutcome, ExecRec
  <2> QED BY <1>8, <2>1, <2>2 DEF TypeInv, TypeOK, RunStep
<1>9. CASE FinishJob(w)
  <2>1. exec' \in [Worker -> ExecRec]
    BY <1>9, <1>e DEF FinishJob, Goto, ExecRec, ExecPc
  <2>2. FinishHasOutcome'
    BY <1>9, <1>e, <1>o DEF FinishJob, Goto, FinishHasOutcome, ExecRec
  <2>3. exec[w].outcome \in {"success", "failure", "cancelled"}
    BY <1>9, <1>e, <1>o DEF FinishJob, At, FinishHasOutcome, ExecRec, Outcome
  <2>4. FinalStatus(w) \in JobStatus
    BY <2>3 DEF FinalStatus, JobStatus, JobTerminal
  <2>5. status' \in [Job -> JobStatus]
    BY <1>9, <1>s, <2>4, SetStatusType DEF FinishJob
  <2> QED BY <1>9, <2>1, <2>2, <2>5 DEF TypeInv, TypeOK, FinishJob
<1>10. CASE Nak(w)
  <2>1. exec' \in [Worker -> ExecRec] /\ pass' \in [Actor -> PassRec]
    BY <1>10, <1>e, <1>p, RecordTypes DEF Nak, ThenAdvance
  <2>2. FinishHasOutcome'
    BY <1>10, <1>e, <1>o DEF Nak, ThenAdvance, FinishHasOutcome, IdleExec
  <2>3. msg' \in [Job -> MsgRec]
    BY <1>10, <1>m DEF Nak, Redeliverable, MsgRec, MsgState
  <2> QED BY <1>10, <2>1, <2>2, <2>3 DEF TypeInv, TypeOK, Nak
<1>11. CASE GiveUp(w)
  <2>1. exec' \in [Worker -> ExecRec]
    BY <1>11, <1>e DEF GiveUp, Goto, ExecRec, ExecPc
  <2>2. FinishHasOutcome'
    BY <1>11, <1>e, <1>o DEF GiveUp, Goto, FinishHasOutcome, ExecRec
  <2>3. status' \in [Job -> JobStatus]
    BY <1>11, <1>s, <1>j, SetStatusType DEF GiveUp
  <2>4. faults' \in [Fault -> Nat]
    BY <1>11, <1>f, SpendType DEF GiveUp
  <2> QED BY <1>11, <2>1, <2>2, <2>3, <2>4 DEF TypeInv, TypeOK, GiveUp
<1>12. CASE Ack(w)
  <2>1. exec' \in [Worker -> ExecRec] /\ pass' \in [Actor -> PassRec]
    BY <1>12, <1>e, <1>p, RecordTypes DEF Ack, ThenAdvance
  <2>2. FinishHasOutcome'
    BY <1>12, <1>e, <1>o DEF Ack, ThenAdvance, FinishHasOutcome, IdleExec
  <2>3. msg' \in [Job -> MsgRec]
    BY <1>12, <1>m DEF Ack, MsgRec, MsgState
  <2>4. faults' \in [Fault -> Nat]
    BY <1>12, <1>f, SpendType DEF Ack
  <2> QED BY <1>12, <2>1, <2>2, <2>3, <2>4 DEF TypeInv, TypeOK, Ack
<1>13. CASE AttemptFails(w)
  <2>1. exec' \in [Worker -> ExecRec]
    BY <1>13, <1>e DEF AttemptFails, Goto, ExecRec, ExecPc
  <2>2. FinishHasOutcome'
    BY <1>13, <1>e, <1>o DEF AttemptFails, Goto, FinishHasOutcome, ExecRec
  <2>3. faults' \in [Fault -> Nat]
    BY <1>13, <1>f, SpendType DEF AttemptFails
  <2> QED BY <1>13, <2>1, <2>2, <2>3 DEF TypeInv, TypeOK, AttemptFails
<1> QED BY <1>1, <1>2, <1>3, <1>4, <1>5, <1>6, <1>7, <1>8, <1>9, <1>10, <1>11, <1>12, <1>13
        DEF Consume

(* What remains: the queue, the lease loops, cancelling and crashes.       *)
LEMMA OtherType ==
    ASSUME TypeInv,
           \/ \E w \in Worker, j \in Job : Fetch(w, j)
           \/ \E j \in Job : AckWaitLapses(j)
           \/ \E l \in Loop : LeaseLoop(l)
           \/ CancelRun \/ CancelJobs
           \/ \E p \in Process : Crash(p)
    PROVE  TypeInv'
<1>e. exec \in [Worker -> ExecRec]
  BY DEF TypeInv, TypeOK
<1>s. status \in [Job -> JobStatus]
  BY DEF TypeInv, TypeOK
<1>r. runner \in [Job -> Runner \cup {NoRunner}]
  BY DEF TypeInv, TypeOK
<1>m. msg \in [Job -> MsgRec]
  BY DEF TypeInv, TypeOK
<1>b. buffer \in [Worker -> Seq(Delivery)]
  BY DEF TypeInv, TypeOK
<1>p. pass \in [Actor -> PassRec]
  BY DEF TypeInv, TypeOK
<1>l. loop \in [Loop -> LoopRec]
  BY DEF TypeInv, TypeOK
<1>f. faults \in [Fault -> Nat] /\ {"store", "crash", "cancel"} \subseteq Fault
  BY DEF TypeInv, TypeOK, Fault
<1>n. MaxDeliver \in Nat
  BY DispatchAssumption
<1>o. FinishHasOutcome
  BY DEF TypeInv
<1>1. ASSUME NEW w \in Worker, NEW j \in Job, Fetch(w, j) PROVE TypeInv'
  <2>1. msg[j].delivered \in 0..MaxDeliver /\ msg[j].delivered < MaxDeliver
    BY <1>1, <1>m DEF Fetch, MsgRec
  <2>2. msg[j].delivered + 1 \in 0..MaxDeliver /\ msg[j].delivered + 1 \in 1..MaxDeliver
    BY <2>1, <1>n
  <2>3. msg' \in [Job -> MsgRec]
    BY <1>1, <1>m, <2>2 DEF Fetch, MsgRec, MsgState
  <2>4. [job |-> j, attempt |-> msg[j].delivered + 1] \in Delivery
    BY <2>2 DEF Delivery
  <2>5. buffer' \in [Worker -> Seq(Delivery)]
    BY <1>1, <1>b, <2>4 DEF Fetch
  <2> QED BY <1>1, <1>o, <2>3, <2>5 DEF TypeInv, TypeOK, Fetch, FinishHasOutcome
<1>2. ASSUME NEW j \in Job, AckWaitLapses(j) PROVE TypeInv'
  <2>1. msg' \in [Job -> MsgRec]
    BY <1>2, <1>m DEF AckWaitLapses, Redeliverable, MsgRec, MsgState
  <2> QED BY <1>2, <1>o, <2>1 DEF TypeInv, TypeOK, AckWaitLapses, FinishHasOutcome
<1>3. ASSUME NEW l \in Loop, ReapScan(l) PROVE TypeInv'
  <2>1. WaitingRows \in SUBSET WaitingRow
    BY <1>r DEF WaitingRows, WaitingRow
  <2>2. loop' \in [Loop -> LoopRec]
    BY <1>3, <1>l, <2>1 DEF ReapScan, LoopRec
  <2> QED BY <1>3, <1>o, <2>2 DEF TypeInv, TypeOK, ReapScan, FinishHasOutcome
<1>4. ASSUME NEW l \in Loop, ReapOne(l) PROVE TypeInv'
  <2>1. loop' \in [Loop -> LoopRec]
    BY <1>4, <1>l DEF ReapOne, LoopRec
  <2>2. pass' \in [Actor -> PassRec]
    BY <1>4, <1>p, RecordTypes DEF ReapOne, Actor
  <2>3. status' \in [Job -> JobStatus]
    BY <1>4, <1>s, SetStatusType DEF ReapOne, JobStatus, JobTerminal
  <2>4. faults' \in [Fault -> Nat]
    BY <1>4, <1>f, SpendType DEF ReapOne
  <2> QED BY <1>4, <1>o, <2>1, <2>2, <2>3, <2>4 DEF TypeInv, TypeOK, ReapOne, FinishHasOutcome
<1>5. ASSUME NEW l \in Loop, Nudge(l) PROVE TypeInv'
  <2>1. loop' \in [Loop -> LoopRec]
    BY <1>5, <1>l, RecordTypes DEF Nudge
  <2>2. pass' \in [Actor -> PassRec]
    BY <1>5, <1>p, RecordTypes DEF Nudge, Actor
  <2> QED BY <1>5, <1>o, <2>1, <2>2 DEF TypeInv, TypeOK, Nudge, FinishHasOutcome
<1>6. ASSUME CancelRun PROVE TypeInv'
  <2>1. faults' \in [Fault -> Nat]
    BY <1>6, <1>f, SpendType DEF CancelRun
  <2> QED BY <1>6, <1>o, <2>1 DEF TypeInv, TypeOK, CancelRun, set_run_status, RunStatus,
                                  RunTerminal, FinishHasOutcome
<1>7. ASSUME CancelJobs PROVE TypeInv'
  <2>1. status' \in [Job -> JobStatus]
    BY <1>7, <1>s DEF CancelJobs, JobStatus, JobTerminal
  <2> QED BY <1>7, <1>o, <2>1 DEF TypeInv, TypeOK, CancelJobs, FinishHasOutcome
<1>8. ASSUME NEW p \in Process, Crash(p) PROVE TypeInv'
  <2>1. buffer' \in [Worker -> Seq(Delivery)]
    BY <1>8, <1>b DEF Crash
  <2>2. exec' \in [Worker -> ExecRec]
    BY <1>8, <1>e, RecordTypes DEF Crash
  <2>3. pass' \in [Actor -> PassRec]
    BY <1>8, <1>p, RecordTypes DEF Crash
  <2>4. loop' \in [Loop -> LoopRec]
    BY <1>8, <1>l, RecordTypes DEF Crash
  <2>5. faults' \in [Fault -> Nat]
    BY <1>8, <1>f, SpendType DEF Crash
  <2>6. FinishHasOutcome'
    BY <1>8, <1>e, <1>o DEF Crash, FinishHasOutcome, IdleExec
  <2> QED BY <1>8, <2>1, <2>2, <2>3, <2>4, <2>5, <2>6 DEF TypeInv, TypeOK, Crash
<1> QED BY <1>1, <1>2, <1>3, <1>4, <1>5, <1>6, <1>7, <1>8 DEF LeaseLoop

LEMMA NextType == TypeInv /\ [Next]_vars => TypeInv'
<1> SUFFICES ASSUME TypeInv, [Next]_vars PROVE TypeInv'
  OBVIOUS
<1>1. ASSUME NEW a \in Actor, AdvanceRun(a) PROVE TypeInv'
  <2>1. exec' = exec
    BY <1>1 DEF AdvanceRun, ReadJobs, ReadNeeds, DecideFail, DecideSkip, DecideQueue, Publish,
                PublishFails, Unqueue, RollUpRead, RollUpWrite, PassFails
  <2> QED BY <1>1, <2>1, AdvanceRunType DEF TypeInv, FinishHasOutcome
<1>2. CASE UNCHANGED vars
  BY <1>2 DEF vars, TypeInv, TypeOK, FinishHasOutcome
<1> QED BY <1>1, <1>2, ConsumeType, OtherType DEF Next

(* Every variable keeps its type: in particular no delivery is counted     *)
(* beyond MaxDeliver, and no attempt ends without an outcome to record.    *)
THEOREM TypeCorrect == Spec => []TypeOK
<1>1. TypeInv => TypeOK
  BY DEF TypeInv
<1> QED BY <1>1, InitType, NextType, PTL DEF Spec

-----------------------------------------------------------------------------
(* Terminal statuses.                                                      *)

(* The statements that change a job's status, by what they change it from  *)
(* and to.                                                                 *)
StatusMove(j) ==
    \/ status'[j] = status[j]
    \/ status'[j] \in JobTerminal
    \/ status[j] = "pending" /\ status'[j] = "queued"
    \/ status[j] = "queued" /\ status'[j] = "pending"
    \/ /\ status[j] \notin JobTerminal /\ status'[j] = "running"
       /\ status' = [status EXCEPT ![j] = "running"]
       /\ \E w \in Worker : exec[w].job = j

LEMMA AdvanceRunMoves ==
    ASSUME TypeOK, NEW a \in Actor, AdvanceRun(a), NEW j \in Job PROVE StatusMove(j)
<1>s. status \in [Job -> JobStatus]
  BY DEF TypeOK
<1>1. CASE DecideFail(a)
  BY <1>1, <1>s DEF DecideFail, set_job_status, StatusMove, JobTerminal
<1>2. CASE DecideSkip(a)
  BY <1>2, <1>s DEF DecideSkip, set_job_status, StatusMove, JobTerminal
<1>3. CASE DecideQueue(a)
  BY <1>3, <1>s DEF DecideQueue, queue_job_applies, set_job_status, StatusMove
<1>4. CASE Unqueue(a)
  BY <1>4, <1>s DEF Unqueue, unqueue_job_applies, StatusMove
<1>5. CASE \/ ReadJobs(a) \/ ReadNeeds(a) \/ Publish(a) \/ PublishFails(a)
           \/ RollUpRead(a) \/ RollUpWrite(a) \/ PassFails(a)
  BY <1>5 DEF ReadJobs, ReadNeeds, Publish, PublishFails, RollUpRead, RollUpWrite, PassFails,
              StatusMove
<1> QED BY <1>1, <1>2, <1>3, <1>4, <1>5 DEF AdvanceRun

LEMMA ConsumeMoves ==
    ASSUME TypeInv, NEW w \in Worker, Consume(w) \/ AttemptFails(w), NEW j \in Job
    PROVE  StatusMove(j)
<1>s. status \in [Job -> JobStatus]
  BY DEF TypeInv, TypeOK
<1>e. exec \in [Worker -> ExecRec]
  BY DEF TypeInv, TypeOK
<1>1. CASE ClaimJob(w)
  BY <1>1, <1>s DEF ClaimJob, Runnable, set_job_status, StatusMove
<1>2. CASE StartJob(w)
  BY <1>2, <1>s DEF StartJob, Runnable, set_job_status, StatusMove
<1>3. CASE FinishJob(w)
  <2>1. exec[w].outcome \in {"success", "failure", "cancelled"}
    BY <1>3, <1>e DEF TypeInv, FinishJob, At, FinishHasOutcome, ExecRec, Outcome
  <2>2. FinalStatus(w) \in JobTerminal
    BY <2>1 DEF FinalStatus, JobTerminal
  <2> QED BY <1>3, <1>s, <2>2 DEF FinishJob, set_job_status, StatusMove
<1>4. CASE GiveUp(w)
  BY <1>4, <1>s DEF GiveUp, set_job_status, StatusMove, JobTerminal
<1>5. CASE \/ Take(w) \/ ReadJob(w) \/ AcquireVm(w) \/ Checkout(w) \/ CheckCancelled(w)
           \/ RunStep(w) \/ Nak(w) \/ Ack(w) \/ AttemptFails(w)
  BY <1>5 DEF Take, ReadJob, AcquireVm, Checkout, CheckCancelled, RunStep, Nak, Ack,
              AttemptFails, StatusMove
<1> QED BY <1>1, <1>2, <1>3, <1>4, <1>5 DEF Consume

(* Every step of every task moves every job's status along these lines.    *)
LEMMA StatusMoves ==
    ASSUME TypeInv, [Next]_vars, NEW j \in Job PROVE StatusMove(j)
<1>s. status \in [Job -> JobStatus]
  BY DEF TypeInv, TypeOK
<1>1. ASSUME NEW a \in Actor, AdvanceRun(a) PROVE StatusMove(j)
  BY <1>1, AdvanceRunMoves DEF TypeInv
<1>2. ASSUME NEW w \in Worker, Consume(w) \/ AttemptFails(w) PROVE StatusMove(j)
  BY <1>2, ConsumeMoves
<1>3. ASSUME NEW l \in Loop, LeaseLoop(l) PROVE StatusMove(j)
  <2>1. CASE ReapOne(l)
    BY <2>1, <1>s DEF ReapOne, set_job_status, StatusMove, JobTerminal
  <2>2. CASE ReapScan(l) \/ Nudge(l)
    BY <2>2 DEF ReapScan, Nudge, StatusMove
  <2> QED BY <1>3, <2>1, <2>2 DEF LeaseLoop
<1>4. CASE CancelJobs
  BY <1>4, <1>s DEF CancelJobs, StatusMove, JobTerminal
<1>5. CASE CancelRun
  BY <1>5 DEF CancelRun, StatusMove
<1>6. ASSUME NEW p \in Process, Crash(p) PROVE StatusMove(j)
  BY <1>6 DEF Crash, StatusMove
<1>7. ASSUME NEW w \in Worker, NEW k \in Job, Fetch(w, k) PROVE StatusMove(j)
  BY <1>7 DEF Fetch, StatusMove
<1>8. ASSUME NEW k \in Job, AckWaitLapses(k) PROVE StatusMove(j)
  BY <1>8 DEF AckWaitLapses, StatusMove
<1>9. CASE UNCHANGED vars
  BY <1>9 DEF vars, StatusMove
<1> QED BY <1>1, <1>2, <1>3, <1>4, <1>5, <1>6, <1>7, <1>8, <1>9 DEF Next

LEMMA TerminalKept ==
    ASSUME TypeInv, [Next]_vars, NEW j \in Job, status[j] \in JobTerminal
    PROVE  status'[j] \in JobTerminal
BY StatusMoves DEF StatusMove, JobTerminal

(* A terminal job never becomes pending, queued or running again, in any   *)
(* interleaving of passes, redeliveries, rollbacks, reapers and crashes.   *)
THEOREM TerminalForEver == Spec => TerminalStays
<1>1. TypeInv /\ [Next]_vars
        => [\A j \in Job : status[j] \in JobTerminal => status'[j] \in JobTerminal]_vars
  BY TerminalKept
<1> QED BY <1>1, InitType, NextType, PTL DEF Spec, TerminalStays

-----------------------------------------------------------------------------
(* Queued means unclaimed.                                                 *)

LEMMA NextUnclaimed ==
    ASSUME TypeInv, QueuedMeansUnclaimed, [Next]_vars PROVE QueuedMeansUnclaimed'
<1>e. exec \in [Worker -> ExecRec]
  BY DEF TypeInv, TypeOK
<1>r. runner \in [Job -> Runner \cup {NoRunner}]
  BY DEF TypeInv, TypeOK
<1>s. ASSUME NEW j \in Job, status'[j] \in {"pending", "queued"}
      PROVE  status[j] \in {"pending", "queued"}
  BY <1>s, StatusMoves DEF StatusMove, JobTerminal
(* Whatever leaves runners alone and commits no worker keeps the invariant. *)
<1>k. ASSUME runner' = runner,
             \A w \in Worker : exec'[w].pc \in Committed =>
                 exec[w].pc \in Committed /\ exec'[w].job = exec[w].job
      PROVE  QueuedMeansUnclaimed'
  BY <1>k, <1>s DEF QueuedMeansUnclaimed, Committed
<1>1. ASSUME NEW w \in Worker, ClaimJob(w) PROVE QueuedMeansUnclaimed'
  <2>1. CASE Runnable(exec[w].job)
    <3>1. status'[exec[w].job] = "running" \/ exec[w].job \notin Job
      BY <1>1, <2>1 DEF TypeInv, TypeOK, ClaimJob, set_job_status
    <3>2. \A j \in Job : j # exec[w].job => runner'[j] = runner[j]
      BY <1>1, <2>1, <1>r DEF ClaimJob
    <3>3. \A u \in Worker : exec'[u].job = exec[u].job /\ (u # w => exec'[u] = exec[u])
      BY <1>1, <2>1, <1>e DEF ClaimJob, Goto, ExecRec
    <3> QED BY <3>1, <3>2, <3>3, <1>s DEF QueuedMeansUnclaimed
  <2>2. CASE ~Runnable(exec[w].job)
    BY <1>1, <2>2, <1>e, <1>k DEF ClaimJob, Goto, ExecRec, Committed
  <2> QED BY <2>1, <2>2
<1>2. ASSUME NEW w \in Worker, StartJob(w) PROVE QueuedMeansUnclaimed'
  <2>1. CASE Runnable(exec[w].job)
    <3>1. status'[exec[w].job] = "running" \/ exec[w].job \notin Job
      BY <1>2, <2>1 DEF TypeInv, TypeOK, StartJob, set_job_status
    <3>2. \A j \in Job : j # exec[w].job => runner'[j] = runner[j]
      BY <1>2, <2>1, <1>r DEF StartJob
    <3>3. \A u \in Worker : exec'[u].job = exec[u].job /\ (u # w => exec'[u] = exec[u])
      BY <1>2, <2>1, <1>e DEF StartJob, Goto, ExecRec
    <3> QED BY <3>1, <3>2, <3>3, <1>s DEF QueuedMeansUnclaimed
  <2>2. CASE ~Runnable(exec[w].job)
    BY <1>2, <2>2, <1>e, <1>k DEF StartJob, Goto, ExecRec, Committed
  <2> QED BY <2>1, <2>2
<1>3. ASSUME NEW w \in Worker,
             Take(w) \/ ReadJob(w) \/ Nak(w) \/ Ack(w) \/ GiveUp(w) \/ FinishJob(w)
             \/ AttemptFails(w)
      PROVE  QueuedMeansUnclaimed'
  <2>1. runner' = runner
    BY <1>3 DEF Take, ReadJob, Nak, Ack, GiveUp, FinishJob, AttemptFails
  <2>2. CASE Take(w)
    BY <2>1, <2>2, <1>e, <1>k DEF Take, Committed, IdleExec
  <2>3. CASE \E pc \in {"claim", "ack", "err"} : Goto(w, pc)
    BY <2>1, <2>3, <1>e, <1>k DEF Goto, ExecRec, Committed
  <2>4. CASE ThenAdvance(w)
    BY <2>1, <2>4, <1>e, <1>k DEF ThenAdvance, Committed, IdleExec
  <2> QED BY <1>3, <2>2, <2>3, <2>4 DEF ReadJob, Nak, Ack, GiveUp, FinishJob, AttemptFails
<1>4. ASSUME NEW w \in Worker,
             AcquireVm(w) \/ Checkout(w) \/ CheckCancelled(w) \/ RunStep(w)
      PROVE  QueuedMeansUnclaimed'
  <2>1. exec[w].pc \in Committed /\ runner' = runner
    BY <1>4 DEF AcquireVm, Checkout, CheckCancelled, RunStep, At, Committed
  <2>2. CASE \E pc \in ExecPc : Goto(w, pc)
    BY <2>1, <2>2, <1>e, <1>k DEF Goto, ExecRec
  <2>3. CASE \E o \in Outcome : Ends(w, o)
    BY <2>1, <2>3, <1>e, <1>k DEF Ends, ExecRec
  <2>4. CASE exec' = [exec EXCEPT ![w].pc = "check", ![w].step = @ + 1]
    BY <2>1, <2>4, <1>e, <1>k DEF ExecRec
  <2> QED BY <1>4, <2>2, <2>3, <2>4 DEF AcquireVm, Checkout, CheckCancelled, RunStep, ExecPc,
                                        Outcome
<1>5. ASSUME NEW p \in Process, Crash(p) PROVE QueuedMeansUnclaimed'
  BY <1>5, <1>e, <1>k DEF Crash, Committed, IdleExec
<1>6. CASE runner' = runner /\ exec' = exec
  BY <1>6, <1>k
<1>7. ASSUME NEW a \in Actor, AdvanceRun(a) PROVE runner' = runner /\ exec' = exec
  BY <1>7 DEF AdvanceRun, ReadJobs, ReadNeeds, DecideFail, DecideSkip, DecideQueue, Publish,
              PublishFails, Unqueue, RollUpRead, RollUpWrite, PassFails
<1>8. ASSUME NEW l \in Loop, LeaseLoop(l) PROVE runner' = runner /\ exec' = exec
  BY <1>8 DEF LeaseLoop, ReapScan, ReapOne, Nudge
<1>9. ASSUME \/ \E w \in Worker, j \in Job : Fetch(w, j)
             \/ \E j \in Job : AckWaitLapses(j)
             \/ CancelRun \/ CancelJobs \/ UNCHANGED vars
      PROVE  runner' = runner /\ exec' = exec
  BY <1>9 DEF Fetch, AckWaitLapses, CancelRun, CancelJobs, vars
<1> QED BY <1>1, <1>2, <1>3, <1>4, <1>5, <1>6, <1>7, <1>8, <1>9 DEF Next, Consume

(* A row that says pending or queued names no runner and has no dispatcher *)
(* committed to it, however many deliveries of it are in flight.           *)
THEOREM UnclaimedWhileQueued == Spec => []QueuedMeansUnclaimed
<1>1. Init => QueuedMeansUnclaimed
  BY DEF Init, QueuedMeansUnclaimed, Committed, IdleExec
<1>2. (TypeInv /\ QueuedMeansUnclaimed) /\ [Next]_vars => QueuedMeansUnclaimed'
  BY NextUnclaimed
<1> QED BY <1>1, <1>2, InitType, NextType, PTL DEF Spec

-----------------------------------------------------------------------------
(* Needs first.  NeedsFirst speaks of the rows and the stream; to be       *)
(* inductive it has to follow a job through everything that can carry it   *)
(* there: a pass's snapshot, the job in its hand, a worker's buffer and    *)
(* the delivery it is processing.                                          *)

Ready(j) == j \notin BadPlan /\ NeedsTerminal(status, j)

TodoReady == \A a \in Actor : \A j \in pass[a].todo : j \in BadPlan \/ Ready(j)
BadPlanFails ==
    \A a \in Actor : pass[a].pc \in {"decide", "publish", "unqueue"} =>
        \A j \in pass[a].todo \cap BadPlan : j \in pass[a].fail /\ j \notin pass[a].skip
HandReady   == \A a \in Actor : pass[a].job \in Job => Ready(pass[a].job)
StatusReady == \A j \in Job : status[j] \in {"queued", "running", "success", "skipped"} => Ready(j)
MsgReady    == \A j \in Job : msg[j].state # "none" => Ready(j)
BufferReady == \A w \in Worker : \A i \in 1..Len(buffer[w]) : Ready(buffer[w][i].job)
ExecReady   == \A w \in Worker : exec[w].job \in Job => Ready(exec[w].job)

PassReady  == TodoReady /\ BadPlanFails /\ HandReady
QueueReady == MsgReady /\ BufferReady /\ ExecReady
SchedInv   == PassReady /\ StatusReady /\ QueueReady

(* Once a job is ready it stays ready, because terminal jobs stay so.      *)
LEMMA ReadyKept ==
    ASSUME TypeInv, [Next]_vars, NEW j \in Job, Ready(j) PROVE Ready(j)'
BY TerminalKept DEF Ready, NeedsTerminal, Cells

(* A pass that gives up, ends or starts over is carrying nothing.          *)
LEMMA EmptyPass ==
    /\ IdlePass.todo = {} /\ IdlePass.pc = "idle" /\ IdlePass.job \notin Job
    /\ StartPass.todo = {} /\ StartPass.pc = "jobs" /\ StartPass.job \notin Job
    /\ IdleExec.job \notin Job /\ NoJob \notin Job
BY PlanAssumption DEF IdlePass, StartPass, IdleExec, NoJob

(* Tasks other than the one that moved keep what they carry, and so does   *)
(* one whose pass is emptied.                                              *)
LEMMA PassReadyKept ==
    ASSUME TypeInv, PassReady, [Next]_vars,
           \A a \in Actor : pass'[a] \in {pass[a], IdlePass, StartPass}
    PROVE  PassReady'
<1>1. pass \in [Actor -> PassRec]
  BY DEF TypeInv, TypeOK
<1>2. \A a \in Actor : pass[a].todo \subseteq Job
  BY <1>1 DEF PassRec
<1>3. TodoReady'
  BY <1>2, EmptyPass, ReadyKept DEF PassReady, TodoReady
<1>4. BadPlanFails'
  BY EmptyPass DEF PassReady, BadPlanFails
<1>5. HandReady'
  BY EmptyPass, ReadyKept DEF PassReady, HandReady
<1> QED BY <1>3, <1>4, <1>5 DEF PassReady

LEMMA StatusReadyKept ==
    ASSUME TypeInv, StatusReady, [Next]_vars,
           \A j \in Job : \/ status'[j] = status[j]
                          \/ status'[j] \in {"pending", "failure", "cancelled"}
                          \/ Ready(j)
    PROVE  StatusReady'
BY ReadyKept DEF StatusReady

(* A prefetched delivery is of a job.                                      *)
LEMMA BufferEntry ==
    ASSUME TypeInv, NEW w \in Worker, NEW i \in 1..Len(buffer[w])
    PROVE  buffer[w][i].job \in Job
<1>1. buffer[w] \in Seq(Delivery)
  BY DEF TypeInv, TypeOK
<1>2. buffer[w][i] \in Delivery
  BY <1>1
<1> QED BY <1>2 DEF Delivery

LEMMA QueueReadyKept ==
    ASSUME TypeInv, QueueReady, [Next]_vars,
           \A j \in Job : msg'[j].state # "none" => msg[j].state # "none" \/ Ready(j),
           \A w \in Worker : buffer'[w] \in {buffer[w], <<>>},
           \A w \in Worker : exec'[w].job \in {exec[w].job, NoJob}
    PROVE  QueueReady'
<1>3. MsgReady'
  BY ReadyKept DEF QueueReady, MsgReady
<1>4. BufferReady'
  BY BufferEntry, ReadyKept DEF QueueReady, BufferReady
<1>5. ExecReady'
  BY EmptyPass, ReadyKept DEF QueueReady, ExecReady
<1> QED BY <1>3, <1>4, <1>5 DEF QueueReady

LEMMA AdvanceRunSched ==
    ASSUME TypeInv, SchedInv, [Next]_vars, NEW a \in Actor, AdvanceRun(a) PROVE SchedInv'
<1>p. pass \in [Actor -> PassRec]
  BY DEF TypeInv, TypeOK
<1>s. status \in [Job -> JobStatus]
  BY DEF TypeInv, TypeOK
<1>m. msg \in [Job -> MsgRec]
  BY DEF TypeInv, TypeOK
<1>i. PassReady /\ StatusReady /\ QueueReady
  BY DEF SchedInv
<1>t. \A b \in Actor : pass[b].todo \subseteq Job
  BY <1>p DEF PassRec
<1>q. ASSUME UNCHANGED <<msg, buffer, exec>> PROVE QueueReady'
  BY <1>q, <1>i, QueueReadyKept
<1>1. CASE ReadJobs(a)
  <2>1. \A b \in Actor : /\ pass'[b].job = pass[b].job
                         /\ b # a => pass'[b] = pass[b]
    BY <1>1, <1>p DEF ReadJobs, PassRec
  <2>2. /\ pass'[a].pc = "needs"
        /\ \A j \in pass'[a].todo : j \in Job /\ (j \in BadPlan \/ Ready(j))
    BY <1>1, <1>p DEF ReadJobs, PassRec, Ready
  <2>3. PassReady'
    BY <2>1, <2>2, <1>i, <1>t, ReadyKept DEF PassReady, TodoReady, BadPlanFails, HandReady
  <2> QED BY <1>1, <1>i, <1>q, <2>3, StatusReadyKept DEF ReadJobs, SchedInv
<1>2. CASE ReadNeeds(a)
  <2>1. \A b \in Actor : /\ pass'[b].job = pass[b].job
                         /\ pass'[b].todo = pass[b].todo
                         /\ b # a => pass'[b] = pass[b]
    BY <1>2, <1>p DEF ReadNeeds, PassRec
  <2>2. \A j \in pass[a].todo \cap BadPlan : j \in pass'[a].fail /\ j \notin pass'[a].skip
    BY <1>2, <1>p DEF ReadNeeds, PassRec
  <2>3. PassReady'
    BY <2>1, <2>2, <1>i, <1>t, ReadyKept DEF PassReady, TodoReady, BadPlanFails, HandReady
  <2> QED BY <1>2, <1>i, <1>q, <2>3, StatusReadyKept DEF ReadNeeds, SchedInv
(* Deciding a job takes it off the list and leaves the rest of the pass.   *)
<1>d. ASSUME NEW j \in Job, pass' = Decided(a, j) PROVE PassReady'
  <2>1. \A b \in Actor : /\ pass'[b].job = pass[b].job /\ pass'[b].pc = pass[b].pc
                         /\ pass'[b].fail = pass[b].fail /\ pass'[b].skip = pass[b].skip
                         /\ pass'[b].todo \subseteq pass[b].todo
    BY <1>d, <1>p DEF Decided, PassRec
  <2> QED BY <2>1, <1>i, <1>t, ReadyKept DEF PassReady, TodoReady, BadPlanFails, HandReady
<1>3. CASE DecideFail(a)
  BY <1>3, <1>i, <1>s, <1>q, <1>d, StatusReadyKept DEF DecideFail, set_job_status, SchedInv
<1>4. CASE DecideSkip(a)
  <2>1. PICK j \in Job : /\ NextTodo(a, j) /\ j \in pass[a].skip
                         /\ set_job_status(j, "skipped") /\ pass' = Decided(a, j)
    BY <1>4 DEF DecideSkip
  <2>2. Ready(j)
    BY <2>1, <1>i DEF NextTodo, InPass, PassReady, TodoReady, BadPlanFails
  <2>3. StatusReady'
    BY <2>1, <2>2, <1>i, <1>s, StatusReadyKept DEF set_job_status
  <2> QED BY <1>4, <1>q, <1>d, <2>1, <2>3 DEF DecideSkip, SchedInv
<1>5. CASE DecideQueue(a)
  <2>1. PICK j \in Job :
          /\ NextTodo(a, j) /\ j \notin pass[a].skip \cup pass[a].fail
          /\ \/ /\ set_job_status(j, "queued")
                /\ pass' = [Decided(a, j) EXCEPT ![a].pc = "publish", ![a].job = j]
             \/ pass' = Decided(a, j) /\ UNCHANGED status
    BY <1>5 DEF DecideQueue
  <2>2. Ready(j)
    BY <2>1, <1>i DEF NextTodo, InPass, PassReady, TodoReady, BadPlanFails
  <2>3. StatusReady'
    BY <2>1, <2>2, <1>i, <1>s, StatusReadyKept DEF set_job_status
  <2>4. ASSUME pass' = [Decided(a, j) EXCEPT ![a].pc = "publish", ![a].job = j]
        PROVE  PassReady'
    <3>1. \A b \in Actor : /\ pass'[b].fail = pass[b].fail /\ pass'[b].skip = pass[b].skip
                           /\ pass'[b].todo \subseteq pass[b].todo
                           /\ pass'[b].job = IF b = a THEN j ELSE pass[b].job
                           /\ pass'[b].pc = IF b = a THEN "publish" ELSE pass[b].pc
      BY <2>4, <1>p DEF Decided, PassRec
    <3>2. pass[a].pc = "decide"
      BY <2>1 DEF NextTodo, InPass
    <3>3. TodoReady'
      BY <3>1, <1>i, <1>t, ReadyKept DEF PassReady, TodoReady
    <3>4. BadPlanFails'
      BY <3>1, <3>2, <1>i DEF PassReady, BadPlanFails
    <3>5. HandReady'
      BY <3>1, <2>2, <1>i, ReadyKept DEF PassReady, HandReady
    <3> QED BY <3>3, <3>4, <3>5 DEF PassReady
  <2>5. PassReady'
    BY <1>d, <2>1, <2>4
  <2> QED BY <1>5, <1>q, <2>3, <2>5 DEF DecideQueue, SchedInv
(* The hand is emptied, and the pass goes on deciding.                     *)
<1>h. ASSUME pass[a].pc \in {"publish", "unqueue"},
             pass' = [pass EXCEPT ![a].pc = "decide", ![a].job = NoJob]
      PROVE  PassReady'
  <2>1. \A b \in Actor : /\ pass'[b].fail = pass[b].fail /\ pass'[b].skip = pass[b].skip
                         /\ pass'[b].todo = pass[b].todo
                         /\ pass'[b].job = IF b = a THEN NoJob ELSE pass[b].job
                         /\ pass'[b].pc = IF b = a THEN "decide" ELSE pass[b].pc
    BY <1>h, <1>p DEF PassRec
  <2>3. TodoReady'
    BY <2>1, <1>i, <1>t, ReadyKept DEF PassReady, TodoReady
  <2>4. BadPlanFails'
    BY <2>1, <1>h, <1>i DEF PassReady, BadPlanFails
  <2>5. HandReady'
    BY <2>1, <1>i, EmptyPass, ReadyKept DEF PassReady, HandReady
  <2> QED BY <2>3, <2>4, <2>5 DEF PassReady
(* Only the job in hand can land in the stream.                            *)
<1>l. ASSUME msg' \in {msg, Landed(pass[a].job)}, UNCHANGED <<buffer, exec>>
      PROVE  QueueReady'
  <2>1. \A j \in Job : msg'[j].state # "none" => msg[j].state # "none" \/ j = pass[a].job
    BY <1>l, <1>m DEF Landed, MsgRec
  <2>2. \A j \in Job : j = pass[a].job => Ready(j)
    BY <1>i DEF PassReady, HandReady
  <2> QED BY <1>l, <2>1, <2>2, <1>i, QueueReadyKept
<1>6. CASE Publish(a)
  BY <1>6, <1>i, <1>h, <1>l, StatusReadyKept DEF Publish, InPass, SchedInv
<1>7. CASE PublishFails(a)
  <2>1. \A b \in Actor : /\ pass'[b].fail = pass[b].fail /\ pass'[b].skip = pass[b].skip
                         /\ pass'[b].todo = pass[b].todo /\ pass'[b].job = pass[b].job
                         /\ pass'[b].pc = IF b = a THEN "unqueue" ELSE pass[b].pc
    BY <1>7, <1>p DEF PublishFails, PassRec
  <2>2. pass[a].pc = "publish"
    BY <1>7 DEF PublishFails, InPass
  <2>3. TodoReady'
    BY <2>1, <1>i, <1>t, ReadyKept DEF PassReady, TodoReady
  <2>4. BadPlanFails'
    BY <2>1, <2>2, <1>i DEF PassReady, BadPlanFails
  <2>5. HandReady'
    BY <2>1, <1>i, ReadyKept DEF PassReady, HandReady
  <2> QED BY <1>7, <1>i, <1>l, <2>3, <2>4, <2>5, StatusReadyKept
          DEF PublishFails, SchedInv, PassReady
<1>8. CASE Unqueue(a)
  <2>1. StatusReady'
    BY <1>8, <1>i, <1>s, StatusReadyKept DEF Unqueue
  <2> QED BY <1>8, <1>q, <1>h, <2>1 DEF Unqueue, InPass, SchedInv
<1>9. CASE RollUpRead(a)
  <2>1. \A b \in Actor : /\ pass'[b].job = pass[b].job /\ pass'[b].todo = pass[b].todo
                         /\ b # a => pass'[b] = pass[b]
    BY <1>9, <1>p DEF RollUpRead, PassRec
  <2>2. pass'[a].pc = "write"
    BY <1>9, <1>p DEF RollUpRead, PassRec
  <2>3. PassReady'
    BY <2>1, <2>2, <1>i, <1>t, ReadyKept DEF PassReady, TodoReady, BadPlanFails, HandReady
  <2> QED BY <1>9, <1>i, <1>q, <2>3, StatusReadyKept DEF RollUpRead, SchedInv
<1>10. CASE RollUpWrite(a) \/ PassFails(a)
  <2>1. PassReady'
    BY <1>10, <1>i, <1>p, PassReadyKept DEF RollUpWrite, PassFails
  <2> QED BY <1>10, <1>i, <1>q, <2>1, StatusReadyKept DEF RollUpWrite, PassFails, SchedInv
<1> QED BY <1>1, <1>2, <1>3, <1>4, <1>5, <1>6, <1>7, <1>8, <1>9, <1>10 DEF AdvanceRun

LEMMA ConsumeSched ==
    ASSUME TypeInv, SchedInv, [Next]_vars, NEW w \in Worker, Consume(w) \/ AttemptFails(w)
    PROVE  SchedInv'
<1>e. exec \in [Worker -> ExecRec]
  BY DEF TypeInv, TypeOK
<1>s. status \in [Job -> JobStatus]
  BY DEF TypeInv, TypeOK
<1>m. msg \in [Job -> MsgRec]
  BY DEF TypeInv, TypeOK
<1>p. pass \in [Actor -> PassRec] /\ w \in Actor
  BY DEF TypeInv, TypeOK, Actor
<1>b. buffer \in [Worker -> Seq(Delivery)]
  BY DEF TypeInv, TypeOK
<1>i. PassReady /\ StatusReady /\ QueueReady
  BY DEF SchedInv
<1>c. \A j \in Job : j = exec[w].job => Ready(j)
  BY <1>i DEF QueueReady, ExecReady
<1>x. ASSUME UNCHANGED pass PROVE PassReady'
  BY <1>x, <1>i, PassReadyKept
<1>y. ASSUME UNCHANGED <<msg, buffer>>, \A u \in Worker : exec'[u].job = exec[u].job
      PROVE  QueueReady'
  BY <1>y, <1>i, QueueReadyKept
<1>z. ASSUME NEW s, set_job_status(exec[w].job, s) \/ UNCHANGED status PROVE StatusReady'
  BY <1>z, <1>c, <1>i, <1>s, StatusReadyKept DEF set_job_status
<1>1. CASE Take(w)
  <2>1. buffer[w] \in Seq(Delivery) /\ buffer[w] # <<>>
    BY <1>1, <1>b DEF Take
  <2>2. Len(buffer[w]) \in Nat \ {0} /\ Head(buffer[w]) = buffer[w][1]
    BY <2>1
  <2>3. \A i \in 1..Len(buffer[w]) : buffer[w][i] \in Delivery
    BY <2>1
  <2>4. \A i \in 1..Len(buffer[w]) : buffer[w][i].job \in Job /\ Ready(buffer[w][i].job)
    BY <2>3, <1>i DEF Delivery, QueueReady, BufferReady
  <2>5. \A u \in Worker : exec'[u].job = IF u = w THEN Head(buffer[w]).job ELSE exec[u].job
    BY <1>1, <1>e DEF Take, IdleExec
  <2>6. ExecReady'
    BY <2>2, <2>4, <2>5, <1>i, ReadyKept DEF QueueReady, ExecReady
  <2>7. \A i \in 1..Len(Tail(buffer[w])) :
           i + 1 \in 1..Len(buffer[w]) /\ Tail(buffer[w])[i] = buffer[w][i + 1]
    BY <2>1
  <2>8. \A u \in Worker : \A i \in 1..Len(buffer'[u]) :
           buffer'[u][i].job \in Job /\ Ready(buffer'[u][i].job)
    <3>1. buffer'[w] = Tail(buffer[w]) /\ \A u \in Worker : u # w => buffer'[u] = buffer[u]
      BY <1>1, <1>b DEF Take
    <3>2. \A i \in 1..Len(buffer'[w]) : buffer'[w][i].job \in Job /\ Ready(buffer'[w][i].job)
      BY <2>4, <2>7, <3>1
    <3> QED BY <3>1, <3>2, <1>i, BufferEntry DEF QueueReady, BufferReady
  <2>9. BufferReady'
    BY <2>8, ReadyKept DEF BufferReady
  <2>10. MsgReady'
    BY <1>1, <1>i, ReadyKept DEF Take, QueueReady, MsgReady
  <2> QED BY <1>1, <1>i, <1>x, <2>6, <2>9, <2>10, StatusReadyKept DEF Take, SchedInv, QueueReady
(* A step that only moves the worker on.                                   *)
<1>2. CASE \/ ReadJob(w) \/ AcquireVm(w) \/ Checkout(w) \/ CheckCancelled(w) \/ RunStep(w)
           \/ AttemptFails(w)
  <2>1. UNCHANGED <<status, msg, buffer, pass>>
    BY <1>2 DEF ReadJob, AcquireVm, Checkout, CheckCancelled, RunStep, AttemptFails
  <2>2. \A u \in Worker : exec'[u].job = exec[u].job
    <3>1. ASSUME NEW pc, Goto(w, pc) PROVE \A u \in Worker : exec'[u].job = exec[u].job
      BY <3>1, <1>e DEF Goto, ExecRec
    <3>2. ASSUME NEW o, Ends(w, o) PROVE \A u \in Worker : exec'[u].job = exec[u].job
      BY <3>2, <1>e DEF Ends, ExecRec
    <3>3. ASSUME exec' = [exec EXCEPT ![w].pc = "check", ![w].step = @ + 1]
          PROVE  \A u \in Worker : exec'[u].job = exec[u].job
      BY <3>3, <1>e DEF ExecRec
    <3> QED BY <1>2, <3>1, <3>2, <3>3
            DEF ReadJob, AcquireVm, Checkout, CheckCancelled, RunStep, AttemptFails
  <2> QED BY <1>i, <1>x, <1>y, <2>1, <2>2, StatusReadyKept DEF SchedInv
(* A step that also writes the status of the job being processed.          *)
<1>3. CASE ClaimJob(w) \/ StartJob(w) \/ FinishJob(w) \/ GiveUp(w)
  <2>1. UNCHANGED <<msg, buffer, pass>>
    BY <1>3 DEF ClaimJob, StartJob, FinishJob, GiveUp
  <2>2. \A u \in Worker : exec'[u].job = exec[u].job
    <3>1. PICK pc : Goto(w, pc)
      BY <1>3 DEF ClaimJob, StartJob, FinishJob, GiveUp
    <3> QED BY <3>1, <1>e DEF Goto, ExecRec
  <2>3. StatusReady'
    BY <1>3, <1>z DEF ClaimJob, StartJob, FinishJob, GiveUp
  <2> QED BY <1>x, <1>y, <2>1, <2>2, <2>3 DEF SchedInv
(* The delivery is over and the task starts a pass.                        *)
<1>4. CASE Nak(w) \/ Ack(w)
  <2>1. UNCHANGED <<status, buffer>> /\ ThenAdvance(w)
    BY <1>4 DEF Nak, Ack
  <2>2. PassReady'
    BY <2>1, <1>p, <1>i, PassReadyKept DEF ThenAdvance
  <2>3. \A j \in Job : msg'[j].state # "none" => msg[j].state # "none" \/ j = exec[w].job
    BY <1>4, <1>m DEF Nak, Ack, MsgRec
  <2>4. \A u \in Worker : exec'[u].job \in {exec[u].job, NoJob}
    BY <2>1, <1>e DEF ThenAdvance, IdleExec
  <2>5. QueueReady'
    BY <2>1, <2>3, <2>4, <1>c, <1>i, QueueReadyKept
  <2> QED BY <1>i, <2>1, <2>2, <2>5, StatusReadyKept DEF SchedInv
<1> QED BY <1>1, <1>2, <1>3, <1>4 DEF Consume

LEMMA OtherSched ==
    ASSUME TypeInv, SchedInv, [Next]_vars,
           \/ \E w \in Worker, j \in Job : Fetch(w, j)
           \/ \E j \in Job : AckWaitLapses(j)
           \/ \E l \in Loop : LeaseLoop(l)
           \/ CancelRun \/ CancelJobs
           \/ \E p \in Process : Crash(p)
    PROVE  SchedInv'
<1>e. exec \in [Worker -> ExecRec]
  BY DEF TypeInv, TypeOK
<1>s. status \in [Job -> JobStatus]
  BY DEF TypeInv, TypeOK
<1>m. msg \in [Job -> MsgRec]
  BY DEF TypeInv, TypeOK
<1>p. pass \in [Actor -> PassRec] /\ Loop \subseteq Actor
  BY DEF TypeInv, TypeOK, Actor
<1>b. buffer \in [Worker -> Seq(Delivery)]
  BY DEF TypeInv, TypeOK
<1>i. PassReady /\ StatusReady /\ QueueReady
  BY DEF SchedInv
<1>q. ASSUME UNCHANGED <<msg, buffer, exec>> PROVE QueueReady'
  BY <1>q, <1>i, QueueReadyKept
<1>x. ASSUME UNCHANGED pass PROVE PassReady'
  BY <1>x, <1>i, PassReadyKept
<1>1. ASSUME NEW w \in Worker, NEW j \in Job, Fetch(w, j) PROVE SchedInv'
  <2>1. Ready(j)
    BY <1>1, <1>i DEF Fetch, QueueReady, MsgReady
  <2>2. MsgReady'
    BY <1>1, <1>i, <1>m, <2>1, ReadyKept DEF Fetch, QueueReady, MsgReady
  <2>3. ExecReady'
    BY <1>1, <1>i, ReadyKept DEF Fetch, QueueReady, ExecReady
  <2>4. BufferReady'
    <3> DEFINE d == [job |-> j, attempt |-> msg[j].delivered + 1]
    <3>1. buffer' = [buffer EXCEPT ![w] = Append(@, d)]
      BY <1>1 DEF Fetch
    <3>2. buffer[w] \in Seq(Delivery) /\ d.job = j
      BY <1>b
    <3> HIDE DEF d
    <3>3. \A i \in 1..Len(Append(buffer[w], d)) :
             \/ i \in 1..Len(buffer[w]) /\ Append(buffer[w], d)[i] = buffer[w][i]
             \/ Append(buffer[w], d)[i] = d
      BY <3>2
    <3>4. \A u \in Worker : u # w => buffer'[u] = buffer[u]
      BY <3>1, <1>b
    <3>5. buffer'[w] = Append(buffer[w], d)
      BY <3>1, <1>b
    <3>6. \A u \in Worker : \A i \in 1..Len(buffer'[u]) :
             buffer'[u][i].job \in Job /\ Ready(buffer'[u][i].job)
      BY <3>2, <3>3, <3>4, <3>5, <2>1, <1>i, BufferEntry DEF QueueReady, BufferReady
    <3> QED BY <3>6, ReadyKept DEF BufferReady
  <2> QED BY <1>1, <1>i, <1>x, <2>2, <2>3, <2>4, StatusReadyKept DEF Fetch, SchedInv, QueueReady
<1>2. ASSUME NEW j \in Job, AckWaitLapses(j) PROVE SchedInv'
  <2>1. \A k \in Job : msg'[k].state # "none" => msg[k].state # "none"
    BY <1>2, <1>m DEF AckWaitLapses, MsgRec
  <2>2. QueueReady'
    BY <1>2, <2>1, <1>i, QueueReadyKept DEF AckWaitLapses
  <2> QED BY <1>2, <1>i, <1>x, <2>2, StatusReadyKept DEF AckWaitLapses, SchedInv
<1>3. ASSUME NEW l \in Loop, LeaseLoop(l) PROVE SchedInv'
  <2>1. UNCHANGED <<msg, buffer, exec>>
    BY <1>3 DEF LeaseLoop, ReapScan, ReapOne, Nudge
  <2>2. \A a \in Actor : pass'[a] \in {pass[a], IdlePass, StartPass}
    BY <1>3, <1>p DEF LeaseLoop, ReapScan, ReapOne, Nudge
  <2>3. PassReady'
    BY <2>2, <1>i, PassReadyKept
  <2>4. \A j \in Job : status'[j] \in {status[j], "failure"}
    BY <1>3, <1>s DEF LeaseLoop, ReapScan, ReapOne, Nudge, set_job_status
  <2>5. StatusReady'
    BY <2>4, <1>i, StatusReadyKept
  <2> QED BY <1>q, <2>1, <2>3, <2>5 DEF SchedInv
<1>4. CASE CancelRun
  BY <1>4, <1>i, <1>q, <1>x, StatusReadyKept DEF CancelRun, SchedInv
<1>5. CASE CancelJobs
  <2>1. \A j \in Job : status'[j] \in {status[j], "cancelled"}
    BY <1>5, <1>s DEF CancelJobs
  <2> QED BY <1>5, <2>1, <1>i, <1>q, <1>x, StatusReadyKept DEF CancelJobs, SchedInv
<1>6. ASSUME NEW p \in Process, Crash(p) PROVE SchedInv'
  <2>1. PassReady'
    BY <1>6, <1>i, PassReadyKept DEF Crash
  <2>2. \A w \in Worker : exec'[w].job \in {exec[w].job, NoJob}
    BY <1>6, <1>e DEF Crash, IdleExec
  <2>3. QueueReady'
    BY <1>6, <2>2, <1>i, QueueReadyKept DEF Crash
  <2> QED BY <1>6, <2>1, <2>3, <1>i, StatusReadyKept DEF Crash, SchedInv
<1> QED BY <1>1, <1>2, <1>3, <1>4, <1>5, <1>6

LEMMA InitSched == Init => SchedInv
BY EmptyPass DEF Init, SchedInv, PassReady, TodoReady, BadPlanFails, HandReady, StatusReady,
                 QueueReady, MsgReady, BufferReady, ExecReady

LEMMA NextSched == TypeInv /\ SchedInv /\ [Next]_vars => SchedInv'
<1> SUFFICES ASSUME TypeInv, SchedInv, [Next]_vars PROVE SchedInv'
  OBVIOUS
<1>1. CASE UNCHANGED vars
  BY <1>1, PassReadyKept, StatusReadyKept, QueueReadyKept DEF vars, SchedInv
<1> QED BY <1>1, AdvanceRunSched, ConsumeSched, OtherSched DEF Next

(* No job is queued, running, skipped or successful, and none has a        *)
(* message, before all it needs is terminal: for every DAG and matrix, any *)
(* number of overlapping passes, stale snapshots, redeliveries, crashes,   *)
(* failed publishes and cancellations.                                     *)
THEOREM NeedsComeFirst == Spec => []NeedsFirst
<1>1. SchedInv => NeedsFirst
  BY DEF SchedInv, StatusReady, QueueReady, MsgReady, NeedsFirst, Ready
<1> QED BY <1>1, InitType, NextType, InitSched, NextSched, PTL DEF Spec

-----------------------------------------------------------------------------
(* Success means done.  roll_up_run reads the rows in one statement and    *)
(* writes the run in another, so the invariant covers the value in between.*)

AllTerminal == \A j \in Job : status[j] \in JobTerminal
RollInv == \A a \in Actor : pass[a].pc = "write" /\ pass[a].roll = "success" => AllTerminal
DoneInv == RollInv /\ SuccessMeansDone

LEMMA NextDone == TypeInv /\ DoneInv /\ [Next]_vars => DoneInv'
<1> SUFFICES ASSUME TypeInv, DoneInv, [Next]_vars PROVE DoneInv'
  OBVIOUS
<1>p. pass \in [Actor -> PassRec]
  BY DEF TypeInv, TypeOK
<1>t. AllTerminal => AllTerminal'
  BY TerminalKept DEF AllTerminal
<1>k. ASSUME runStatus' \in {runStatus, "cancelled"},
             \A a \in Actor : pass'[a] = pass[a] \/ pass'[a].pc # "write"
      PROVE  DoneInv'
  BY <1>k, <1>t DEF DoneInv, RollInv, SuccessMeansDone, AllTerminal
<1>1. ASSUME NEW a \in Actor, RollUpRead(a) PROVE DoneInv'
  <2>1. /\ pass'[a].roll = RollUp(status)
        /\ \A b \in Actor : b # a => pass'[b] = pass[b]
        /\ runStatus' = runStatus
    BY <1>1, <1>p DEF RollUpRead, PassRec
  <2>2. RollUp(status) = "success" => AllTerminal
    BY DEF RollUp, AllTerminal, JobTerminal
  <2> QED BY <2>1, <2>2, <1>t DEF DoneInv, RollInv, SuccessMeansDone, AllTerminal
<1>2. ASSUME NEW a \in Actor, RollUpWrite(a) PROVE DoneInv'
  <2>1. /\ runStatus' = pass[a].roll /\ pass[a].pc = "write"
        /\ \A b \in Actor : pass'[b] = pass[b] \/ pass'[b].pc # "write"
    BY <1>2, <1>p DEF RollUpWrite, set_run_status, InPass, IdlePass
  <2> QED BY <2>1, <1>t DEF DoneInv, RollInv, SuccessMeansDone, AllTerminal
<1>3. ASSUME NEW a \in Actor, AdvanceRun(a), ~RollUpRead(a), ~RollUpWrite(a)
      PROVE  /\ runStatus' = runStatus
             /\ \A b \in Actor : pass'[b] = pass[b] \/ pass'[b].pc # "write"
  <2>1. CASE ReadJobs(a)
    BY <2>1, <1>p DEF ReadJobs, PassRec
  <2>2. CASE ReadNeeds(a)
    BY <2>2, <1>p DEF ReadNeeds, PassRec
  <2>3. ASSUME NEW j \in Job, pass[a].pc = "decide", pass' = Decided(a, j)
        PROVE  \A b \in Actor : pass'[b] = pass[b] \/ pass'[b].pc # "write"
    BY <2>3, <1>p DEF Decided, PassRec
  <2>4. CASE DecideFail(a) \/ DecideSkip(a)
    BY <2>3, <2>4 DEF DecideFail, DecideSkip, NextTodo, InPass
  <2>5. CASE DecideQueue(a)
    <3>1. ASSUME NEW j \in Job,
                 pass' = [Decided(a, j) EXCEPT ![a].pc = "publish", ![a].job = j]
          PROVE  \A b \in Actor : pass'[b] = pass[b] \/ pass'[b].pc # "write"
      BY <3>1, <1>p DEF Decided, PassRec
    <3> QED BY <3>1, <2>3, <2>5 DEF DecideQueue, NextTodo, InPass
  <2>6. CASE Publish(a) \/ PublishFails(a) \/ Unqueue(a)
    <3>1. \A b \in Actor : pass'[b] = pass[b] \/ pass'[b].pc # "write"
      <4>1. CASE pass' = [pass EXCEPT ![a].pc = "decide", ![a].job = NoJob]
        BY <4>1, <1>p DEF PassRec
      <4>2. CASE pass' = [pass EXCEPT ![a].pc = "unqueue"]
        BY <4>2, <1>p DEF PassRec
      <4> QED BY <2>6, <4>1, <4>2 DEF Publish, PublishFails, Unqueue
    <3> QED BY <2>6, <3>1 DEF Publish, PublishFails, Unqueue
  <2>7. CASE PassFails(a)
    BY <2>7, <1>p DEF PassFails, IdlePass
  <2> QED BY <1>3, <2>1, <2>2, <2>4, <2>5, <2>6, <2>7 DEF AdvanceRun
<1>4. ASSUME NEW w \in Worker, Consume(w) \/ AttemptFails(w)
      PROVE  /\ runStatus' = runStatus
             /\ \A b \in Actor : pass'[b] = pass[b] \/ pass'[b].pc # "write"
  BY <1>4, <1>p, EmptyPass DEF Consume, Take, ReadJob, ClaimJob, AcquireVm, StartJob, Checkout,
        CheckCancelled, RunStep, FinishJob, Nak, GiveUp, Ack, ThenAdvance, AttemptFails
<1>5. ASSUME NEW l \in Loop, LeaseLoop(l)
      PROVE  /\ runStatus' = runStatus
             /\ \A b \in Actor : pass'[b] = pass[b] \/ pass'[b].pc # "write"
  BY <1>5, <1>p, EmptyPass DEF LeaseLoop, ReapScan, ReapOne, Nudge, Actor
<1>6. ASSUME NEW p \in Process, Crash(p)
      PROVE  /\ runStatus' = runStatus
             /\ \A b \in Actor : pass'[b] = pass[b] \/ pass'[b].pc # "write"
  BY <1>6, EmptyPass DEF Crash
<1>7. ASSUME \/ \E w \in Worker, j \in Job : Fetch(w, j)
             \/ \E j \in Job : AckWaitLapses(j)
             \/ CancelRun \/ CancelJobs \/ UNCHANGED vars
      PROVE  runStatus' \in {runStatus, "cancelled"} /\ pass' = pass
  BY <1>7 DEF Fetch, AckWaitLapses, CancelRun, CancelJobs, vars, set_run_status
<1> QED BY <1>k, <1>1, <1>2, <1>3, <1>4, <1>5, <1>6, <1>7 DEF Next

(* A run that reads `success` has only terminal jobs, although the roll-up *)
(* that wrote it may have read the rows long before.                       *)
THEOREM SuccessIsFinal == Spec => []SuccessMeansDone
<1>1. Init => DoneInv
  BY EmptyPass DEF Init, DoneInv, RollInv, SuccessMeansDone
<1>2. DoneInv => SuccessMeansDone
  BY DEF DoneInv
<1> QED BY <1>1, <1>2, InitType, NextType, NextDone, PTL DEF Spec

-----------------------------------------------------------------------------
(* The rows implement DagOrder.                                            *)

(* A step that sets no job running settles some jobs or none.              *)
LEMMA SettleStep ==
    ASSUME TypeInv, [Next]_vars,
           \A j \in Job : status'[j] = "running" => status[j] = "running"
    PROVE  [Dag!Next]_DagState
<1> DEFINE S == {j \in Job : status[j] \notin JobTerminal /\ status'[j] \in JobTerminal}
<1>1. \A j \in S : DagState[j] # "settled"
  BY DEF DagState
<1>2. DagState' = [j \in Job |-> IF j \in S THEN "settled" ELSE DagState[j]]
  <2>1. ASSUME NEW j \in Job
        PROVE  DagState'[j] = IF j \in S THEN "settled" ELSE DagState[j]
    <3>1. \/ status'[j] = status[j]
          \/ status'[j] \in JobTerminal
          \/ status[j] \in {"pending", "queued"} /\ status'[j] \in {"pending", "queued"}
      BY StatusMoves DEF StatusMove
    <3> QED BY <3>1, TerminalKept DEF DagState, JobTerminal
  <2> QED BY <2>1 DEF DagState
<1>3. S \in SUBSET Job
  OBVIOUS
<1> HIDE DEF S
<1>4. Dag!Settle(S)
  BY <1>1, <1>2, <1>3 DEF Dag!Settle
<1> QED BY <1>3, <1>4 DEF Dag!Next

(* A step that sets a job running launches it, or finds it launched.       *)
LEMMA LaunchStep ==
    ASSUME TypeInv, SchedInv, NEW j \in Job, status[j] \notin JobTerminal,
           status' = [status EXCEPT ![j] = "running"],
           \E w \in Worker : exec[w].job = j
    PROVE  [Dag!Next]_DagState
<1>s. status \in [Job -> JobStatus]
  BY DEF TypeInv, TypeOK
<1>1. \A k \in Job : status'[k] = IF k = j THEN "running" ELSE status[k]
  BY <1>s
<1>2. CASE status[j] = "running"
  <2>1. status' = status
    BY <1>2, <1>s
  <2> QED BY <2>1 DEF DagState
<1>3. CASE status[j] # "running"
  <2>1. DagState[j] = "waiting"
    BY <1>3 DEF DagState
  <2>2. Ready(j)
    BY DEF SchedInv, QueueReady, ExecReady
  <2>3. \A k \in DagBefore[j] : DagState[k] = "settled"
    BY <2>2 DEF Ready, NeedsTerminal, Cells, DagBefore, DagState
  <2>4. \A k \in Job : DagState'[k] = IF k = j THEN "launched" ELSE DagState[k]
    BY <1>1 DEF DagState, JobTerminal
  <2>5. DagState' = [DagState EXCEPT ![j] = "launched"]
    BY <2>4 DEF DagState
  <2>6. Dag!Launch(j)
    BY <2>1, <2>3, <2>5 DEF Dag!Launch
  <2> QED BY <2>6 DEF Dag!Next
<1> QED BY <1>2, <1>3

(* Every step of the scheduler, the executor, the reaper and cancel is a   *)
(* step of the abstract DAG order or leaves it unchanged.                  *)
THEOREM Refinement == Spec => ImplementsDagOrder
<1>1. Init => Dag!Init
  BY DEF Init, Dag!Init, DagState, JobTerminal
<1>2. TypeInv /\ SchedInv /\ [Next]_vars => [Dag!Next]_DagState
  <2> SUFFICES ASSUME TypeInv, SchedInv, [Next]_vars PROVE [Dag!Next]_DagState
    OBVIOUS
  <2>1. CASE \A j \in Job : status'[j] = "running" => status[j] = "running"
    BY <2>1, SettleStep
  <2>2. CASE \E j \in Job : status'[j] = "running" /\ status[j] # "running"
    <3>1. PICK j \in Job : status'[j] = "running" /\ status[j] # "running"
      BY <2>2
    <3>2. /\ status[j] \notin JobTerminal
          /\ status' = [status EXCEPT ![j] = "running"]
          /\ \E w \in Worker : exec[w].job = j
      BY <3>1, StatusMoves DEF StatusMove, JobTerminal
    <3> QED BY <3>2, LaunchStep
  <2> QED BY <2>1, <2>2
<1> QED BY <1>1, <1>2, InitType, NextType, InitSched, NextSched, PTL
        DEF Spec, ImplementsDagOrder, Dag!Spec
-----------------------------------------------------------------------------
(* A queued row has its message.  Nothing is lost while no process dies    *)
(* and no store error is dropped: a delivery is acked only once its row is *)
(* terminal, a row is queued before its message only while the pass that   *)
(* queued it still holds it, and the last delivery the stream allows is in *)
(* somebody's hands until it has settled the row.                          *)

NoLoss == faults["crash"] = 0 /\ faults["store"] = 0

HeldInv == \A w \in Worker : exec[w].pc # "idle" => exec[w].job \in Job /\ pass[w].pc = "idle"
AckInv == \A w \in Worker : exec[w].pc = "ack" => status[exec[w].job] \in JobTerminal
AckedInv == \A j \in Job : msg[j].state = "acked" => status[j] \in JobTerminal

Publishing(j) == \E a \in Actor : pass[a].pc \in {"publish", "unqueue"} /\ pass[a].job = j
QueuedInv == \A j \in Job : status[j] = "queued" /\ msg[j].state = "none" => Publishing(j)

LastHeld(j) == \E w \in Worker : exec[w].pc # "idle" /\ exec[w].job = j /\ exec[w].attempt = MaxDeliver
LastBuffered(j) ==
    \E w \in Worker : \E i \in 1..Len(buffer[w]) :
        buffer[w][i].job = j /\ buffer[w][i].attempt = MaxDeliver
LastInv ==
    \A j \in Job : msg[j].delivered = MaxDeliver =>
        status[j] \in JobTerminal \/ LastHeld(j) \/ LastBuffered(j)
DeadInv == \A j \in Job : msg[j].state = "dead" => msg[j].delivered = MaxDeliver

MessageInv == HeldInv /\ AckInv /\ AckedInv /\ QueuedInv /\ LastInv /\ DeadInv
LossInv == NoLoss => MessageInv

(* What each step of a pass leaves alone.                                  *)
LEMMA PassFrame ==
    ASSUME TypeInv, NEW a \in Actor, AdvanceRun(a)
    PROVE  /\ UNCHANGED <<exec, buffer>>
           /\ UNCHANGED faults \/ \E f \in Fault : Spend(f)
           /\ pass[a].pc # "idle" /\ \A b \in Actor : b # a => pass'[b] = pass[b]
           /\ msg' = msg \/ ((Publish(a) \/ PublishFails(a)) /\ msg' = Landed(pass[a].job))
           /\ pass[a].pc \in {"publish", "unqueue"} => Publish(a) \/ PublishFails(a) \/ Unqueue(a)
           /\ \/ DecideQueue(a)
              \/ \A j \in Job : status'[j] = "queued" => status[j] = "queued"
<1>p. pass \in [Actor -> PassRec]
  BY DEF TypeInv, TypeOK
<1>s. status \in [Job -> JobStatus]
  BY DEF TypeInv, TypeOK
<1>1. CASE ReadJobs(a)
  BY <1>1, <1>p DEF ReadJobs, InPass
<1>2. CASE ReadNeeds(a)
  <2>1. UNCHANGED <<status, msg, exec, buffer, faults>>
    BY <1>2 DEF ReadNeeds
  <2>2. pass[a].pc = "needs"
    BY <1>2 DEF ReadNeeds, InPass
  <2>3. PICK S, F : pass' = [pass EXCEPT ![a].pc = "decide", ![a].skip = S, ![a].fail = F]
    BY <1>2 DEF ReadNeeds
  <2>4. \A b \in Actor : b # a => pass'[b] = pass[b]
    BY <2>3, <1>p
  <2> QED BY <2>1, <2>2, <2>4
<1>3. CASE DecideFail(a)
  BY <1>3, <1>p, <1>s DEF DecideFail, NextTodo, InPass, Decided, set_job_status
<1>4. CASE DecideSkip(a)
  BY <1>4, <1>p, <1>s DEF DecideSkip, NextTodo, InPass, Decided, set_job_status
<1>5. CASE DecideQueue(a)
  <2>1. PICK j \in Job : \/ pass' = Decided(a, j)
                         \/ pass' = [Decided(a, j) EXCEPT ![a].pc = "publish", ![a].job = j]
    BY <1>5 DEF DecideQueue
  <2>2. Decided(a, j) \in [Actor -> PassRec] /\ \A b \in Actor : b # a => Decided(a, j)[b] = pass[b]
    BY <1>p DEF Decided, PassRec
  <2>3. \A b \in Actor : b # a => pass'[b] = pass[b]
    BY <2>1, <2>2
  <2>4. UNCHANGED <<exec, buffer, msg, faults>>
    BY <1>5 DEF DecideQueue
  <2>5. pass[a].pc = "decide"
    BY <1>5 DEF DecideQueue, NextTodo, InPass
  <2> QED BY <1>5, <2>3, <2>4, <2>5
<1>6. CASE Publish(a)
  BY <1>6, <1>p DEF Publish, InPass
<1>7. CASE PublishFails(a)
  BY <1>7, <1>p DEF PublishFails, InPass, Fault
<1>8. CASE Unqueue(a)
  BY <1>8, <1>p, <1>s DEF Unqueue, InPass, Fault
<1>9. CASE RollUpRead(a) \/ RollUpWrite(a)
  BY <1>9, <1>p DEF RollUpRead, RollUpWrite, InPass
<1>10. CASE PassFails(a)
  BY <1>10, <1>p DEF PassFails, Fault
<1> QED BY <1>1, <1>2, <1>3, <1>4, <1>5, <1>6, <1>7, <1>8, <1>9, <1>10 DEF AdvanceRun

(* Faults are only counted up.                                             *)
LEMMA FaultSteps ==
    ASSUME TypeInv, [Next]_vars PROVE UNCHANGED faults \/ \E f \in Fault : Spend(f)
<1>1. ASSUME NEW a \in Actor, AdvanceRun(a) PROVE UNCHANGED faults \/ \E f \in Fault : Spend(f)
  BY <1>1, PassFrame
<1>2. ASSUME NEW w \in Worker, Consume(w) \/ AttemptFails(w)
      PROVE  UNCHANGED faults \/ \E f \in Fault : Spend(f)
  BY <1>2 DEF Consume, AttemptFails, Take, ReadJob, ClaimJob, AcquireVm, StartJob, Checkout,
              CheckCancelled, RunStep, FinishJob, Nak, GiveUp, Ack, Fault
<1>3. ASSUME NEW l \in Loop, LeaseLoop(l) PROVE UNCHANGED faults \/ \E f \in Fault : Spend(f)
  BY <1>3 DEF LeaseLoop, ReapScan, ReapOne, Nudge, Fault
<1>4. CASE \/ \E w \in Worker, j \in Job : Fetch(w, j)
           \/ \E j \in Job : AckWaitLapses(j)
           \/ CancelRun \/ CancelJobs \/ UNCHANGED vars
  BY <1>4 DEF Fetch, AckWaitLapses, CancelRun, CancelJobs, vars, Fault
<1>5. ASSUME NEW p \in Process, Crash(p) PROVE UNCHANGED faults \/ \E f \in Fault : Spend(f)
  BY <1>5 DEF Crash, Fault
<1> QED BY <1>1, <1>2, <1>3, <1>4, <1>5 DEF Next

LEMMA NoLossBefore ==
    ASSUME TypeInv, [Next]_vars, NoLoss'
    PROVE  NoLoss /\ ~Spend("crash") /\ ~Spend("store")
<1>1. faults \in [Fault -> Nat] /\ {"crash", "store"} \subseteq Fault
  BY DEF TypeInv, TypeOK, Fault
<1>2. ASSUME NEW f \in Fault, Spend(f), f \in {"crash", "store"} PROVE FALSE
  <2>1. faults'[f] = faults[f] + 1 /\ faults[f] \in Nat
    BY <1>1, <1>2 DEF Spend
  <2> QED BY <1>2, <2>1 DEF NoLoss
<1>3. ASSUME NEW f \in Fault, Spend(f), NEW g \in Fault, g # f PROVE faults'[g] = faults[g]
  BY <1>1, <1>3 DEF Spend
<1>4. NoLoss
  BY <1>1, <1>2, <1>3, FaultSteps DEF NoLoss
<1> QED BY <1>1, <1>2, <1>4

(* A step that leaves the deliveries alone.                                *)
LEMMA LastKept ==
    ASSUME TypeInv, LastInv, [Next]_vars,
           \A j \in Job : msg'[j].delivered = msg[j].delivered,
           \A j \in Job : LastHeld(j) => status'[j] \in JobTerminal \/ LastHeld(j)',
           \A j \in Job : LastBuffered(j) => LastHeld(j)' \/ LastBuffered(j)'
    PROVE  LastInv'
BY TerminalKept DEF LastInv

LEMMA HeldKept ==
    ASSUME TypeInv, HeldInv, AckInv, [Next]_vars, UNCHANGED exec,
           \A w \in Worker : exec[w].pc # "idle" => pass'[w].pc = "idle"
    PROVE  HeldInv' /\ AckInv'
<1>1. HeldInv'
  BY DEF HeldInv
<1>2. AckInv'
  BY TerminalKept DEF HeldInv, AckInv
<1> QED BY <1>1, <1>2

LEMMA AdvanceRunMessages ==
    ASSUME TypeInv, MessageInv, [Next]_vars, ~Spend("store"), NEW a \in Actor, AdvanceRun(a)
    PROVE  MessageInv'
<1>p. pass \in [Actor -> PassRec]
  BY DEF TypeInv, TypeOK
<1>s. status \in [Job -> JobStatus]
  BY DEF TypeInv, TypeOK
<1>m. msg \in [Job -> MsgRec]
  BY DEF TypeInv, TypeOK
<1>1. UNCHANGED <<exec, buffer>>
  BY PassFrame
<1>2. pass[a].pc # "idle" /\ \A b \in Actor : b # a => pass'[b] = pass[b]
  BY PassFrame
<1>3. HeldInv' /\ AckInv'
  <2>1. \A w \in Worker : exec[w].pc # "idle" => pass'[w].pc = "idle"
    BY <1>2 DEF MessageInv, HeldInv, Actor
  <2> QED BY <1>1, <2>1, HeldKept DEF MessageInv
<1>4. ASSUME NEW j \in Job
      PROVE  /\ msg'[j].delivered = msg[j].delivered
             /\ msg'[j].state = msg[j].state \/ (msg[j].state = "none" /\ msg'[j].state = "ready")
  <2>1. msg' = msg \/ \E k : msg' = Landed(k)
    BY PassFrame
  <2> QED BY <2>1, <1>m DEF Landed, MsgRec
<1>5. AckedInv' /\ DeadInv'
  BY <1>4, TerminalKept DEF MessageInv, AckedInv, DeadInv
<1>6. LastInv'
  <2>1. \A j \in Job : (LastHeld(j) => LastHeld(j)') /\ (LastBuffered(j) => LastBuffered(j)')
    BY <1>1 DEF LastHeld, LastBuffered
  <2> QED BY <1>4, <2>1, LastKept DEF MessageInv
<1>7. QueuedInv'
  <2>0. \A j \in Job : msg'[j].state = "none" => msg[j].state = "none"
    BY <1>4
  <2>1. ASSUME NEW j \in Job, status[j] = "queued", status'[j] = "queued", msg'[j].state = "none"
        PROVE  Publishing(j)'
    <3>1. PICK b \in Actor : pass[b].pc \in {"publish", "unqueue"} /\ pass[b].job = j
      BY <2>0, <2>1 DEF MessageInv, QueuedInv, Publishing
    <3>2. CASE b # a
      BY <1>2, <3>1, <3>2 DEF Publishing
    <3>3. CASE b = a
      <4>1. CASE Publish(a)
        <5>1. msg'[j].state # "none"
          BY <3>1, <3>3, <4>1, <1>m DEF Publish, Landed, MsgRec
        <5> QED BY <2>1, <5>1
      <4>2. CASE PublishFails(a)
        <5>1. pass'[a].pc = "unqueue" /\ pass'[a].job = pass[a].job
          BY <4>2, <1>p DEF PublishFails, PassRec
        <5> QED BY <3>1, <3>3, <5>1 DEF Publishing
      <4>3. CASE Unqueue(a)
        <5>1. status'[j] = "pending"
          BY <2>1, <3>1, <3>3, <4>3, <1>s DEF Unqueue, unqueue_job_applies
        <5> QED BY <2>1, <5>1
      <4> QED BY <3>1, <3>3, <4>1, <4>2, <4>3, PassFrame
    <3> QED BY <3>2, <3>3
  <2>2. ASSUME NEW j \in Job, status[j] # "queued", status'[j] = "queued" PROVE Publishing(j)'
    <3>1. DecideQueue(a)
      BY <2>2, PassFrame
    <3>2. PICK k \in Job : status' = [status EXCEPT ![k] = "queued"]
                           /\ pass' = [Decided(a, k) EXCEPT ![a].pc = "publish", ![a].job = k]
      BY <2>2, <3>1 DEF DecideQueue, set_job_status
    <3>3. k = j
      BY <2>2, <3>2, <1>s
    <3>4. Decided(a, k) \in [Actor -> PassRec]
      BY <1>p DEF Decided, PassRec
    <3> HIDE DEF Decided
    <3>5. pass'[a].pc = "publish" /\ pass'[a].job = k
      BY <3>2, <3>4 DEF PassRec
    <3> QED BY <3>3, <3>5 DEF Publishing
  <2> QED BY <2>1, <2>2 DEF QueuedInv
<1> QED BY <1>3, <1>5, <1>6, <1>7 DEF MessageInv

LEMMA QueuedKept ==
    ASSUME QueuedInv,
           \A j \in Job : status'[j] = "queued" => status[j] = "queued",
           \A j \in Job : msg'[j].state = "none" => msg[j].state = "none",
           \A a \in Actor : pass[a].pc \in {"publish", "unqueue"} => pass'[a] = pass[a]
    PROVE  QueuedInv'
<1> SUFFICES ASSUME NEW j \in Job, status'[j] = "queued", msg'[j].state = "none"
             PROVE  Publishing(j)'
  BY DEF QueuedInv
<1>1. PICK a \in Actor : pass[a].pc \in {"publish", "unqueue"} /\ pass[a].job = j
  BY DEF QueuedInv, Publishing
<1> QED BY <1>1 DEF Publishing

(* A task's own step in the middle of a delivery.                          *)
LEMMA MovesOn ==
    ASSUME TypeInv, MessageInv, [Next]_vars, NEW w \in Worker,
           UNCHANGED <<msg, buffer, pass>>,
           exec[w].pc # "idle", exec'[w].pc # "idle",
           exec'[w].job = exec[w].job, exec'[w].attempt = exec[w].attempt,
           \A u \in Worker : u # w => exec'[u] = exec[u],
           exec'[w].pc = "ack" => status'[exec[w].job] \in JobTerminal,
           \A j \in Job : status'[j] = "queued" => status[j] = "queued"
    PROVE  MessageInv'
<1>1. HeldInv'
  BY DEF MessageInv, HeldInv
<1>2. AckInv'
  BY TerminalKept DEF MessageInv, HeldInv, AckInv
<1>3. AckedInv' /\ DeadInv'
  BY TerminalKept DEF MessageInv, AckedInv, DeadInv
<1>4. QueuedInv'
  BY QueuedKept DEF MessageInv
<1>5. LastInv'
  <2>1. \A j \in Job : (LastHeld(j) => LastHeld(j)') /\ (LastBuffered(j) => LastBuffered(j)')
    BY DEF LastHeld, LastBuffered
  <2> QED BY <2>1, LastKept DEF MessageInv
<1> QED BY <1>1, <1>2, <1>3, <1>4, <1>5 DEF MessageInv

LEMMA TakeMessages ==
    ASSUME TypeInv, MessageInv, [Next]_vars, NEW w \in Worker, Take(w) PROVE MessageInv'
<1>e. exec \in [Worker -> ExecRec]
  BY DEF TypeInv, TypeOK
<1>b. buffer[w] \in Seq(Delivery) /\ buffer[w] # <<>> /\ buffer \in [Worker -> Seq(Delivery)]
  BY DEF TypeInv, TypeOK, Take
<1>0. UNCHANGED <<status, msg, pass>> /\ exec[w].pc = "idle" /\ pass[w].pc = "idle"
  BY DEF Take, At, InPass
<1>1. exec'[w].pc = "read" /\ exec'[w].job = Head(buffer[w]).job /\ exec'[w].attempt = Head(buffer[w]).attempt
      /\ \A u \in Worker : u # w => exec'[u] = exec[u]
  BY <1>e DEF Take, IdleExec
<1>2. Len(buffer[w]) \in Nat \ {0} /\ Head(buffer[w]) = buffer[w][1] /\ Head(buffer[w]) \in Delivery
  BY <1>b
<1>3. HeldInv'
  BY <1>0, <1>1, <1>2 DEF MessageInv, HeldInv, Delivery
<1>4. AckInv'
  BY <1>0, <1>1 DEF MessageInv, AckInv
<1>5. AckedInv' /\ DeadInv' /\ QueuedInv'
  BY <1>0, QueuedKept DEF MessageInv, AckedInv, DeadInv
<1>6. LastInv'
  <2>1. ASSUME NEW j \in Job, LastHeld(j) PROVE LastHeld(j)'
    <3>1. PICK u \in Worker : exec[u].pc # "idle" /\ exec[u].job = j /\ exec[u].attempt = MaxDeliver
      BY <2>1 DEF LastHeld
    <3>2. exec'[u] = exec[u]
      BY <1>0, <1>1, <3>1
    <3> QED BY <3>1, <3>2 DEF LastHeld
  <2>2. ASSUME NEW j \in Job, LastBuffered(j) PROVE LastHeld(j)' \/ LastBuffered(j)'
    <3>1. PICK u \in Worker : \E i \in 1..Len(buffer[u]) :
              buffer[u][i].job = j /\ buffer[u][i].attempt = MaxDeliver
      BY <2>2 DEF LastBuffered
    <3>2. PICK i \in 1..Len(buffer[u]) : buffer[u][i].job = j /\ buffer[u][i].attempt = MaxDeliver
      BY <3>1
    <3>3. buffer'[w] = Tail(buffer[w]) /\ \A v \in Worker : v # w => buffer'[v] = buffer[v]
      BY <1>b DEF Take
    <3>4. CASE u # w
      BY <3>2, <3>3, <3>4 DEF LastBuffered
    <3>5. CASE u = w /\ i = 1
      BY <1>1, <1>2, <3>2, <3>5 DEF LastHeld
    <3>6. CASE u = w /\ i # 1
      <4>1. i - 1 \in 1..Len(Tail(buffer[w])) /\ Tail(buffer[w])[i - 1] = buffer[w][i]
        BY <1>b, <1>2, <3>2, <3>6
      <4>2. i - 1 \in 1..Len(buffer'[w]) /\ buffer'[w][i - 1].job = j /\ buffer'[w][i - 1].attempt = MaxDeliver
        BY <3>2, <3>3, <3>6, <4>1
      <4> QED BY <4>2 DEF LastBuffered
    <3> QED BY <3>4, <3>5, <3>6
  <2> QED BY <1>0, <2>1, <2>2, LastKept DEF MessageInv
<1> QED BY <1>3, <1>4, <1>5, <1>6 DEF MessageInv

(* The delivery is over.                                                   *)
LEMMA ReleaseMessages ==
    ASSUME TypeInv, MessageInv, [Next]_vars, NEW w \in Worker, Nak(w) \/ Ack(w) PROVE MessageInv'
<1>e. exec \in [Worker -> ExecRec] /\ exec[w] \in ExecRec
  BY DEF TypeInv, TypeOK
<1>m. msg \in [Job -> MsgRec]
  BY DEF TypeInv, TypeOK
<1>p. pass \in [Actor -> PassRec] /\ w \in Actor
  BY DEF TypeInv, TypeOK, Actor
<1>d. MaxDeliver \in Nat
  BY DispatchAssumption
<1>0. UNCHANGED <<status, buffer>> /\ ThenAdvance(w) /\ exec[w].pc \in {"err", "ack"}
  BY DEF Nak, Ack, At
<1>1. exec'[w].pc = "idle" /\ \A u \in Worker : u # w => exec'[u] = exec[u]
  BY <1>0, <1>e DEF ThenAdvance, IdleExec
<1>2. \A b \in Actor : b # w => pass'[b] = pass[b]
  BY <1>0, <1>p DEF ThenAdvance
<1>3. pass[w].pc = "idle" /\ exec[w].job \in Job
  BY <1>0 DEF MessageInv, HeldInv
<1>4. Ack(w) => status[exec[w].job] \in JobTerminal
  BY DEF Ack, At, MessageInv, AckInv
<1>5. ASSUME NEW j \in Job
      PROVE  /\ msg'[j].delivered = msg[j].delivered
             /\ msg'[j].state = "none" => msg[j].state = "none"
             /\ msg'[j].state = "acked" => msg[j].state = "acked" \/ status[j] \in JobTerminal
             /\ msg'[j].state = "dead" => msg[j].state = "dead" \/ msg[j].delivered = MaxDeliver
  <2>1. msg[j].delivered \in 0..MaxDeliver
    BY <1>m DEF MsgRec
  <2>2. CASE Nak(w)
    BY <1>m, <1>d, <2>1, <2>2 DEF Nak, Redeliverable, MsgRec
  <2>3. CASE Ack(w)
    BY <1>m, <1>4, <2>3 DEF Ack, MsgRec
  <2> QED BY <2>2, <2>3
<1>6. HeldInv'
  BY <1>1, <1>2 DEF MessageInv, HeldInv, Actor
<1>7. AckInv'
  BY <1>0, <1>1 DEF MessageInv, AckInv
<1>8. AckedInv' /\ DeadInv'
  BY <1>0, <1>5 DEF MessageInv, AckedInv, DeadInv
<1>9. QueuedInv'
  BY <1>0, <1>2, <1>3, <1>5, QueuedKept DEF MessageInv
<1>10. LastInv'
  <2>1. ASSUME NEW j \in Job, LastHeld(j) PROVE status'[j] \in JobTerminal \/ LastHeld(j)'
    <3>1. PICK u \in Worker : exec[u].pc # "idle" /\ exec[u].job = j /\ exec[u].attempt = MaxDeliver
      BY <2>1 DEF LastHeld
    <3>2. CASE u # w
      BY <1>1, <3>1, <3>2 DEF LastHeld
    <3>3. CASE u = w
      <4>1. ~(MaxDeliver < MaxDeliver)
        BY <1>d
      <4>2. Ack(w)
        BY <3>1, <3>3, <4>1 DEF Nak
      <4> QED BY <1>0, <1>4, <3>1, <3>3, <4>2
    <3> QED BY <3>2, <3>3
  <2>2. \A j \in Job : LastBuffered(j) => LastBuffered(j)'
    BY <1>0 DEF LastBuffered
  <2> QED BY <1>5, <2>1, <2>2, LastKept DEF MessageInv
<1> QED BY <1>6, <1>7, <1>8, <1>9, <1>10 DEF MessageInv

LEMMA ConsumeMessages ==
    ASSUME TypeInv, MessageInv, [Next]_vars, ~Spend("store"),
           NEW w \in Worker, Consume(w) \/ AttemptFails(w)
    PROVE  MessageInv'
<1>e. exec \in [Worker -> ExecRec] /\ exec[w] \in ExecRec
  BY DEF TypeInv, TypeOK
<1>s. status \in [Job -> JobStatus]
  BY DEF TypeInv, TypeOK
<1>g. ASSUME NEW pc, Goto(w, pc)
      PROVE  /\ exec'[w].pc = pc /\ exec'[w].job = exec[w].job /\ exec'[w].attempt = exec[w].attempt
             /\ \A u \in Worker : u # w => exec'[u] = exec[u]
  BY <1>g, <1>e DEF Goto, ExecRec
<1>1. CASE Take(w)
  BY <1>1, TakeMessages
<1>2. CASE Nak(w) \/ Ack(w)
  BY <1>2, ReleaseMessages
<1>3. CASE ReadJob(w)
  <2>1. PICK pc : Goto(w, pc) /\ pc = IF Runnable(exec[w].job) THEN "claim" ELSE "ack"
    BY <1>3 DEF ReadJob
  <2>2. UNCHANGED <<status, msg, buffer, pass>> /\ exec[w].pc = "read"
    BY <1>3 DEF ReadJob, At
  <2>3. pc = "ack" => status'[exec[w].job] \in JobTerminal
    BY <2>1, <2>2 DEF Runnable
  <2> QED BY <1>g, <2>1, <2>2, <2>3, MovesOn
<1>4. CASE ClaimJob(w)
  <2>1. PICK pc : Goto(w, pc) /\ pc = IF Runnable(exec[w].job) THEN "acquire" ELSE "ack"
    BY <1>4 DEF ClaimJob
  <2>2. UNCHANGED <<msg, buffer, pass>> /\ exec[w].pc = "claim"
    BY <1>4 DEF ClaimJob, At
  <2>3. pc = "ack" => status'[exec[w].job] \in JobTerminal
    BY <1>4, <2>1 DEF ClaimJob, Runnable
  <2>4. \A j \in Job : status'[j] = "queued" => status[j] = "queued"
    BY <1>4, <1>s DEF ClaimJob, set_job_status
  <2> QED BY <1>g, <2>1, <2>2, <2>3, <2>4, MovesOn
<1>5. CASE StartJob(w)
  <2>1. PICK pc : Goto(w, pc) /\ pc = IF Runnable(exec[w].job) THEN "checkout" ELSE "ack"
    BY <1>5 DEF StartJob
  <2>2. UNCHANGED <<msg, buffer, pass>> /\ exec[w].pc = "start"
    BY <1>5 DEF StartJob, At
  <2>3. pc = "ack" => status'[exec[w].job] \in JobTerminal
    BY <1>5, <2>1 DEF StartJob, Runnable
  <2>4. \A j \in Job : status'[j] = "queued" => status[j] = "queued"
    BY <1>5, <1>s DEF StartJob, set_job_status
  <2> QED BY <1>g, <2>1, <2>2, <2>3, <2>4, MovesOn
<1>6. CASE FinishJob(w) \/ GiveUp(w)
  <2>1. Goto(w, "ack") /\ UNCHANGED <<msg, buffer, pass>> /\ exec[w].pc \in {"finish", "err"}
    BY <1>6 DEF FinishJob, GiveUp, At
  <2>2. PICK s \in JobTerminal : set_job_status(exec[w].job, s)
    <3>1. CASE FinishJob(w)
      <4>1. exec[w].outcome \in {"success", "failure", "cancelled"}
        BY <3>1, <1>e DEF TypeInv, FinishJob, At, FinishHasOutcome, ExecRec, Outcome
      <4>2. FinalStatus(w) \in JobTerminal
        BY <4>1 DEF FinalStatus, JobTerminal
      <4> QED BY <3>1, <4>2 DEF FinishJob
    <3>2. CASE GiveUp(w)
      <4>1. "failure" \in JobTerminal
        BY DEF JobTerminal
      <4> QED BY <3>2, <4>1 DEF GiveUp
    <3> QED BY <1>6, <3>1, <3>2
  <2>3. exec[w].job \in Job
    BY <2>1 DEF MessageInv, HeldInv
  <2>4. status'[exec[w].job] \in JobTerminal
    BY <2>2, <2>3, <1>s DEF set_job_status
  <2>5. \A j \in Job : status'[j] = "queued" => status[j] = "queued"
    BY <2>2, <1>s DEF set_job_status, JobTerminal
  <2> QED BY <1>g, <2>1, <2>4, <2>5, MovesOn
<1>7. CASE AcquireVm(w) \/ Checkout(w) \/ CheckCancelled(w) \/ RunStep(w) \/ AttemptFails(w)
  <2>1. UNCHANGED <<status, msg, buffer, pass>> /\ exec[w].pc # "idle"
    BY <1>7 DEF AcquireVm, Checkout, CheckCancelled, RunStep, AttemptFails, At, HeartbeatPc
  <2>2. /\ exec'[w].pc \notin {"idle", "ack"}
        /\ exec'[w].job = exec[w].job /\ exec'[w].attempt = exec[w].attempt
        /\ \A u \in Worker : u # w => exec'[u] = exec[u]
    <3>1. ASSUME NEW o, Ends(w, o)
          PROVE  /\ exec'[w].pc = "finish" /\ exec'[w].job = exec[w].job
                 /\ exec'[w].attempt = exec[w].attempt
                 /\ \A u \in Worker : u # w => exec'[u] = exec[u]
      BY <3>1, <1>e DEF Ends, ExecRec
    <3>2. ASSUME exec' = [exec EXCEPT ![w].pc = "check", ![w].step = @ + 1]
          PROVE  /\ exec'[w].pc = "check" /\ exec'[w].job = exec[w].job
                 /\ exec'[w].attempt = exec[w].attempt
                 /\ \A u \in Worker : u # w => exec'[u] = exec[u]
      BY <3>2, <1>e DEF ExecRec
    <3>3. CASE \E pc \in {"start", "check", "step", "err"} : Goto(w, pc)
      BY <1>g, <3>3
    <3>4. CASE \E o : Ends(w, o)
      BY <3>1, <3>4
    <3> QED BY <1>7, <3>2, <3>3, <3>4
            DEF AcquireVm, Checkout, CheckCancelled, RunStep, AttemptFails
  <2> QED BY <2>1, <2>2, MovesOn
<1> QED BY <1>1, <1>2, <1>3, <1>4, <1>5, <1>6, <1>7 DEF Consume

LEMMA OtherMessages ==
    ASSUME TypeInv, MessageInv, [Next]_vars, ~Spend("crash"), ~Spend("store"),
           \/ \E w \in Worker, j \in Job : Fetch(w, j)
           \/ \E j \in Job : AckWaitLapses(j)
           \/ \E l \in Loop : LeaseLoop(l)
           \/ CancelRun \/ CancelJobs \/ UNCHANGED vars
           \/ \E p \in Process : Crash(p)
    PROVE  MessageInv'
<1>s. status \in [Job -> JobStatus]
  BY DEF TypeInv, TypeOK
<1>m. msg \in [Job -> MsgRec]
  BY DEF TypeInv, TypeOK
<1>p. pass \in [Actor -> PassRec] /\ Loop \subseteq Actor
  BY DEF TypeInv, TypeOK, Actor
<1>b. buffer \in [Worker -> Seq(Delivery)]
  BY DEF TypeInv, TypeOK
<1>d. MaxDeliver \in Nat
  BY DispatchAssumption
(* Whatever leaves the stream and the consumers alone and queues nothing.  *)
<1>0. ASSUME UNCHANGED <<msg, buffer, exec>>,
             \A a \in Actor : pass[a].pc \in {"publish", "unqueue"} => pass'[a] = pass[a],
             \A w \in Worker : pass'[w] = pass[w],
             \A j \in Job : status'[j] = "queued" => status[j] = "queued"
      PROVE  MessageInv'
  <2>1. HeldInv' /\ AckInv'
    BY <1>0, HeldKept DEF MessageInv, HeldInv
  <2>2. AckedInv' /\ DeadInv'
    BY <1>0, TerminalKept DEF MessageInv, AckedInv, DeadInv
  <2>3. QueuedInv'
    BY <1>0, QueuedKept DEF MessageInv
  <2>4. \A j \in Job : (LastHeld(j) => LastHeld(j)') /\ (LastBuffered(j) => LastBuffered(j)')
    BY <1>0 DEF LastHeld, LastBuffered
  <2>5. LastInv'
    BY <1>0, <2>4, LastKept DEF MessageInv
  <2> QED BY <2>1, <2>2, <2>3, <2>5 DEF MessageInv
<1>1. ASSUME NEW w \in Worker, NEW j \in Job, Fetch(w, j) PROVE MessageInv'
  <2>0. UNCHANGED <<status, exec, pass>> /\ msg[j].state = "ready"
    BY <1>1 DEF Fetch
  <2>1. msg'[j].state = "out" /\ msg'[j].delivered = msg[j].delivered + 1
        /\ \A k \in Job : k # j => msg'[k] = msg[k]
    BY <1>1, <1>m DEF Fetch
  <2>2. HeldInv' /\ AckInv'
    BY <2>0, HeldKept DEF MessageInv, HeldInv
  <2>3. AckedInv' /\ DeadInv'
    BY <2>0, <2>1 DEF MessageInv, AckedInv, DeadInv
  <2>4. QueuedInv'
    BY <2>0, <2>1, QueuedKept DEF MessageInv
  <2> DEFINE d == [job |-> j, attempt |-> msg[j].delivered + 1]
  <2>5. d.job = j /\ d.attempt = msg[j].delivered + 1 /\ d \in Delivery
    <3>1. msg[j].delivered \in 0..MaxDeliver /\ msg[j].delivered < MaxDeliver
      BY <1>1, <1>m DEF Fetch, MsgRec
    <3> QED BY <1>d, <3>1 DEF Delivery
  <2>6. buffer'[w] = Append(buffer[w], d) /\ \A v \in Worker : v # w => buffer'[v] = buffer[v]
    BY <1>1, <1>b DEF Fetch
  <2> HIDE DEF d
  <2>7. /\ Len(buffer[w]) + 1 \in 1..Len(buffer'[w]) /\ buffer'[w][Len(buffer[w]) + 1] = d
        /\ \A i \in 1..Len(buffer[w]) : i \in 1..Len(buffer'[w]) /\ buffer'[w][i] = buffer[w][i]
    <3>1. buffer[w] \in Seq(Delivery)
      BY <1>b
    <3> QED BY <2>5, <2>6, <3>1
  <2>8. \A k \in Job : LastHeld(k) => LastHeld(k)'
    BY <2>0 DEF LastHeld
  <2>9. \A k \in Job : LastBuffered(k) => LastBuffered(k)'
    <3> SUFFICES ASSUME NEW k \in Job, LastBuffered(k) PROVE LastBuffered(k)'
      OBVIOUS
    <3>1. PICK u \in Worker : \E i \in 1..Len(buffer[u]) :
              buffer[u][i].job = k /\ buffer[u][i].attempt = MaxDeliver
      BY DEF LastBuffered
    <3>2. PICK i \in 1..Len(buffer[u]) : buffer[u][i].job = k /\ buffer[u][i].attempt = MaxDeliver
      BY <3>1
    <3>3. i \in 1..Len(buffer'[u]) /\ buffer'[u][i] = buffer[u][i]
      BY <2>6, <2>7, <3>2
    <3> QED BY <3>2, <3>3 DEF LastBuffered
  <2>10. msg'[j].delivered = MaxDeliver => LastBuffered(j)'
    BY <2>1, <2>5, <2>7 DEF LastBuffered
  <2>11. LastInv'
    BY <2>0, <2>1, <2>8, <2>9, <2>10 DEF MessageInv, LastInv
  <2> QED BY <2>2, <2>3, <2>4, <2>11 DEF MessageInv
<1>2. ASSUME NEW j \in Job, AckWaitLapses(j) PROVE MessageInv'
  <2>0. UNCHANGED <<status, buffer, exec, pass>>
    BY <1>2 DEF AckWaitLapses
  <2>1. ASSUME NEW k \in Job
        PROVE  /\ msg'[k].delivered = msg[k].delivered
               /\ msg'[k].state = "none" => msg[k].state = "none"
               /\ msg'[k].state = "acked" => msg[k].state = "acked"
               /\ msg'[k].state = "dead" => msg[k].state = "dead" \/ msg[k].delivered = MaxDeliver
    <3>1. msg[k].delivered \in 0..MaxDeliver
      BY <1>m DEF MsgRec
    <3> QED BY <1>2, <1>m, <1>d, <3>1 DEF AckWaitLapses, Redeliverable, MsgRec
  <2>2. HeldInv' /\ AckInv'
    BY <2>0, HeldKept DEF MessageInv, HeldInv
  <2>3. AckedInv' /\ DeadInv'
    BY <2>0, <2>1 DEF MessageInv, AckedInv, DeadInv
  <2>4. QueuedInv'
    BY <2>0, <2>1, QueuedKept DEF MessageInv
  <2>5. \A k \in Job : (LastHeld(k) => LastHeld(k)') /\ (LastBuffered(k) => LastBuffered(k)')
    BY <2>0 DEF LastHeld, LastBuffered
  <2>6. LastInv'
    BY <2>1, <2>5, LastKept DEF MessageInv
  <2> QED BY <2>2, <2>3, <2>4, <2>6 DEF MessageInv
<1>3. ASSUME NEW l \in Loop, LeaseLoop(l) PROVE MessageInv'
  <2>0. UNCHANGED <<msg, buffer, exec>>
    BY <1>3 DEF LeaseLoop, ReapScan, ReapOne, Nudge
  <2>1. pass[l].pc = "idle" /\ \A a \in Actor : a # l => pass'[a] = pass[a]
    BY <1>3, <1>p DEF LeaseLoop, ReapScan, ReapOne, Nudge, InPass
  <2>2. l \notin Worker
    BY DispatchAssumption
  <2>3. \A j \in Job : status'[j] = "queued" => status[j] = "queued"
    BY <1>3, <1>s DEF LeaseLoop, ReapScan, ReapOne, Nudge, set_job_status
  <2>4. \A w \in Worker : pass'[w] = pass[w]
    BY <2>1, <2>2 DEF Actor
  <2> QED BY <1>0, <2>0, <2>1, <2>3, <2>4
<1>4. CASE CancelRun \/ UNCHANGED vars
  BY <1>0, <1>4 DEF CancelRun, vars
<1>5. CASE CancelJobs
  <2>1. UNCHANGED <<msg, buffer, exec, pass>>
    BY <1>5 DEF CancelJobs
  <2>2. \A j \in Job : status'[j] = "queued" => status[j] = "queued"
    BY <1>5, <1>s DEF CancelJobs
  <2> QED BY <1>0, <2>1, <2>2
<1>6. ASSUME NEW p \in Process, Crash(p) PROVE FALSE
  BY <1>6 DEF Crash
<1> QED BY <1>1, <1>2, <1>3, <1>4, <1>5, <1>6

(* While no process has died and no store error has been dropped, a queued *)
(* row has its message or somebody working on it: for every plan, any      *)
(* number of passes that queue, publish and roll back the same job, and any*)
(* redelivery, lost ack or failed publish in between.                      *)
THEOREM QueuedIsOnASubject == Spec => []QueuedHasMessage
<1>1. Init => LossInv
  <2> SUFFICES ASSUME Init PROVE MessageInv
    BY DEF LossInv
  <2>1. MaxDeliver # 0
    BY DispatchAssumption
  <2>2. \A w \in Worker : exec[w].pc = "idle"
    BY DEF Init, IdleExec
  <2>3. \A j \in Job : msg[j].state = "none" /\ msg[j].delivered = 0 /\ status[j] = "pending"
    BY DEF Init
  <2> QED BY <2>1, <2>2, <2>3 DEF MessageInv, HeldInv, AckInv, AckedInv, QueuedInv, LastInv, DeadInv
<1>2. (TypeInv /\ LossInv) /\ [Next]_vars => LossInv'
  <2> SUFFICES ASSUME TypeInv, LossInv, [Next]_vars, NoLoss' PROVE MessageInv'
    BY DEF LossInv
  <2>1. MessageInv /\ ~Spend("crash") /\ ~Spend("store")
    BY NoLossBefore DEF LossInv
  <2> QED BY <2>1, AdvanceRunMessages, ConsumeMessages, OtherMessages DEF Next
<1>3. TypeInv /\ LossInv => QueuedHasMessage
  <2> SUFFICES ASSUME TypeInv, MessageInv, NEW j \in Job, status[j] = "queued"
               PROVE  \/ msg[j].state \in {"ready", "out"}
                      \/ \E a \in Actor : pass[a].job = j
                      \/ \E w \in Worker : exec[w].job = j
                      \/ \E w \in Worker : \E i \in 1..Len(buffer[w]) : buffer[w][i].job = j
    BY DEF QueuedHasMessage, LossInv, NoLoss
  <2>1. msg[j].state \in MsgState /\ "queued" \notin JobTerminal
    BY DEF TypeInv, TypeOK, MsgRec, JobTerminal
  <2>2. CASE msg[j].state = "none"
    BY <2>2 DEF MessageInv, QueuedInv, Publishing
  <2>3. CASE msg[j].state = "acked"
    BY <2>1, <2>3 DEF MessageInv, AckedInv
  <2>4. CASE msg[j].state = "dead"
    BY <2>1, <2>4 DEF MessageInv, DeadInv, LastInv, LastHeld, LastBuffered
  <2> QED BY <2>1, <2>2, <2>3, <2>4 DEF MsgState
<1> QED BY <1>1, <1>2, <1>3, InitType, NextType, PTL DEF Spec

=============================================================================
