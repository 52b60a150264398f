--------------------------- MODULE JobExecProofs ---------------------------
(***************************************************************************)
(* Proofs about JobExec, for any jobs, steps and conditions, any number of *)
(* VMs and deliveries, and any fault budget.                               *)
(***************************************************************************)
EXTENDS JobExec, TLAPS

(* The rows of ci_step are the pairs of a job and one of its step numbers. *)
LEMMA OpPairs ==
    /\ \A j \in Job : \A i \in 0..Steps[j] : <<j, i>> \in Op
    /\ \A o \in Op : o[1] \in Job /\ o[2] \in 0..Steps[o[1]] /\ o = <<o[1], o[2]>>
BY DEF Op

(* The checkout is no step of the workflow: it is never tolerated.         *)
LEMMA CheckoutNotTolerated == \A j \in Job : <<j, 0>> \notin Tolerated
BY ExecAssumption DEF StepNo

(* A delivery is one of a job, which has steps.                            *)
LEMMA JobOf == \A d \in Delivery : d[1] \in Job /\ d[2] \in Nat /\ Steps[d[1]] \in Nat
BY ExecAssumption DEF Delivery

(* A budgeted fault keeps the counters natural numbers.                    *)
LEMMA SpendType ==
    ASSUME left \in [Fault -> Nat], NEW f \in Fault, Spend(f)
    PROVE  left' \in [Fault -> Nat]
BY DEF Spend

-----------------------------------------------------------------------------
(* Types and VMs.  An orphan is a held VM only because nobody hands one    *)
(* back: whoever has a VM in hand is its only holder, and is alive.        *)
HoldInv ==
    /\ \A d \in Delivery : att[d].vm # NoVm => vm[att[d].vm] = "held" /\ att[d].vm \notin orphan
    /\ \A d, e \in Delivery : att[d].vm # NoVm /\ att[d].vm = att[e].vm => d = e

(* `failed` is only ever set on the way out of the loop.                   *)
PlaceOK ==
    \A d \in Delivery :
        /\ att[d].pc \in {"due", "acquire", "start", "checkout"} => att[d].step = 0 /\ ~att[d].failed
        /\ att[d].pc \in {"check", "decide"} => att[d].step > 0
        /\ att[d].pc \in {"post", "wait", "check", "decide"} => ~att[d].failed

Inv == TypeOK /\ HoldInv /\ PlaceOK

LEMMA InitInv == Init => Inv
<1> SUFFICES ASSUME Init PROVE Inv
  OBVIOUS
<1>1. NoVmAt("due") \in AttRec /\ NoVmAt("due").pc = "due" /\ NoVmAt("due").vm = NoVm
      /\ NoVmAt("due").step = 0 /\ NoVmAt("due").failed = FALSE
  BY DEF NoVmAt, AttRec, Idle, Pc, Terminal
<1>2. \A d \in Delivery : att[d] = NoVmAt("due")
  BY DEF Init
<1>3. HoldInv /\ PlaceOK
  BY <1>1, <1>2 DEF HoldInv, PlaceOK
<1>4. att \in [Delivery -> AttRec]
  BY <1>1 DEF Init
<1>5. \A d \in Delivery : att[d].step <= Steps[d[1]]
  BY <1>1, <1>2, JobOf
<1>6. job \in [Job -> {"queued", "running"} \cup Terminal] /\ left \in [Fault -> Nat]
  BY ExecAssumption DEF Init, Terminal
<1>7. TypeOK
  BY <1>1, <1>2, <1>4, <1>5, <1>6 DEF Init, TypeOK, Idle, StepStatus
<1> QED BY <1>3, <1>7 DEF Inv

(* One attempt is written, in a way that agrees with its VM and its steps. *)
AttOK ==
    /\ att \in [Delivery -> AttRec]
    /\ \A d \in Delivery : att[d].step <= Steps[d[1]]
    /\ \A d \in Delivery : att[d].vm = NoVm <=> att[d].pc \in {"due", "over", "acquire", "finish"}

LEMMA AttWritten ==
    ASSUME AttOK, NEW d \in Delivery, NEW r \in AttRec, att' = [att EXCEPT ![d] = r],
           r.step <= Steps[d[1]], r.vm = NoVm <=> r.pc \in {"due", "over", "acquire", "finish"}
    PROVE  AttOK' /\ att'[d] = r /\ \A e \in Delivery : e # d => att'[e] = att[e]
BY DEF AttOK

(* The attempt goes on with its VM in hand.                                *)
LEMMA GotoWithVm ==
    ASSUME AttOK, NEW d \in Delivery, NEW p \in Pc, Goto(d, p), att[d].vm # NoVm,
           p \notin {"due", "over", "acquire", "finish"}
    PROVE  AttOK' /\ att'[d] = [att[d] EXCEPT !.pc = p] /\ \A e \in Delivery : e # d => att'[e] = att[e]
<1> DEFINE r == [att[d] EXCEPT !.pc = p]
<1>1. att[d] \in AttRec /\ att[d].step <= Steps[d[1]]
  BY DEF AttOK
<1>2. r \in AttRec
  BY <1>1 DEF AttRec
<1>3. att' = [att EXCEPT ![d] = r]
  BY DEF Goto
<1>4. r.pc = p /\ r.vm = att[d].vm /\ r.step = att[d].step
  BY <1>1 DEF AttRec
<1> HIDE DEF r
<1>5. AttOK' /\ att'[d] = r /\ \A e \in Delivery : e # d => att'[e] = att[e]
  BY <1>1, <1>2, <1>3, <1>4, AttWritten
<1> QED BY <1>5 DEF r

(* The step loop goes on, or breaks.                                       *)
LEMMA LoopStep ==
    ASSUME AttOK, NEW d \in Delivery, NEW b \in BOOLEAN, att' = NextStep(d, b), att[d].vm # NoVm
    PROVE  /\ AttOK' /\ \A e \in Delivery : e # d => att'[e] = att[e]
           /\ att'[d].vm = att[d].vm /\ att'[d].again = att[d].again /\ att'[d].failed = b
           /\ \/ /\ att[d].step = Steps[d[1]] /\ att'[d].pc = "release" /\ att'[d].step = att[d].step
                 /\ att'[d].outcome = (IF b THEN "failure" ELSE "success")
              \/ att[d].step < Steps[d[1]] /\ att'[d].pc = "check" /\ att'[d].step = att[d].step + 1
<1>1. att[d] \in AttRec /\ att[d].step \in Nat /\ Steps[d[1]] \in Nat /\ att[d].step <= Steps[d[1]]
  BY ExecAssumption, JobOf DEF AttOK, AttRec
<1>2. CASE att[d].step = Steps[d[1]]
  <2> DEFINE r == [att[d] EXCEPT !.pc = "release", !.failed = b,
                                 !.outcome = IF b THEN "failure" ELSE "success"]
  <2>1. r \in AttRec
    BY <1>1 DEF AttRec, Idle, Pc, Terminal
  <2>2. att' = [att EXCEPT ![d] = r]
    BY <1>2 DEF NextStep
  <2>3. /\ r.pc = "release" /\ r.vm = att[d].vm /\ r.step = att[d].step /\ r.again = att[d].again
        /\ r.outcome = (IF b THEN "failure" ELSE "success") /\ r.failed = b
    BY <1>1 DEF AttRec
  <2> HIDE DEF r
  <2>4. AttOK' /\ att'[d] = r /\ \A e \in Delivery : e # d => att'[e] = att[e]
    BY <1>1, <2>1, <2>2, <2>3, AttWritten
  <2> QED BY <1>2, <2>3, <2>4
<1>3. CASE att[d].step # Steps[d[1]]
  <2> DEFINE r == [att[d] EXCEPT !.pc = "check", !.step = att[d].step + 1, !.failed = b]
  <2>1. r \in AttRec
    <3>1. att[d].step + 1 \in Nat
      BY <1>1
    <3> QED BY <1>1, <3>1 DEF AttRec, Idle, Pc
  <2>2. att' = [att EXCEPT ![d] = r]
    BY <1>3 DEF NextStep
  <2>3. r.pc = "check" /\ r.vm = att[d].vm /\ r.step = att[d].step + 1 /\ r.again = att[d].again /\ r.failed = b
    BY <1>1 DEF AttRec
  <2>4. att[d].step < Steps[d[1]] /\ r.step <= Steps[d[1]]
    BY <1>1, <1>3, <2>3
  <2> HIDE DEF r
  <2>5. AttOK' /\ att'[d] = r /\ \A e \in Delivery : e # d => att'[e] = att[e]
    BY <2>1, <2>2, <2>3, <2>4, AttWritten
  <2> QED BY <2>3, <2>4, <2>5
<1> QED BY <1>2, <1>3

LEMMA LoopBreak ==
    ASSUME AttOK, NEW d \in Delivery, att' = Break(d), att[d].vm # NoVm
    PROVE  /\ AttOK' /\ \A e \in Delivery : e # d => att'[e] = att[e]
           /\ att'[d].vm = att[d].vm /\ att'[d].again = att[d].again /\ att'[d].step = att[d].step
           /\ att'[d].pc = "release" /\ att'[d].outcome = "failure"
<1> DEFINE r == [att[d] EXCEPT !.pc = "release", !.failed = TRUE, !.outcome = "failure"]
<1>1. att[d] \in AttRec /\ att[d].step <= Steps[d[1]]
  BY DEF AttOK
<1>2. r \in AttRec
  BY <1>1 DEF AttRec, Idle, Pc, Terminal
<1>3. att' = [att EXCEPT ![d] = r]
  BY DEF Break
<1>4. /\ r.pc = "release" /\ r.vm = att[d].vm /\ r.step = att[d].step /\ r.again = att[d].again
      /\ r.outcome = "failure"
  BY <1>1 DEF AttRec
<1> HIDE DEF r
<1>5. AttOK' /\ att'[d] = r /\ \A e \in Delivery : e # d => att'[e] = att[e]
  BY <1>1, <1>2, <1>3, <1>4, AttWritten
<1> QED BY <1>4, <1>5

(* The attempt is over.                                                    *)
LEMMA OverIs ==
    Over \in AttRec /\ Over.pc = "over" /\ Over.vm = NoVm /\ Over.step = 0
BY DEF Over, NoVmAt, AttRec, Idle, Pc, Terminal

LEMMA AttemptOver ==
    ASSUME AttOK, NEW d \in Delivery, att' = [att EXCEPT ![d] = Over]
    PROVE  /\ AttOK' /\ att'[d].pc = "over" /\ att'[d].vm = NoVm
           /\ \A e \in Delivery : e # d => att'[e] = att[e]
<1>1. Over.step <= Steps[d[1]]
  BY OverIs, JobOf
<1>2. AttOK' /\ att'[d] = Over /\ \A e \in Delivery : e # d => att'[e] = att[e]
  BY <1>1, OverIs, AttWritten
<1> QED BY <1>2, OverIs

-----------------------------------------------------------------------------
(* What each step of an attempt does to it.  Others(d) is what it leaves   *)
(* alone.                                                                  *)
Others(d) == \A e \in Delivery : e # d => att'[e] = att[e]

LEMMA DeliverDoes ==
    ASSUME AttOK, NEW d \in Delivery, Deliver(d)
    PROVE  /\ AttOK' /\ Others(d) /\ att[d].pc = "due" /\ att[d].vm = NoVm
           /\ att'[d].pc = "acquire" /\ att'[d].vm = NoVm /\ att'[d].step = att[d].step
           /\ att'[d].failed = att[d].failed
<1> DEFINE r == [att[d] EXCEPT !.pc = "acquire"]
<1>1. att[d] \in AttRec /\ att[d].step <= Steps[d[1]] /\ att[d].pc = "due" /\ att[d].vm = NoVm
  BY DEF Deliver, At, AttOK
<1>2. r \in AttRec
  BY <1>1 DEF AttRec, Idle, Pc
<1>3. /\ r.pc = "acquire" /\ r.vm = NoVm /\ r.step = att[d].step /\ r.failed = att[d].failed
  BY <1>1 DEF AttRec
<1>4. att' = [att EXCEPT ![d] = r]
  BY DEF Deliver
<1> HIDE DEF r
<1>5. AttOK' /\ att'[d] = r /\ Others(d)
  BY <1>1, <1>2, <1>3, <1>4, AttWritten DEF Others
<1> QED BY <1>1, <1>3, <1>5

LEMMA AcquireDoes ==
    ASSUME AttOK, NEW d \in Delivery, Acquire(d)
    PROVE  /\ AttOK' /\ Others(d) /\ att[d].pc = "acquire"
           /\ att'[d].pc = "start" /\ att'[d].step = att[d].step /\ att'[d].failed = att[d].failed
           /\ att'[d].again = (op[att'[d].vm][<<d[1], 0>>] # "none")
           /\ att'[d].vm \in Vm /\ vm[att'[d].vm] # "held"
           /\ vm' = [vm EXCEPT ![att'[d].vm] = "held"]
<1>1. PICK v \in Vm : /\ vm[v] # "held"
                      /\ vm' = [vm EXCEPT ![v] = "held"]
                      /\ att' = [att EXCEPT ![d] = [@ EXCEPT !.pc = "start", !.vm = v,
                                                    !.again = op[v][<<d[1], 0>>] # "none"]]
  BY DEF Acquire, Warm
<1> DEFINE r == [att[d] EXCEPT !.pc = "start", !.vm = v, !.again = op[v][<<d[1], 0>>] # "none"]
<1>2. att[d] \in AttRec /\ att[d].step <= Steps[d[1]]
  BY DEF AttOK
<1>3. r \in AttRec
  BY <1>2 DEF AttRec, Idle, Pc
<1>4. /\ r.pc = "start" /\ r.vm = v /\ r.step = att[d].step /\ r.failed = att[d].failed
      /\ r.again = (op[v][<<d[1], 0>>] # "none") /\ r.vm # NoVm
  BY <1>2, ExecAssumption DEF AttRec
<1>5. att' = [att EXCEPT ![d] = r] /\ att[d].pc = "acquire"
  BY <1>1 DEF Acquire, At
<1> HIDE DEF r
<1>6. AttOK' /\ att'[d] = r /\ Others(d)
  BY <1>2, <1>3, <1>4, <1>5, AttWritten DEF Others
<1> QED BY <1>1, <1>4, <1>5, <1>6

LEMMA CheckDoes ==
    ASSUME AttOK, NEW d \in Delivery, CheckCancelled(d)
    PROVE  /\ AttOK' /\ Others(d) /\ att[d].pc = "check"
           /\ att'[d].vm = att[d].vm /\ att'[d].step = att[d].step /\ att'[d].again = att[d].again
           /\ att'[d].failed = att[d].failed
           /\ \/ job[d[1]] = "cancelled" /\ att'[d].pc = "release" /\ att'[d].outcome = "cancelled"
              \/ job[d[1]] # "cancelled" /\ att'[d].pc = "decide"
<1>1. att[d] \in AttRec /\ att[d].step <= Steps[d[1]] /\ att[d].vm # NoVm /\ att[d].pc = "check"
  BY DEF AttOK, CheckCancelled, At
<1>2. CASE job[d[1]] = "cancelled"
  <2> DEFINE r == [att[d] EXCEPT !.pc = "release", !.outcome = "cancelled"]
  <2>1. r \in AttRec
    BY <1>1 DEF AttRec, Idle, Pc, Terminal
  <2>2. /\ r.pc = "release" /\ r.vm = att[d].vm /\ r.step = att[d].step /\ r.again = att[d].again
        /\ r.outcome = "cancelled" /\ r.failed = att[d].failed
    BY <1>1 DEF AttRec
  <2>3. att' = [att EXCEPT ![d] = r]
    BY <1>2 DEF CheckCancelled
  <2> HIDE DEF r
  <2>4. AttOK' /\ att'[d] = r /\ Others(d)
    BY <1>1, <2>1, <2>2, <2>3, AttWritten DEF Others
  <2> QED BY <1>1, <1>2, <2>2, <2>4
<1>3. CASE job[d[1]] # "cancelled"
  <2>1. Goto(d, "decide")
    BY <1>3 DEF CheckCancelled
  <2>2. AttOK' /\ att'[d] = [att[d] EXCEPT !.pc = "decide"] /\ Others(d)
    BY <1>1, <2>1, GotoWithVm DEF Others, Idle, Pc
  <2> QED BY <1>1, <1>3, <2>2 DEF AttRec
<1> QED BY <1>2, <1>3

LEMMA ReleaseDoes ==
    ASSUME AttOK, NEW d \in Delivery, Release(d)
    PROVE  /\ AttOK' /\ Others(d) /\ att[d].pc = "release"
           /\ att'[d].pc = "finish" /\ att'[d].vm = NoVm /\ att'[d].again = att[d].again
           /\ att'[d].step = att[d].step /\ att'[d].outcome = att[d].outcome
           /\ \E s \in {"gone", "idle"} : vm' = [vm EXCEPT ![att[d].vm] = s]
<1>1. att[d] \in AttRec /\ att[d].step <= Steps[d[1]]
  BY DEF AttOK
<1> DEFINE r == [att[d] EXCEPT !.pc = "finish", !.vm = NoVm]
<1>2. r \in AttRec
  BY <1>1 DEF AttRec, Idle, Pc
<1>3. /\ r.pc = "finish" /\ r.vm = NoVm /\ r.step = att[d].step /\ r.again = att[d].again
      /\ r.outcome = att[d].outcome
  BY <1>1 DEF AttRec
<1>4. att' = [att EXCEPT ![d] = r] /\ att[d].pc = "release"
  BY DEF Release, At
<1>5. \E s \in {"gone", "idle"} : vm' = [vm EXCEPT ![att[d].vm] = s]
  BY DEF Release, HandBack
<1> HIDE DEF r
<1>6. AttOK' /\ att'[d] = r /\ Others(d)
  BY <1>1, <1>2, <1>3, <1>4, AttWritten DEF Others
<1> QED BY <1>3, <1>4, <1>5, <1>6

(* What the daemon's answers do: the step loop goes on, with one row       *)
(* written, or the attempt has failed.                                     *)
LEMMA StoreDoes ==
    ASSUME AttOK, NEW d \in Delivery, StoreFails(d)
    PROVE  /\ AttOK' /\ Others(d) /\ att[d].pc \in {"checkout", "post", "wait", "check", "decide"}
           /\ att'[d].vm = att[d].vm /\ att'[d].again = att[d].again
           /\ att'[d].pc = "release" /\ att'[d].outcome = "failure"
<1> DEFINE r == [att[d] EXCEPT !.pc = "release", !.outcome = "failure"]
<1>1. att[d] \in AttRec /\ att[d].step <= Steps[d[1]]
  BY DEF AttOK
<1>2. r \in AttRec
  BY <1>1 DEF AttRec, Idle, Pc, Terminal
<1>3. att' = [att EXCEPT ![d] = r] /\ att[d].pc \in {"checkout", "post", "wait", "check", "decide"}
  BY DEF StoreFails
<1>4. /\ r.pc = "release" /\ r.vm = att[d].vm /\ r.step = att[d].step /\ r.again = att[d].again
      /\ r.outcome = "failure"
  BY <1>1 DEF AttRec
<1>5. att[d].vm # NoVm
  BY <1>3 DEF AttOK
<1> HIDE DEF r
<1>6. AttOK' /\ att'[d] = r /\ Others(d)
  BY <1>1, <1>2, <1>3, <1>4, <1>5, AttWritten DEF Others
<1> QED BY <1>3, <1>4, <1>6

LEMMA AnswerDoes ==
    ASSUME AttOK, NEW d \in Delivery, Poll(d) \/ PollFailed(d) \/ ExecFails(d)
    PROVE  /\ AttOK' /\ Others(d) /\ att[d].pc \in {"post", "wait"}
           /\ att'[d].vm = att[d].vm /\ att'[d].again = att[d].again
           /\ \/ att'[d].pc = "release" /\ att'[d].outcome = "failure"
              \/ /\ att'[d].failed = att[d].failed
                 /\ \/ row' = [row EXCEPT ![<<d[1], att[d].step>>] = "success"]
                       /\ att[d].pc = "wait" /\ op[att[d].vm][<<d[1], att[d].step>>] = "ok"
                    \/ row' = [row EXCEPT ![<<d[1], att[d].step>>] = "failure"]
                       /\ <<d[1], att[d].step>> \in Tolerated
                 /\ \/ /\ att[d].step = Steps[d[1]] /\ att'[d].pc = "release"
                       /\ att'[d].outcome = (IF att[d].failed THEN "failure" ELSE "success")
                       /\ att'[d].step = att[d].step
                    \/ /\ att[d].step < Steps[d[1]] /\ att'[d].pc = "check"
                       /\ att'[d].step = att[d].step + 1
<1>1. /\ att[d].pc \in {"post", "wait"}
      /\ att[d].failed \in BOOLEAN
  BY DEF AttOK, AttRec, Poll, PollFailed, ExecFails, At
<1>2. att[d].vm # NoVm
  BY <1>1 DEF AttOK
<1>3. CASE att' = Break(d)
  BY <1>1, <1>2, <1>3, LoopBreak DEF Others
<1>4. CASE att' = NextStep(d, att[d].failed) /\ att' # Break(d)
  <2>3. \/ row' = [row EXCEPT ![<<d[1], att[d].step>>] = "success"]
           /\ att[d].pc = "wait" /\ op[att[d].vm][<<d[1], att[d].step>>] = "ok"
        \/ row' = [row EXCEPT ![<<d[1], att[d].step>>] = "failure"] /\ <<d[1], att[d].step>> \in Tolerated
    BY <1>4 DEF Poll, PollFailed, ExecFails, Lost, SetRow, OpOf, At
  <2> QED BY <1>1, <1>2, <1>4, <2>3, LoopStep DEF Others
<1>5. att' = Break(d) \/ att' = NextStep(d, att[d].failed)
  BY DEF Poll, PollFailed, ExecFails, Lost
<1> QED BY <1>3, <1>4, <1>5

LEMMA DecideDoes ==
    ASSUME AttOK, PlaceOK, NEW d \in Delivery, DecideStep(d)
    PROVE  /\ AttOK' /\ Others(d) /\ att[d].pc = "decide"
           /\ att'[d].vm = att[d].vm /\ att'[d].again = att[d].again
           /\ \/ att'[d].pc = "release" /\ att'[d].outcome = "failure"
              \/ /\ row' = [row EXCEPT ![<<d[1], att[d].step>>] = "skipped"]
                 /\ att'[d].failed = att[d].failed
                 /\ att[d].failed \/ Condition[<<d[1], att[d].step>>] = "failure"
                 /\ \/ /\ att[d].step = Steps[d[1]] /\ att'[d].pc = "release"
                       /\ att'[d].outcome = (IF att[d].failed THEN "failure" ELSE "success")
                       /\ att'[d].step = att[d].step
                    \/ /\ att[d].step < Steps[d[1]] /\ att'[d].pc = "check"
                       /\ att'[d].step = att[d].step + 1
              \/ /\ row' = [row EXCEPT ![<<d[1], att[d].step>>] = "running"]
                 /\ att'[d].pc = "post" /\ att'[d].step = att[d].step
                 /\ att'[d].failed = att[d].failed
<1>1. att[d].pc = "decide" /\ att[d].failed \in BOOLEAN /\ att[d] \in AttRec
  BY DEF AttOK, AttRec, DecideStep, At
<1>2. att[d].vm # NoVm
  BY <1>1 DEF AttOK
<1>3. CASE att' = Break(d)
  BY <1>1, <1>2, <1>3, LoopBreak DEF Others
<1>4. CASE /\ SetRow(d[1], att[d].step, "skipped") /\ att' = NextStep(d, att[d].failed)
           /\ "skip" \in ShouldRunStep(att[d].failed, Condition[<<d[1], att[d].step>>])
  <2>1. att[d].failed \/ Condition[<<d[1], att[d].step>>] = "failure"
    <3>1. att[d].step > 0
      BY <1>1 DEF PlaceOK
    <3>2. <<d[1], att[d].step>> \in StepNo
      <4>1. d[1] \in Job /\ att[d].step \in 0..Steps[d[1]]
        BY <1>1, JobOf DEF AttOK, AttRec
      <4>2. <<d[1], att[d].step>> \in Op /\ <<d[1], att[d].step>>[2] = att[d].step
        BY <4>1, OpPairs
      <4> QED BY <3>1, <4>2 DEF StepNo
    <3>3. Condition[<<d[1], att[d].step>>] \in ConditionKind
      BY <3>2, ExecAssumption
    <3> QED BY <1>4, <3>3 DEF ShouldRunStep, ConditionKind
  <2> QED BY <1>1, <1>2, <1>4, <2>1, LoopStep DEF Others, SetRow
<1>5. CASE SetRow(d[1], att[d].step, "running") /\ Goto(d, "post")
  <2>1. AttOK' /\ att'[d] = [att[d] EXCEPT !.pc = "post"] /\ Others(d)
    BY <1>2, <1>5, GotoWithVm DEF Others, Idle, Pc
  <2> QED BY <1>1, <1>5, <2>1 DEF SetRow, AttRec
<1> QED BY <1>3, <1>4, <1>5 DEF DecideStep

(* The three steps that only move on.                                      *)
LEMMA MoveDoes ==
    ASSUME AttOK, NEW d \in Delivery, NEW p \in {"checkout", "post", "wait"}, Goto(d, p), att[d].vm # NoVm
    PROVE  /\ AttOK' /\ Others(d) /\ att'[d].pc = p
           /\ att'[d].vm = att[d].vm /\ att'[d].again = att[d].again /\ att'[d].step = att[d].step
           /\ att'[d].failed = att[d].failed
<1>1. AttOK' /\ att'[d] = [att[d] EXCEPT !.pc = p] /\ Others(d)
  BY GotoWithVm DEF Others, Idle, Pc
<1> QED BY <1>1 DEF AttOK, AttRec

-----------------------------------------------------------------------------
(* Types and holds, one action at a time.                                  *)

LEMMA AttPart == Inv => AttOK /\ HoldInv /\ TypeOK /\ PlaceOK
BY DEF Inv, AttOK, TypeOK, Idle

(* What the daemon may say of an operation.                                *)
OpState == {"none", "running", "ok", "bad", "failed"}

(* A step that moves no VM: what is left to show is what it writes.        *)
LEMMA NoVmMoves ==
    ASSUME Inv, AttOK', NEW d \in Delivery, Others(d), att'[d].vm = att[d].vm, vm' = vm, orphan' = orphan,
           job' \in [Job -> {"queued", "running"} \cup Terminal],
           row' \in [Op -> StepStatus], tree' \in [Vm -> Job \cup {NoJob}],
           op' \in [Vm -> [Op -> OpState]],
           late' \in [Delivery -> Nat], left' \in [Fault -> Nat], shared' \subseteq Job,
           cancel' \in [Job -> {"no", "stands", "overruled"}]
    PROVE  TypeOK' /\ HoldInv'
<1>1. TypeOK'
  BY DEF Inv, TypeOK, AttOK, OpState, Idle
<1>2. \A e \in Delivery : att'[e].vm = att[e].vm
  BY DEF Others
<1>3. HoldInv'
  BY <1>2 DEF Inv, HoldInv
<1> QED BY <1>1, <1>3

(* The daemon writes one operation of one VM.                              *)
LEMMA OpWritten ==
    ASSUME op \in [Vm -> [Op -> OpState]], NEW v, NEW o, NEW s \in OpState, op' = [op EXCEPT ![v][o] = s]
    PROVE  op' \in [Vm -> [Op -> OpState]]
<1> SUFFICES ASSUME NEW u \in Vm PROVE op'[u] \in [Op -> OpState]
  OBVIOUS
<1> QED OBVIOUS

(* A VM is handed back: by its only holder, so it is nobody's orphan.      *)
LEMMA VmHandedBack ==
    ASSUME Inv, AttOK', NEW d \in Delivery, Others(d), att[d].vm # NoVm, att'[d].vm = NoVm,
           NEW s \in {"gone", "idle"}, vm' = [vm EXCEPT ![att[d].vm] = s],
           UNCHANGED <<job, row, orphan, tree, op, late, left, told>>
    PROVE  TypeOK' /\ HoldInv'
<1>1. att[d].vm \in Vm /\ att[d].vm \notin orphan /\ vm \in [Vm -> {"unmade", "idle", "held", "gone"}]
  BY AttPart DEF AttOK, AttRec, HoldInv, TypeOK
<1>2. TypeOK'
  <2>1. /\ att' \in [Delivery -> AttRec]
        /\ \A e \in Delivery : att'[e].step <= Steps[e[1]]
        /\ \A e \in Delivery : att'[e].vm = NoVm <=> att'[e].pc \in Idle \cup {"acquire", "finish"}
    BY DEF AttOK, Idle
  <2>2. /\ vm' \in [Vm -> {"unmade", "idle", "held", "gone"}]
        /\ orphan' \subseteq {v \in Vm : vm'[v] = "held"}
    BY <1>1 DEF Inv, TypeOK
  <2> QED BY <2>1, <2>2 DEF Inv, TypeOK, told
<1>3. \A e \in Delivery : e # d => att'[e].vm = att[e].vm
  BY DEF Others
<1>4. HoldInv'
  <2> SUFFICES ASSUME NEW e \in Delivery, att'[e].vm # NoVm
               PROVE  /\ vm'[att'[e].vm] = "held" /\ att'[e].vm \notin orphan
                      /\ \A f \in Delivery : att'[e].vm = att'[f].vm => e = f
    BY DEF HoldInv
  <2>1. e # d /\ att[e].vm # att[d].vm /\ att'[e].vm = att[e].vm
    BY <1>3 DEF Inv, HoldInv
  <2>2. att[e].vm \in Vm /\ vm[att[e].vm] = "held" /\ att[e].vm \notin orphan
    BY <2>1, AttPart DEF AttOK, AttRec, HoldInv
  <2> QED BY <1>1, <1>3, <2>1, <2>2 DEF Inv, HoldInv
<1> QED BY <1>2, <1>4

LEMMA StatusTypes ==
    ASSUME TypeOK, NEW d \in Delivery, NEW s \in Terminal, SetJobStatus(d[1], s)
    PROVE  /\ job' \in [Job -> {"queued", "running"} \cup Terminal]
           /\ cancel' \in [Job -> {"no", "stands", "overruled"}]
BY DEF SetJobStatus, TypeOK

LEMMA RunJobHold ==
    ASSUME Inv, NEW d \in Delivery, RunJob(d) PROVE TypeOK' /\ HoldInv'
<1>t. AttOK /\ TypeOK /\ HoldInv /\ PlaceOK
  BY AttPart
<1>i. att[d].step \in 0..Steps[d[1]] /\ <<d[1], att[d].step>> \in Op /\ <<d[1], 0>> \in Op
  <2>1. att[d].step \in Nat /\ att[d].step <= Steps[d[1]] /\ Steps[d[1]] \in Nat
    BY <1>t, JobOf DEF AttOK, AttRec
  <2>2. att[d].step \in 0..Steps[d[1]] /\ 0 \in 0..Steps[d[1]] /\ d[1] \in Job
    BY <2>1, JobOf
  <2> QED BY <2>2, OpPairs
<1>h. att[d].pc \notin {"due", "over", "acquire", "finish"} => att[d].vm # NoVm /\ att[d].vm \in Vm
  BY <1>t DEF AttOK, AttRec
<1>1. CASE Deliver(d)
  <2>1. job' \in [Job -> {"queued", "running"} \cup Terminal]
    BY <1>1, <1>t DEF Deliver, TypeOK
  <2>2. AttOK' /\ Others(d) /\ att'[d].vm = att[d].vm
    BY <1>1, <1>t, DeliverDoes
  <2>3. left' \in [Fault -> Nat]
    BY <1>1, <1>t, SpendType DEF Deliver, Redelivers, TypeOK, Fault
  <2>4. shared' \subseteq Job
    BY <1>1, <1>t, JobOf DEF Deliver, TypeOK
  <2> QED BY <1>1, <1>t, <2>1, <2>2, <2>3, <2>4, NoVmMoves DEF OpState, Deliver, guest, TypeOK
<1>2. CASE Acquire(d)
  <2>1. /\ AttOK' /\ Others(d) /\ att'[d].vm \in Vm /\ vm[att'[d].vm] # "held"
        /\ vm' = [vm EXCEPT ![att'[d].vm] = "held"]
        /\ UNCHANGED <<job, row, orphan, tree, op, late, left, told>>
    BY <1>2, <1>t, AcquireDoes DEF Acquire
  <2>2. TypeOK'
    <3>1. /\ att' \in [Delivery -> AttRec]
          /\ \A e \in Delivery : att'[e].step <= Steps[e[1]]
          /\ \A e \in Delivery : att'[e].vm = NoVm <=> att'[e].pc \in Idle \cup {"acquire", "finish"}
      BY <2>1 DEF AttOK, Idle
    <3>2. /\ vm' \in [Vm -> {"unmade", "idle", "held", "gone"}]
          /\ orphan' \subseteq {v \in Vm : vm'[v] = "held"}
      BY <1>t, <2>1 DEF TypeOK
    <3> QED BY <1>t, <2>1, <3>1, <3>2 DEF TypeOK, told
  <2>3. HoldInv'
    <3>1. \A e \in Delivery : e # d => att'[e].vm = att[e].vm
      BY <2>1 DEF Others
    <3>2. \A e \in Delivery : att[e].vm # NoVm => att[e].vm \in Vm /\ vm[att[e].vm] = "held"
      BY <1>t DEF AttOK, AttRec, HoldInv
    <3>3. att'[d].vm \notin orphan
      BY <1>t, <2>1 DEF TypeOK
    <3>4. vm'[att'[d].vm] = "held" /\ \A u \in Vm : vm[u] = "held" => vm'[u] = "held"
      BY <1>t, <2>1 DEF TypeOK
    <3>5. \A e \in Delivery : att'[e].vm # NoVm => vm'[att'[e].vm] = "held" /\ att'[e].vm \notin orphan'
      BY <1>t, <2>1, <3>1, <3>2, <3>3, <3>4 DEF HoldInv
    <3>6. \A e \in Delivery : e # d => att'[e].vm # att'[d].vm
      BY <2>1, <3>1, <3>2, ExecAssumption
    <3> QED BY <1>t, <3>1, <3>5, <3>6 DEF HoldInv
  <2> QED BY <2>2, <2>3
<1>3. CASE StartJob(d)
  <2>0. att[d].pc = "start"
    BY <1>3 DEF StartJob, At
  <2>1. CASE job[d[1]] \in Terminal
    <3>1. AttOK' /\ Others(d) /\ att'[d].vm = NoVm
      BY <1>3, <1>t, <2>1, AttemptOver DEF StartJob, Others
    <3>2. PICK s \in {"gone", "idle"} : vm' = [vm EXCEPT ![att[d].vm] = s]
      BY <1>3, <2>1 DEF StartJob, HandBack
    <3> QED BY <1>3, <1>h, <2>0, <3>1, <3>2, VmHandedBack DEF StartJob
  <2>2. CASE job[d[1]] \notin Terminal
    <3>1. AttOK' /\ Others(d) /\ att'[d].vm = att[d].vm
      BY <1>3, <1>t, <1>h, <2>0, <2>2, MoveDoes DEF StartJob
    <3> QED BY <1>3, <1>t, <2>2, <3>1, NoVmMoves DEF OpState, StartJob, TypeOK, told
  <2> QED BY <2>1, <2>2
<1>4. CASE Checkout(d)
  <2>0. att[d].pc = "checkout"
    BY <1>4 DEF Checkout, At
  <2>1. row' \in [Op -> StepStatus]
    BY <1>4, <1>t, <1>i DEF Checkout, SetRow, TypeOK, StepStatus
  <2>2. AttOK' /\ Others(d) /\ att'[d].vm = att[d].vm
    BY <1>4, <1>t, <1>h, <2>0, LoopBreak, MoveDoes DEF Checkout, Others
  <2> QED BY <1>4, <1>t, <2>1, <2>2, NoVmMoves DEF OpState, Checkout, TypeOK, guest, told
<1>5. CASE CheckCancelled(d)
  BY <1>5, <1>t, CheckDoes, NoVmMoves DEF OpState, CheckCancelled, TypeOK, guest, told
<1>6. CASE DecideStep(d)
  <2>1. row' \in [Op -> StepStatus]
    <3>1. PICK s \in StepStatus : row' = [row EXCEPT ![<<d[1], att[d].step>>] = s]
      BY <1>6, <1>t, <1>i DEF DecideStep, SetRow, TypeOK, StepStatus
    <3> QED BY <1>t, <3>1 DEF TypeOK
  <2> QED BY <1>6, <1>t, <2>1, DecideDoes, NoVmMoves DEF OpState, DecideStep, TypeOK, guest, told
<1>7. CASE Exec(d)
  <2>0. att[d].pc = "post"
    BY <1>7 DEF Exec, At
  <2>1. AttOK' /\ Others(d) /\ att'[d].vm = att[d].vm
    BY <1>7, <1>t, <1>h, <2>0, MoveDoes DEF Exec
  <2>2. op' \in [Vm -> [Op -> OpState]]
    BY <1>7, <1>t, OpWritten DEF Exec, OpOf, OpState, TypeOK
  <2>3. late' \in [Delivery -> Nat]
    <3>1. late[d] + 1 \in Nat
      BY <1>t DEF TypeOK
    <3>2. late' = late \/ late' = [late EXCEPT ![d] = late[d] + 1] \/ late' = [late EXCEPT ![d] = late[d]]
      BY <1>7 DEF Exec
    <3> QED BY <1>t, <3>1, <3>2 DEF TypeOK
  <2> QED BY <1>7, <1>t, <2>1, <2>2, <2>3, NoVmMoves DEF OpState, Exec, TypeOK, told
<1>8. CASE Poll(d) \/ PollFailed(d) \/ ExecFails(d) \/ StoreFails(d)
  <2>1. row' \in [Op -> StepStatus]
    BY <1>8, <1>t DEF Poll, PollFailed, ExecFails, StoreFails, Lost, SetRow, TypeOK, StepStatus
  <2>2. left' \in [Fault -> Nat]
    BY <1>8, <1>t, SpendType DEF Poll, PollFailed, ExecFails, StoreFails, TypeOK, Fault
  <2>3. AttOK' /\ Others(d) /\ att'[d].vm = att[d].vm
    BY <1>8, <1>t, AnswerDoes, StoreDoes
  <2> QED BY <1>8, <1>t, <2>1, <2>2, <2>3, NoVmMoves
          DEF OpState, Poll, PollFailed, ExecFails, StoreFails, Lost, TypeOK, guest, told
<1>9. CASE Release(d)
  BY <1>9, <1>t, <1>h, ReleaseDoes, VmHandedBack DEF Release
<1>10. CASE FinishJob(d)
  <2>0. att[d].pc = "finish" /\ att[d].outcome \in Terminal
    BY <1>10, <1>t DEF FinishJob, At, AttOK, AttRec
  <2>1. AttOK' /\ Others(d) /\ att'[d].vm = att[d].vm
    BY <1>10, <1>t, <2>0, AttemptOver DEF FinishJob, Others, AttOK
  <2>2. PICK s \in Terminal : SetJobStatus(d[1], s)
    BY <1>10, <2>0 DEF FinishJob, Terminal
  <2>3. /\ job' \in [Job -> {"queued", "running"} \cup Terminal]
        /\ cancel' \in [Job -> {"no", "stands", "overruled"}]
    BY <1>t, <2>2, StatusTypes
  <2> QED BY <1>10, <1>t, <2>1, <2>3, NoVmMoves DEF OpState, FinishJob, TypeOK, guest
<1>11. CASE AttemptFails(d)
  <2>1. AttOK' /\ Others(d) /\ att'[d].vm = NoVm
    BY <1>11, <1>t, AttemptOver DEF AttemptFails, Others
  <2>2. /\ job' \in [Job -> {"queued", "running"} \cup Terminal]
        /\ cancel' \in [Job -> {"no", "stands", "overruled"}]
    BY <1>11, <1>t, StatusTypes DEF AttemptFails, TypeOK, Terminal
  <2>3. left' \in [Fault -> Nat]
    BY <1>11, <1>t, SpendType DEF AttemptFails, TypeOK, Fault
  <2>4. TypeOK'
    BY <1>11, <1>t, <2>1, <2>2, <2>3 DEF AttemptFails, TypeOK, AttOK, guest, Idle
  <2>5. HoldInv'
    BY <1>11, <1>t, <2>1 DEF AttemptFails, HoldInv, Others, guest
  <2> QED BY <2>4, <2>5
<1> QED BY <1>1, <1>2, <1>3, <1>4, <1>5, <1>6, <1>7, <1>8, <1>9, <1>10, <1>11 DEF RunJob

(* Each step of an attempt keeps the flag down while the loop goes on.     *)
LEMMA RunJobPlace ==
    ASSUME Inv, NEW d \in Delivery, RunJob(d) PROVE PlaceOK'
<1>t. AttOK /\ PlaceOK
  BY AttPart
<1> DEFINE P(e) ==
      /\ att[e].pc \in {"due", "acquire", "start", "checkout"} => att[e].step = 0 /\ ~att[e].failed
      /\ att[e].pc \in {"check", "decide"} => att[e].step > 0
      /\ att[e].pc \in {"post", "wait", "check", "decide"} => ~att[e].failed
<1>p. \A e \in Delivery : P(e)
  BY <1>t DEF PlaceOK
<1>s. att[d].step \in Nat
  BY <1>t DEF AttOK, AttRec
<1>1. Others(d) /\ P(d)'
  <2>1. CASE Deliver(d)
    BY <1>t, <1>p, <2>1, DeliverDoes
  <2>2. CASE Acquire(d)
    BY <1>t, <1>p, <2>2, AcquireDoes
  <2>3. CASE StartJob(d)
    <3>1. CASE job[d[1]] \in Terminal
      BY <1>t, <2>3, <3>1, AttemptOver DEF StartJob, Others
    <3>2. CASE job[d[1]] \notin Terminal
      <4>1. att[d].pc = "start" /\ att[d].vm # NoVm
        BY <1>t, <2>3 DEF StartJob, At, AttOK
      <4> QED BY <1>t, <1>p, <2>3, <3>2, <4>1, MoveDoes DEF StartJob
    <3> QED BY <3>1, <3>2
  <2>4. CASE Checkout(d)
    <3>1. att[d].pc = "checkout" /\ att[d].vm # NoVm
      BY <1>t, <2>4 DEF Checkout, At, AttOK
    <3>2. CASE Goto(d, "post")
      BY <1>t, <1>p, <3>1, <3>2, MoveDoes
    <3>3. CASE att' = Break(d)
      BY <1>t, <3>1, <3>3, LoopBreak DEF Others
    <3> QED BY <2>4, <3>2, <3>3 DEF Checkout
  <2>5. CASE CheckCancelled(d)
    BY <1>t, <1>p, <2>5, CheckDoes
  <2>6. CASE DecideStep(d)
    <3>1. /\ Others(d) /\ att[d].pc = "decide"
          /\ \/ att'[d].pc = "release"
             \/ att'[d].failed = att[d].failed /\ att'[d].pc = "post"
             \/ /\ att'[d].failed = att[d].failed
                /\ att'[d].pc = "check" /\ att'[d].step = att[d].step + 1
      BY <1>t, <2>6, DecideDoes, ZenonT(30)
    <3> QED BY <1>p, <1>s, <3>1
  <2>7. CASE Exec(d)
    <3>1. att[d].pc = "post" /\ att[d].vm # NoVm /\ Goto(d, "wait")
      BY <1>t, <2>7 DEF Exec, At, AttOK
    <3> QED BY <1>t, <1>p, <3>1, MoveDoes
  <2>8. CASE Poll(d) \/ PollFailed(d) \/ ExecFails(d)
    <3>1. /\ Others(d) /\ att[d].pc \in {"post", "wait"}
          /\ \/ att'[d].pc = "release"
             \/ /\ att'[d].failed = att[d].failed
                /\ att'[d].pc = "check" /\ att'[d].step = att[d].step + 1
      BY <1>t, <2>8, AnswerDoes
    <3> QED BY <1>p, <1>s, <3>1
  <2>9. CASE StoreFails(d)
    BY <1>t, <2>9, StoreDoes
  <2>10. CASE Release(d)
    BY <1>t, <2>10, ReleaseDoes
  <2>11. CASE FinishJob(d) \/ AttemptFails(d)
    BY <1>t, <2>11, AttemptOver DEF FinishJob, AttemptFails, Others
  <2> QED BY <2>1, <2>2, <2>3, <2>4, <2>5, <2>6, <2>7, <2>8, <2>9, <2>10, <2>11 DEF RunJob
<1>2. \A e \in Delivery : P(e)'
  <2> SUFFICES ASSUME NEW e \in Delivery, e # d PROVE P(e)'
    BY <1>1
  <2>1. att'[e] = att[e]
    BY <1>1 DEF Others
  <2> QED BY <1>p, <2>1
<1> QED BY <1>2 DEF PlaceOK

(* What a crash leaves of the attempts: some are over, the rest go on.     *)
LEMMA CrashDoes ==
    ASSUME AttOK, Crash
    PROVE  /\ AttOK'
           /\ \A d \in Delivery : att'[d] = Over \/ att'[d] = att[d]
           /\ orphan' = {v \in Vm : vm[v] = "held" /\ \A d \in Delivery : att'[d].vm # v}
<1>1. PICK lost \in SUBSET InHand :
        /\ att' = [d \in Delivery |-> IF d \in lost THEN Over ELSE att[d]]
        /\ orphan' = {v \in Vm : vm[v] = "held" /\ \A d \in Delivery \ lost : att[d].vm # v}
  BY DEF Crash
<1>2. \A d \in Delivery : att'[d] = Over \/ att'[d] = att[d]
  BY <1>1
<1>3. AttOK'
  <2>1. \A d \in Delivery : att'[d] \in AttRec /\ att'[d].step <= Steps[d[1]]
                            /\ (att'[d].vm = NoVm <=> att'[d].pc \in {"due", "over", "acquire", "finish"})
    <3> SUFFICES ASSUME NEW d \in Delivery
                 PROVE  att'[d] \in AttRec /\ att'[d].step <= Steps[d[1]]
                        /\ (att'[d].vm = NoVm <=> att'[d].pc \in {"due", "over", "acquire", "finish"})
      OBVIOUS
    <3>1. CASE att'[d] = att[d]
      BY <3>1 DEF AttOK
    <3>2. CASE att'[d] = Over
      <4>1. Over.step <= Steps[d[1]]
        BY OverIs, JobOf
      <4> QED BY <3>2, <4>1, OverIs
    <3> QED BY <1>2, <3>1, <3>2
  <2> QED BY <1>1, <2>1 DEF AttOK
<1>4. \A v \in Vm : (\A d \in Delivery : att'[d].vm # v) <=> (\A d \in Delivery \ lost : att[d].vm # v)
  <2> SUFFICES ASSUME NEW v \in Vm
               PROVE (\A d \in Delivery : att'[d].vm # v) <=> (\A d \in Delivery \ lost : att[d].vm # v)
    OBVIOUS
  <2>1. \A d \in lost : att'[d].vm = NoVm
    BY <1>1, OverIs DEF InHand
  <2>2. \A d \in Delivery \ lost : att'[d] = att[d]
    BY <1>1
  <2> QED BY <2>1, <2>2, ExecAssumption
<1> QED BY <1>1, <1>2, <1>3, <1>4

LEMMA NextInv == Inv /\ [Next]_vars => Inv'
<1> SUFFICES ASSUME Inv, [Next]_vars PROVE Inv'
  OBVIOUS
<1>t. AttOK /\ TypeOK /\ HoldInv /\ PlaceOK
  BY AttPart
<1>1. CASE UNCHANGED vars
  BY <1>1 DEF vars, Inv, TypeOK, HoldInv, PlaceOK
<1>2. ASSUME NEW d \in Delivery, RunJob(d) PROVE Inv'
  BY <1>2, RunJobHold, RunJobPlace DEF Inv
<1>3. ASSUME NEW j \in Job, Cancel(j) PROVE Inv'
  <2>1. job' \in [Job -> {"queued", "running"} \cup Terminal]
    BY <1>3, <1>t DEF Cancel, TypeOK, Terminal
  <2>2. left' \in [Fault -> Nat]
    BY <1>3, <1>t, SpendType DEF Cancel, TypeOK, Fault
  <2>3. cancel' \in [Job -> {"no", "stands", "overruled"}]
    BY <1>3, <1>t DEF Cancel, TypeOK
  <2>4. TypeOK'
    BY <1>3, <1>t, <2>1, <2>2, <2>3 DEF Cancel, TypeOK, guest
  <2>5. HoldInv' /\ PlaceOK'
    BY <1>3, <1>t DEF Cancel, HoldInv, PlaceOK, guest
  <2> QED BY <2>4, <2>5 DEF Inv
<1>4. ASSUME NEW v \in Vm, NEW o \in Op, OpEnds(v, o[1], o[2]) PROVE Inv'
  <2>1. op' \in [Vm -> [Op -> OpState]]
    <3>1. PICK r \in {"ok", "bad"} : op' = [op EXCEPT ![v][OpOf(o[1], o[2])] = r]
      BY <1>4 DEF OpEnds
    <3>2. op \in [Vm -> [Op -> OpState]] /\ r \in OpState
      BY <1>t DEF TypeOK, OpState
    <3> QED BY <3>1, <3>2, OpWritten
  <2>2. tree' \in [Vm -> Job \cup {NoJob}]
    BY <1>4, <1>t, OpPairs DEF OpEnds, TypeOK
  <2>3. TypeOK'
    BY <1>4, <1>t, <2>1, <2>2 DEF OpEnds, TypeOK, OpState, told
  <2>4. HoldInv' /\ PlaceOK'
    BY <1>4, <1>t DEF OpEnds, HoldInv, PlaceOK
  <2> QED BY <2>3, <2>4 DEF Inv
<1>5. ASSUME NEW v \in Vm, Reclaim(v) PROVE Inv'
  <2>1. TypeOK'
    BY <1>5, <1>t DEF Reclaim, TypeOK, told
  <2>2. \A d \in Delivery : att[d].vm # NoVm => att[d].vm \in Vm /\ att[d].vm # v
    BY <1>5, <1>t DEF Reclaim, AttOK, AttRec, HoldInv
  <2>3. HoldInv' /\ PlaceOK'
    BY <1>5, <1>t, <2>2 DEF Reclaim, HoldInv, TypeOK, PlaceOK
  <2> QED BY <2>1, <2>3 DEF Inv
<1>6. CASE Crash
  <2>1. /\ AttOK'
        /\ \A d \in Delivery : att'[d] = Over \/ att'[d] = att[d]
        /\ orphan' = {v \in Vm : vm[v] = "held" /\ \A d \in Delivery : att'[d].vm # v}
        /\ UNCHANGED <<job, row, vm, tree, op, late, shared, cancel>>
    BY <1>6, <1>t, CrashDoes DEF Crash, told
  <2>2. left' \in [Fault -> Nat]
    BY <1>6, <1>t, SpendType DEF Crash, TypeOK, Fault
  <2>3. TypeOK'
    BY <1>t, <2>1, <2>2 DEF TypeOK, AttOK, Idle
  <2>4. PlaceOK'
    <3> SUFFICES ASSUME NEW d \in Delivery
                 PROVE  /\ att'[d].pc \in {"due", "acquire", "start", "checkout"}
                             => att'[d].step = 0 /\ ~att'[d].failed
                        /\ att'[d].pc \in {"check", "decide"} => att'[d].step > 0
                        /\ att'[d].pc \in {"post", "wait", "check", "decide"} => ~att'[d].failed
      BY DEF PlaceOK
    <3> QED BY <1>t, <2>1, OverIs DEF PlaceOK
  <2>5. HoldInv'
    <3>1. \A d \in Delivery : att'[d].vm # NoVm => att'[d] = att[d] /\ att'[d].vm \in Vm
      BY <2>1, OverIs DEF AttOK, AttRec
    <3>2. \A d \in Delivery : att'[d].vm # NoVm => vm'[att'[d].vm] = "held"
      BY <1>t, <2>1, <3>1 DEF HoldInv
    <3>3. \A d \in Delivery : att'[d].vm \notin orphan'
      BY <2>1
    <3>4. \A d, e \in Delivery : att'[d].vm # NoVm /\ att'[d].vm = att'[e].vm => d = e
      BY <1>t, <3>1 DEF HoldInv
    <3> QED BY <3>2, <3>3, <3>4 DEF HoldInv
  <2> QED BY <2>3, <2>4, <2>5 DEF Inv
<1> QED BY <1>1, <1>2, <1>3, <1>4, <1>5, <1>6 DEF Next

(* Over any interleaving of deliveries, overlapping or one after another,  *)
(* of faults and reclaims, the rows, the pool, the daemon's records and    *)
(* the attempts keep their shapes; above all, every VM whose lease may     *)
(* lapse is one that nobody has in hand.                                   *)
THEOREM TypeCorrect == Spec => []TypeOK
<1>1. Init => Inv
  BY InitInv
<1>2. Inv /\ [Next]_vars => Inv'
  BY NextInv
<1>3. Inv => TypeOK
  BY DEF Inv
<1> QED BY <1>1, <1>2, <1>3, PTL DEF Spec

-----------------------------------------------------------------------------
(* What a step of an attempt means for the loop it is in: it stays at the  *)
(* step in hand, has passed it, or is out of the loop without having       *)
(* passed it.                                                              *)
Loop == {"post", "wait", "check", "decide"}

Stays(d) ==
    /\ att[d].pc \in Loop \cup {"checkout"} /\ att'[d].pc \in Loop
    /\ att'[d].vm = att[d].vm /\ att'[d].step = att[d].step

Passes(d) ==
    /\ att[d].pc \in Loop /\ att'[d].vm = att[d].vm
    /\ \/ /\ row' = [row EXCEPT ![<<d[1], att[d].step>>] = "success"]
          /\ op[att[d].vm][<<d[1], att[d].step>>] = "ok"
       \/ /\ row' = [row EXCEPT ![<<d[1], att[d].step>>] = "failure"]
          /\ <<d[1], att[d].step>> \in Tolerated
       \/ /\ row' = [row EXCEPT ![<<d[1], att[d].step>>] = "skipped"]
          /\ Condition[<<d[1], att[d].step>>] = "failure" /\ att[d].step > 0
    /\ \/ att[d].step < Steps[d[1]] /\ att'[d].pc = "check" /\ att'[d].step = att[d].step + 1
       \/ att[d].step = Steps[d[1]] /\ att'[d].pc = "release"

Leaves(d) ==
    \/ att'[d].pc \in {"acquire", "start", "checkout", "over"}
    \/ att'[d].pc = "release" /\ att'[d].outcome # "success"
    \/ att'[d].pc = "finish" /\ att[d].pc = "release" /\ att'[d].outcome = att[d].outcome

LEMMA LoopKinds ==
    ASSUME Inv, NEW d \in Delivery, RunJob(d)
    PROVE  Others(d) /\ (Stays(d) \/ Passes(d) \/ Leaves(d))
<1>t. AttOK /\ PlaceOK
  BY AttPart
<1>l. att[d].pc \in Loop => ~att[d].failed
  BY <1>t DEF PlaceOK, Loop
<1>1. CASE Deliver(d)
  BY <1>t, <1>1, DeliverDoes DEF Leaves
<1>2. CASE Acquire(d)
  BY <1>t, <1>2, AcquireDoes DEF Leaves
<1>3. CASE StartJob(d)
  <2>1. CASE job[d[1]] \in Terminal
    BY <1>t, <1>3, <2>1, AttemptOver DEF StartJob, Others, Leaves
  <2>2. CASE job[d[1]] \notin Terminal
    <3>1. att[d].pc = "start" /\ att[d].vm # NoVm
      BY <1>t, <1>3 DEF StartJob, At, AttOK
    <3> QED BY <1>t, <1>3, <2>2, <3>1, MoveDoes DEF StartJob, Leaves
  <2> QED BY <2>1, <2>2
<1>4. CASE Checkout(d)
  <2>1. att[d].pc = "checkout" /\ att[d].vm # NoVm
    BY <1>t, <1>4 DEF Checkout, At, AttOK
  <2>2. CASE Goto(d, "post")
    BY <1>t, <2>1, <2>2, MoveDoes DEF Stays, Loop
  <2>3. CASE att' = Break(d)
    BY <1>t, <2>1, <2>3, LoopBreak DEF Others, Leaves
  <2> QED BY <1>4, <2>2, <2>3 DEF Checkout
<1>5. CASE CheckCancelled(d)
  BY <1>t, <1>5, CheckDoes DEF Stays, Leaves, Loop
<1>6. CASE DecideStep(d)
  <2>1. Others(d) /\ att[d].pc = "decide" /\ att'[d].vm = att[d].vm
    BY <1>t, <1>6, DecideDoes
  <2>2. ~att[d].failed /\ att[d].pc \in Loop /\ att[d].step > 0
    BY <1>t, <2>1 DEF PlaceOK, Loop
  <2>3. \/ att'[d].pc = "release" /\ att'[d].outcome = "failure"
        \/ /\ row' = [row EXCEPT ![<<d[1], att[d].step>>] = "skipped"]
           /\ Condition[<<d[1], att[d].step>>] = "failure"
           /\ \/ att[d].step = Steps[d[1]] /\ att'[d].pc = "release"
              \/ att[d].step < Steps[d[1]] /\ att'[d].pc = "check" /\ att'[d].step = att[d].step + 1
        \/ att'[d].pc = "post" /\ att'[d].step = att[d].step
    BY <1>t, <1>6, <2>2, DecideDoes, ZenonT(30)
  <2> QED BY <2>1, <2>2, <2>3 DEF Stays, Passes, Leaves, Loop
<1>7. CASE Exec(d)
  <2>1. att[d].pc = "post" /\ att[d].vm # NoVm /\ Goto(d, "wait")
    BY <1>t, <1>7 DEF Exec, At, AttOK
  <2> QED BY <1>t, <2>1, MoveDoes DEF Stays, Loop
<1>8. CASE Poll(d) \/ PollFailed(d) \/ ExecFails(d)
  <2>1. Others(d) /\ att[d].pc \in {"post", "wait"} /\ att'[d].vm = att[d].vm
    BY <1>t, <1>8, AnswerDoes
  <2>2. ~att[d].failed /\ att[d].pc \in Loop
    BY <1>l, <2>1 DEF Loop
  <2>3. \/ att'[d].pc = "release" /\ att'[d].outcome = "failure"
        \/ /\ \/ /\ row' = [row EXCEPT ![<<d[1], att[d].step>>] = "success"]
                 /\ op[att[d].vm][<<d[1], att[d].step>>] = "ok"
              \/ /\ row' = [row EXCEPT ![<<d[1], att[d].step>>] = "failure"]
                 /\ <<d[1], att[d].step>> \in Tolerated
           /\ \/ att[d].step = Steps[d[1]] /\ att'[d].pc = "release"
              \/ att[d].step < Steps[d[1]] /\ att'[d].pc = "check" /\ att'[d].step = att[d].step + 1
    BY <1>t, <1>8, AnswerDoes, ZenonT(30)
  <2> QED BY <2>1, <2>2, <2>3 DEF Passes, Leaves
<1>9. CASE StoreFails(d)
  BY <1>t, <1>9, StoreDoes DEF Leaves
<1>10. CASE Release(d)
  BY <1>t, <1>10, ReleaseDoes DEF Leaves
<1>11. CASE FinishJob(d) \/ AttemptFails(d)
  BY <1>t, <1>11, AttemptOver DEF FinishJob, AttemptFails, Others, Leaves
<1> QED BY <1>1, <1>2, <1>3, <1>4, <1>5, <1>6, <1>7, <1>8, <1>9, <1>10, <1>11 DEF RunJob

(* What it writes: rows of the step in hand, and its own job's status.     *)
LEMMA RowsKept ==
    ASSUME Inv, NEW d \in Delivery, RunJob(d)
    PROVE  /\ \A o \in Op : o # <<d[1], att[d].step>> => row'[o] = row[o]
           /\ att[d].pc \in Idle => row' = row
<1>t. row \in [Op -> StepStatus]
  BY DEF Inv, TypeOK
<1>1. row' = row \/ \E s : row' = [row EXCEPT ![<<d[1], att[d].step>>] = s]
  <2>1. CASE Checkout(d)
    <3>1. att[d].step = 0
      BY <2>1 DEF Inv, PlaceOK, Checkout, At
    <3> QED BY <2>1, <3>1 DEF Checkout, SetRow
  <2>2. CASE ~Checkout(d)
    BY <2>2 DEF RunJob, Deliver, Acquire, StartJob, CheckCancelled, DecideStep, Exec, Poll,
                PollFailed, ExecFails, StoreFails, Lost, Release, FinishJob, AttemptFails, SetRow
  <2> QED BY <2>1, <2>2
<1>2. att[d].pc \in Idle => row' = row
  BY DEF RunJob, Deliver, Acquire, StartJob, Checkout, CheckCancelled, DecideStep, Exec, Poll,
         PollFailed, ExecFails, StoreFails, Release, FinishJob, AttemptFails, InHand, At, Idle
<1> QED BY <1>t, <1>1, <1>2

LEMMA StatusKept ==
    ASSUME Inv, NEW d \in Delivery, RunJob(d)
    PROVE  /\ \A j \in Job : j # d[1] => job'[j] = job[j] /\ cancel'[j] = cancel[j]
           /\ \/ job' = job /\ cancel' = cancel
              \/ /\ att[d].pc = "due" /\ job[d[1]] \notin Terminal /\ job'[d[1]] = "running"
                 /\ cancel' = cancel
              \/ /\ att[d].pc = "finish" /\ att'[d].pc = "over"
                 /\ SetJobStatus(d[1], IF att[d].outcome = "failure" /\ d[1] \in Forgiven
                                       THEN "success" ELSE att[d].outcome)
              \/ d \in InHand /\ att'[d].pc = "over" /\ SetJobStatus(d[1], "failure")
<1>t. AttOK /\ TypeOK /\ d[1] \in Job
  BY AttPart, JobOf
<1>1. CASE Deliver(d)
  BY <1>t, <1>1 DEF Deliver, At, TypeOK
<1>2. CASE FinishJob(d)
  <2>1. att[d].pc = "finish" /\ att'[d].pc = "over"
    BY <1>t, <1>2, AttemptOver DEF FinishJob, At
  <2> QED BY <1>t, <1>2, <2>1 DEF FinishJob, SetJobStatus, TypeOK
<1>3. CASE AttemptFails(d)
  <2>1. d \in InHand /\ att'[d].pc = "over"
    BY <1>t, <1>3, AttemptOver DEF AttemptFails
  <2> QED BY <1>t, <1>3, <2>1 DEF AttemptFails, SetJobStatus, TypeOK
<1>4. CASE ~Deliver(d) /\ ~FinishJob(d) /\ ~AttemptFails(d)
  BY <1>4 DEF RunJob, Acquire, StartJob, Checkout, CheckCancelled, DecideStep, Exec, Poll,
              PollFailed, ExecFails, StoreFails, Lost, Release, told, guest
<1> QED BY <1>1, <1>2, <1>3, <1>4

(* An operation that ended well is never written again.                    *)
LEMMA OkStays ==
    ASSUME Inv, [Next]_vars
    PROVE  \A v \in Vm : \A o \in Op : op[v][o] = "ok" => op'[v][o] = "ok"
<1>t. op \in [Vm -> [Op -> OpState]]
  BY DEF Inv, TypeOK, OpState
<1>1. ASSUME NEW d \in Delivery, RunJob(d)
      PROVE  \A v \in Vm : \A o \in Op : op[v][o] = "ok" => op'[v][o] = "ok"
  <2>1. CASE Exec(d)
    <3>1. \/ op' = op
          \/ \E s : /\ op' = [op EXCEPT ![att[d].vm][<<d[1], att[d].step>>] = s]
                    /\ op[att[d].vm][<<d[1], att[d].step>>] = "none"
      BY <2>1 DEF Exec, OpOf
    <3>2. CASE op' = op
      BY <3>2
    <3>3. ASSUME NEW s, op' = [op EXCEPT ![att[d].vm][<<d[1], att[d].step>>] = s],
                 op[att[d].vm][<<d[1], att[d].step>>] = "none",
                 NEW v \in Vm, NEW o \in Op, op[v][o] = "ok"
          PROVE  op'[v][o] = "ok"
      BY <1>t, <3>3
    <3> QED BY <3>1, <3>2, <3>3
  <2>2. CASE ~Exec(d)
    BY <1>1, <2>2 DEF RunJob, Deliver, Acquire, StartJob, Checkout, CheckCancelled, DecideStep, Poll,
                PollFailed, ExecFails, StoreFails, Lost, Release, FinishJob, AttemptFails, guest
  <2> QED BY <2>1, <2>2
<1>2. ASSUME NEW w \in Vm, NEW q \in Op, OpEnds(w, q[1], q[2])
      PROVE  \A v \in Vm : \A o \in Op : op[v][o] = "ok" => op'[v][o] = "ok"
  <2>1. \E r : op' = [op EXCEPT ![w][OpOf(q[1], q[2])] = r] /\ op[w][OpOf(q[1], q[2])] = "running"
    BY <1>2 DEF OpEnds
  <2> QED BY <1>t, <2>1
<1>3. CASE UNCHANGED op
  BY <1>3
<1> QED BY <1>1, <1>2, <1>3 DEF Next, Cancel, Reclaim, Crash, guest, vars

-----------------------------------------------------------------------------
(* Success is earned.  Up to the step in hand, every step has ended well   *)
(* in the VM the delivery holds, or may end otherwise.                     *)
Good(v, j, i) ==
    \/ op[v][<<j, i>>] = "ok"
    \/ i > 0 /\ (<<j, i>> \in Tolerated \/ Condition[<<j, i>>] = "failure")
Reached(v, j, n) == \A i \in 0..Steps[j] : i < n => Good(v, j, i)

Earned(d) ==
    /\ att[d].pc \in Loop => Reached(att[d].vm, d[1], att[d].step)
    /\ att[d].pc \in {"release", "finish"} /\ att[d].outcome = "success"
         => \E v \in Vm : Passed(d[1], v)

EarnInv ==
    /\ \A d \in Delivery : Earned(d)
    /\ \A j \in Job \ Forgiven : job[j] = "success" => \E v \in Vm : Passed(j, v)

LEMMA ReachedAll ==
    ASSUME NEW j \in Job, NEW v, Reached(v, j, Steps[j] + 1) PROVE Passed(j, v)
<1>1. \A i \in 0..Steps[j] : Good(v, j, i)
  BY ExecAssumption DEF Reached
<1>2. Good(v, j, 0) /\ \A i \in 1..Steps[j] : Good(v, j, i)
  BY <1>1, ExecAssumption
<1> QED BY <1>2 DEF Good, Passed

LEMMA ReachedOne ==
    ASSUME NEW j \in Job, NEW v, NEW n \in Nat, Reached(v, j, n), Good(v, j, n)
    PROVE  Reached(v, j, n + 1)
<1> SUFFICES ASSUME NEW i \in 0..Steps[j], i < n + 1 PROVE Good(v, j, i)
  BY DEF Reached
<1>1. i < n \/ i = n
  BY ExecAssumption
<1> QED BY <1>1 DEF Reached

(* Nothing that is earned is lost.                                         *)
LEMMA EarnedStays ==
    ASSUME Inv, [Next]_vars, NEW j \in Job, NEW v \in Vm
    PROVE  /\ Passed(j, v) => Passed(j, v)'
           /\ \A n : Reached(v, j, n) => Reached(v, j, n)'
<1>1. \A i \in 0..Steps[j] : <<j, i>> \in Op
  BY OpPairs
<1>2. \A i \in 0..Steps[j] : op[v][<<j, i>>] = "ok" => op'[v][<<j, i>>] = "ok"
  BY <1>1, OkStays
<1>3. \A i \in 0..Steps[j] : Good(v, j, i) => Good(v, j, i)'
  BY <1>2 DEF Good
<1>4. Passed(j, v) => Passed(j, v)'
  <2>1. 0 \in 0..Steps[j] /\ \A i \in 1..Steps[j] : i \in 0..Steps[j]
    BY ExecAssumption
  <2> QED BY <1>2, <2>1 DEF Passed
<1> QED BY <1>3, <1>4 DEF Reached

LEMMA RunJobEarned ==
    ASSUME Inv, EarnInv, NEW d \in Delivery, RunJob(d), [Next]_vars
    PROVE  Earned(d)'
<1>t. AttOK /\ PlaceOK /\ Earned(d)
  BY AttPart DEF EarnInv
<1>j. d[1] \in Job /\ att[d].step \in Nat /\ att[d].step \in 0..Steps[d[1]]
  BY <1>t, JobOf DEF AttOK, AttRec
<1>1. CASE Leaves(d)
  <2>1. CASE att'[d].pc = "finish" /\ att[d].pc = "release" /\ att'[d].outcome = att[d].outcome
    <3>1. att[d].outcome = "success" => \E v \in Vm : Passed(d[1], v)'
      BY <1>t, <1>j, <2>1, EarnedStays DEF Earned
    <3> QED BY <2>1, <3>1 DEF Earned, Loop
  <2>2. CASE att'[d].pc \in {"acquire", "start", "checkout", "over"}
    BY <2>2 DEF Earned, Loop
  <2>3. CASE att'[d].pc = "release" /\ att'[d].outcome # "success"
    BY <2>3 DEF Earned, Loop
  <2> QED BY <1>1, <2>1, <2>2, <2>3 DEF Leaves
<1>2. CASE Stays(d)
  <2>v. att[d].vm \in Vm
    BY <1>t, <1>2 DEF Stays, Loop, AttOK, AttRec
  <2>1. Reached(att[d].vm, d[1], att[d].step)
    <3>1. CASE att[d].pc \in Loop
      BY <1>t, <3>1 DEF Earned
    <3>2. CASE att[d].pc = "checkout"
      <4>1. att[d].step = 0
        BY <1>t, <3>2 DEF PlaceOK
      <4> QED BY <4>1, <1>j, ExecAssumption DEF Reached
    <3> QED BY <1>2, <3>1, <3>2 DEF Stays
  <2>2. Reached(att[d].vm, d[1], att[d].step)'
    <3>1. PICK v \in Vm : v = att[d].vm
      BY <2>v
    <3>2. \A n : Reached(v, d[1], n) => Reached(v, d[1], n)'
      BY <1>j, EarnedStays
    <3>3. att'[d].vm = v /\ att'[d].step = att[d].step
      BY <1>2, <3>1 DEF Stays
    <3>4. Reached(v, d[1], att[d].step)
      BY <2>1, <3>1
    <3> QED BY <3>2, <3>3, <3>4 DEF Reached, Good
  <2> QED BY <1>2, <2>2 DEF Stays, Earned, Loop
<1>3. CASE Passes(d)
  <2>v. att[d].vm \in Vm
    BY <1>t, <1>3 DEF Passes, Loop, AttOK, AttRec
  <2>1. Good(att[d].vm, d[1], att[d].step)
    <3>1. <<d[1], att[d].step>> \in Tolerated => att[d].step > 0
      BY <1>j, CheckoutNotTolerated
    <3> QED BY <1>3, <3>1 DEF Passes, Good
  <2>2. Reached(att[d].vm, d[1], att[d].step + 1)
    BY <1>t, <1>3, <1>j, <2>1, ReachedOne DEF Passes, Earned
  <2>3. PICK v \in Vm : v = att[d].vm
    BY <2>v
  <2>4. Reached(v, d[1], att[d].step + 1)
    BY <2>2, <2>3
  <2>5. CASE att[d].step < Steps[d[1]] /\ att'[d].pc = "check" /\ att'[d].step = att[d].step + 1
    <3>1. \A n : Reached(v, d[1], n) => Reached(v, d[1], n)'
      BY <1>j, EarnedStays
    <3>2. att'[d].vm = v /\ att'[d].step = att[d].step + 1
      BY <1>3, <2>3, <2>5 DEF Passes
    <3>3. Reached(att[d].vm, d[1], att[d].step)'
      BY <2>4, <3>1, <3>2 DEF Reached, Good
    <3> QED BY <2>5, <3>3 DEF Earned, Loop
  <2>6. CASE att[d].step = Steps[d[1]] /\ att'[d].pc = "release"
    <3>1. Passed(d[1], v)
      BY <1>j, <2>4, <2>6, ReachedAll
    <3>2. \E w \in Vm : Passed(d[1], w)'
      BY <1>j, <3>1, EarnedStays
    <3> QED BY <2>6, <3>2 DEF Earned, Loop
  <2> QED BY <1>3, <2>5, <2>6 DEF Passes
<1> QED BY <1>1, <1>2, <1>3, LoopKinds

LEMMA EarnNext == Inv /\ EarnInv /\ [Next]_vars => EarnInv'
<1> SUFFICES ASSUME Inv, EarnInv, [Next]_vars PROVE EarnInv'
  OBVIOUS
<1>t. AttOK
  BY AttPart
<1>s. \A j \in Job : (\E v \in Vm : Passed(j, v)) => \E v \in Vm : Passed(j, v)'
  BY EarnedStays
<1>e. ASSUME NEW e \in Delivery, att'[e] = att[e] PROVE Earned(e)'
  <2>0. Earned(e) /\ e[1] \in Job
    BY JobOf DEF EarnInv
  <2>1. (\E v \in Vm : Passed(e[1], v)) => \E v \in Vm : Passed(e[1], v)'
    BY <1>s, <2>0
  <2>2. ASSUME att[e].pc \in Loop PROVE Reached(att[e].vm, e[1], att[e].step)'
    <3>1. att[e].vm \in Vm
      BY <1>t, <2>2 DEF Loop, AttOK, AttRec
    <3>2. PICK v \in Vm : v = att[e].vm
      BY <3>1
    <3>3. Reached(v, e[1], att[e].step)
      BY <2>0, <2>2, <3>2 DEF Earned
    <3>4. \A n : Reached(v, e[1], n) => Reached(v, e[1], n)'
      BY <2>0, EarnedStays
    <3>5. att'[e].vm = v /\ att'[e].step = att[e].step
      BY <1>e, <3>2
    <3> QED BY <3>3, <3>4, <3>5 DEF Reached, Good
  <2> QED BY <1>e, <2>0, <2>1, <2>2 DEF Earned
<1>f. (\A j \in Job \ Forgiven : job'[j] = "success" => job[j] = "success")
        => \A j \in Job \ Forgiven : job'[j] = "success" => \E v \in Vm : Passed(j, v)'
  BY <1>s DEF EarnInv
<1>1. ASSUME NEW d \in Delivery, RunJob(d) PROVE EarnInv'
  <2>1. \A e \in Delivery : Earned(e)'
    BY <1>1, <1>e, RunJobEarned, LoopKinds DEF Others
  <2>2. \A j \in Job \ Forgiven : job'[j] = "success" => \E v \in Vm : Passed(j, v)'
    <3>0. TypeOK /\ d[1] \in Job /\ att[d].outcome \in Terminal /\ Earned(d)
      BY <1>t, AttPart, JobOf DEF AttOK, AttRec, EarnInv
    <3>1. CASE att[d].pc = "finish" /\ att[d].outcome = "success"
      <4>1. \E v \in Vm : Passed(d[1], v)
        BY <3>0, <3>1 DEF Earned
      <4>2. \A j \in Job : j # d[1] => job'[j] = job[j]
        BY <1>1, StatusKept
      <4> QED BY <1>s, <3>0, <4>1, <4>2 DEF EarnInv
    <3>2. CASE ~(att[d].pc = "finish" /\ att[d].outcome = "success")
      <4>1. \A j \in Job \ Forgiven : job'[j] = "success" => job[j] = "success"
        <5>1. \A j \in Job : j # d[1] => job'[j] = job[j]
          BY <1>1, StatusKept
        <5>2. d[1] \notin Forgiven /\ job'[d[1]] = "success" => job[d[1]] = "success"
          BY <1>1, <3>0, <3>2, StatusKept DEF SetJobStatus, TypeOK
        <5> QED BY <5>1, <5>2
      <4> QED BY <1>f, <4>1
    <3> QED BY <3>1, <3>2
  <2> QED BY <2>1, <2>2 DEF EarnInv
<1>2. ASSUME att' = att, \A j \in Job : job'[j] = "success" => job[j] = "success" PROVE EarnInv'
  BY <1>2, <1>e, <1>f DEF EarnInv
<1>3. CASE Crash
  <2>1. \A d \in Delivery : att'[d] = Over \/ att'[d] = att[d]
    BY <1>t, <1>3, CrashDoes
  <2>2. \A d \in Delivery : att'[d] = Over => Earned(d)'
    BY OverIs DEF Earned, Loop
  <2>3. job' = job
    BY <1>3 DEF Crash
  <2> QED BY <1>e, <1>f, <2>1, <2>2, <2>3 DEF EarnInv
<1>4. ASSUME NEW j \in Job, Cancel(j) PROVE EarnInv'
  <2>1. att' = att /\ \A k \in Job : job'[k] = "success" => job[k] = "success"
    BY <1>4 DEF Cancel, Inv, TypeOK
  <2> QED BY <1>2, <2>1
<1>5. CASE UNCHANGED <<att, job>>
  BY <1>2, <1>5
<1> QED BY <1>1, <1>3, <1>4, <1>5 DEF Next, OpEnds, Reclaim, vars

-----------------------------------------------------------------------------
(* The rows of a job that was never in two dispatchers' hands.  Whoever    *)
(* has it in hand is alone, and its verdict is not in yet.                 *)
GoodRow(j, i) ==
    \/ row[<<j, i>>] = "success"
    \/ i > 0 /\ row[<<j, i>>] = "skipped"
    \/ row[<<j, i>>] = "failure" /\ <<j, i>> \in Tolerated
RowsTo(j, n) == \A i \in 0..Steps[j] : i < n => GoodRow(j, i)

Alone(d) ==
    d \in InHand /\ d[1] \notin shared =>
        /\ job[d[1]] # "success"
        /\ \A e \in InHand : e[1] = d[1] => e = d
Tidy(d) ==
    d \in InHand /\ d[1] \notin shared =>
        /\ att[d].pc \in Loop => RowsTo(d[1], att[d].step)
        /\ att[d].pc \in {"release", "finish"} /\ att[d].outcome = "success"
             => RowsTo(d[1], Steps[d[1]] + 1)

RecInv ==
    /\ \A d \in Delivery : Alone(d) /\ Tidy(d)
    /\ \A j \in Job \ Forgiven : job[j] = "success" /\ j \notin shared => RowsTo(j, Steps[j] + 1)

LEMMA RowsAll == ASSUME NEW j \in Job, RowsTo(j, Steps[j] + 1) PROVE Recorded(j)
<1>1. \A i \in 0..Steps[j] : GoodRow(j, i)
  BY ExecAssumption DEF RowsTo
<1>2. GoodRow(j, 0) /\ \A i \in 1..Steps[j] : GoodRow(j, i)
  BY <1>1, ExecAssumption
<1> QED BY <1>2, CheckoutNotTolerated DEF GoodRow, Recorded

(* Who is in hand changes by one delivery at a time, but for a crash.      *)
LEMMA HandsKept ==
    ASSUME Inv, NEW d \in Delivery, RunJob(d)
    PROVE  /\ \A e \in Delivery : e # d => (e \in InHand <=> e \in InHand')
           /\ d \notin InHand => att[d].pc = "due" /\ Deliver(d)
           /\ Deliver(d) \/ shared' = shared
<1>1. \A e \in Delivery : e # d => att'[e] = att[e]
  BY LoopKinds DEF Others
<1>2. \A e \in Delivery : e # d => (e \in InHand <=> e \in InHand')
  BY <1>1 DEF InHand
<1>3. Deliver(d) \/ att[d].pc \notin Idle
  BY DEF RunJob, Acquire, StartJob, Checkout, CheckCancelled, DecideStep, Exec, Poll, PollFailed,
         ExecFails, StoreFails, Release, FinishJob, AttemptFails, At, Idle, InHand
<1>4. Deliver(d) \/ shared' = shared
  BY DEF RunJob, Acquire, StartJob, Checkout, CheckCancelled, DecideStep, Exec, Poll, PollFailed,
         ExecFails, StoreFails, Release, FinishJob, AttemptFails, Lost, told
<1> QED BY <1>2, <1>3, <1>4 DEF InHand, Deliver, At

LEMMA RunJobAlone ==
    ASSUME Inv, RecInv, NEW d \in Delivery, RunJob(d), NEW e \in Delivery
    PROVE  Alone(e)'
<1> SUFFICES ASSUME e \in InHand', e[1] \notin shared'
             PROVE  /\ job'[e[1]] # "success"
                    /\ \A f \in InHand' : f[1] = e[1] => f = e
  BY DEF Alone
<1>t. TypeOK /\ e[1] \in Job /\ d[1] \in Job
  BY JobOf DEF Inv
<1>1. CASE Deliver(d)
  <2>1. /\ shared \subseteq shared' /\ job' = [job EXCEPT ![d[1]] = "running"]
        /\ d[1] \notin shared' => \A f \in InHand : f[1] # d[1]
    BY <1>1 DEF Deliver
  <2>2. \A f \in InHand' : f = d \/ f \in InHand
    BY HandsKept DEF InHand
  <2>3. CASE e = d
    BY <1>t, <2>1, <2>2, <2>3 DEF TypeOK
  <2>4. CASE e # d
    <3>1. e \in InHand /\ e[1] \notin shared /\ job[e[1]] # "success" /\ \A f \in InHand : f[1] = e[1] => f = e
      BY <2>1, <2>2, <2>4 DEF RecInv, Alone
    <3>2. job'[e[1]] # "success"
      BY <1>t, <2>1, <3>1 DEF TypeOK
    <3>3. d[1] # e[1]
      BY <2>1, <3>1
    <3> QED BY <2>2, <3>1, <3>2, <3>3
  <2> QED BY <2>3, <2>4
<1>2. CASE ~Deliver(d)
  <2>1. d \in InHand /\ shared' = shared /\ InHand' \subseteq InHand
    BY <1>2, HandsKept DEF InHand
  <2>2. e \in InHand /\ job[e[1]] # "success" /\ \A f \in InHand : f[1] = e[1] => f = e
    BY <2>1 DEF RecInv, Alone
  <2>3. job'[e[1]] # "success"
    <3>1. CASE e[1] # d[1]
      BY <1>t, <2>2, <3>1, StatusKept
    <3>2. CASE e = d
      <4>1. att'[d].pc # "over"
        BY <3>2 DEF InHand, Idle
      <4>2. att[d].pc # "due"
        BY <2>1 DEF InHand, Idle
      <4> QED BY <2>2, <3>2, <4>1, <4>2, StatusKept
    <3> QED BY <2>1, <2>2, <3>1, <3>2
  <2> QED BY <2>1, <2>2, <2>3
<1> QED BY <1>1, <1>2

LEMMA RunJobTidy ==
    ASSUME Inv, RecInv, NEW d \in Delivery, RunJob(d), NEW e \in Delivery
    PROVE  Tidy(e)'
<1> SUFFICES ASSUME e \in InHand', e[1] \notin shared'
             PROVE  /\ att'[e].pc \in Loop => RowsTo(e[1], att[e].step)'
                    /\ att'[e].pc \in {"release", "finish"} /\ att'[e].outcome = "success"
                         => RowsTo(e[1], Steps[e[1]] + 1)'
  BY DEF Tidy
<1>t. /\ AttOK /\ PlaceOK /\ TypeOK /\ e[1] \in Job /\ d[1] \in Job
      /\ att[d].step \in Nat /\ att[d].step \in 0..Steps[d[1]] /\ <<d[1], att[d].step>> \in Op
  <2>1. AttOK /\ PlaceOK /\ TypeOK /\ e[1] \in Job /\ d[1] \in Job /\ att[d].step \in Nat
        /\ att[d].step \in 0..Steps[d[1]]
    BY AttPart, JobOf DEF AttOK, AttRec
  <2> QED BY <2>1, OpPairs
<1>1. CASE Deliver(d)
  <2>1. row' = row /\ shared \subseteq shared'
    BY <1>1 DEF Deliver
  <2>2. CASE e = d
    BY <1>t, <1>1, <2>2, DeliverDoes DEF Loop
  <2>3. CASE e # d
    <3>1. att'[e] = att[e] /\ e \in InHand /\ e[1] \notin shared /\ Tidy(e)
      BY <1>t, <1>1, <2>1, <2>3, DeliverDoes DEF Others, InHand, RecInv
    <3> QED BY <2>1, <3>1 DEF Tidy, RowsTo, GoodRow
  <2> QED BY <2>2, <2>3
<1>2. CASE ~Deliver(d)
  <2>1. d \in InHand /\ shared' = shared /\ (e # d => e \in InHand /\ att'[e] = att[e])
    BY <1>2, HandsKept, LoopKinds DEF InHand, Others
  <2>2. CASE e # d
    <3>1. e[1] # d[1] /\ Tidy(e)
      BY <2>1, <2>2 DEF RecInv, Alone
    <3>2. \A i \in 0..Steps[e[1]] : row'[<<e[1], i>>] = row[<<e[1], i>>]
      BY <1>t, <3>1, RowsKept, OpPairs
    <3>3. \A n : RowsTo(e[1], n) => RowsTo(e[1], n)'
      BY <3>2 DEF RowsTo, GoodRow
    <3> QED BY <2>1, <2>2, <3>1, <3>3 DEF Tidy, RowsTo, GoodRow
  <2>3. CASE e = d
    <3>0. Tidy(d) /\ d[1] \notin shared
      BY <2>1, <2>3 DEF RecInv
    <3>1. \A i \in 0..Steps[d[1]] : i < att[d].step => row'[<<d[1], i>>] = row[<<d[1], i>>]
      <4> SUFFICES ASSUME NEW i \in 0..Steps[d[1]], i < att[d].step
                   PROVE  row'[<<d[1], i>>] = row[<<d[1], i>>]
        OBVIOUS
      <4>1. <<d[1], i>> \in Op /\ <<d[1], i>> # <<d[1], att[d].step>>
        BY <1>t, OpPairs
      <4> QED BY <4>1, RowsKept
    <3>2. RowsTo(d[1], att[d].step) => \A i \in 0..Steps[d[1]] : i < att[d].step => GoodRow(d[1], i)'
      BY <3>1 DEF RowsTo, GoodRow
    <3>3. CASE Stays(d)
      <4>1. RowsTo(d[1], att[d].step)
        <5>1. CASE att[d].pc \in Loop
          BY <2>1, <3>0, <5>1 DEF Tidy
        <5>2. CASE att[d].pc = "checkout"
          BY <1>t, <5>2, ExecAssumption DEF RowsTo, PlaceOK
        <5> QED BY <3>3, <5>1, <5>2 DEF Stays
      <4>2. att'[d].step = att[d].step /\ att'[d].pc \in Loop
        BY <3>3 DEF Stays
      <4> QED BY <2>3, <3>2, <4>1, <4>2 DEF RowsTo, Loop
    <3>4. CASE Passes(d)
      <4>0. PICK n \in Nat : n = att[d].step
        BY <1>t
      <4>1. \A i \in 0..Steps[d[1]] : i < n => GoodRow(d[1], i)'
        BY <2>1, <3>0, <3>2, <3>4, <4>0 DEF Tidy, Passes
      <4>2. GoodRow(d[1], n)'
        <5>1. \/ row' = [row EXCEPT ![<<d[1], n>>] = "success"]
              \/ row' = [row EXCEPT ![<<d[1], n>>] = "failure"] /\ <<d[1], n>> \in Tolerated
              \/ row' = [row EXCEPT ![<<d[1], n>>] = "skipped"] /\ n > 0
          BY <3>4, <4>0 DEF Passes
        <5>2. <<d[1], n>> \in Op /\ row \in [Op -> StepStatus]
          BY <1>t, <4>0 DEF TypeOK
        <5> QED BY <5>1, <5>2 DEF GoodRow
      <4>3. \A i \in 0..Steps[d[1]] : i < n + 1 => GoodRow(d[1], i)'
        <5> SUFFICES ASSUME NEW i \in 0..Steps[d[1]], i < n + 1 PROVE GoodRow(d[1], i)'
          OBVIOUS
        <5>1. i < n \/ i = n
          BY <1>t, ExecAssumption
        <5> QED BY <4>1, <4>2, <5>1
      <4>4. RowsTo(d[1], n + 1)'
        BY <4>3 DEF RowsTo
      <4>5. \/ att'[d].pc = "check" /\ att'[d].step = n + 1
            \/ att'[d].pc = "release" /\ n = Steps[d[1]]
        BY <3>4, <4>0 DEF Passes
      <4> QED BY <2>3, <4>4, <4>5 DEF RowsTo, GoodRow, Loop
    <3>5. CASE Leaves(d)
      <4>1. CASE att'[d].pc = "finish" /\ att[d].pc = "release" /\ att'[d].outcome = att[d].outcome
        <5>1. row' = row
          BY <4>1 DEF RunJob, Deliver, Acquire, StartJob, Checkout, CheckCancelled, DecideStep,
                      Exec, Poll, PollFailed, ExecFails, StoreFails, Release, FinishJob,
                      AttemptFails, At
        <5>2. att[d].outcome = "success" => RowsTo(d[1], Steps[d[1]] + 1)
          BY <2>1, <3>0, <4>1 DEF Tidy
        <5> QED BY <2>3, <4>1, <5>1, <5>2 DEF RowsTo, GoodRow, Loop
      <4>2. CASE att'[d].pc # "finish"
        BY <2>3, <3>5, <4>2 DEF Leaves, Loop
      <4> QED BY <3>5, <4>1, <4>2 DEF Leaves
    <3> QED BY <1>2, <3>3, <3>4, <3>5, LoopKinds
  <2> QED BY <2>2, <2>3
<1> QED BY <1>1, <1>2

(* The rows of a job whose verdict is success are nobody's to write.       *)
LEMMA RunJobRecorded ==
    ASSUME Inv, RecInv, NEW d \in Delivery, RunJob(d), NEW j \in Job \ Forgiven,
           job'[j] = "success", j \notin shared'
    PROVE  RowsTo(j, Steps[j] + 1)'
<1>t. TypeOK /\ AttOK /\ d[1] \in Job /\ att[d].outcome \in Terminal
  BY AttPart, JobOf DEF AttOK, AttRec
<1>1. CASE Deliver(d)
  <2>1. job[j] = "success" /\ j \notin shared /\ row' = row
    BY <1>t, <1>1 DEF Deliver, TypeOK
  <2> QED BY <2>1 DEF RecInv, RowsTo, GoodRow
<1>2. CASE ~Deliver(d)
  <2>1. d \in InHand /\ j \notin shared
    BY <1>2, HandsKept
  <2>2. CASE j # d[1]
    <3>1. job[j] = "success" /\ RowsTo(j, Steps[j] + 1)
      BY <2>1, <2>2, StatusKept DEF RecInv
    <3>2. \A i \in 0..Steps[j] : row'[<<j, i>>] = row[<<j, i>>]
      BY <2>2, RowsKept, OpPairs
    <3> QED BY <3>1, <3>2 DEF RowsTo, GoodRow
  <2>3. CASE j = d[1]
    <3>1. job[j] # "success" /\ Tidy(d)
      BY <2>1, <2>3 DEF RecInv, Alone
    <3>2. att[d].pc = "finish" /\ att[d].outcome = "success"
      <4>1. att[d].pc # "due"
        BY <2>1 DEF InHand, Idle
      <4> QED BY <1>t, <2>3, <3>1, <4>1, StatusKept DEF SetJobStatus, TypeOK
    <3>3. RowsTo(j, Steps[j] + 1)
      BY <2>1, <2>3, <3>1, <3>2 DEF Tidy
    <3>4. row' = row
      BY <3>2 DEF RunJob, Deliver, Acquire, StartJob, Checkout, CheckCancelled, DecideStep, Exec,
                  Poll, PollFailed, ExecFails, StoreFails, Release, FinishJob, AttemptFails, At
    <3> QED BY <3>3, <3>4 DEF RowsTo, GoodRow
  <2> QED BY <2>2, <2>3
<1> QED BY <1>1, <1>2

LEMMA RecNext == Inv /\ RecInv /\ [Next]_vars => RecInv'
<1> SUFFICES ASSUME Inv, RecInv, [Next]_vars PROVE RecInv'
  OBVIOUS
<1>t. AttOK /\ TypeOK
  BY AttPart
<1>1. ASSUME NEW d \in Delivery, RunJob(d) PROVE RecInv'
  BY <1>1, RunJobAlone, RunJobTidy, RunJobRecorded DEF RecInv
<1>2. ASSUME row' = row, shared' = shared,
             \A d \in Delivery : att'[d] = att[d] \/ att'[d] = Over,
             \A j \in Job : job'[j] = "success" => job[j] = "success"
      PROVE  RecInv'
  <2>1. \A d \in Delivery : d \in InHand' => d \in InHand /\ att'[d] = att[d]
    BY <1>2, OverIs DEF InHand, Idle
  <2>2. \A j \in Job : \A n : RowsTo(j, n) => RowsTo(j, n)'
    BY <1>2 DEF RowsTo, GoodRow
  <2>3. ASSUME NEW d \in Delivery PROVE Alone(d)'
    <3>1. InHand' \subseteq InHand
      BY <2>1 DEF InHand
    <3> QED BY <1>2, <2>1, <3>1, JobOf DEF RecInv, Alone
  <2>4. ASSUME NEW d \in Delivery PROVE Tidy(d)'
    <3> SUFFICES ASSUME d \in InHand', d[1] \notin shared'
                 PROVE  /\ att'[d].pc \in Loop => RowsTo(d[1], att[d].step)'
                        /\ att'[d].pc \in {"release", "finish"} /\ att'[d].outcome = "success"
                             => RowsTo(d[1], Steps[d[1]] + 1)'
      BY DEF Tidy
    <3>1. att'[d] = att[d] /\ Tidy(d) /\ d \in InHand /\ d[1] \notin shared /\ row' = row
      BY <1>2, <2>1 DEF RecInv
    <3> QED BY <3>1 DEF Tidy, RowsTo, GoodRow
  <2>5. \A j \in Job \ Forgiven : job'[j] = "success" /\ j \notin shared' => RowsTo(j, Steps[j] + 1)'
    BY <1>2, <2>2 DEF RecInv
  <2> QED BY <2>3, <2>4, <2>5 DEF RecInv
<1>3. CASE Crash
  BY <1>t, <1>2, <1>3, CrashDoes DEF Crash, told
<1>4. ASSUME NEW j \in Job, Cancel(j) PROVE RecInv'
  <2>1. \A k \in Job : job'[k] = "success" => job[k] = "success"
    BY <1>t, <1>4 DEF Cancel, TypeOK
  <2> QED BY <1>2, <1>4, <2>1 DEF Cancel
<1>5. CASE UNCHANGED <<att, job, row, shared>>
  BY <1>2, <1>5
<1> QED BY <1>1, <1>3, <1>4, <1>5 DEF Next, OpEnds, Reclaim, vars, told

(* A job that reads success was earned: some VM has its checkout and every *)
(* step of it ended well there, or a step that is tolerated or kept for    *)
(* failures.  Over deliveries that overlap, that end anywhere and that     *)
(* write verdicts over each other's.  And if no two of them ever           *)
(* overlapped, its rows say the same.                                      *)
THEOREM SuccessIsEarned == Spec => []SuccessMeansEveryStep
<1>1. Init => Inv /\ EarnInv /\ RecInv
  <2> SUFFICES ASSUME Init PROVE Inv /\ EarnInv /\ RecInv
    OBVIOUS
  <2>1. \A d \in Delivery : att[d].pc = "due"
    BY DEF Init, NoVmAt
  <2>2. \A j \in Job : job[j] # "success"
    BY DEF Init
  <2>3. EarnInv
    BY <2>1, <2>2 DEF EarnInv, Earned, Loop
  <2>4. RecInv
    BY <2>1, <2>2 DEF RecInv, Alone, Tidy, InHand, Idle
  <2> QED BY <2>3, <2>4, InitInv
<1>2. Inv /\ EarnInv /\ RecInv /\ [Next]_vars => (Inv /\ EarnInv /\ RecInv)'
  BY NextInv, EarnNext, RecNext
<1>3. EarnInv /\ RecInv => SuccessMeansEveryStep
  BY RowsAll DEF EarnInv, RecInv, SuccessMeansEveryStep
<1> QED BY <1>1, <1>2, <1>3, PTL DEF Spec

-----------------------------------------------------------------------------
(* Cancelling.  While the row still says cancelled, a delivery that has    *)
(* started its one command since then is past Exec, and the next boundary  *)
(* will stop it.                                                           *)
LateInv ==
    /\ \A j \in Job : cancel[j] # "no" => job[j] \in Terminal
    /\ \A j \in Job : cancel[j] = "stands" => job[j] = "cancelled"
    /\ \A d \in Delivery :
         /\ cancel[d[1]] = "no" => late[d] = 0
         /\ cancel[d[1]] = "stands" => late[d] <= 1
         /\ cancel[d[1]] = "stands" /\ late[d] = 1
              => att[d].pc \in {"over", "wait", "check", "release", "finish"}

(* Where a delivery that is past Exec goes next: to the boundary, or out.  *)
LEMMA PastExec ==
    ASSUME Inv, NEW d \in Delivery, RunJob(d), job[d[1]] = "cancelled",
           att[d].pc \in {"over", "wait", "check", "release", "finish"}
    PROVE  att'[d].pc \in {"over", "check", "release", "finish"}
<1>t. AttOK
  BY AttPart
<1>1. CASE CheckCancelled(d)
  BY <1>t, <1>1, CheckDoes
<1>2. CASE Poll(d) \/ PollFailed(d) \/ ExecFails(d)
  BY <1>t, <1>2, AnswerDoes, ZenonT(30)
<1>3. CASE StoreFails(d)
  BY <1>t, <1>3, StoreDoes
<1>4. CASE Release(d)
  BY <1>t, <1>4, ReleaseDoes
<1>5. CASE FinishJob(d) \/ AttemptFails(d)
  BY <1>t, <1>5, AttemptOver DEF FinishJob, AttemptFails
<1> QED BY <1>1, <1>2, <1>3, <1>4, <1>5
        DEF RunJob, Deliver, Acquire, StartJob, Checkout, DecideStep, Exec, At

LEMMA LateNext == Inv /\ LateInv /\ [Next]_vars => LateInv'
<1> SUFFICES ASSUME Inv, LateInv, [Next]_vars PROVE LateInv'
  OBVIOUS
<1>t. TypeOK /\ AttOK
  BY AttPart
<1>1. ASSUME NEW d \in Delivery, RunJob(d) PROVE LateInv'
  <2>0. d[1] \in Job /\ Others(d) /\ late[d] \in Nat
    BY <1>1, <1>t, JobOf, LoopKinds DEF TypeOK
  <2>1. CASE Exec(d)
    <3>1. /\ att[d].pc = "post" /\ att'[d].pc = "wait" /\ job' = job /\ cancel' = cancel
          /\ \/ late' = late
             \/ cancel[d[1]] # "no" /\ late' = [late EXCEPT ![d] = late[d] + 1]
      <4>1. att[d].vm # NoVm /\ Goto(d, "wait") /\ att[d].pc = "post"
        BY <1>t, <2>1 DEF Exec, At, AttOK
      <4>2. att'[d].pc = "wait"
        BY <1>t, <4>1, MoveDoes
      <4>3. \/ late' = late
            \/ cancel[d[1]] # "no" /\ late' = [late EXCEPT ![d] = late[d] + 1]
        <5>1. late \in [Delivery -> Nat] /\ [late EXCEPT ![d] = late[d]] = late
          BY <1>t DEF TypeOK
        <5> DEFINE started == cancel[d[1]] # "no" /\ att[d].step > 0
        <5>2. late' = late \/ late' = [late EXCEPT ![d] = IF started THEN late[d] + 1 ELSE late[d]]
          BY <2>1 DEF Exec
        <5>3. started => cancel[d[1]] # "no"
          OBVIOUS
        <5> HIDE DEF started
        <5> QED BY <5>1, <5>2, <5>3
      <4> QED BY <2>1, <4>1, <4>2, <4>3 DEF Exec, told
    <3>2. cancel[d[1]] = "stands" => late[d] = 0
      BY <2>0, <3>1 DEF LateInv
    <3>3. \A e \in Delivery : e # d => late'[e] = late[e] /\ att'[e] = att[e]
      BY <1>t, <2>0, <3>1 DEF TypeOK, Others
    <3>4. /\ cancel[d[1]] = "no" => late'[d] = 0
          /\ cancel[d[1]] = "stands" => late'[d] <= 1
      BY <1>t, <2>0, <3>1, <3>2 DEF TypeOK, LateInv
    <3> QED BY <3>1, <3>3, <3>4 DEF LateInv
  <2>2. CASE ~Exec(d)
    <3>1. late' = late
      BY <1>1, <2>2 DEF RunJob, Deliver, Acquire, StartJob, Checkout, CheckCancelled, DecideStep, Poll,
                PollFailed, ExecFails, StoreFails, Lost, Release, FinishJob, AttemptFails, guest
    <3>2. \A j \in Job : cancel'[j] # "no" => job'[j] \in Terminal
      BY <1>t, <1>1, <2>0, StatusKept DEF LateInv, SetJobStatus, TypeOK, Terminal, AttOK, AttRec
    <3>3. \A j \in Job : cancel'[j] = "stands" => cancel[j] = "stands" /\ job'[j] = "cancelled"
      BY <1>t, <1>1, <2>0, StatusKept DEF LateInv, SetJobStatus, TypeOK, Terminal
    <3>4. \A j \in Job : cancel'[j] = "no" => cancel[j] = "no"
      BY <1>t, <1>1, <2>0, StatusKept DEF SetJobStatus, TypeOK
    <3>5. cancel'[d[1]] = "stands" /\ late'[d] = 1
             => att'[d].pc \in {"over", "wait", "check", "release", "finish"}
      BY <1>1, <2>0, <3>1, <3>3, PastExec DEF LateInv
    <3>6. \A e \in Delivery : e # d /\ cancel'[e[1]] = "stands" /\ late'[e] = 1
             => att'[e].pc \in {"over", "wait", "check", "release", "finish"}
      BY <2>0, <3>1, <3>3, JobOf DEF LateInv, Others
    <3> QED BY <3>1, <3>2, <3>3, <3>4, <3>5, <3>6, JobOf DEF LateInv
  <2> QED BY <2>1, <2>2
<1>2. ASSUME NEW j \in Job, Cancel(j) PROVE LateInv'
  <2>1. cancel[j] = "no" /\ job' = [job EXCEPT ![j] = "cancelled"]
        /\ cancel' = [cancel EXCEPT ![j] = "stands"] /\ late' = late /\ att' = att
    BY <1>2 DEF Cancel, LateInv, guest
  <2>2. \A k \in Job : k # j => job'[k] = job[k] /\ cancel'[k] = cancel[k]
    BY <1>t, <2>1 DEF TypeOK
  <2>3. job'[j] = "cancelled" /\ cancel'[j] = "stands"
    BY <1>t, <2>1 DEF TypeOK
  <2> QED BY <2>1, <2>2, <2>3, JobOf DEF LateInv, Terminal
<1>3. CASE Crash
  <2>1. \A d \in Delivery : att'[d] = Over \/ att'[d] = att[d]
    BY <1>t, <1>3, CrashDoes
  <2>2. job' = job /\ cancel' = cancel /\ late' = late
    BY <1>3 DEF Crash, told
  <2> QED BY <2>1, <2>2, OverIs DEF LateInv
<1>4. CASE UNCHANGED <<job, att, late, cancel>>
  BY <1>4 DEF LateInv
<1> QED BY <1>1, <1>2, <1>3, <1>4 DEF Next, OpEnds, Reclaim, vars, told

(* Cancelling stops everything but the step in hand, in each delivery of   *)
(* the job, however many run at once and wherever they were when the row   *)
(* was cancelled, for as long as no verdict is written over it.            *)
THEOREM CancelLetsOneThrough == Spec => []CancelStopsSteps
<1>1. Init => Inv /\ LateInv
  BY InitInv DEF Init, LateInv
<1>2. Inv /\ LateInv /\ [Next]_vars => (Inv /\ LateInv)'
  BY NextInv, LateNext
<1>3. Inv /\ LateInv => CancelStopsSteps
  BY JobOf DEF LateInv, CancelStopsSteps, Inv, TypeOK
<1> QED BY <1>1, <1>2, <1>3, PTL DEF Spec

-----------------------------------------------------------------------------
(* Trees.  On a VM a delivery found without a record of its job's          *)
(* checkout, only its own commands can be running from the moment that     *)
(* checkout has started, and its tree is there once it has ended well.     *)
Own(d) ==
    att[d].vm # NoVm /\ ~att[d].again =>
        LET v == att[d].vm
            own == op[v][<<d[1], 0>>]
        IN  /\ own \in {"running", "ok"} => \A o \in Op : op[v][o] = "running" => o[1] = d[1]
            /\ own = "ok" => tree[v] = d[1]

LEMMA OwnKept ==
    ASSUME NEW d \in Delivery, Own(d), att'[d] = att[d],
           op'[att[d].vm] = op[att[d].vm], tree'[att[d].vm] = tree[att[d].vm]
    PROVE  Own(d)'
BY DEF Own

(* A command ends in some VM.                                              *)
LEMMA OwnWhenOpEnds ==
    ASSUME Inv, NEW d \in Delivery, Own(d), NEW w \in Vm, NEW q \in Op, OpEnds(w, q[1], q[2])
    PROVE  Own(d)'
<1>t. TypeOK /\ AttOK /\ d[1] \in Job
  BY AttPart, JobOf
<1>q. <<q[1], q[2]>> = q /\ <<d[1], 0>> \in Op /\ q[1] \in Job
  BY <1>t, OpPairs, ExecAssumption
<1>1. PICK r \in {"ok", "bad"} :
        /\ op[w][q] = "running" /\ op' = [op EXCEPT ![w][q] = r]
        /\ tree' = IF q[2] > 0 THEN tree ELSE [tree EXCEPT ![w] = IF r = "ok" THEN q[1] ELSE NoJob]
        /\ att' = att
  BY <1>q DEF OpEnds, OpOf
<1>2. CASE att[d].vm # w
  <2>1. op'[att[d].vm] = op[att[d].vm] /\ tree'[att[d].vm] = tree[att[d].vm]
    BY <1>t, <1>1, <1>2 DEF TypeOK
  <2> QED BY <1>1, <2>1, OwnKept
<1>3. CASE att[d].vm = w
  <2> SUFFICES ASSUME ~att[d].again
               PROVE  /\ op'[w][<<d[1], 0>>] \in {"running", "ok"}
                           => \A o \in Op : op'[w][o] = "running" => o[1] = d[1]
                      /\ op'[w][<<d[1], 0>>] = "ok" => tree'[w] = d[1]
    BY <1>1, <1>3 DEF Own
  <2>1. /\ op'[w][q] = r /\ \A o \in Op : o # q => op'[w][o] = op[w][o]
        /\ tree'[w] = IF q[2] > 0 THEN tree[w] ELSE IF r = "ok" THEN q[1] ELSE NoJob
    BY <1>t, <1>1 DEF TypeOK
  <2>2. /\ op[w][<<d[1], 0>>] \in {"running", "ok"} => \A o \in Op : op[w][o] = "running" => o[1] = d[1]
        /\ op[w][<<d[1], 0>>] = "ok" => tree[w] = d[1]
    BY <1>3, ExecAssumption DEF Own
  <2>3. CASE q = <<d[1], 0>>
    <3>1. q[1] = d[1] /\ q[2] = 0
      BY <2>3
    <3> QED BY <1>1, <1>q, <2>1, <2>2, <2>3, <3>1
  <2>4. CASE q # <<d[1], 0>>
    <3>1. op'[w][<<d[1], 0>>] = op[w][<<d[1], 0>>]
      BY <1>q, <2>1, <2>4
    <3>2. op[w][<<d[1], 0>>] \in {"running", "ok"} => q[1] = d[1] /\ q[2] > 0
      <4>1. op[w][<<d[1], 0>>] \in {"running", "ok"} => q[1] = d[1]
        BY <1>1, <2>2
      <4>2. q[1] = d[1] => q[2] # 0
        BY <1>q, <2>4
      <4>3. q[2] \in Nat
        BY OpPairs, ExecAssumption
      <4> QED BY <4>1, <4>2, <4>3
    <3> QED BY <1>1, <2>1, <2>2, <3>1, <3>2
  <2> QED BY <2>3, <2>4
<1> QED BY <1>2, <1>3

(* A delivery's own steps.                                                 *)
LEMMA OwnOfStep ==
    ASSUME Inv, NEW d \in Delivery, Own(d), RunJob(d)
    PROVE  Own(d)'
<1>t. TypeOK /\ AttOK /\ PlaceOK /\ d[1] \in Job
  BY AttPart, JobOf
<1>1. CASE Acquire(d)
  <2>1. /\ att'[d].again = (op[att'[d].vm][<<d[1], 0>>] # "none") /\ op' = op
    BY <1>t, <1>1, AcquireDoes DEF Acquire
  <2> QED BY <2>1 DEF Own
<1>2. CASE Exec(d)
  <2>1. att[d].pc = "post" /\ att[d].vm # NoVm /\ Goto(d, "wait") /\ att[d].vm \in Vm /\ tree' = tree
    BY <1>t, <1>2 DEF Exec, At, AttOK, AttRec
  <2>2. att'[d].vm = att[d].vm /\ att'[d].again = att[d].again
    BY <1>t, <2>1, MoveDoes
  <2>3. PICK v \in Vm : v = att[d].vm
    BY <2>1
  <2>i. PICK i \in 0..Steps[d[1]] : i = att[d].step
    BY <1>t, JobOf DEF AttOK, AttRec
  <2>o. <<d[1], i>> \in Op /\ <<d[1], 0>> \in Op
    BY <1>t, OpPairs, ExecAssumption
  <2>4. CASE op' = op
    BY <2>1, <2>2, <2>4 DEF Own
  <2>5. CASE op' = [op EXCEPT ![v][<<d[1], i>>] = "failed"]
    <3>1. op'[v][<<d[1], i>>] = "failed" /\ \A o \in Op : o # <<d[1], i>> => op'[v][o] = op[v][o]
      BY <1>t, <2>5, <2>o DEF TypeOK
    <3> QED BY <2>1, <2>2, <2>3, <2>o, <3>1 DEF Own
  <2>6. CASE op' = [op EXCEPT ![v][<<d[1], i>>] = "running"] /\ ~Busy(v)
    <3>1. op'[v][<<d[1], i>>] = "running" /\ \A o \in Op : o # <<d[1], i>> => op'[v][o] = op[v][o]
      BY <1>t, <2>6, <2>o DEF TypeOK
    <3>2. \A o \in Op : op'[v][o] = "running" => o[1] = d[1]
      BY <2>6, <3>1 DEF Busy
    <3>3. op'[v][<<d[1], 0>>] = "ok" => op[v][<<d[1], 0>>] = "ok"
      BY <2>o, <3>1
    <3> QED BY <2>1, <2>2, <2>3, <3>2, <3>3 DEF Own
  <2> QED BY <1>2, <2>3, <2>i, <2>4, <2>5, <2>6 DEF Exec, OpOf
<1>3. CASE ~Acquire(d) /\ ~Exec(d)
  <2>1. op' = op /\ tree' = tree
    BY <1>3 DEF RunJob, Deliver, StartJob, Checkout, CheckCancelled, DecideStep, Poll,
                PollFailed, ExecFails, StoreFails, Lost, Release, FinishJob, AttemptFails, guest
  <2>2. \/ att'[d].vm = NoVm
        \/ att'[d].vm = att[d].vm /\ att'[d].again = att[d].again
    <3>1. CASE Deliver(d)
      BY <1>t, <3>1, DeliverDoes
    <3>2. CASE StartJob(d)
      <4>1. CASE job[d[1]] \in Terminal
        BY <1>t, <3>2, <4>1, AttemptOver DEF StartJob
      <4>2. CASE job[d[1]] \notin Terminal
        <5>1. att[d].pc = "start" /\ att[d].vm # NoVm
          BY <1>t, <3>2 DEF StartJob, At, AttOK
        <5> QED BY <1>t, <3>2, <4>2, <5>1, MoveDoes DEF StartJob
      <4> QED BY <4>1, <4>2
    <3>3. CASE Checkout(d)
      <4>1. att[d].pc = "checkout" /\ att[d].vm # NoVm
        BY <1>t, <3>3 DEF Checkout, At, AttOK
      <4> QED BY <1>t, <3>3, <4>1, MoveDoes, LoopBreak DEF Checkout
    <3>4. CASE CheckCancelled(d)
      BY <1>t, <3>4, CheckDoes
    <3>5. CASE DecideStep(d)
      BY <1>t, <3>5, DecideDoes
    <3>6. CASE Poll(d) \/ PollFailed(d) \/ ExecFails(d)
      BY <1>t, <3>6, AnswerDoes
    <3>7. CASE StoreFails(d)
      BY <1>t, <3>7, StoreDoes
    <3>8. CASE Release(d)
      BY <1>t, <3>8, ReleaseDoes
    <3>9. CASE FinishJob(d) \/ AttemptFails(d)
      BY <1>t, <3>9, AttemptOver DEF FinishJob, AttemptFails
    <3> QED BY <1>3, <3>1, <3>2, <3>3, <3>4, <3>5, <3>6, <3>7, <3>8, <3>9 DEF RunJob
  <2> QED BY <2>1, <2>2 DEF Own
<1> QED BY <1>1, <1>2, <1>3

(* Another delivery's are in a VM of its own.                              *)
LEMMA OwnOfOthers ==
    ASSUME Inv, NEW d \in Delivery, NEW e \in Delivery, e # d, Own(e), RunJob(d)
    PROVE  Own(e)'
<1>t. TypeOK /\ AttOK /\ HoldInv
  BY AttPart
<1>1. att'[e] = att[e]
  BY LoopKinds DEF Others
<1>2. CASE att[e].vm = NoVm
  BY <1>1, <1>2 DEF Own
<1>3. CASE att[e].vm # NoVm
  <2>1. tree' = tree
    BY DEF RunJob, Deliver, Acquire, StartJob, Checkout, CheckCancelled, DecideStep, Exec, Poll,
           PollFailed, ExecFails, StoreFails, Lost, Release, FinishJob, AttemptFails, guest
  <2>2. op'[att[e].vm] = op[att[e].vm]
    <3>1. CASE Exec(d)
      <4>1. att[d].vm # NoVm
        BY <1>t, <3>1 DEF Exec, At, AttOK
      <4>2. att[d].vm # att[e].vm
        BY <1>t, <4>1 DEF HoldInv
      <4>3. op' = op \/ \E s : op' = [op EXCEPT ![att[d].vm][<<d[1], att[d].step>>] = s]
        BY <3>1 DEF Exec, OpOf
      <4>4. op \in [Vm -> [Op -> OpState]] /\ att[e].vm \in Vm
        BY <1>t, <1>3 DEF TypeOK, OpState, AttOK, AttRec
      <4> QED BY <4>2, <4>3, <4>4
    <3>2. CASE ~Exec(d)
      BY <3>2 DEF RunJob, Deliver, Acquire, StartJob, Checkout, CheckCancelled, DecideStep, Poll,
                PollFailed, ExecFails, StoreFails, Lost, Release, FinishJob, AttemptFails, guest
    <3> QED BY <3>1, <3>2
  <2> QED BY <1>1, <2>1, <2>2, OwnKept
<1> QED BY <1>2, <1>3

TreeInv == \A d \in Delivery : Own(d)

LEMMA TreeNext == Inv /\ TreeInv /\ [Next]_vars => TreeInv'
<1> SUFFICES ASSUME Inv, TreeInv, [Next]_vars, NEW d \in Delivery PROVE Own(d)'
  BY DEF TreeInv
<1>t. Own(d) /\ AttOK
  BY AttPart DEF TreeInv
<1>1. ASSUME NEW e \in Delivery, RunJob(e) PROVE Own(d)'
  BY <1>t, <1>1, OwnOfStep, OwnOfOthers
<1>2. ASSUME NEW w \in Vm, NEW q \in Op, OpEnds(w, q[1], q[2]) PROVE Own(d)'
  BY <1>t, <1>2, OwnWhenOpEnds
<1>3. CASE Crash
  <2>1. (att'[d] = Over \/ att'[d] = att[d]) /\ op' = op /\ tree' = tree
    BY <1>t, <1>3, CrashDoes DEF Crash
  <2> QED BY <1>t, <2>1, OverIs DEF Own
<1>4. CASE UNCHANGED <<att, op, tree>>
  BY <1>t, <1>4 DEF Own
<1> QED BY <1>1, <1>2, <1>3, <1>4 DEF Next, Cancel, Reclaim, vars, guest

(* No command of a step ever runs in another job's tree, on any VM its job *)
(* was not on before: whoever had the VM, however it was left, and         *)
(* whatever was still running in it.                                       *)
THEOREM OwnTreeAtFirst == Spec => FirstRunsOnOwnTree
<1>1. Init => Inv /\ EarnInv /\ TreeInv
  <2> SUFFICES ASSUME Init PROVE Inv /\ EarnInv /\ TreeInv
    OBVIOUS
  <2>1. \A d \in Delivery : att[d].pc = "due" /\ att[d].vm = NoVm
    BY DEF Init, NoVmAt
  <2>2. \A j \in Job : job[j] # "success"
    BY DEF Init
  <2>3. EarnInv
    BY <2>1, <2>2 DEF EarnInv, Earned, Loop
  <2>4. TreeInv
    BY <2>1 DEF TreeInv, Own
  <2> QED BY <2>3, <2>4, InitInv
<1>2. Inv /\ EarnInv /\ TreeInv /\ [Next]_vars => (Inv /\ EarnInv /\ TreeInv)'
  BY NextInv, EarnNext, TreeNext
<1>3. Inv /\ EarnInv /\ TreeInv /\ [Next]_vars
        => [\A d \in Delivery : Starts(d) /\ ~att[d].again => tree[att[d].vm] = d[1]]_vars
  <2> SUFFICES ASSUME Inv, EarnInv, TreeInv, NEW d \in Delivery, Starts(d), ~att[d].again
               PROVE  tree[att[d].vm] = d[1]
    OBVIOUS
  <2>1. AttOK /\ Earned(d) /\ Own(d) /\ Steps[d[1]] \in Nat
    BY AttPart, JobOf DEF EarnInv, TreeInv
  <2>2. att[d].pc = "post" /\ att[d].step > 0 /\ att[d].vm # NoVm
    BY <2>1 DEF Starts, At, AttOK
  <2>3. Good(att[d].vm, d[1], 0)
    BY <2>1, <2>2 DEF Earned, Loop, Reached
  <2>4. op[att[d].vm][<<d[1], 0>>] = "ok"
    BY <2>3 DEF Good
  <2> QED BY <2>1, <2>2, <2>4 DEF Own
<1> QED BY <1>1, <1>2, <1>3, PTL DEF Spec, FirstRunsOnOwnTree
=============================================================================
