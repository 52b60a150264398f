----------------------------- MODULE MCJobExec -----------------------------
(***************************************************************************)
(* Instances of JobExec for TLC: a job with every kind of step, alone with *)
(* two VMs, or two one-step jobs after the same VMs.                       *)
(***************************************************************************)
EXTENDS JobExec, TLC

CONSTANTS j1, j2, j3, v1, v2

StepCounts == j1 :> 1 @@ j2 :> 1 @@ j3 :> 3

(* j3 has a command, a step for when it failed, and a cleanup step.        *)
Cleanup == [o \in StepNo |->
    IF o[1] # j3 \/ o[2] = 1 THEN "none" ELSE IF o[2] = 2 THEN "failure" ELSE "always"]

FirstOfThree == {<<j3, 1>>}

Faults(crash, attempt, store, exec, cancels, lapses) ==
    "crash" :> crash @@ "attempt" :> attempt @@ "store" :> store @@ "exec" :> exec
        @@ "cancel" :> cancels @@ "lapse" :> lapses

OneOfEach  == [queued |-> {j3}, faults |-> Faults(1, 1, 1, 1, 1, 0)]
SharedVms  == [queued |-> {j1, j2}, faults |-> Faults(1, 1, 0, 0, 0, 0)]

(* The ack window lapses under a delivery at work.                         *)
TwoAtOnce  == [queued |-> {j3}, faults |-> Faults(1, 1, 0, 0, 1, 1)]
SharedTwo  == [queued |-> {j1, j2}, faults |-> Faults(0, 0, 0, 0, 0, 1)]
MCScenarios == {OneOfEach, SharedVms, TwoAtOnce, SharedTwo}

OneLapse   == {[queued |-> {j3}, faults |-> Faults(0, 0, 0, 0, 1, 1)]}

OneCrash   == {[queued |-> {j1, j2}, faults |-> Faults(1, 0, 0, 0, 0, 0)]}
=============================================================================
