----------------------------- MODULE MCDispatch -----------------------------
(***************************************************************************)
(* Instances of Dispatch for TLC: four plans, two placements of tasks on   *)
(* processes and hosts, and the fault budgets of the runs.                 *)
(***************************************************************************)
EXTENDS Dispatch, TLC

CONSTANTS p1, p2, w1, w2, l1, web, h1, h2

(* A chain: deploy needs build.                                            *)
ChainJob == {1, 2}
ChainBase == 1 :> "build" @@ 2 :> "deploy"
ChainNeeds == 1 :> {} @@ 2 :> {"build"}
ChainCondition == [j \in ChainJob |-> "none"]

(* One job, for long fault sequences.                                      *)
SingleJob == {1}
SingleBase == 1 :> "build"
SingleNeeds == 1 :> {}
SingleCondition == 1 :> "none"

(* A matrix of two cells and a job that needs both.                        *)
MatrixJob == {1, 2, 3}
MatrixBase == 1 :> "build" @@ 2 :> "build" @@ 3 :> "deploy"
MatrixNeeds == 1 :> {} @@ 2 :> {} @@ 3 :> {"build"}
MatrixCondition == [j \in MatrixJob |-> "none"]

(* A chain ending in a cleanup job with `if: always()`.                    *)
TailJob == {1, 2, 3}
TailBase == 1 :> "build" @@ 2 :> "deploy" @@ 3 :> "cleanup"
TailNeeds == 1 :> {} @@ 2 :> {"build"} @@ 3 :> {"deploy"}
TailCondition == 1 :> "none" @@ 2 :> "none" @@ 3 :> "always"

(* Every job pinned to the same host.                                      *)
OneHost == [j \in Job |-> h1]

(* One process with one consumer; or two processes, each with a consumer   *)
(* on the same host's subject.                                             *)
OneProcess == [a \in Actor |-> p1]
OneRoute == w1 :> h1
TwoProcesses == [a \in Actor |-> IF a = w2 THEN p2 ELSE p1]
SharedRoute == w1 :> h1 @@ w2 :> h1

Faults(crash, publish, attempt, store, ack, cancels) ==
    "crash" :> crash @@ "publish" :> publish @@ "attempt" :> attempt @@
    "store" :> store @@ "ack" :> ack @@ "cancel" :> cancels

NoFaults       == Faults(0, 0, 0, 0, 0, 0)
CancelOrError  == Faults(0, 0, 1, 0, 0, 1)
LostCalls      == Faults(1, 1, 2, 1, 1, 0)
CancelOnly     == Faults(0, 0, 0, 0, 0, 1)
=============================================================================
