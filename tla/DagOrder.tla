------------------------------ MODULE DagOrder ------------------------------
(***************************************************************************)
(* What the scheduler promises, with every queue, snapshot and process     *)
(* taken away: tasks are launched in an order that respects a dependency   *)
(* relation, and a task that has settled is finished with.                 *)
(***************************************************************************)
CONSTANTS Task,    \* the jobs of a run
          Before   \* Before[t]: the tasks that must settle before t launches

VARIABLE state     \* "waiting", "launched" or "settled", per task

Init == state = [t \in Task |-> "waiting"]

(* A consumer commits to the task.                                         *)
Launch(t) ==
    /\ state[t] = "waiting"
    /\ \A u \in Before[t] : state[u] = "settled"
    /\ state' = [state EXCEPT ![t] = "launched"]

(* Tasks finish, fail, are skipped, or are cancelled, some of them without *)
(* ever being launched; cancelling settles several at once.                *)
Settle(S) ==
    /\ \A t \in S : state[t] # "settled"
    /\ state' = [t \in Task |-> IF t \in S THEN "settled" ELSE state[t]]

Next == (\E t \in Task : Launch(t)) \/ (\E S \in SUBSET Task : Settle(S))

Spec == Init /\ [][Next]_state
=============================================================================
