------------------------------ MODULE RunPlan ------------------------------
(***************************************************************************)
(* The stored plan of one run, and the pure functions the dispatcher and   *)
(* the store compute from it and from the job rows: which statuses are     *)
(* terminal, when a job's `needs:` are satisfied, what its `if:` decides,  *)
(* and what the run's own status is.  No state lives here.                 *)
(***************************************************************************)
EXTENDS Naturals, FiniteSets

CONSTANTS
    Job,              \* rows of ci_job for the run, numbered in job_key order
    Base,             \* base_id: [Job -> STRING]; matrix cells share one
    Needs,            \* plan.needs: the base ids a job waits for
    Condition,        \* the `if:` of a job: "none" when it wrote none
    BadPlan,          \* jobs whose stored plan JSON cannot be read back
    Unroutable,       \* jobs `route_for` may refuse to place
    MayFail,          \* jobs whose checkout or steps may fail
    ContinueOnError   \* jobs with continue-on-error

(* `if:` expressions, by what evaluating them can return: see Verdict.     *)
ConditionKind == {"none", "always", "failure", "bad"}

(* Job numbers are order only.  Every base a job needs is a base of the    *)
(* plan, which Plan::build checks before a run is created.                 *)
ASSUME PlanAssumption ==
    /\ Job \subseteq Nat \ {0}
    /\ IsFiniteSet(Job)
    /\ Base \in [Job -> STRING]
    /\ Needs \in [Job -> SUBSET {Base[j] : j \in Job}]
    /\ Condition \in [Job -> ConditionKind]
    /\ {BadPlan, Unroutable, MayFail, ContinueOnError} \subseteq SUBSET Job

-----------------------------------------------------------------------------

JobTerminal == {"success", "failure", "skipped", "cancelled"}
JobStatus   == {"pending", "queued", "running"} \cup JobTerminal

RunTerminal == {"success", "failure", "cancelled"}
RunStatus   == {"queued", "running"} \cup RunTerminal

(* The cells of a base id.                                                 *)
Cells(b) == {j \in Job : Base[j] = b}

(* A base id is satisfied once every cell of it is terminal, judged on the *)
(* rows `rows` that one SELECT returned.                                   *)
NeedsTerminal(rows, j) ==
    \A b \in Needs[j] : \A c \in Cells(b) : rows[c] \in JobTerminal

Rank(s) == CASE s = "success"   -> 0
             [] s = "skipped"   -> 1
             [] s = "cancelled" -> 3
             [] s = "failure"   -> 4
             [] OTHER           -> 2

(* needs.<base>.result: the worst status among the base's cells, starting  *)
(* from success.  Statuses of equal rank are all "not finished"; which one *)
(* is reported is immaterial to the callers here.                          *)
NeedsResult(rows, b) ==
    LET seen == {"success"} \cup {rows[c] : c \in Cells(b)}
    IN  CHOOSE s \in seen : \A t \in seen : Rank(t) <= Rank(s)

AnyFailed(rows, j) ==
    \E b \in Needs[j] : NeedsResult(rows, b) \in {"failure", "cancelled"}

(* should_run, with its three results: run the job, skip it, or fail it    *)
(* because the condition cannot be evaluated.                              *)
ShouldRun(rows, j) ==
    CASE Condition[j] = "none"    -> IF AnyFailed(rows, j) THEN "skip" ELSE "run"
      [] Condition[j] = "always"  -> "run"
      [] Condition[j] = "failure" -> IF AnyFailed(rows, j) THEN "run" ELSE "skip"
      [] Condition[j] = "bad"     -> "fail"

(* roll_up_run's value for the run, from one SELECT of its jobs' statuses. *)
RollUp_any_success(rows) ==
    LET seen == {rows[j] : j \in Job}
    IN  IF "cancelled" \in seen THEN "cancelled"
        ELSE IF "failure" \in seen THEN "failure"
        ELSE IF "success" \in seen THEN "success"
        ELSE "running"
RollUp(rows) ==
    LET seen == {rows[j] : j \in Job}
    IN  IF "cancelled" \in seen THEN "cancelled"
        ELSE IF "failure" \in seen THEN "failure"
        ELSE IF seen \subseteq {"success", "skipped"} THEN "success"
        ELSE "running"
=============================================================================
