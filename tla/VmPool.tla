------------------------------- MODULE VmPool -------------------------------
(***************************************************************************)
(* The warm VM pool: the ci_vm_pool table, the sandboxes its rows stand    *)
(* for, and everything that writes either.  Executor tasks claim, create,  *)
(* register and hand back VMs (acquire_vm, release_vm); every instance's   *)
(* lease loop renews its own leases and reclaims lapsed ones; the web      *)
(* handlers drain and destroy idle VMs.  Each SQL statement is one step.   *)
(*                                                                         *)
(* Clocks are abstracted to what pool.rs asks of them: a lease has lapsed  *)
(* or it has not.  A lease can lapse only while nobody renews it, that is  *)
(* once its holder is dead, or at any time when MayStall lets a live       *)
(* instance miss its renewals for a whole CI_VM_LEASE_SECS.                *)
(***************************************************************************)
EXTENDS Naturals, FiniteSets

CONSTANTS
    Vm,         \* sandbox ids; the daemon never reuses one
    Placeholder,\* keys of `building` rows, one per job
    Task,       \* executor tasks
    JobRow,     \* the placeholder key of the job a task is given
    Instance,   \* instance ids: random per process, so never used twice
    Nobody,     \* SQL NULL in leased_by
    NoVm,       \* a task without a sandbox
    Runner,     \* hosts
    Owner,      \* the instance a task runs in
    HostOf,     \* the host a VM lives on, or a job is routed to
    Fits,       \* <<t, v>>: v has t's runner and fingerprint
    Serves,     \* the hosts in an instance's runner snapshot
    Reuse,      \* tasks whose plan has vm.reuse
    MayStall,   \* whether a live instance may miss its lease renewals
    MaxFaults   \* bound on each kind of fault

(* A database or daemon call fails where the caller carries on; an attempt *)
(* is cut off.                                                             *)
Fault == {"call", "cutoff"}

(* Placeholder rows are keyed by the job (building_id), so two deliveries  *)
(* of one job share a row.                                                 *)
Key == Vm \cup Placeholder

ASSUME PoolAssumption ==
    /\ Vm \cap Placeholder = {}
    /\ JobRow \in [Task -> Placeholder]
    /\ Nobody \notin Instance
    /\ NoVm \notin Key
    /\ Owner \in [Task -> Instance]
    /\ HostOf \in [Key -> Runner]
    /\ Fits \subseteq Task \X Vm
    /\ Serves \in [Instance -> SUBSET Runner]
    /\ Reuse \subseteq Task
    /\ MayStall \in BOOLEAN
    /\ MaxFaults \in [Fault -> Nat]

VARIABLES
    row,        \* ci_vm_pool: status, leased_by, and leased_until < now()
    sandbox,    \* what the daemon has: "unmade", "live" or "gone"
    task,       \* where each executor task is, and the VM in its hand
    alive,      \* instances running
    unused,     \* instance ids no process has taken yet
    sweep,      \* rows an instance drained and has yet to destroy
    sweptOut,   \* sandboxes it destroyed and has yet to forget
    faults

vars == <<row, sandbox, task, alive, unused, sweep, sweptOut, faults>>

RowStatus == {"absent", "idle", "claimed", "building", "draining"}
RowRec == [status : RowStatus, lessee : Instance \cup {Nobody}, lapsed : BOOLEAN]
Absent == [status |-> "absent", lessee |-> Nobody, lapsed |-> FALSE]
Idle   == [status |-> "idle", lessee |-> Nobody, lapsed |-> FALSE]
Leased(s, i) == [status |-> s, lessee |-> i, lapsed |-> FALSE]

(* "open": claimed a warm VM, not yet known to run.  "boot": creating one; *)
(* `noted` if it recorded a placeholder.  "made": created, placeholder     *)
(* still there.  "register": placeholder gone, no row yet.  "using": the   *)
(* job runs.  "discard": destroyed, or not, and about to be forgotten.     *)
TaskPc == {"idle", "open", "create", "boot", "made", "register", "using", "discard"}
TaskRec == [pc : TaskPc, vm : Vm \cup {NoVm}, noted : BOOLEAN]
TaskAt(pc, v, n) == [pc |-> pc, vm |-> v, noted |-> n]
IdleTask == TaskAt("idle", NoVm, FALSE)

(* Placeholders are only ever building, and nothing else is: a placeholder *)
(* must never reach a query that talks to a daemon.                        *)
TypeOK ==
    /\ row \in [Key -> RowRec]
    /\ \A k \in Placeholder : row[k].status \in {"absent", "building"}
    /\ \A v \in Vm : row[v].status # "building"
    /\ sandbox \in [Vm -> {"unmade", "live", "gone"}]
    /\ task \in [Task -> TaskRec]
    /\ \A t \in Task : task[t].vm = NoVm <=> task[t].pc \in {"idle", "create", "boot"}
    /\ alive \in SUBSET Instance
    /\ unused \in SUBSET Instance
    /\ sweep \in [Instance -> SUBSET Vm]
    /\ sweptOut \in [Instance -> SUBSET Vm]
    /\ faults \in [Fault -> Nat]

Init ==
    /\ row = [k \in Key |-> Absent]
    /\ sandbox = [v \in Vm |-> "unmade"]
    /\ task = [t \in Task |-> IdleTask]
    /\ alive = {}
    /\ unused = Instance
    /\ sweep = [i \in Instance |-> {}]
    /\ sweptOut = [i \in Instance |-> {}]
    /\ faults = [f \in Fault |-> 0]

Spend(f) ==
    /\ faults[f] < MaxFaults[f]
    /\ faults' = [faults EXCEPT ![f] = @ + 1]

Put(k, r) == row' = [row EXCEPT ![k] = r]
(* Pool::forget, where the caller logs an error and goes on.               *)
Forget(k) == \/ Put(k, Absent) /\ UNCHANGED faults
             \/ Spend("call") /\ UNCHANGED row
Goto(t, pc) == task' = [task EXCEPT ![t].pc = pc]
At(t, pc) == Owner[t] \in alive /\ task[t].pc = pc

-----------------------------------------------------------------------------
(* acquire_vm.                                                             *)

Matching_unclaimed(t) ==
    {v \in Vm : <<t, v>> \in Fits /\ row[v].status \in {"idle", "draining"}}
Matching(t) == {v \in Vm : <<t, v>> \in Fits /\ row[v].status = "idle"}

(* Pool::claim: one UPDATE, so the VM changes hands in one step.           *)
Claim(t) ==
    /\ At(t, "idle")
    /\ t \in Reuse
    /\ \E v \in Matching(t) :
        /\ Put(v, Leased("claimed", Owner[t]))
        /\ task' = [task EXCEPT ![t] = TaskAt("open", v, FALSE)]
    /\ UNCHANGED <<sandbox, alive, unused, sweep, sweptOut, faults>>

ClaimNothing(t) ==
    /\ At(t, "idle")
    /\ t \notin Reuse \/ Matching(t) = {}
    /\ Goto(t, "create")
    /\ UNCHANGED <<row, sandbox, alive, unused, sweep, sweptOut, faults>>

(* ensure_running: a VM the daemon still has is started if need be.        *)
OpenClaimed(t) ==
    /\ At(t, "open")
    /\ sandbox[task[t].vm] = "live"
    /\ Goto(t, "using")
    /\ UNCHANGED <<row, sandbox, alive, unused, sweep, sweptOut, faults>>

(* ... and one it lost, or that does not come up, is forgotten and         *)
(* replaced.  The forget's own error is dropped.                           *)
OpenUnusable(t) ==
    /\ At(t, "open")
    /\ \/ sandbox[task[t].vm] # "live" /\ Forget(task[t].vm)
       \/ sandbox[task[t].vm] = "live" /\ Spend("call") /\ Put(task[t].vm, Absent)
    /\ task' = [task EXCEPT ![t] = TaskAt("create", NoVm, FALSE)]
    /\ UNCHANGED <<sandbox, alive, unused, sweep, sweptOut>>

(* begin_build inserts the placeholder, or takes over the one another      *)
(* delivery of the job left; an error is only logged.                      *)
BeginBuild(t) ==
    /\ At(t, "create")
    /\ \/ /\ Put(JobRow[t], Leased("building", Owner[t]))
          /\ task' = [task EXCEPT ![t] = TaskAt("boot", NoVm, TRUE)]
          /\ UNCHANGED faults
       \/ Spend("call") /\ Goto(t, "boot") /\ UNCHANGED row
    /\ UNCHANGED <<sandbox, alive, unused, sweep, sweptOut>>

(* The daemon assigns a fresh sandbox id.                                  *)
CreateVm(t) ==
    /\ At(t, "boot")
    /\ \E v \in Vm :
        /\ sandbox[v] = "unmade" /\ <<t, v>> \in Fits
        /\ sandbox' = [sandbox EXCEPT ![v] = "live"]
        /\ task' = [task EXCEPT ![t].pc = "made", ![t].vm = v]
    /\ UNCHANGED <<row, alive, unused, sweep, sweptOut, faults>>

(* Whichever way the create went, the task clears the placeholder it made. *)
ClearPlaceholder(t) ==
    IF task[t].noted THEN Forget(JobRow[t]) ELSE UNCHANGED <<row, faults>>

(* A failed create ends the attempt.                                       *)
CreateFails(t) ==
    /\ At(t, "boot")
    /\ ClearPlaceholder(t)
    /\ task' = [task EXCEPT ![t] = IdleTask]
    /\ UNCHANGED <<sandbox, alive, unused, sweep, sweptOut>>

ForgetBuilding(t) ==
    /\ At(t, "made")
    /\ ClearPlaceholder(t)
    /\ Goto(t, "register")
    /\ UNCHANGED <<sandbox, alive, unused, sweep, sweptOut>>

(* Pool::register: claimed from the start, never idle first.               *)
Register_idle(t) ==
    /\ At(t, "register")
    /\ Put(task[t].vm, Idle)
    /\ Goto(t, "using")
    /\ UNCHANGED <<sandbox, alive, unused, sweep, sweptOut, faults>>
Register(t) ==
    /\ At(t, "register")
    /\ Put(task[t].vm, Leased("claimed", Owner[t]))
    /\ Goto(t, "using")
    /\ UNCHANGED <<sandbox, alive, unused, sweep, sweptOut, faults>>

-----------------------------------------------------------------------------
(* release_vm.                                                             *)

(* Pool::release updates whatever row the sandbox id has.                  *)
Release(t) ==
    /\ At(t, "using")
    /\ t \in Reuse
    /\ \/ /\ IF row[task[t].vm].status = "absent" THEN UNCHANGED row
             ELSE Put(task[t].vm, Idle)
          /\ UNCHANGED faults
       \/ Spend("call") /\ UNCHANGED row
    /\ task' = [task EXCEPT ![t] = IdleTask]
    /\ UNCHANGED <<sandbox, alive, unused, sweep, sweptOut>>

(* reuse: false, or the guest was corrupted: destroy, which may fail ...   *)
Discard(t) ==
    /\ At(t, "using")
    /\ \/ sandbox' = [sandbox EXCEPT ![task[t].vm] = "gone"] /\ UNCHANGED faults
       \/ Spend("call") /\ UNCHANGED sandbox
    /\ Goto(t, "discard")
    /\ UNCHANGED <<row, alive, unused, sweep, sweptOut>>

(* ... and forget either way.                                              *)
DiscardForget(t) ==
    /\ At(t, "discard")
    /\ Forget(task[t].vm)
    /\ task' = [task EXCEPT ![t] = IdleTask]
    /\ UNCHANGED <<sandbox, alive, unused, sweep, sweptOut>>

(* The attempt ends where it is: CI_MAX_JOB_SECONDS drops the future, or a *)
(* tunnel, daemon or database error propagates past release_vm.            *)
CutOff(t) ==
    /\ Owner[t] \in alive /\ task[t].pc # "idle"
    /\ Spend("cutoff")
    /\ task' = [task EXCEPT ![t] = IdleTask]
    /\ UNCHANGED <<row, sandbox, alive, unused, sweep, sweptOut>>

-----------------------------------------------------------------------------
(* The lease loop.                                                         *)

LeaseHeld(k) == row[k].status \in {"claimed", "building"}

RenewLeases(i) ==
    /\ i \in alive
    /\ row' = [k \in Key |-> IF LeaseHeld(k) /\ row[k].lessee = i
                             THEN [row[k] EXCEPT !.lapsed = FALSE] ELSE row[k]]
    /\ UNCHANGED <<sandbox, task, alive, unused, sweep, sweptOut, faults>>

(* Time passes: an unrenewed lease runs out.                               *)
LeaseLapses(k) ==
    /\ LeaseHeld(k) /\ ~row[k].lapsed
    /\ row[k].lessee \notin alive \/ MayStall
    /\ row' = [row EXCEPT ![k].lapsed = TRUE]
    /\ UNCHANGED <<sandbox, task, alive, unused, sweep, sweptOut, faults>>

(* Whose lapsed leases an instance may act on: those on hosts it serves,   *)
(* never its own.                                                          *)
Lapsed_own_only(i, k, s) ==
    /\ row[k].status = s
    /\ HostOf[k] \in Serves[i]
    /\ row[k].lessee = i
    /\ row[k].lapsed
Lapsed_ignoring_expiry(i, k, s) ==
    /\ row[k].status = s
    /\ HostOf[k] \in Serves[i]
    /\ row[k].lessee # i
Lapsed(i, k, s) ==
    /\ row[k].status = s
    /\ HostOf[k] \in Serves[i]
    /\ row[k].lessee # i
    /\ row[k].lapsed

(* release_orphans and sweep_stale_builds, the statements of reclaim_pool, *)
(* also run once at startup.                                               *)
ReleaseOrphans(i) ==
    /\ i \in alive
    /\ \E k \in Key : Lapsed(i, k, "claimed")
    /\ row' = [k \in Key |-> IF Lapsed(i, k, "claimed") THEN Idle ELSE row[k]]
    /\ UNCHANGED <<sandbox, task, alive, unused, sweep, sweptOut, faults>>

SweepStaleBuilds(i) ==
    /\ i \in alive
    /\ \E k \in Key : Lapsed(i, k, "building")
    /\ row' = [k \in Key |-> IF Lapsed(i, k, "building") THEN Absent ELSE row[k]]
    /\ UNCHANGED <<sandbox, task, alive, unused, sweep, sweptOut, faults>>

-----------------------------------------------------------------------------
(* Cleanup from the dashboard.                                             *)

Drain(S) == row' = [k \in Key |-> IF k \in S THEN [row[k] EXCEPT !.status = "draining"]
                                  ELSE row[k]]

(* take_one_for_sweep refuses claimed and building rows.                   *)
Sweepable_any_status(k) == row[k].status # "absent"
Sweepable(k) == row[k].status \notin {"absent", "claimed", "building"}

(* The id comes from the form, so it may be a placeholder's.               *)
TakeOneForSweep(i, k) ==
    /\ i \in alive
    /\ HostOf[k] \in Serves[i]
    /\ Sweepable(k)
    /\ Drain({k})
    /\ sweep' = [sweep EXCEPT ![i] = @ \cup {k}]
    /\ UNCHANGED <<sandbox, task, alive, unused, sweptOut, faults>>

(* take_failed_for_sweep: the idle VMs whose last run failed, which may be *)
(* any of them.                                                            *)
TakeFailedForSweep(i) ==
    /\ i \in alive
    /\ \E S \in SUBSET {v \in Vm : row[v].status = "idle" /\ HostOf[v] \in Serves[i]} :
        /\ S # {}
        /\ Drain(S)
        /\ sweep' = [sweep EXCEPT ![i] = @ \cup S]
    /\ UNCHANGED <<sandbox, task, alive, unused, sweptOut, faults>>

(* destroy_swept: a VM the daemon would not destroy stays draining.        *)
DestroySwept(i, v) ==
    /\ i \in alive /\ v \in sweep[i]
    /\ sweep' = [sweep EXCEPT ![i] = @ \ {v}]
    /\ \/ /\ sandbox' = [sandbox EXCEPT ![v] = "gone"]
          /\ sweptOut' = [sweptOut EXCEPT ![i] = @ \cup {v}]
          /\ UNCHANGED faults
       \/ Spend("call") /\ UNCHANGED <<sandbox, sweptOut>>
    /\ UNCHANGED <<row, task, alive, unused>>

ForgetSwept(i, v) ==
    /\ i \in alive /\ v \in sweptOut[i]
    /\ Forget(v)
    /\ sweptOut' = [sweptOut EXCEPT ![i] = @ \ {v}]
    /\ UNCHANGED <<sandbox, task, alive, unused, sweep>>

-----------------------------------------------------------------------------
(* The environment.                                                        *)

(* The sandbox TTL reaps a VM nobody renews: renew_vm_ttls covers exactly  *)
(* the rows a live instance holds claimed.  A VM being registered was      *)
(* created with its whole TTL ahead of it.                                 *)
TtlReaps(v) ==
    /\ sandbox[v] = "live"
    /\ ~(row[v].status = "claimed" /\ row[v].lessee \in alive)
    /\ \A t \in Task : task[t].vm = v => task[t].pc \notin {"made", "register"}
    /\ sandbox' = [sandbox EXCEPT ![v] = "gone"]
    /\ UNCHANGED <<row, task, alive, unused, sweep, sweptOut, faults>>

(* A process starts under an id nobody has had, and may die at any time.   *)
Start(i) ==
    /\ i \in unused
    /\ alive' = alive \cup {i}
    /\ unused' = unused \ {i}
    /\ UNCHANGED <<row, sandbox, task, sweep, sweptOut, faults>>

Crash(i) ==
    /\ i \in alive
    /\ alive' = alive \ {i}
    /\ task' = [t \in Task |-> IF Owner[t] = i THEN IdleTask ELSE task[t]]
    /\ sweep' = [sweep EXCEPT ![i] = {}]
    /\ sweptOut' = [sweptOut EXCEPT ![i] = {}]
    /\ UNCHANGED <<row, sandbox, unused, faults>>

Execute(t) ==
    \/ Claim(t) \/ ClaimNothing(t) \/ OpenClaimed(t) \/ OpenUnusable(t)
    \/ BeginBuild(t) \/ CreateVm(t) \/ CreateFails(t) \/ ForgetBuilding(t) \/ Register(t)
    \/ Release(t) \/ Discard(t) \/ DiscardForget(t) \/ CutOff(t)

LeaseLoop(i) == RenewLeases(i) \/ ReleaseOrphans(i) \/ SweepStaleBuilds(i)

Cleanup(i) ==
    \/ TakeFailedForSweep(i)
    \/ \E k \in Key : TakeOneForSweep(i, k)
    \/ \E v \in Vm : DestroySwept(i, v) \/ ForgetSwept(i, v)

Next ==
    \/ \E t \in Task : Execute(t)
    \/ \E i \in Instance : LeaseLoop(i) \/ Cleanup(i) \/ Start(i) \/ Crash(i)
    \/ \E k \in Key : LeaseLapses(k)
    \/ \E v \in Vm : TtlReaps(v)

Spec == Init /\ [][Next]_vars

(* The lease loop of a live instance keeps ticking, and an unrenewed lease *)
(* runs out.                                                               *)
Fairness ==
    /\ \A i \in Instance : /\ WF_vars(RenewLeases(i))
                           /\ SF_vars(ReleaseOrphans(i))
                           /\ SF_vars(SweepStaleBuilds(i))
    /\ \A k \in Key : WF_vars(LeaseLapses(k))

FairSpec == Spec /\ Fairness

-----------------------------------------------------------------------------
(* Properties.                                                             *)

Holding == {"open", "made", "register", "using", "discard"}
Holds(t, v) == task[t].pc \in Holding /\ task[t].vm = v

(* No sandbox is ever in two tasks' hands, of one instance or of two, over *)
(* claims, crashes, lapsed leases and cleanup (Pool::claim: "never both    *)
(* the same").                                                             *)
HeldExclusively ==
    \A t, u \in Task, v \in Vm : Holds(t, v) /\ Holds(u, v) => t = u

(* The machine under a running job stays up: no TTL, no sweep from any     *)
(* dashboard and no other task's discard takes it (renew_vm_ttls,          *)
(* take_one_for_sweep: "A *claimed* VM is refused").                       *)
InUseIsLive ==
    \A t \in Task : task[t].pc = "using" => sandbox[task[t].vm] = "live"

(* A VM taken out of circulation never returns to it: a `draining` row is  *)
(* destroyed and forgotten, or stays (destroy_swept: "which keeps it out   *)
(* of the pool").  With MayStall it fails, because Pool::release updates   *)
(* the row whatever its status.                                            *)
DrainingStaysOut ==
    [][\A v \in Vm : row[v].status = "draining"
                        => row'[v].status \in {"draining", "absent"}]_vars

(* No row stays claimed or building in the name of a dead process while a  *)
(* live one serves its host (spawn_lease_loop: "a sibling that dies is     *)
(* reclaimed within a lease period").                                      *)
OrphanReclaimed ==
    \A k \in Key, i \in Instance :
        ~<>[](/\ i \in alive /\ HostOf[k] \in Serves[i]
             /\ LeaseHeld(k) /\ row[k].lessee \notin alive)

-----------------------------------------------------------------------------
(* What a comment says of this code, and it does not do.                   *)

(* dispatch.rs, the JobTimeout error: the VM of a job that was cut off "is *)
(* reclaimed once this dispatcher's lease on it lapses".  The dispatcher   *)
(* is alive, and goes on renewing the lease and the TTL of a VM that none  *)
(* of its tasks holds.                                                     *)
TimedOutVmReclaimed ==
    \A v \in Vm : ~<>[](/\ row[v].status = "claimed"
                        /\ row[v].lessee \in alive
                        /\ \A t \in Task : ~Holds(t, v))
=============================================================================
