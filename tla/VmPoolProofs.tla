---------------------------- MODULE VmPoolProofs ----------------------------
(***************************************************************************)
(* Proofs about VmPool, for any number of VMs, tasks, instances and hosts, *)
(* any assignment of them, and any fault budget.  The type invariant holds *)
(* always; exclusive use and the rest as long as no live instance misses   *)
(* its renewals for a whole lease.                                         *)
(***************************************************************************)
EXTENDS VmPool, TLAPS

-----------------------------------------------------------------------------
(* The type invariant.                                                     *)

NoVmPc == {"idle", "create", "boot"}

(* Rows one statement may write, by the kind of key they are for.          *)
RowFor(k) == {r \in RowRec : /\ k \in Placeholder => r.status \in {"absent", "building"}
                             /\ k \in Vm => r.status # "building"}
TaskOK(x) == x \in TaskRec /\ (x.vm = NoVm <=> x.pc \in NoVmPc)

LEMMA RowTypes ==
    /\ \A k \in Key : Absent \in RowFor(k)
    /\ \A k \in Vm : Idle \in RowFor(k)
    /\ \A k \in Vm, i \in Instance : Leased("claimed", i) \in RowFor(k)
    /\ \A k \in Placeholder, i \in Instance : Leased("building", i) \in RowFor(k)
    /\ TaskOK(IdleTask)
    /\ \A pc \in TaskPc \ NoVmPc, v \in Vm, n \in BOOLEAN : TaskOK(TaskAt(pc, v, n))
    /\ \A pc \in NoVmPc, n \in BOOLEAN : TaskOK(TaskAt(pc, NoVm, n))
BY PoolAssumption DEF Absent, Idle, Leased, RowFor, RowRec, RowStatus, Key, IdleTask, TaskAt,
                      TaskRec, TaskPc, TaskOK, NoVmPc

(* The type invariant, one row and one task at a time.                     *)
LEMMA TypeByParts ==
    TypeOK <=> /\ row \in [Key -> RowRec] /\ \A k \in Key : row[k] \in RowFor(k)
               /\ sandbox \in [Vm -> {"unmade", "live", "gone"}]
               /\ task \in [Task -> TaskRec] /\ \A t \in Task : TaskOK(task[t])
               /\ alive \in SUBSET Instance /\ unused \in SUBSET Instance
               /\ sweep \in [Instance -> SUBSET Vm] /\ sweptOut \in [Instance -> SUBSET Vm]
               /\ faults \in [Fault -> Nat]
BY DEF TypeOK, RowFor, TaskOK, NoVmPc, Key

(* Writing one row, or moving one task, keeps the types.                   *)
LEMMA PutType ==
    ASSUME TypeOK, NEW k \in Key, NEW r \in RowFor(k), Put(k, r)
    PROVE  row' \in [Key -> RowRec] /\ \A x \in Key : row'[x] \in RowFor(x)
<1>1. row \in [Key -> RowRec] /\ \A x \in Key : row[x] \in RowFor(x)
  BY TypeByParts
<1> QED BY <1>1 DEF Put, RowFor

LEMMA SetTaskType ==
    ASSUME TypeOK, NEW t \in Task, NEW x, TaskOK(x), task' = [task EXCEPT ![t] = x]
    PROVE  task' \in [Task -> TaskRec] /\ \A u \in Task : TaskOK(task'[u])
<1>1. task \in [Task -> TaskRec] /\ \A u \in Task : TaskOK(task[u])
  BY TypeByParts
<1> QED BY <1>1 DEF TaskOK

LEMMA GotoType ==
    ASSUME TypeOK, NEW t \in Task, NEW pc \in TaskPc, Goto(t, pc),
           pc \in NoVmPc <=> task[t].pc \in NoVmPc
    PROVE  task' \in [Task -> TaskRec] /\ \A u \in Task : TaskOK(task'[u])
<1>1. task \in [Task -> TaskRec] /\ \A u \in Task : TaskOK(task[u])
  BY TypeByParts
<1>2. TaskOK([task[t] EXCEPT !.pc = pc])
  BY <1>1 DEF TaskOK, TaskRec
<1>3. task' = [task EXCEPT ![t] = [task[t] EXCEPT !.pc = pc]]
  BY DEF Goto
<1> QED BY <1>2, <1>3, SetTaskType

LEMMA SpendType ==
    ASSUME faults \in [Fault -> Nat], NEW f \in Fault, Spend(f)
    PROVE  faults' \in [Fault -> Nat]
BY DEF Spend

LEMMA ForgetType ==
    ASSUME TypeOK, NEW k \in Key, Forget(k)
    PROVE  /\ row' \in [Key -> RowRec] /\ \A x \in Key : row'[x] \in RowFor(x)
           /\ faults' \in [Fault -> Nat]
<1>1. row \in [Key -> RowRec] /\ (\A x \in Key : row[x] \in RowFor(x)) /\ faults \in [Fault -> Nat]
  BY TypeByParts
<1>2. CASE Put(k, Absent) /\ UNCHANGED faults
  BY <1>1, <1>2, PutType, RowTypes
<1>3. CASE Spend("call") /\ UNCHANGED row
  BY <1>1, <1>3, SpendType DEF Fault
<1> QED BY <1>2, <1>3 DEF Forget

(* The VM in a task's hand is a VM.                                        *)
LEMMA HandIsVm ==
    ASSUME TypeOK, NEW t \in Task, task[t].pc \notin NoVmPc
    PROVE  task[t].vm \in Vm /\ task[t].vm \in Key
<1>1. TaskOK(task[t])
  BY TypeByParts
<1> QED BY <1>1 DEF TaskOK, TaskRec, Key

LEMMA InitType == Init => TypeOK
BY PoolAssumption DEF Init, TypeOK, RowRec, RowStatus, Absent, TaskRec, TaskPc, IdleTask, TaskAt,
                      Key, Fault

LEMMA ExecuteType == ASSUME TypeOK, NEW t \in Task, Execute(t) PROVE TypeOK'
<1>a. Owner[t] \in Instance /\ JobRow[t] \in Placeholder /\ JobRow[t] \in Key
  BY PoolAssumption DEF Key
<1>f. faults \in [Fault -> Nat] /\ "call" \in Fault /\ "cutoff" \in Fault
  BY DEF TypeOK, Fault
<1>s. sandbox \in [Vm -> {"unmade", "live", "gone"}]
  BY DEF TypeOK
<1>p. UNCHANGED <<alive, unused, sweep, sweptOut>>
  BY DEF Execute, Claim, ClaimNothing, OpenClaimed, OpenUnusable, BeginBuild, CreateVm,
         CreateFails, ForgetBuilding, Register, Release, Discard, DiscardForget, CutOff
<1> DEFINE RowsOK  == row' \in [Key -> RowRec] /\ \A k \in Key : row'[k] \in RowFor(k)
           TasksOK == task' \in [Task -> TaskRec] /\ \A u \in Task : TaskOK(task'[u])
           BoxOK   == sandbox' \in [Vm -> {"unmade", "live", "gone"}]
           FaultsOK == faults' \in [Fault -> Nat]
<1>q. ASSUME RowsOK, TasksOK, BoxOK, FaultsOK PROVE TypeOK'
  BY <1>p, <1>q, TypeByParts DEF TypeOK, RowFor, TaskOK, NoVmPc, Key
<1>r. UNCHANGED row => RowsOK
  BY TypeByParts
<1>u. UNCHANGED sandbox => BoxOK
  BY <1>s
<1>v. UNCHANGED faults \/ Spend("call") \/ Spend("cutoff") => FaultsOK
  BY <1>f, SpendType
<1>1. CASE Claim(t)
  <2>1. PICK v \in Vm : /\ Put(v, Leased("claimed", Owner[t]))
                        /\ task' = [task EXCEPT ![t] = TaskAt("open", v, FALSE)]
    BY <1>1 DEF Claim, Matching
  <2>2. RowsOK
    BY <2>1, <1>a, PutType, RowTypes DEF Key
  <2>3. TaskOK(TaskAt("open", v, FALSE))
    BY RowTypes DEF TaskPc, NoVmPc
  <2>4. TasksOK
    BY <2>1, <2>3, SetTaskType
  <2> HIDE DEF RowsOK, TasksOK, BoxOK, FaultsOK
  <2> QED BY <1>1, <1>q, <1>u, <1>v, <2>2, <2>4 DEF Claim
<1>2. CASE ClaimNothing(t)
  <2>1. TasksOK
    BY <1>2, GotoType DEF ClaimNothing, At, TaskPc, NoVmPc
  <2> HIDE DEF RowsOK, TasksOK, BoxOK, FaultsOK
  <2> QED BY <1>2, <1>q, <1>r, <1>u, <1>v, <2>1 DEF ClaimNothing
<1>3. CASE OpenClaimed(t)
  <2>1. TasksOK
    BY <1>3, GotoType DEF OpenClaimed, At, TaskPc, NoVmPc
  <2> HIDE DEF RowsOK, TasksOK, BoxOK, FaultsOK
  <2> QED BY <1>3, <1>q, <1>r, <1>u, <1>v, <2>1 DEF OpenClaimed
<1>4. CASE OpenUnusable(t)
  <2>1. task[t].vm \in Key
    BY <1>4, HandIsVm DEF OpenUnusable, At, NoVmPc
  <2>2. RowsOK /\ FaultsOK
    BY <1>4, <2>1, <1>v, ForgetType, PutType, RowTypes DEF OpenUnusable
  <2>3. TaskOK(TaskAt("create", NoVm, FALSE))
    BY RowTypes DEF NoVmPc
  <2>4. TasksOK
    BY <1>4, <2>3, SetTaskType DEF OpenUnusable
  <2> HIDE DEF RowsOK, TasksOK, BoxOK, FaultsOK
  <2> QED BY <1>4, <1>q, <1>u, <2>2, <2>4 DEF OpenUnusable
<1>5. CASE BeginBuild(t)
  <2>1. TaskOK(TaskAt("boot", NoVm, TRUE)) /\ Leased("building", Owner[t]) \in RowFor(JobRow[t])
    BY RowTypes, <1>a DEF NoVmPc
  <2>2. CASE Put(JobRow[t], Leased("building", Owner[t])) /\ UNCHANGED faults
             /\ task' = [task EXCEPT ![t] = TaskAt("boot", NoVm, TRUE)]
    <3>1. RowsOK /\ TasksOK
      BY <2>1, <2>2, <1>a, PutType, SetTaskType
    <3> HIDE DEF RowsOK, TasksOK, BoxOK, FaultsOK
    <3> QED BY <1>5, <2>2, <1>q, <1>u, <1>v, <3>1 DEF BeginBuild
  <2>3. CASE Spend("call") /\ Goto(t, "boot") /\ UNCHANGED row
    <3>1. TasksOK
      BY <1>5, <2>3, GotoType DEF BeginBuild, At, TaskPc, NoVmPc
    <3> HIDE DEF RowsOK, TasksOK, BoxOK, FaultsOK
    <3> QED BY <1>5, <2>3, <1>q, <1>r, <1>u, <1>v, <3>1 DEF BeginBuild
  <2> QED BY <1>5, <2>2, <2>3 DEF BeginBuild
<1>6. CASE CreateVm(t)
  <2>1. PICK v \in Vm : /\ sandbox' = [sandbox EXCEPT ![v] = "live"]
                        /\ task' = [task EXCEPT ![t].pc = "made", ![t].vm = v]
    BY <1>6 DEF CreateVm
  <2>2. task \in [Task -> TaskRec]
    BY DEF TypeOK
  <2>3. TaskOK([task[t] EXCEPT !.pc = "made", !.vm = v])
    BY <2>2, PoolAssumption DEF TaskOK, TaskRec, TaskPc, NoVmPc, Key
  <2>4. TasksOK
    BY <2>1, <2>3, SetTaskType
  <2>5. BoxOK
    BY <2>1, <1>s
  <2> HIDE DEF RowsOK, TasksOK, BoxOK, FaultsOK
  <2> QED BY <1>6, <1>q, <1>r, <1>v, <2>4, <2>5 DEF CreateVm
<1>7. CASE CreateFails(t)
  <2>1. RowsOK /\ FaultsOK
    BY <1>7, <1>a, <1>r, <1>v, ForgetType DEF CreateFails, ClearPlaceholder
  <2>2. TasksOK
    BY <1>7, SetTaskType, RowTypes DEF CreateFails
  <2> HIDE DEF RowsOK, TasksOK, BoxOK, FaultsOK
  <2> QED BY <1>7, <1>q, <1>u, <2>1, <2>2 DEF CreateFails
<1>8. CASE ForgetBuilding(t)
  <2>1. RowsOK /\ FaultsOK
    BY <1>8, <1>a, <1>r, <1>v, ForgetType DEF ForgetBuilding, ClearPlaceholder
  <2>2. TasksOK
    BY <1>8, GotoType DEF ForgetBuilding, At, TaskPc, NoVmPc
  <2> HIDE DEF RowsOK, TasksOK, BoxOK, FaultsOK
  <2> QED BY <1>8, <1>q, <1>u, <2>1, <2>2 DEF ForgetBuilding
<1>9. CASE Register(t)
  <2>1. task[t].vm \in Vm /\ task[t].vm \in Key
    BY <1>9, HandIsVm DEF Register, At, NoVmPc
  <2>2. RowsOK
    BY <1>9, <2>1, <1>a, PutType, RowTypes DEF Register
  <2>3. TasksOK
    BY <1>9, GotoType DEF Register, At, TaskPc, NoVmPc
  <2> HIDE DEF RowsOK, TasksOK, BoxOK, FaultsOK
  <2> QED BY <1>9, <1>q, <1>u, <1>v, <2>2, <2>3 DEF Register
<1>10. CASE Release(t)
  <2>1. task[t].vm \in Vm /\ task[t].vm \in Key
    BY <1>10, HandIsVm DEF Release, At, NoVmPc
  <2>2. RowsOK
    BY <1>10, <2>1, <1>r, PutType, RowTypes DEF Release
  <2>3. TasksOK
    BY <1>10, SetTaskType, RowTypes DEF Release
  <2> HIDE DEF RowsOK, TasksOK, BoxOK, FaultsOK
  <2> QED BY <1>10, <1>q, <1>u, <1>v, <2>2, <2>3 DEF Release
<1>11. CASE Discard(t)
  <2>1. BoxOK
    BY <1>11, <1>s DEF Discard
  <2>2. TasksOK
    BY <1>11, GotoType DEF Discard, At, TaskPc, NoVmPc
  <2> HIDE DEF RowsOK, TasksOK, BoxOK, FaultsOK
  <2> QED BY <1>11, <1>q, <1>r, <1>v, <2>1, <2>2 DEF Discard
<1>12. CASE DiscardForget(t)
  <2>1. task[t].vm \in Key
    BY <1>12, HandIsVm DEF DiscardForget, At, NoVmPc
  <2>2. RowsOK /\ FaultsOK
    BY <1>12, <2>1, ForgetType DEF DiscardForget
  <2>3. TasksOK
    BY <1>12, SetTaskType, RowTypes DEF DiscardForget
  <2> HIDE DEF RowsOK, TasksOK, BoxOK, FaultsOK
  <2> QED BY <1>12, <1>q, <1>u, <2>2, <2>3 DEF DiscardForget
<1>13. CASE CutOff(t)
  <2>1. TasksOK
    BY <1>13, SetTaskType, RowTypes DEF CutOff
  <2> HIDE DEF RowsOK, TasksOK, BoxOK, FaultsOK
  <2> QED BY <1>13, <1>q, <1>r, <1>u, <1>v, <2>1 DEF CutOff
<1> QED BY <1>1, <1>2, <1>3, <1>4, <1>5, <1>6, <1>7, <1>8, <1>9, <1>10, <1>11, <1>12, <1>13
        DEF Execute

(* The lease loops, the dashboard and the environment keep the types.      *)
LEMMA OtherType ==
    ASSUME TypeOK,
           \/ \E i \in Instance : LeaseLoop(i) \/ Cleanup(i) \/ Start(i) \/ Crash(i)
           \/ \E k \in Key : LeaseLapses(k)
           \/ \E v \in Vm : TtlReaps(v)
    PROVE  TypeOK'
<1>r. row \in [Key -> RowRec] /\ \A k \in Key : row[k] \in RowFor(k)
  BY TypeByParts
<1>t. task \in [Task -> TaskRec] /\ \A u \in Task : TaskOK(task[u])
  BY TypeByParts
<1>s. /\ sandbox \in [Vm -> {"unmade", "live", "gone"}]
      /\ alive \in SUBSET Instance /\ unused \in SUBSET Instance
      /\ sweep \in [Instance -> SUBSET Vm] /\ sweptOut \in [Instance -> SUBSET Vm]
      /\ faults \in [Fault -> Nat]
  BY DEF TypeOK
<1> DEFINE RowsOK == row' \in [Key -> RowRec] /\ \A k \in Key : row'[k] \in RowFor(k)
(* A step that only writes rows.                                           *)
<1>q. ASSUME RowsOK, UNCHANGED <<sandbox, task, alive, unused, sweep, sweptOut, faults>>
      PROVE  TypeOK'
  BY <1>q DEF TypeOK, RowFor, Key
<1>1. ASSUME NEW i \in Instance, RenewLeases(i) PROVE TypeOK'
  <2>1. \A k \in Key : [row[k] EXCEPT !.lapsed = FALSE] \in RowFor(k)
    BY <1>r DEF RowFor, RowRec
  <2>2. RowsOK
    BY <1>1, <1>r, <2>1 DEF RenewLeases, RowFor
  <2> QED BY <1>1, <1>q, <2>2 DEF RenewLeases
<1>2. ASSUME NEW k \in Key, LeaseLapses(k) PROVE TypeOK'
  <2>1. [row[k] EXCEPT !.lapsed = TRUE] \in RowFor(k)
    BY <1>r DEF RowFor, RowRec
  <2>2. RowsOK
    BY <1>2, <1>r, <2>1 DEF LeaseLapses, RowFor
  <2> QED BY <1>2, <1>q, <2>2 DEF LeaseLapses
<1>3. ASSUME NEW i \in Instance, ReleaseOrphans(i) PROVE TypeOK'
  <2>1. \A k \in Key : Lapsed(i, k, "claimed") => k \in Vm
    BY <1>r DEF Lapsed, RowFor, Key
  <2>2. RowsOK
    BY <1>3, <1>r, <2>1, RowTypes DEF ReleaseOrphans, RowFor
  <2> QED BY <1>3, <1>q, <2>2 DEF ReleaseOrphans
<1>4. ASSUME NEW i \in Instance, SweepStaleBuilds(i) PROVE TypeOK'
  <2>1. RowsOK
    BY <1>4, <1>r, RowTypes DEF SweepStaleBuilds, RowFor
  <2> QED BY <1>4, <1>q, <2>1 DEF SweepStaleBuilds
<1>d. ASSUME NEW S \in SUBSET Vm, Drain(S) PROVE RowsOK
  <2>1. \A k \in S : [row[k] EXCEPT !.status = "draining"] \in RowFor(k)
    BY <1>r, PoolAssumption DEF RowFor, RowRec, RowStatus, Key
  <2> QED BY <1>d, <1>r, <2>1 DEF Drain, RowFor
<1>5. ASSUME NEW i \in Instance, NEW k \in Key, TakeOneForSweep(i, k) PROVE TypeOK'
  <2>1. k \in Vm
    BY <1>5, <1>r DEF TakeOneForSweep, Sweepable, RowFor, Key
  <2>2. RowsOK
    BY <1>5, <1>d, <2>1 DEF TakeOneForSweep
  <2>3. sweep' \in [Instance -> SUBSET Vm]
    BY <1>5, <1>s, <2>1 DEF TakeOneForSweep
  <2> QED BY <1>5, <2>2, <2>3 DEF TypeOK, RowFor, Key, TakeOneForSweep
<1>6. ASSUME NEW i \in Instance, TakeFailedForSweep(i) PROVE TypeOK'
  <2>1. PICK S \in SUBSET Vm : Drain(S) /\ sweep' = [sweep EXCEPT ![i] = @ \cup S]
    BY <1>6 DEF TakeFailedForSweep
  <2>2. RowsOK /\ sweep' \in [Instance -> SUBSET Vm]
    BY <2>1, <1>d, <1>s
  <2> QED BY <1>6, <2>2 DEF TypeOK, RowFor, Key, TakeFailedForSweep
<1>7. ASSUME NEW i \in Instance, NEW v \in Vm, DestroySwept(i, v) PROVE TypeOK'
  <2>1. /\ sweep' \in [Instance -> SUBSET Vm] /\ sweptOut' \in [Instance -> SUBSET Vm]
        /\ sandbox' \in [Vm -> {"unmade", "live", "gone"}]
    BY <1>7, <1>s DEF DestroySwept
  <2>2. faults' \in [Fault -> Nat]
    BY <1>7, <1>s, SpendType DEF DestroySwept, Fault
  <2> QED BY <1>7, <2>1, <2>2 DEF TypeOK, DestroySwept
<1>8. ASSUME NEW i \in Instance, NEW v \in Vm, ForgetSwept(i, v) PROVE TypeOK'
  <2>1. RowsOK /\ faults' \in [Fault -> Nat]
    BY <1>8, ForgetType DEF ForgetSwept, Key
  <2>2. sweptOut' \in [Instance -> SUBSET Vm]
    BY <1>8, <1>s DEF ForgetSwept
  <2> QED BY <1>8, <2>1, <2>2 DEF TypeOK, RowFor, Key, ForgetSwept
<1>9. ASSUME NEW v \in Vm, TtlReaps(v) PROVE TypeOK'
  <2>1. sandbox' \in [Vm -> {"unmade", "live", "gone"}]
    BY <1>9, <1>s DEF TtlReaps
  <2> QED BY <1>9, <2>1 DEF TypeOK, TtlReaps
<1>10. ASSUME NEW i \in Instance, Start(i) PROVE TypeOK'
  BY <1>10 DEF TypeOK, Start
<1>11. ASSUME NEW i \in Instance, Crash(i) PROVE TypeOK'
  <2>1. task' \in [Task -> TaskRec] /\ \A u \in Task : TaskOK(task'[u])
    BY <1>11, <1>t, RowTypes DEF Crash, TaskOK
  <2>2. sweep' \in [Instance -> SUBSET Vm] /\ sweptOut' \in [Instance -> SUBSET Vm]
    BY <1>11, <1>s DEF Crash
  <2> QED BY <1>11, <2>1, <2>2 DEF TypeOK, Crash, TaskOK, NoVmPc
<1> HIDE DEF RowsOK
<1> QED BY <1>1, <1>2, <1>3, <1>4, <1>5, <1>6, <1>7, <1>8, <1>9, <1>10, <1>11
        DEF LeaseLoop, Cleanup

LEMMA NextType == TypeOK /\ [Next]_vars => TypeOK'
<1> SUFFICES ASSUME TypeOK, [Next]_vars PROVE TypeOK'
  OBVIOUS
<1>1. CASE UNCHANGED vars
  BY <1>1 DEF vars, TypeOK
<1> QED BY <1>1, ExecuteType, OtherType DEF Next

(* Every row and every task keeps its type; in particular a placeholder is *)
(* never claimed, pooled or drained, so no daemon is ever asked about one. *)
THEOREM TypeCorrect == Spec => []TypeOK
BY InitType, NextType, PTL DEF Spec

-----------------------------------------------------------------------------
(* Exclusive use.  HeldExclusively is not inductive: it rests on the rows  *)
(* telling the truth about the tasks, on new sandboxes being unknown to    *)
(* everybody else, and on leases lapsing only after their holder's death.  *)

Owned(t) == task[t].pc \in {"open", "using", "discard"}
Fresh(t) == task[t].pc \in {"made", "register"}
Swept(v) == \E i \in Instance : v \in sweep[i] \cup sweptOut[i]

(* A lease names a process that has started, and lapses only once that     *)
(* process is dead; tasks die with their process.                          *)
LeaseInv ==
    /\ alive \cap unused = {}
    /\ \A k \in Key : row[k].lessee \notin unused
    /\ \A k \in Key : row[k].lapsed => row[k].lessee \notin alive
    /\ \A t \in Task : task[t].pc # "idle" => Owner[t] \in alive

(* A task's VM is claimed in its own instance's name ...                   *)
HoldInv ==
    \A t \in Task : Owned(t) =>
        row[task[t].vm].status = "claimed" /\ row[task[t].vm].lessee = Owner[t]

(* ... or it is new, and nobody else has heard of it.                      *)
FreshInv ==
    \A t \in Task : Fresh(t) =>
        /\ row[task[t].vm].status = "absent"
        /\ sandbox[task[t].vm] = "live"
        /\ ~Swept(task[t].vm)
UnmadeInv ==
    \A v \in Vm : sandbox[v] = "unmade" =>
        row[v].status = "absent" /\ ~Swept(v) /\ \A t \in Task : task[t].vm # v

SweepInv == \A v \in Vm : Swept(v) => row[v].status \in {"draining", "absent"}

Exclusive == \A t, u \in Task : task[t].vm # NoVm /\ task[t].vm = task[u].vm => t = u

UseInv  == HoldInv /\ FreshInv /\ UnmadeInv /\ SweepInv /\ Exclusive /\ InUseIsLive
PoolInv == LeaseInv /\ UseInv

LEMMA InitPool == Init => PoolInv
<1> SUFFICES ASSUME Init PROVE PoolInv
  OBVIOUS
<1>1. /\ \A t \in Task : task[t].pc = "idle" /\ task[t].vm = NoVm
      /\ \A k \in Key : row[k] = Absent
      /\ \A v \in Vm : ~Swept(v)
  BY DEF Init, IdleTask, TaskAt, Swept
<1>2. LeaseInv
  BY <1>1, PoolAssumption DEF Init, LeaseInv, Absent
<1>3. UseInv
  BY <1>1, PoolAssumption DEF UseInv, HoldInv, FreshInv, UnmadeInv, SweepInv, Exclusive,
                              InUseIsLive, Owned, Fresh, Absent, Key
<1> QED BY <1>2, <1>3 DEF PoolInv

(* A step keeps UseInv if it makes no sandbox and no row a task's, takes   *)
(* no sandbox away, and changes only rows that nobody holds any more.      *)
LEMMA UseKept ==
    ASSUME TypeOK, PoolInv, UNCHANGED sandbox,
           \A t \in Task : \/ /\ task'[t].vm = task[t].vm
                              /\ Owned(t)' <=> Owned(t)
                              /\ Fresh(t)' <=> Fresh(t)
                              /\ task'[t].pc = "using" <=> task[t].pc = "using"
                           \/ /\ task'[t].vm = NoVm
                              /\ task'[t].pc \in NoVmPc,
           \A v \in Vm : \/ row'[v].status = row[v].status /\ row'[v].lessee = row[v].lessee
                         \/ /\ row[v].status = "claimed"
                            /\ \A t \in Task : Owned(t) /\ task[t].vm = v => task'[t].vm # v,
           \A v \in Vm : Swept(v)' => Swept(v)
    PROVE  UseInv'
<1>1. \A t \in Task : Owned(t) \/ Fresh(t) => task[t].vm \in Vm
  BY HandIsVm DEF Owned, Fresh, NoVmPc
<1>2. \A t \in Task : ~(task'[t].pc \in NoVmPc /\ (Owned(t)' \/ Fresh(t)' \/ task'[t].pc = "using"))
  BY DEF Owned, Fresh, NoVmPc
<1>3. HoldInv'
  BY <1>1, <1>2 DEF PoolInv, UseInv, HoldInv
<1>4. FreshInv'
  BY <1>1, <1>2 DEF PoolInv, UseInv, FreshInv
<1>5. UnmadeInv'
  BY PoolAssumption DEF PoolInv, UseInv, UnmadeInv, Key
<1>6. SweepInv'
  BY DEF PoolInv, UseInv, SweepInv
<1>7. Exclusive'
  BY DEF PoolInv, UseInv, Exclusive
<1>8. InUseIsLive'
  BY <1>2 DEF PoolInv, UseInv, InUseIsLive
<1> QED BY <1>3, <1>4, <1>5, <1>6, <1>7, <1>8 DEF UseInv

(* What a step may do to the leases.                                       *)
LEMMA LeaseKept ==
    ASSUME TypeOK, LeaseInv, UNCHANGED <<alive, unused>>,
           \A k \in Key : \/ /\ row'[k].lessee = row[k].lessee
                             /\ row'[k].lapsed => row[k].lapsed \/ row[k].lessee \notin alive
                          \/ row'[k].lessee \in alive \cup {Nobody} /\ row'[k].lapsed = FALSE,
           \A t \in Task : task'[t].pc # "idle" => Owner[t] \in alive
    PROVE  LeaseInv'
<1>1. unused \in SUBSET Instance
  BY DEF TypeOK
<1>2. \A k \in Key : row'[k].lessee \notin unused
  BY <1>1, PoolAssumption DEF LeaseInv
<1>3. \A k \in Key : row'[k].lapsed => row'[k].lessee \notin alive
  BY PoolAssumption DEF LeaseInv
<1> QED BY <1>2, <1>3 DEF LeaseInv

(* Every step of an executor is taken by a live process, moves one task,   *)
(* and leases rows to that process only.                                   *)
LEMMA ExecuteLease ==
    ASSUME TypeOK, LeaseInv, NEW t \in Task, Execute(t) PROVE LeaseInv'
<1>t. row \in [Key -> RowRec] /\ task \in [Task -> TaskRec]
  BY DEF TypeOK
<1>1. Owner[t] \in alive
  BY DEF Execute, At, Claim, ClaimNothing, OpenClaimed, OpenUnusable, BeginBuild, CreateVm,
         CreateFails, ForgetBuilding, Register, Release, Discard, DiscardForget, CutOff
<1>2. UNCHANGED <<alive, unused>>
  BY DEF Execute, Claim, ClaimNothing, OpenClaimed, OpenUnusable, BeginBuild, CreateVm,
         CreateFails, ForgetBuilding, Register, Release, Discard, DiscardForget, CutOff
<1>3. \A u \in Task : u # t => task'[u] = task[u]
  BY <1>t DEF Execute, Goto, Claim, ClaimNothing, OpenClaimed, OpenUnusable, BeginBuild, CreateVm,
         CreateFails, ForgetBuilding, Register, Release, Discard, DiscardForget, CutOff
<1>4. \/ UNCHANGED row
      \/ \E k, r : Put(k, r) /\ r \in {Absent, Idle, Leased("claimed", Owner[t]),
                                       Leased("building", Owner[t])}
  BY DEF Execute, Forget, ClearPlaceholder, Claim, ClaimNothing, OpenClaimed, OpenUnusable,
         BeginBuild, CreateVm, CreateFails, ForgetBuilding, Register, Release, Discard,
         DiscardForget, CutOff
<1>5. \A k \in Key : \/ row'[k] = row[k]
                     \/ row'[k].lessee \in alive \cup {Nobody} /\ row'[k].lapsed = FALSE
  BY <1>t, <1>1, <1>4 DEF Put, Absent, Idle, Leased
<1>6. \A u \in Task : task'[u].pc # "idle" => Owner[u] \in alive
  BY <1>1, <1>3 DEF LeaseInv
<1> QED BY <1>2, <1>5, <1>6, LeaseKept

(* Nor do the others lease anything; a process that starts takes a new id, *)
(* and leases lapse for the dead only.                                     *)
LEMMA OtherLease ==
    ASSUME TypeOK, LeaseInv, MayStall = FALSE,
           \/ \E i \in Instance : LeaseLoop(i) \/ Cleanup(i) \/ Start(i) \/ Crash(i)
           \/ \E k \in Key : LeaseLapses(k)
           \/ \E v \in Vm : TtlReaps(v)
    PROVE  LeaseInv'
<1>t. /\ row \in [Key -> RowRec] /\ task \in [Task -> TaskRec]
      /\ alive \in SUBSET Instance /\ unused \in SUBSET Instance
  BY DEF TypeOK
<1>l. \A t \in Task : task[t].pc # "idle" => Owner[t] \in alive
  BY DEF LeaseInv
<1>1. ASSUME NEW i \in Instance, LeaseLoop(i) PROVE LeaseInv'
  <2>1. \A k \in Key : row'[k] \in {row[k], [row[k] EXCEPT !.lapsed = FALSE], Idle, Absent}
    BY <1>1, <1>t DEF LeaseLoop, RenewLeases, ReleaseOrphans, SweepStaleBuilds
  <2>2. \A k \in Key : \/ row'[k].lessee = row[k].lessee /\ (row'[k].lapsed => row[k].lapsed)
                       \/ row'[k].lessee = Nobody /\ row'[k].lapsed = FALSE
    BY <1>t, <2>1 DEF Idle, Absent, RowRec
  <2>3. UNCHANGED <<alive, unused, task>>
    BY <1>1 DEF LeaseLoop, RenewLeases, ReleaseOrphans, SweepStaleBuilds
  <2> QED BY <2>2, <2>3, <1>l, LeaseKept
<1>2. ASSUME NEW i \in Instance, Cleanup(i) PROVE LeaseInv'
  <2>1. \A k \in Key : row'[k] \in {row[k], [row[k] EXCEPT !.status = "draining"], Absent}
    BY <1>2, <1>t DEF Cleanup, TakeFailedForSweep, TakeOneForSweep, DestroySwept, ForgetSwept,
                      Drain, Forget, Put
  <2>2. \A k \in Key : \/ row'[k].lessee = row[k].lessee /\ (row'[k].lapsed => row[k].lapsed)
                       \/ row'[k].lessee = Nobody /\ row'[k].lapsed = FALSE
    BY <1>t, <2>1 DEF Absent, RowRec
  <2>3. UNCHANGED <<alive, unused, task>>
    BY <1>2 DEF Cleanup, TakeFailedForSweep, TakeOneForSweep, DestroySwept, ForgetSwept
  <2> QED BY <2>2, <2>3, <1>l, LeaseKept
<1>3. ASSUME NEW k \in Key, LeaseLapses(k) PROVE LeaseInv'
  <2>1. row[k].lessee \notin alive
    BY <1>3 DEF LeaseLapses
  <2>2. \A x \in Key : row'[x].lessee = row[x].lessee /\ (x # k => row'[x].lapsed = row[x].lapsed)
    BY <1>3, <1>t DEF LeaseLapses, RowRec
  <2>3. UNCHANGED <<alive, unused, task>>
    BY <1>3 DEF LeaseLapses
  <2> QED BY <2>1, <2>2, <2>3, <1>l, LeaseKept
<1>4. ASSUME NEW v \in Vm, TtlReaps(v) PROVE LeaseInv'
  BY <1>4 DEF TtlReaps, LeaseInv
<1>5. ASSUME NEW i \in Instance, Start(i) PROVE LeaseInv'
  BY <1>5, <1>t DEF Start, LeaseInv
<1>6. ASSUME NEW i \in Instance, Crash(i) PROVE LeaseInv'
  <2>1. \A t \in Task : task'[t].pc # "idle" => Owner[t] # i /\ task'[t] = task[t]
    BY <1>6, <1>t DEF Crash, IdleTask, TaskAt
  <2>2. alive' = alive \ {i} /\ UNCHANGED <<row, unused>>
    BY <1>6 DEF Crash
  <2> QED BY <2>1, <2>2 DEF LeaseInv
<1> QED BY <1>1, <1>2, <1>3, <1>4, <1>5, <1>6

(* The pool through an executor's eyes: what it claims it alone holds,     *)
(* what it creates nobody else knows, what it destroys was its own.        *)
LEMMA ExecuteUse ==
    ASSUME TypeOK, PoolInv, NEW t \in Task, Execute(t) PROVE UseInv'
<1>r. row \in [Key -> RowRec] /\ Vm \subseteq Key
  BY DEF TypeOK, Key
<1>t. task \in [Task -> TaskRec]
  BY DEF TypeOK
<1>s. sandbox \in [Vm -> {"unmade", "live", "gone"}]
  BY DEF TypeOK
<1>n. NoVm \notin Vm
  BY PoolAssumption DEF Key
<1>w. \A v \in Vm : Swept(v)' <=> Swept(v)
  BY DEF Swept, Execute, Claim, ClaimNothing, OpenClaimed, OpenUnusable, BeginBuild, CreateVm,
         CreateFails, ForgetBuilding, Register, Release, Discard, DiscardForget, CutOff
<1>h. \A u \in Task : Owned(u) \/ Fresh(u) => task[u].vm \in Vm
  BY HandIsVm DEF Owned, Fresh, NoVmPc
<1>o. \A u \in Task : task[u].vm = NoVm <=> task[u].pc \in NoVmPc
  BY DEF TypeOK, NoVmPc
<1>i. HoldInv /\ FreshInv /\ UnmadeInv /\ SweepInv /\ Exclusive /\ InUseIsLive
  BY DEF PoolInv, UseInv
<1>j. JobRow[t] \notin Vm
  BY PoolAssumption
(* The steps that only let go of what the task has.                        *)
<1>1. CASE ClaimNothing(t) \/ BeginBuild(t) \/ CreateFails(t) \/ CutOff(t)
  <2>1. UNCHANGED sandbox
    BY <1>1 DEF ClaimNothing, BeginBuild, CreateFails, CutOff
  <2>2. \A v \in Vm : row'[v] = row[v]
    BY <1>1, <1>r, <1>j DEF ClaimNothing, BeginBuild, CreateFails, CutOff, ClearPlaceholder, Forget, Put
  <2>3. \A u \in Task : task'[u] = task[u] \/ (task'[u].vm = NoVm /\ task'[u].pc \in NoVmPc)
    BY <1>1, <1>t, <1>o DEF ClaimNothing, BeginBuild, CreateFails, CutOff, Goto, At, TaskAt, IdleTask,
                            NoVmPc, TaskRec
  <2> QED BY <2>1, <2>2, <2>3, <1>w, UseKept DEF Owned, Fresh
<1>2. CASE OpenUnusable(t) \/ Release(t) \/ DiscardForget(t)
  <2>1. UNCHANGED sandbox /\ Owned(t)
    BY <1>2 DEF OpenUnusable, Release, DiscardForget, Owned, At
  <2>2. \A v \in Vm : v # task[t].vm => row'[v] = row[v]
    BY <1>2, <1>r DEF OpenUnusable, Release, DiscardForget, Forget, Put
  <2>3. row[task[t].vm].status = "claimed"
    BY <2>1, <1>i DEF HoldInv
  <2>4. \A u \in Task : u # t => task'[u] = task[u]
    BY <1>2, <1>t DEF OpenUnusable, Release, DiscardForget
  <2>5. task'[t].vm = NoVm /\ task'[t].pc \in NoVmPc
    BY <1>2, <1>t DEF OpenUnusable, Release, DiscardForget, TaskAt, IdleTask, NoVmPc
  <2>6. \A u \in Task : Owned(u) /\ task[u].vm = task[t].vm => u = t
    BY <1>h, <1>n, <1>i DEF Exclusive
  <2>7. \A u \in Task : \/ /\ task'[u].vm = task[u].vm
                           /\ Owned(u)' <=> Owned(u)
                           /\ Fresh(u)' <=> Fresh(u)
                           /\ task'[u].pc = "using" <=> task[u].pc = "using"
                        \/ /\ task'[u].vm = NoVm
                           /\ task'[u].pc \in NoVmPc
    BY <2>4, <2>5 DEF Owned, Fresh
  <2>8. \A v \in Vm : \/ row'[v].status = row[v].status /\ row'[v].lessee = row[v].lessee
                      \/ /\ row[v].status = "claimed"
                         /\ \A u \in Task : Owned(u) /\ task[u].vm = v => task'[u].vm # v
    BY <2>2, <2>3, <2>5, <2>6, <1>n
  <2> QED BY <2>1, <2>7, <2>8, <1>w, UseKept
<1>3. CASE ForgetBuilding(t)
  <2>1. UNCHANGED sandbox /\ \A v \in Vm : row'[v] = row[v]
    BY <1>3, <1>r, <1>j DEF ForgetBuilding, ClearPlaceholder, Forget, Put
  <2>2. \A u \in Task : /\ task'[u].vm = task[u].vm
                        /\ u # t => task'[u].pc = task[u].pc
                        /\ u = t => task'[u].pc = "register" /\ task[u].pc = "made"
    BY <1>3, <1>t DEF ForgetBuilding, Goto, At, TaskRec
  <2> QED BY <2>1, <2>2, <1>w, UseKept DEF Owned, Fresh
<1>4. CASE OpenClaimed(t)
  <2>1. UNCHANGED <<sandbox, row>> /\ sandbox[task[t].vm] = "live"
    BY <1>4 DEF OpenClaimed
  <2>2. \A u \in Task : /\ task'[u].vm = task[u].vm
                        /\ u # t => task'[u].pc = task[u].pc
                        /\ u = t => task'[u].pc = "using" /\ task[u].pc = "open"
    BY <1>4, <1>t DEF OpenClaimed, Goto, At, TaskRec
  <2>3. \A u \in Task : (Owned(u)' <=> Owned(u)) /\ (Fresh(u)' <=> Fresh(u))
    BY <2>2 DEF Owned, Fresh
  <2>4. HoldInv' /\ FreshInv' /\ UnmadeInv'
    BY <2>1, <2>2, <2>3, <1>w, <1>h, <1>i DEF HoldInv, FreshInv, UnmadeInv
  <2>5. SweepInv' /\ Exclusive' /\ InUseIsLive'
    BY <2>1, <2>2, <1>w, <1>i DEF SweepInv, Exclusive, InUseIsLive
  <2> QED BY <2>4, <2>5 DEF UseInv
<1>5. CASE Claim(t)
  <2>1. PICK v \in Vm : /\ row[v].status = "idle"
                        /\ Put(v, Leased("claimed", Owner[t]))
                        /\ task' = [task EXCEPT ![t] = TaskAt("open", v, FALSE)]
    BY <1>5 DEF Claim, Matching
  <2>2. /\ \A x \in Vm : x # v => row'[x] = row[x]
        /\ row'[v].status = "claimed" /\ row'[v].lessee = Owner[t]
    BY <2>1, <1>r DEF Put, Leased
  <2>3. /\ \A u \in Task : u # t => task'[u] = task[u]
        /\ task'[t].pc = "open" /\ task'[t].vm = v
    BY <2>1, <1>t DEF TaskAt
  <2>4. UNCHANGED sandbox
    BY <1>5 DEF Claim
  <2>5. \A u \in Task : (u # t => (Owned(u)' <=> Owned(u)) /\ (Fresh(u)' <=> Fresh(u)))
    BY <2>3 DEF Owned, Fresh
  <2>6. Owned(t)' /\ ~Fresh(t)'
    BY <2>3 DEF Owned, Fresh
  <2>7. \A u \in Task : Owned(u) \/ Fresh(u) => task[u].vm # v
    BY <2>1, <1>i DEF HoldInv, FreshInv
  <2>8. \A u \in Task : task[u].vm # v
    BY <2>7, <1>o, <1>t, <1>n DEF Owned, Fresh, NoVmPc, TaskRec, TaskPc
  <2>9. HoldInv'
    BY <2>2, <2>3, <2>5, <2>6, <2>7, <1>h, <1>i DEF HoldInv
  <2>10. FreshInv'
    BY <2>2, <2>3, <2>4, <2>5, <2>6, <2>7, <1>h, <1>i, <1>w DEF FreshInv
  <2>11. UnmadeInv'
    <3>1. sandbox[v] # "unmade"
      BY <2>1, <1>i DEF UnmadeInv
    <3> SUFFICES ASSUME NEW x \in Vm, sandbox[x] = "unmade"
                 PROVE  row'[x].status = "absent" /\ ~Swept(x)' /\ \A u \in Task : task'[u].vm # x
      BY <2>4 DEF UnmadeInv
    <3>2. row[x].status = "absent" /\ ~Swept(x) /\ \A u \in Task : task[u].vm # x
      BY <1>i DEF UnmadeInv
    <3> QED BY <3>1, <3>2, <2>2, <2>3, <1>w
  <2>12. SweepInv'
    BY <2>1, <2>2, <1>i, <1>w DEF SweepInv
  <2>13. Exclusive'
    BY <2>3, <2>8, <1>i DEF Exclusive
  <2>14. InUseIsLive'
    BY <2>3, <2>4, <1>i DEF InUseIsLive
  <2> QED BY <2>9, <2>10, <2>11, <2>12, <2>13, <2>14 DEF UseInv
<1>6. CASE CreateVm(t)
  <2>1. PICK v \in Vm : /\ sandbox[v] = "unmade"
                        /\ sandbox' = [sandbox EXCEPT ![v] = "live"]
                        /\ task' = [task EXCEPT ![t].pc = "made", ![t].vm = v]
    BY <1>6 DEF CreateVm
  <2>2. sandbox'[v] = "live" /\ \A x \in Vm : x # v => sandbox'[x] = sandbox[x]
    BY <2>1, <1>s
  <2>3. /\ \A u \in Task : u # t => task'[u] = task[u]
        /\ task'[t].pc = "made" /\ task'[t].vm = v
    BY <2>1, <1>t DEF TaskRec
  <2>4. UNCHANGED row
    BY <1>6 DEF CreateVm
  <2>5. \A u \in Task : (u # t => (Owned(u)' <=> Owned(u)) /\ (Fresh(u)' <=> Fresh(u)))
    BY <2>3 DEF Owned, Fresh
  <2>6. ~Owned(t)' /\ Fresh(t)'
    BY <2>3 DEF Owned, Fresh
  <2>7. row[v].status = "absent" /\ ~Swept(v) /\ \A u \in Task : task[u].vm # v
    BY <2>1, <1>i DEF UnmadeInv
  <2>8. HoldInv'
    BY <2>3, <2>4, <2>5, <2>6, <1>i DEF HoldInv
  <2>9. FreshInv'
    BY <2>2, <2>3, <2>4, <2>5, <2>6, <2>7, <1>h, <1>i, <1>w DEF FreshInv
  <2>10. UnmadeInv'
    BY <2>2, <2>3, <2>4, <1>i, <1>w DEF UnmadeInv
  <2>11. SweepInv'
    BY <2>4, <1>i, <1>w DEF SweepInv
  <2>12. Exclusive'
    BY <2>3, <2>7, <1>i DEF Exclusive
  <2>13. InUseIsLive'
    <3> SUFFICES ASSUME NEW u \in Task, task'[u].pc = "using" PROVE sandbox'[task'[u].vm] = "live"
      BY DEF InUseIsLive
    <3>1. u # t /\ task'[u] = task[u] /\ task[u].vm \in Vm
      BY <2>3, <1>h DEF Owned
    <3> QED BY <3>1, <2>2, <2>7, <1>i DEF InUseIsLive
  <2> QED BY <2>8, <2>9, <2>10, <2>11, <2>12, <2>13 DEF UseInv
<1>7. CASE Register(t)
  <2>1. Fresh(t) /\ task[t].vm \in Vm /\ Put(task[t].vm, Leased("claimed", Owner[t]))
    BY <1>7, <1>h DEF Register, At, Fresh
  <2>2. /\ \A x \in Vm : x # task[t].vm => row'[x] = row[x]
        /\ row'[task[t].vm].status = "claimed" /\ row'[task[t].vm].lessee = Owner[t]
    BY <2>1, <1>r DEF Put, Leased
  <2>3. /\ \A u \in Task : u # t => task'[u] = task[u]
        /\ task'[t].pc = "using" /\ task'[t].vm = task[t].vm
    BY <1>7, <1>t DEF Register, Goto, TaskRec
  <2>4. UNCHANGED sandbox
    BY <1>7 DEF Register
  <2>5. \A u \in Task : (u # t => (Owned(u)' <=> Owned(u)) /\ (Fresh(u)' <=> Fresh(u)))
    BY <2>3 DEF Owned, Fresh
  <2>6. Owned(t)' /\ ~Fresh(t)'
    BY <2>3 DEF Owned, Fresh
  <2>7. sandbox[task[t].vm] = "live" /\ ~Swept(task[t].vm)
    BY <2>1, <1>i DEF FreshInv
  <2>8. \A u \in Task : u # t => task[u].vm # task[t].vm
    BY <2>1, <1>n, <1>i DEF Exclusive
  <2>9. HoldInv'
    BY <2>2, <2>3, <2>5, <2>6, <2>8, <1>h, <1>i DEF HoldInv
  <2>10. FreshInv'
    BY <2>2, <2>3, <2>4, <2>5, <2>6, <2>8, <1>h, <1>i, <1>w DEF FreshInv
  <2>11. UnmadeInv'
    BY <2>2, <2>3, <2>4, <2>7, <1>i, <1>w DEF UnmadeInv
  <2>12. SweepInv'
    BY <2>2, <2>7, <1>i, <1>w DEF SweepInv
  <2>13. Exclusive'
    BY <2>3, <1>i DEF Exclusive
  <2>14. InUseIsLive'
    BY <2>3, <2>4, <2>7, <1>i DEF InUseIsLive
  <2> QED BY <2>9, <2>10, <2>11, <2>12, <2>13, <2>14 DEF UseInv
<1>8. CASE Discard(t)
  <2>1. Owned(t) /\ task[t].vm \in Vm /\ task[t].pc = "using"
    BY <1>8, <1>h DEF Discard, At, Owned
  <2>2. /\ \A x \in Vm : x # task[t].vm => sandbox'[x] = sandbox[x]
        /\ sandbox'[task[t].vm] \in {"live", "gone"}
    BY <1>8, <2>1, <1>s, <1>i DEF Discard, InUseIsLive
  <2>3. /\ \A u \in Task : u # t => task'[u] = task[u]
        /\ task'[t].pc = "discard" /\ task'[t].vm = task[t].vm
    BY <1>8, <1>t DEF Discard, Goto, TaskRec
  <2>4. UNCHANGED row
    BY <1>8 DEF Discard
  <2>5. \A u \in Task : (Owned(u)' <=> Owned(u)) /\ (Fresh(u)' <=> Fresh(u))
    BY <2>1, <2>3 DEF Owned, Fresh
  <2>6. \A u \in Task : u # t => task[u].vm # task[t].vm
    BY <2>1, <1>n, <1>i DEF Exclusive
  <2>7. \A u \in Task : task'[u].vm = task[u].vm
    BY <2>3
  <2>8. HoldInv'
    BY <2>4, <2>5, <2>7, <1>i DEF HoldInv
  <2>9. FreshInv'
    <3> SUFFICES ASSUME NEW u \in Task, Fresh(u)'
                 PROVE  (row[task[u].vm].status = "absent" /\ sandbox[task[u].vm] = "live"
                         /\ ~Swept(task[u].vm))'
      BY DEF FreshInv
    <3>1. u # t /\ Fresh(u) /\ task[u].vm \in Vm /\ task[u].vm # task[t].vm
      BY <2>3, <2>5, <2>6, <1>h DEF Fresh
    <3> QED BY <3>1, <2>2, <2>4, <2>7, <1>w, <1>i DEF FreshInv
  <2>10. UnmadeInv'
    BY <2>2, <2>4, <2>7, <1>i, <1>w DEF UnmadeInv
  <2>11. SweepInv' /\ Exclusive'
    BY <2>4, <2>7, <1>i, <1>w DEF SweepInv, Exclusive
  <2>12. InUseIsLive'
    <3> SUFFICES ASSUME NEW u \in Task, task'[u].pc = "using" PROVE sandbox'[task'[u].vm] = "live"
      BY DEF InUseIsLive
    <3>1. u # t /\ task'[u] = task[u] /\ task[u].vm \in Vm /\ task[u].vm # task[t].vm
      BY <2>3, <2>6, <1>h DEF Owned
    <3> QED BY <3>1, <2>2, <1>i DEF InUseIsLive
  <2> QED BY <2>8, <2>9, <2>10, <2>11, <2>12 DEF UseInv
<1> QED BY <1>1, <1>2, <1>3, <1>4, <1>5, <1>6, <1>7, <1>8 DEF Execute

(* Everybody else touches only VMs that no task has.                       *)
LEMMA OtherUse ==
    ASSUME TypeOK, PoolInv,
           \/ \E i \in Instance : LeaseLoop(i) \/ Cleanup(i) \/ Start(i) \/ Crash(i)
           \/ \E k \in Key : LeaseLapses(k)
           \/ \E v \in Vm : TtlReaps(v)
    PROVE  UseInv'
<1>r. row \in [Key -> RowRec] /\ Vm \subseteq Key
  BY DEF TypeOK, Key
<1>t. task \in [Task -> TaskRec]
  BY DEF TypeOK
<1>s. sandbox \in [Vm -> {"unmade", "live", "gone"}]
  BY DEF TypeOK
<1>p. sweep \in [Instance -> SUBSET Vm] /\ sweptOut \in [Instance -> SUBSET Vm]
  BY DEF TypeOK
<1>h. \A u \in Task : Owned(u) \/ Fresh(u) => task[u].vm \in Vm
  BY HandIsVm DEF Owned, Fresh, NoVmPc
<1>i. HoldInv /\ FreshInv /\ UnmadeInv /\ SweepInv /\ Exclusive /\ InUseIsLive
  BY DEF PoolInv, UseInv
<1>l. \A u \in Task : Owned(u) => Owner[u] \in alive
  BY DEF PoolInv, LeaseInv, Owned
<1>1. ASSUME NEW i \in Instance, LeaseLoop(i) PROVE UseInv'
  <2>1. UNCHANGED <<sandbox, task, sweep, sweptOut>>
    BY <1>1 DEF LeaseLoop, RenewLeases, ReleaseOrphans, SweepStaleBuilds
  <2>2. \A v \in Vm : \/ row'[v].status = row[v].status /\ row'[v].lessee = row[v].lessee
                      \/ row[v].status = "claimed" /\ row[v].lapsed
    <3>1. \A v \in Vm : row[v].status # "building"
      BY DEF TypeOK
    <3>2. \A v \in Vm : row[v] \in RowRec
      BY <1>r
    <3> QED BY <1>1, <1>r, <3>1, <3>2 DEF LeaseLoop, RenewLeases, ReleaseOrphans,
                                          SweepStaleBuilds, Lapsed, RowRec
  <2>3. \A v \in Vm : row[v].lapsed => \A u \in Task : Owned(u) => task[u].vm # v
    BY <1>r, <1>i, <1>l DEF HoldInv, PoolInv, LeaseInv
  <2> QED BY <2>1, <2>2, <2>3, UseKept DEF Swept, Owned, Fresh
<1>2. ASSUME NEW k \in Key, LeaseLapses(k) PROVE UseInv'
  <2>1. UNCHANGED <<sandbox, task, sweep, sweptOut>>
    BY <1>2 DEF LeaseLapses
  <2>2. \A v \in Vm : row'[v].status = row[v].status /\ row'[v].lessee = row[v].lessee
    BY <1>2, <1>r DEF LeaseLapses, RowRec
  <2> QED BY <2>1, <2>2, UseKept DEF Swept, Owned, Fresh
<1>3. ASSUME NEW i \in Instance, Start(i) PROVE UseInv'
  BY <1>3, UseKept DEF Start, Swept, Owned, Fresh
<1>4. ASSUME NEW i \in Instance, Crash(i) PROVE UseInv'
  <2>1. UNCHANGED <<sandbox, row>>
    BY <1>4 DEF Crash
  <2>2. \A u \in Task : task'[u] = task[u] \/ (task'[u].vm = NoVm /\ task'[u].pc \in NoVmPc)
    BY <1>4, <1>t DEF Crash, IdleTask, TaskAt, NoVmPc
  <2>3. \A v \in Vm : Swept(v)' => Swept(v)
    BY <1>4, <1>p DEF Crash, Swept
  <2> QED BY <2>1, <2>2, <2>3, UseKept DEF Owned, Fresh
(* Draining idle VMs, and putting them on a sweep's list.                  *)
<1>d. ASSUME NEW i \in Instance, NEW S \in SUBSET Vm, Drain(S), UNCHANGED <<sandbox, task, sweptOut>>,
             sweep' = [sweep EXCEPT ![i] = @ \cup S],
             \A v \in S : row[v].status \in {"idle", "draining"}
      PROVE  UseInv'
  <2>1. /\ \A v \in Vm : v \notin S => row'[v] = row[v]
        /\ \A v \in S : row'[v].status = "draining"
    BY <1>d, <1>r DEF Drain, RowRec
  <2>2. \A v \in Vm : Swept(v)' => Swept(v) \/ v \in S
    BY <1>d, <1>p DEF Swept
  <2>3. \A u \in Task : Owned(u) \/ Fresh(u) => task[u].vm \notin S
    BY <1>d, <1>i DEF HoldInv, FreshInv
  <2>4. \A u \in Task : (Owned(u)' <=> Owned(u)) /\ (Fresh(u)' <=> Fresh(u))
    BY <1>d DEF Owned, Fresh
  <2>5. HoldInv'
    BY <1>d, <2>1, <2>3, <2>4, <1>h, <1>i DEF HoldInv
  <2>6. FreshInv'
    BY <1>d, <2>1, <2>2, <2>3, <2>4, <1>h, <1>i DEF FreshInv
  <2>7. UnmadeInv'
    BY <1>d, <2>1, <2>2, <1>i DEF UnmadeInv
  <2>8. SweepInv'
    BY <2>1, <2>2, <1>i DEF SweepInv
  <2>9. Exclusive' /\ InUseIsLive'
    BY <1>d, <1>i DEF Exclusive, InUseIsLive
  <2> QED BY <2>5, <2>6, <2>7, <2>8, <2>9 DEF UseInv
<1>5. ASSUME NEW i \in Instance, NEW k \in Key, TakeOneForSweep(i, k) PROVE UseInv'
  <2>1. row[k].status \in {"idle", "draining"}
    BY <1>5, <1>r DEF TakeOneForSweep, Sweepable, RowRec, RowStatus
  <2>2. k \in Vm
    BY <2>1 DEF TypeOK, Key
  <2>3. Drain({k}) /\ sweep' = [sweep EXCEPT ![i] = @ \cup {k}] /\ UNCHANGED <<sandbox, task, sweptOut>>
    BY <1>5 DEF TakeOneForSweep
  <2> QED BY <2>1, <2>2, <2>3, <1>d
<1>6. ASSUME NEW i \in Instance, TakeFailedForSweep(i) PROVE UseInv'
  <2>1. PICK S \in SUBSET Vm : /\ \A v \in S : row[v].status = "idle"
                               /\ Drain(S) /\ sweep' = [sweep EXCEPT ![i] = @ \cup S]
    BY <1>6 DEF TakeFailedForSweep
  <2>2. UNCHANGED <<sandbox, task, sweptOut>>
    BY <1>6 DEF TakeFailedForSweep
  <2> QED BY <2>1, <2>2, <1>d
(* A sandbox nobody has goes away.                                         *)
<1>g. ASSUME NEW v \in Vm, sandbox[v] # "unmade", sandbox' = [sandbox EXCEPT ![v] = "gone"],
             UNCHANGED <<row, task>>, \A x \in Vm : Swept(x)' => Swept(x),
             \A u \in Task : Owned(u) \/ Fresh(u) => task[u].vm # v
      PROVE  UseInv'
  <2>1. sandbox'[v] = "gone" /\ \A x \in Vm : x # v => sandbox'[x] = sandbox[x]
    BY <1>g, <1>s
  <2>2. \A u \in Task : (Owned(u)' <=> Owned(u)) /\ (Fresh(u)' <=> Fresh(u))
    BY <1>g DEF Owned, Fresh
  <2>3. HoldInv' /\ SweepInv' /\ Exclusive'
    BY <1>g, <2>2, <1>i DEF HoldInv, SweepInv, Exclusive
  <2>4. FreshInv'
    BY <1>g, <2>1, <2>2, <1>h, <1>i DEF FreshInv
  <2>5. UnmadeInv'
    BY <1>g, <2>1, <1>i DEF UnmadeInv
  <2>6. InUseIsLive'
    BY <1>g, <2>1, <1>h, <1>i DEF InUseIsLive, Owned
  <2> QED BY <2>3, <2>4, <2>5, <2>6 DEF UseInv
<1>7. ASSUME NEW i \in Instance, NEW v \in Vm, DestroySwept(i, v) PROVE UseInv'
  <2>1. Swept(v)
    BY <1>7 DEF DestroySwept, Swept
  <2>2. UNCHANGED <<row, task>>
    BY <1>7 DEF DestroySwept
  <2>3. \A x \in Vm : Swept(x)' => Swept(x)
    <3> SUFFICES ASSUME NEW x \in Vm, NEW j \in Instance, x \in sweep'[j] \cup sweptOut'[j]
                 PROVE  Swept(x)
      BY DEF Swept
    <3>1. x \in sweep[j] \cup sweptOut[j] \/ x = v
      BY <1>7, <1>p DEF DestroySwept
    <3> QED BY <3>1, <2>1 DEF Swept
  <2>4. \A u \in Task : Owned(u) \/ Fresh(u) => task[u].vm # v
    BY <2>1, <1>i DEF SweepInv, HoldInv, FreshInv
  <2>5. sandbox[v] # "unmade"
    BY <2>1, <1>i DEF UnmadeInv
  <2>6. CASE sandbox' = [sandbox EXCEPT ![v] = "gone"]
    BY <2>2, <2>3, <2>4, <2>5, <2>6, <1>g
  <2>7. CASE UNCHANGED sandbox
    BY <2>2, <2>3, <2>7, UseKept DEF Owned, Fresh
  <2> QED BY <1>7, <2>6, <2>7 DEF DestroySwept
<1>8. ASSUME NEW i \in Instance, NEW v \in Vm, ForgetSwept(i, v) PROVE UseInv'
  <2>1. Swept(v) /\ UNCHANGED <<sandbox, task>>
    BY <1>8 DEF ForgetSwept, Swept
  <2>2. \A x \in Vm : Swept(x)' => Swept(x)
    BY <1>8, <1>p DEF ForgetSwept, Swept
  <2>3. \A u \in Task : Owned(u) \/ Fresh(u) => task[u].vm # v
    BY <2>1, <1>i DEF SweepInv, HoldInv, FreshInv
  <2>4. /\ \A x \in Vm : x # v => row'[x] = row[x]
        /\ row'[v] = row[v] \/ row'[v].status = "absent"
    BY <1>8, <1>r DEF ForgetSwept, Forget, Put, Absent
  <2>5. \A u \in Task : (Owned(u)' <=> Owned(u)) /\ (Fresh(u)' <=> Fresh(u))
    BY <2>1 DEF Owned, Fresh
  <2>6. HoldInv'
    BY <2>1, <2>3, <2>4, <2>5, <1>h, <1>i DEF HoldInv
  <2>7. FreshInv'
    BY <2>1, <2>2, <2>3, <2>4, <2>5, <1>h, <1>i DEF FreshInv
  <2>8. UnmadeInv'
    BY <2>1, <2>2, <2>4, <1>i DEF UnmadeInv
  <2>9. SweepInv'
    BY <2>2, <2>4, <1>i DEF SweepInv
  <2>10. Exclusive' /\ InUseIsLive'
    BY <2>1, <1>i DEF Exclusive, InUseIsLive
  <2> QED BY <2>6, <2>7, <2>8, <2>9, <2>10 DEF UseInv
<1>9. ASSUME NEW v \in Vm, TtlReaps(v) PROVE UseInv'
  <2>1. sandbox[v] # "unmade" /\ sandbox' = [sandbox EXCEPT ![v] = "gone"] /\ UNCHANGED <<row, task>>
    BY <1>9 DEF TtlReaps
  <2>2. \A x \in Vm : Swept(x)' => Swept(x)
    BY <1>9 DEF TtlReaps, Swept
  <2>3. \A u \in Task : Owned(u) \/ Fresh(u) => task[u].vm # v
    BY <1>9, <1>i, <1>l DEF TtlReaps, HoldInv, Fresh
  <2> QED BY <2>1, <2>2, <2>3, <1>g
<1> QED BY <1>1, <1>2, <1>3, <1>4, <1>5, <1>6, <1>7, <1>8, <1>9 DEF Cleanup

LEMMA NextPool == MayStall = FALSE /\ TypeOK /\ PoolInv /\ [Next]_vars => PoolInv'
<1> SUFFICES ASSUME MayStall = FALSE, TypeOK, PoolInv, [Next]_vars PROVE PoolInv'
  OBVIOUS
<1>1. CASE UNCHANGED vars
  BY <1>1 DEF vars, PoolInv, LeaseInv, UseInv, HoldInv, FreshInv, UnmadeInv, SweepInv, Exclusive,
              InUseIsLive, Owned, Fresh, Swept
<1>2. CASE Next
  BY <1>2, ExecuteLease, OtherLease, ExecuteUse, OtherUse DEF Next, PoolInv
<1> QED BY <1>1, <1>2

LEMMA PoolInvariant == ASSUME MayStall = FALSE PROVE Spec => []PoolInv
<1>1. PoolInv /\ TypeOK /\ [Next]_vars => PoolInv'
  BY NextPool
<1> QED BY <1>1, InitPool, TypeCorrect, PTL DEF Spec

(* While leases are renewed in time, no two tasks, whatever the instances  *)
(* they run in, ever have the same sandbox in their hands.                 *)
THEOREM VmExclusive == ASSUME MayStall = FALSE PROVE Spec => []HeldExclusively
<1>1. TypeOK /\ PoolInv => HeldExclusively
  <2>1. TypeOK => \A t \in Task : task[t].pc \in Holding => task[t].vm # NoVm
    BY DEF TypeOK, Holding
  <2> QED BY <2>1 DEF PoolInv, UseInv, Exclusive, HeldExclusively, Holds
<1> QED BY <1>1, PoolInvariant, TypeCorrect, PTL

(* ... and no TTL, sweep or other task takes the machine from under a      *)
(* running job.                                                            *)
THEOREM VmOutlivesJob == ASSUME MayStall = FALSE PROVE Spec => []InUseIsLive
<1>1. PoolInv => InUseIsLive
  BY DEF PoolInv, UseInv
<1> QED BY <1>1, PoolInvariant, PTL

(* ... and a VM taken out of circulation is never pooled again: the only   *)
(* statement that could, Pool::release, is run by a task whose VM is still *)
(* claimed in its name.                                                    *)
THEOREM DrainedForGood == ASSUME MayStall = FALSE PROVE Spec => DrainingStaysOut
<1>1. ASSUME TypeOK, PoolInv, [Next]_vars, NEW v \in Vm, row[v].status = "draining"
      PROVE  row'[v].status \in {"draining", "absent"}
  <2>r. row \in [Key -> RowRec] /\ v \in Key
    BY <1>1 DEF TypeOK, Key
  <2>1. CASE UNCHANGED vars
    BY <1>1, <2>1 DEF vars
  <2>2. ASSUME NEW t \in Task, Execute(t) PROVE row'[v].status \in {"draining", "absent"}
    <3>1. Owned(t) => task[t].vm # v
      BY <1>1 DEF PoolInv, UseInv, HoldInv
    <3>2. Fresh(t) => task[t].vm # v
      BY <1>1 DEF PoolInv, UseInv, FreshInv
    <3>3. JobRow[t] # v
      BY PoolAssumption
    <3>4. row'[v] = row[v]
      <4>1. CASE Claim(t)
        BY <1>1, <2>r, <4>1 DEF Claim, Matching, Put
      <4>2. CASE OpenUnusable(t) \/ Release(t) \/ DiscardForget(t)
        BY <2>r, <3>1, <4>2 DEF OpenUnusable, Release, DiscardForget, Forget, Put, At, Owned
      <4>3. CASE BeginBuild(t) \/ CreateFails(t) \/ ForgetBuilding(t)
        BY <2>r, <3>3, <4>3 DEF BeginBuild, CreateFails, ForgetBuilding, ClearPlaceholder, Forget, Put
      <4>4. CASE Register(t)
        BY <2>r, <3>2, <4>4 DEF Register, Put, At, Fresh
      <4>5. CASE ClaimNothing(t) \/ OpenClaimed(t) \/ CreateVm(t) \/ Discard(t) \/ CutOff(t)
        BY <4>5 DEF ClaimNothing, OpenClaimed, CreateVm, Discard, CutOff
      <4> QED BY <2>2, <4>1, <4>2, <4>3, <4>4, <4>5 DEF Execute
    <3> QED BY <1>1, <3>4
  <2>3. ASSUME NEW i \in Instance, LeaseLoop(i) PROVE row'[v].status \in {"draining", "absent"}
    BY <1>1, <2>r, <2>3 DEF LeaseLoop, RenewLeases, ReleaseOrphans, SweepStaleBuilds, LeaseHeld, Lapsed
  <2>4. ASSUME NEW i \in Instance, Cleanup(i) PROVE row'[v].status \in {"draining", "absent"}
    <3>1. row'[v] \in {row[v], [row[v] EXCEPT !.status = "draining"], Absent}
      BY <2>r, <2>4 DEF Cleanup, TakeFailedForSweep, TakeOneForSweep, DestroySwept, ForgetSwept,
                        Drain, Forget, Put
    <3> QED BY <1>1, <2>r, <3>1 DEF Absent, RowRec
  <2>5. ASSUME NEW i \in Instance, Start(i) \/ Crash(i) PROVE row'[v].status \in {"draining", "absent"}
    BY <1>1, <2>5 DEF Start, Crash
  <2>6. ASSUME NEW k \in Key, LeaseLapses(k) PROVE row'[v].status \in {"draining", "absent"}
    BY <1>1, <2>r, <2>6 DEF LeaseLapses, RowRec
  <2>7. ASSUME NEW x \in Vm, TtlReaps(x) PROVE row'[v].status \in {"draining", "absent"}
    BY <1>1, <2>7 DEF TtlReaps
  <2> QED BY <1>1, <2>1, <2>2, <2>3, <2>4, <2>5, <2>6, <2>7 DEF Next
<1>2. TypeOK /\ PoolInv /\ [Next]_vars
        => [\A v \in Vm : row[v].status = "draining" => row'[v].status \in {"draining", "absent"}]_vars
  BY <1>1
<1> QED BY <1>2, PoolInvariant, TypeCorrect, PTL DEF Spec, DrainingStaysOut

=============================================================================
