------------------------------ MODULE MCVmPool ------------------------------
(***************************************************************************)
(* Instances of VmPool for TLC: two processes serving one host between     *)
(* them, tasks of both after the same warm VMs.                            *)
(***************************************************************************)
EXTENDS VmPool, TLC

CONSTANTS v1, v2, t1, t2, t3, i1, i2, b1, b2, host

(* t1 and t2 run in i1, t3 in i2; t1 and t3 are deliveries of one job.     *)
TwoOwners == [t \in Task |-> IF t = t3 THEN i2 ELSE i1]
JobRows == [t \in Task |-> IF t = t2 THEN b2 ELSE b1]
OneHost == [k \in Key |-> host]
AllFit == Task \X Vm
ServeAll == [i \in Instance |-> {host}]

NoFaults    == "call" :> 0 @@ "cutoff" :> 0
OneOfEach   == "call" :> 1 @@ "cutoff" :> 1
OneTimeout  == "call" :> 0 @@ "cutoff" :> 1

Symmetry == Permutations({v1, v2})
=============================================================================
