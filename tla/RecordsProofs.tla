--------------------------- MODULE RecordsProofs ----------------------------
(***************************************************************************)
(* Proofs about Records, for any number of runs, steps, uploads, viewers   *)
(* and deliveries, and any fault budget.                                   *)
(***************************************************************************)
EXTENDS Records, WellFoundedInduction, TLAPS

(* The sweeper's and the tail's order: a set of numbers has a first.       *)
LEMMA FirstIsIn ==
    ASSUME NEW S \in SUBSET Nat, S # {}
    PROVE  First(S) \in S
<1> DEFINE R == {ss \in Nat \X Nat : ss[1] < ss[2]}
<1>1. IsWellFoundedOn(R, Nat)
  BY NatLessThanWellFounded DEF OpToRel
<1>2. PICK x \in S : \A y \in S : ~(<<y, x>> \in R)
  <2> HIDE DEF R
  <2> QED BY <1>1, WFMin
<1>3. ASSUME NEW y \in S PROVE x <= y
  <2>1. x \in Nat /\ y \in Nat /\ <<y, x>> \in Nat \X Nat
    OBVIOUS
  <2>2. ~(y < x)
    BY <1>2, <2>1
  <2> QED BY <2>1, <2>2
<1> QED BY <1>3 DEF First

LEMMA Numbers == Run \subseteq Nat /\ Idx \subseteq Nat /\ 0 \in Idx /\ 1..Steps \subseteq Idx
BY RecordsAssumption DEF Run, Idx

LEMMA OfDelivery == ASSUME NEW d \in Delivery PROVE d[1] \in Run
BY DEF Delivery

LEMMA OfUpload ==
    ASSUME NEW u \in Uploads
    PROVE  /\ u[1] \in Run /\ u[2] \in 1..Steps /\ u = <<u[1], u[2]>>
           /\ TagOf[u] \in Tag /\ PathOf[u] \in Path
BY RecordsAssumption DEF StepNo

(* A budgeted fault keeps the counters natural numbers.                    *)
LEMMA SpendType ==
    ASSUME left \in [Fault -> Nat], NEW f \in Fault, Spend(f)
    PROVE  left' \in [Fault -> Nat]
BY DEF Spend

-----------------------------------------------------------------------------
(* Types.                                                                  *)

ExecRec == [pc : ExecPc, step : Idx, outcome : Terminal, digest : Digest \cup {None}]
TailRec == [pc : TailPc, run : Run, key : Nat, status : {"open"} \cup Terminal,
            todo : SUBSET Idx, sent : [Idx -> Nat], missed : BOOLEAN]

ExecOK == exec \in [Delivery -> ExecRec]
TailTypeOK == tail \in [Viewer -> TailRec]
LogsOK ==
    /\ row \in [Run -> [Idx -> {"none", "bare", "logged"}]]
    /\ file \in [Run -> [Idx -> Nat]] /\ unwritten \subseteq Delivery \X Idx
StoreOK ==
    /\ blobs \subseteq Digest /\ manifests \subseteq Uploads \X Digest
    /\ tags \in [Tag -> (Uploads \X Digest) \cup {None}]
    /\ disk \in [Path -> FileState] /\ writing \subseteq Delivery \X Uploads
    /\ listed \subseteq Uploads \X (Digest \cup {None})
SweepOK ==
    /\ old \in 0..Runs
    /\ sweep \in [pc : {"idle", "remove", "forget"}, todo : SUBSET Run]
    /\ sweep.pc = "idle" <=> sweep.todo = {}
    /\ swept \subseteq Run /\ raced \subseteq swept
JobOK ==
    /\ job \in [Run -> {"open"} \cup Terminal]
    /\ kept \in [Run -> [Idx -> Nat]] /\ judged \subseteq Run
RestOK ==
    /\ sink \in {"disk", "artifacts"}
    /\ epoch \in Nat \ {0}
    /\ left \in [Fault -> Nat]

(* The files were removed before the rows are cleared.                     *)
Unlinked == sweep.pc = "forget" => First(sweep.todo) \in swept

(* Uploads go through the sink the process was configured with.            *)
Uploading(d) ==
    /\ exec[d].pc \in UploadPc =>
           /\ This(d) \in Uploads
           /\ exec[d].digest \in IF sink = "disk" THEN {None} ELSE Digest
    /\ exec[d].pc \in {"manifest", "tag"} => sink = "artifacts"
    /\ exec[d].pc = "written" => sink = "disk"

TypeInv ==
    /\ ExecOK /\ TailTypeOK /\ LogsOK /\ StoreOK /\ SweepOK /\ JobOK /\ RestOK
    /\ Unlinked
    /\ \A d \in Delivery : Uploading(d)

LEMMA TypeParts == TypeInv => TypeOK
BY DEF TypeInv, TypeOK, ExecOK, ExecRec, TailTypeOK, TailRec, LogsOK, StoreOK, SweepOK, JobOK, RestOK

LEMMA NoTailType == NoTail \in TailRec
<1>1. 1 \in Run /\ [i \in Idx |-> 0] \in [Idx -> Nat] /\ {} \in SUBSET Idx /\ 0 \in Nat
  BY RecordsAssumption DEF Run
<1> QED BY <1>1 DEF NoTail, TailRec, TailPc

LEMMA AttemptType == Attempt("due") \in ExecRec /\ Attempt("over") \in ExecRec
BY Numbers DEF ExecRec, Attempt, ExecPc, Idle, Terminal

LEMMA InitType == Init => TypeInv
<1> SUFFICES ASSUME Init PROVE TypeInv
  OBVIOUS
<1> USE RecordsAssumption
<1>1. ExecOK /\ \A d \in Delivery : exec[d].pc = "due"
  BY AttemptType DEF Init, ExecOK, Attempt
<1>2. TailTypeOK
  <2>1. [NoTail EXCEPT !.pc = "refused"] \in TailRec
    BY NoTailType DEF TailRec, TailPc
  <2>2. PICK S : tail = [v \in Viewer |-> IF v \in S THEN NoTail ELSE [NoTail EXCEPT !.pc = "refused"]]
    BY DEF Init
  <2> HIDE DEF NoTail
  <2> QED BY <2>1, <2>2, NoTailType DEF TailTypeOK
<1>3. LogsOK
  BY DEF Init, LogsOK
<1>4. StoreOK
  BY DEF Init, StoreOK, FileState
<1>5. SweepOK
  BY DEF Init, SweepOK
<1>6. RestOK /\ JobOK
  BY DEF Init, RestOK, JobOK, Terminal
<1>7. Unlinked /\ \A d \in Delivery : Uploading(d)
  BY <1>1 DEF Init, Unlinked, Uploading, UploadPc
<1> QED BY <1>1, <1>2, <1>3, <1>4, <1>5, <1>6, <1>7 DEF TypeInv

-----------------------------------------------------------------------------
(* What each step of the executor does to its delivery.  Others(d) is what *)
(* it leaves alone.                                                        *)
Others(d) == \A e \in Delivery : e # d => exec'[e] = exec[e]

Moves(d, p) ==
    /\ exec'[d].pc = p /\ exec'[d].step = exec[d].step
    /\ exec'[d].outcome = exec[d].outcome /\ exec'[d].digest = exec[d].digest

LEMMA GotoDoes ==
    ASSUME ExecOK, NEW d \in Delivery, NEW p \in ExecPc, Goto(d, p)
    PROVE  ExecOK' /\ Others(d) /\ Moves(d, p)
BY DEF Goto, ExecOK, ExecRec, Others, Moves

LEMMA FailedDoes ==
    ASSUME ExecOK, NEW d \in Delivery, NEW p \in ExecPc, Failed(d, p)
    PROVE  /\ ExecOK' /\ Others(d)
           /\ exec'[d].pc = p /\ exec'[d].step = exec[d].step /\ exec'[d].outcome = "failure"
BY DEF Failed, ExecOK, ExecRec, Others, Terminal

LEMMA OverDoes ==
    ASSUME ExecOK, NEW d \in Delivery, exec' = [exec EXCEPT ![d] = Attempt("over")]
    PROVE  ExecOK' /\ Others(d) /\ exec'[d].pc = "over"
<1>1. Attempt("over").pc = "over"
  BY DEF Attempt
<1> QED BY <1>1, AttemptType DEF ExecOK, Others

LEMMA DeliverDoes ==
    ASSUME ExecOK, NEW d \in Delivery, Deliver(d)
    PROVE  ExecOK' /\ Others(d) /\ exec[d].pc = "due" /\ Moves(d, "boundary")
BY GotoDoes DEF Deliver, At, ExecPc

(* The boundary ends the loop, skips a step, or begins one.                *)
Begins(d, p) ==
    /\ exec'[d].pc = p /\ exec'[d].step = exec[d].step + 1 /\ exec'[d].step \in 1..Steps
    /\ <<d[1], exec'[d].step>> = This(d)'

BoundaryGoes(d) ==
    \/ exec'[d].pc = "vmlog" /\ exec'[d].outcome = "cancelled"
    \/ exec[d].step + 1 > Steps /\ Moves(d, "vmlog")
    \/ /\ Begins(d, "boundary") /\ <<d[1], exec'[d].step>> \in Optional
       /\ exec'[d].outcome = exec[d].outcome
    \/ /\ Begins(d, "blob") /\ <<d[1], exec'[d].step>> \in Uploads
       /\ exec'[d].outcome = exec[d].outcome
       /\ exec'[d].digest \in IF sink = "disk" THEN {None} ELSE Digest
    \/ /\ Begins(d, "write") /\ <<d[1], exec'[d].step>> \notin Uploads
       /\ exec'[d].outcome \in {"success", "failure"}

LEMMA BoundaryDoes ==
    ASSUME ExecOK, NEW d \in Delivery, Boundary(d)
    PROVE  ExecOK' /\ Others(d) /\ exec[d].pc = "boundary" /\ BoundaryGoes(d)
<1> DEFINE i == exec[d].step + 1
<1>1. exec[d] \in ExecRec /\ exec[d].pc = "boundary"
  BY DEF ExecOK, Boundary, At
<1>2. CASE exec' = [exec EXCEPT ![d].pc = "vmlog", ![d].outcome = "cancelled"]
  BY <1>1, <1>2 DEF ExecOK, ExecRec, ExecPc, Terminal, Others, BoundaryGoes
<1>3. CASE i > Steps /\ Goto(d, "vmlog")
  <2>1. ExecOK' /\ Others(d) /\ Moves(d, "vmlog")
    BY <1>3, GotoDoes DEF ExecPc
  <2> QED BY <1>1, <1>3, <2>1 DEF BoundaryGoes
<1>4. CASE i \in 1..Steps /\ <<d[1], i>> \in Optional /\ exec' = [exec EXCEPT ![d].step = i]
  <2>1. i \in Idx
    BY <1>4, Numbers
  <2> HIDE DEF i
  <2>2. ExecOK' /\ Others(d) /\ exec'[d].pc = "boundary" /\ exec'[d].step = i /\ exec'[d].outcome = exec[d].outcome
    BY <1>1, <1>4, <2>1 DEF ExecOK, ExecRec, Others
  <2> QED BY <1>1, <1>4, <2>2 DEF BoundaryGoes, Begins, This, i
<1>5. ASSUME i \in 1..Steps, <<d[1], i>> \in Uploads, NEW g \in IF sink = "disk" THEN {None} ELSE Digest,
             exec' = [exec EXCEPT ![d].pc = "blob", ![d].step = i, ![d].digest = g]
      PROVE  ExecOK' /\ Others(d) /\ BoundaryGoes(d)
  <2>1. i \in Idx /\ g \in Digest \cup {None}
    BY <1>5, Numbers
  <2> HIDE DEF i
  <2>2. /\ ExecOK' /\ Others(d) /\ exec'[d].pc = "blob" /\ exec'[d].step = i
        /\ exec'[d].outcome = exec[d].outcome /\ exec'[d].digest = g
    BY <1>1, <1>5, <2>1 DEF ExecOK, ExecRec, ExecPc, UploadPc, Others
  <2> QED BY <1>1, <1>5, <2>2 DEF BoundaryGoes, Begins, This, i
<1>6. ASSUME i \in 1..Steps, <<d[1], i>> \notin Uploads, NEW verdict \in {"success", "failure"},
             exec' = [exec EXCEPT ![d].pc = "write", ![d].step = i, ![d].outcome = verdict]
      PROVE  ExecOK' /\ Others(d) /\ BoundaryGoes(d)
  <2>1. i \in Idx /\ verdict \in Terminal
    BY <1>6, Numbers DEF Terminal
  <2> HIDE DEF i
  <2>2. ExecOK' /\ Others(d) /\ exec'[d].pc = "write" /\ exec'[d].step = i /\ exec'[d].outcome = verdict
    BY <1>1, <1>6, <2>1 DEF ExecOK, ExecRec, ExecPc, Others
  <2> QED BY <1>1, <1>6, <2>2 DEF BoundaryGoes, Begins, This, i
<1> HIDE DEF i
<1>7. \/ exec' = [exec EXCEPT ![d].pc = "vmlog", ![d].outcome = "cancelled"]
      \/ i > Steps /\ Goto(d, "vmlog")
      \/ i \in 1..Steps /\ <<d[1], i>> \in Optional /\ exec' = [exec EXCEPT ![d].step = i]
      \/ /\ i \in 1..Steps /\ <<d[1], i>> \in Uploads
         /\ \E g \in IF sink = "disk" THEN {None} ELSE Digest :
               exec' = [exec EXCEPT ![d].pc = "blob", ![d].step = i, ![d].digest = g]
      \/ /\ i \in 1..Steps /\ <<d[1], i>> \notin Uploads
         /\ \E verdict \in {"success", "failure"} :
               exec' = [exec EXCEPT ![d].pc = "write", ![d].step = i, ![d].outcome = verdict]
  BY DEF Boundary, i
<1>8. CASE /\ i \in 1..Steps /\ <<d[1], i>> \in Uploads
           /\ \E g \in IF sink = "disk" THEN {None} ELSE Digest :
                 exec' = [exec EXCEPT ![d].pc = "blob", ![d].step = i, ![d].digest = g]
  <2>1. PICK g \in IF sink = "disk" THEN {None} ELSE Digest :
             exec' = [exec EXCEPT ![d].pc = "blob", ![d].step = i, ![d].digest = g]
    BY <1>8
  <2> QED BY <1>1, <1>5, <1>8, <2>1
<1>9. CASE /\ i \in 1..Steps /\ <<d[1], i>> \notin Uploads
           /\ \E verdict \in {"success", "failure"} :
                 exec' = [exec EXCEPT ![d].pc = "write", ![d].step = i, ![d].outcome = verdict]
  BY <1>1, <1>6, <1>9
<1> QED BY <1>1, <1>2, <1>3, <1>4, <1>7, <1>8, <1>9

LEMMA PutDoes ==
    ASSUME ExecOK, NEW d \in Delivery
    PROVE  /\ PutBlob(d) => ExecOK' /\ Others(d) /\ exec[d].pc = "blob" /\ Moves(d, "manifest")
           /\ PutManifest(d) => ExecOK' /\ Others(d) /\ exec[d].pc = "manifest" /\ Moves(d, "tag")
           /\ PutTag(d) => ExecOK' /\ Others(d) /\ exec[d].pc = "tag" /\ Moves(d, "list")
           /\ PutDisk(d) => ExecOK' /\ Others(d) /\ exec[d].pc = "blob" /\ Moves(d, "written")
           /\ Record(d) => ExecOK' /\ Others(d) /\ exec[d].pc = "list" /\ Moves(d, "write")
BY GotoDoes DEF PutBlob, PutManifest, PutTag, PutDisk, Record, At, ExecPc, UploadPc

LEMMA WriteEndsDoes ==
    ASSUME ExecOK, NEW d \in Delivery, NEW u \in Uploads, WriteEnds(d, u)
    PROVE  /\ ExecOK' /\ Others(d)
           /\ \/ exec' = exec
              \/ exec[d].pc = "written" /\ This(d) = u /\ Moves(d, "list")
<1>1. CASE Goto(d, "list") /\ At(d, "written") /\ This(d) = u
  BY <1>1, GotoDoes DEF At, ExecPc, UploadPc
<1>2. CASE UNCHANGED exec
  BY <1>2 DEF ExecOK, Others
<1> QED BY <1>1, <1>2 DEF WriteEnds

LEMMA UploadFailsDoes ==
    ASSUME ExecOK, NEW d \in Delivery, UploadFails(d)
    PROVE  /\ ExecOK' /\ Others(d) /\ exec[d].pc \in UploadPc
           /\ exec'[d].pc = "write" /\ exec'[d].step = exec[d].step
           /\ \/ exec'[d].outcome = "failure"
              \/ This(d) \in Tolerated /\ exec'[d].outcome = exec[d].outcome
BY GotoDoes, FailedDoes DEF UploadFails, ExecPc, Moves

LEMMA LogDoes ==
    ASSUME ExecOK, NEW d \in Delivery
    PROVE  /\ WriteLog(d) => ExecOK' /\ Others(d) /\ exec[d].pc = "write" /\ Moves(d, "point")
           /\ PointRow(d) => ExecOK' /\ Others(d) /\ exec[d].pc = "point" /\ Moves(d, AfterLog(d))
           /\ LogFails(d) =>
                  /\ ExecOK' /\ Others(d) /\ exec[d].pc \in {"boundary", "write", "point"}
                  /\ \/ exec[d].step = 0 /\ exec[d].pc # "boundary" /\ Moves(d, "verdict")
                     \/ exec'[d].pc = "vmlog" /\ exec'[d].outcome = "failure"
<1>1. AfterLog(d) \in ExecPc /\ {"point", "verdict", "vmlog"} \subseteq ExecPc
  BY DEF AfterLog, ExecPc
<1> QED BY <1>1, GotoDoes, FailedDoes DEF WriteLog, PointRow, LogFails, At

LEMMA CaptureVmLogDoes ==
    ASSUME ExecOK, NEW d \in Delivery, CaptureVmLog(d)
    PROVE  /\ ExecOK' /\ Others(d) /\ exec[d].pc = "vmlog"
           /\ \/ exec'[d].pc = "write" /\ exec'[d].step = 0 /\ exec'[d].outcome = exec[d].outcome
              \/ Moves(d, "verdict")
<1>1. CASE exec' = [exec EXCEPT ![d].pc = "write", ![d].step = 0]
  BY <1>1, Numbers DEF CaptureVmLog, At, ExecOK, ExecRec, ExecPc, Others
<1>2. CASE Goto(d, "verdict")
  BY <1>2, GotoDoes DEF CaptureVmLog, At, ExecPc
<1> QED BY <1>1, <1>2 DEF CaptureVmLog

LEMMA EndDoes ==
    ASSUME ExecOK, NEW d \in Delivery
    PROVE  /\ Verdict(d) => ExecOK' /\ Others(d) /\ exec[d].pc = "verdict" /\ exec'[d].pc = "over"
           /\ AttemptFails(d) => ExecOK' /\ Others(d) /\ exec'[d].pc = "over"
BY OverDoes DEF Verdict, AttemptFails, At

LEMMA CrashDoes ==
    ExecOK /\ Crash => ExecOK' /\ \A d \in Delivery : exec'[d] = exec[d] \/ exec'[d].pc = "over"
<1> SUFFICES ASSUME ExecOK, Crash
             PROVE  ExecOK' /\ \A d \in Delivery : exec'[d] = exec[d] \/ exec'[d].pc = "over"
  OBVIOUS
<1>1. PICK its : exec' = [d \in Delivery |-> IF d \in its THEN Attempt("over") ELSE exec[d]]
  BY DEF Crash
<1>2. Attempt("over").pc = "over"
  BY DEF Attempt
<1> QED BY <1>1, <1>2, AttemptType DEF ExecOK

-----------------------------------------------------------------------------
(* Types, preserved by the executor and the threads that write for it ...  *)
Background(d) == (\E u \in Uploads : WriteEnds(d, u)) \/ (\E i \in Idx : BytesLand(d, i))
Works(d) == Execute(d) \/ Background(d)

LEMMA WorksLeaves ==
    ASSUME NEW d \in Delivery, Works(d)
    PROVE  UNCHANGED <<sink, tail, epoch, old, sweep, swept>>
BY DEF Works, Background, Execute, Deliver, Boundary, PutBlob, PutManifest, PutTag, PutDisk, Record, UploadFails,
       WriteLog, PointRow, LogFails, CaptureVmLog, Verdict, AttemptFails, WriteEnds, BytesLand, sweeper

LEMMA WorksOthers ==
    ASSUME ExecOK, NEW d \in Delivery, Works(d)
    PROVE  ExecOK' /\ Others(d)
<1>1. ASSUME BytesLand(d, 0) \/ \E i \in Idx : BytesLand(d, i) PROVE ExecOK' /\ Others(d)
  BY <1>1 DEF BytesLand, ExecOK, Others
<1>2. AfterLog(d) \in ExecPc
  BY DEF AfterLog, ExecPc
<1> QED BY <1>1, DeliverDoes, BoundaryDoes, PutDoes, UploadFailsDoes, LogDoes, CaptureVmLogDoes, EndDoes, WriteEndsDoes
        DEF Works, Background, Execute

LEMMA WorksUploads ==
    ASSUME TypeInv, NEW d \in Delivery, Works(d)
    PROVE  \A e \in Delivery : Uploading(e)'
<1> USE DEF TypeInv
<1>0. UNCHANGED sink /\ Others(d)
  BY WorksLeaves, WorksOthers
<1>1. Uploading(d)'
  <2> USE DEF UploadPc
  <2>1. CASE Deliver(d)
    BY <1>0, <2>1, DeliverDoes DEF Uploading, Moves
  <2>2. CASE Boundary(d)
    <3>1. exec'[d].pc = "blob" => This(d)' \in Uploads /\ exec'[d].digest \in IF sink = "disk" THEN {None} ELSE Digest
      <4>1. BoundaryGoes(d)
        BY <2>2, BoundaryDoes
      <4>2. CASE exec'[d].pc = "blob"
        BY <4>1, <4>2 DEF BoundaryGoes, Begins, Moves
      <4> QED BY <4>2
    <3>2. exec'[d].pc \in {"vmlog", "boundary", "blob", "write"}
      BY <2>2, BoundaryDoes DEF BoundaryGoes, Begins, Moves
    <3> QED BY <1>0, <3>1, <3>2 DEF Uploading
  <2>3. CASE PutBlob(d) \/ PutManifest(d) \/ PutTag(d) \/ PutDisk(d) \/ Record(d)
    <3>1. (PutBlob(d) => sink = "artifacts") /\ (PutDisk(d) => sink = "disk")
      BY DEF PutBlob, PutDisk
    <3> QED BY <1>0, <2>3, <3>1, PutDoes DEF Uploading, Moves, This
  <2>4. CASE UploadFails(d)
    BY <1>0, <2>4, UploadFailsDoes DEF Uploading
  <2>5. CASE WriteLog(d) \/ PointRow(d) \/ LogFails(d)
    <3>1. AfterLog(d) \in {"verdict", "vmlog", "boundary"}
      BY DEF AfterLog
    <3> QED BY <1>0, <2>5, <3>1, LogDoes DEF Uploading, Moves
  <2>6. CASE CaptureVmLog(d)
    BY <1>0, <2>6, CaptureVmLogDoes DEF Uploading, Moves
  <2>7. CASE Verdict(d) \/ AttemptFails(d)
    BY <1>0, <2>7, EndDoes DEF Uploading
  <2>8. ASSUME NEW u \in Uploads, WriteEnds(d, u) PROVE Uploading(d)'
    BY <1>0, <2>8, WriteEndsDoes DEF Uploading, Moves, This
  <2>9. ASSUME NEW i \in Idx, BytesLand(d, i) PROVE Uploading(d)'
    BY <1>0, <2>9 DEF Uploading, BytesLand, This
  <2> QED BY <2>1, <2>2, <2>3, <2>4, <2>5, <2>6, <2>7, <2>8, <2>9 DEF Works, Background, Execute
<1>2. ASSUME NEW e \in Delivery, e # d PROVE Uploading(e)'
  BY <1>0, <1>2 DEF Uploading, Others, This
<1> QED BY <1>1, <1>2

LEMMA CreateType ==
    ASSUME LogsOK, NEW r \in Run, NEW i \in Idx, Create(r, i)
    PROVE  row' \in [Run -> [Idx -> {"none", "bare", "logged"}]]
<1>1. PICK x : row' = [row EXCEPT ![r][i] = x] /\ x \in {"none", "bare", "logged"}
  BY DEF LogsOK, Create
<1> QED BY <1>1 DEF LogsOK

LEMMA WorksLogs ==
    ASSUME TypeInv, NEW d \in Delivery, Works(d)
    PROVE  LogsOK'
<1> USE DEF TypeInv
<1>0. exec[d].step \in Idx /\ d[1] \in Run
  BY OfDelivery DEF ExecOK, ExecRec
<1>1. CASE Boundary(d)
  <2>1. UNCHANGED row \/ \E i \in Idx : Create(d[1], i)
    BY <1>1, Numbers DEF Boundary
  <2> QED BY <1>0, <1>1, <2>1, CreateType DEF Boundary, LogsOK
<1>2. CASE WriteLog(d)
  BY <1>0, <1>2 DEF WriteLog, LogsOK
<1>3. CASE PointRow(d)
  BY <1>0, <1>3 DEF PointRow, LogsOK
<1>4. CASE CaptureVmLog(d)
  BY <1>0, <1>4, Numbers, CreateType DEF CaptureVmLog, LogsOK
<1>5. ASSUME NEW i \in Idx, BytesLand(d, i) PROVE LogsOK'
  <2>1. UNCHANGED row /\ unwritten' \subseteq unwritten
    BY <1>5 DEF BytesLand
  <2>2. CASE file' = [file EXCEPT ![d[1]][i] = @ + 1]
    BY <1>0, <2>1, <2>2 DEF LogsOK
  <2>3. CASE file' = file
    BY <2>1, <2>3 DEF LogsOK
  <2> QED BY <1>5, <2>2, <2>3 DEF BytesLand
<1>6. CASE UNCHANGED logs
  BY <1>6 DEF LogsOK, logs
<1> QED BY <1>1, <1>2, <1>3, <1>4, <1>5, <1>6
        DEF Works, Background, Execute, Deliver, PutBlob, PutManifest, PutTag, PutDisk, Record, UploadFails,
            LogFails, Verdict, AttemptFails, WriteEnds

LEMMA WorksStore ==
    ASSUME TypeInv, NEW d \in Delivery, Works(d)
    PROVE  StoreOK'
<1> USE DEF TypeInv
<1>0. exec[d].pc \in UploadPc =>
          /\ This(d) \in Uploads /\ exec[d].digest \in Digest \cup {None}
          /\ PathOf[This(d)] \in Path /\ TagOf[This(d)] \in Tag
          /\ sink = "artifacts" => exec[d].digest \in Digest
  BY OfUpload DEF Uploading
<1> USE DEF UploadPc
<1>1. CASE PutBlob(d)
  BY <1>0, <1>1 DEF PutBlob, StoreOK, At
<1>2. CASE PutManifest(d)
  BY <1>0, <1>2 DEF PutManifest, StoreOK, At, Uploading, Stored
<1>3. CASE PutTag(d)
  BY <1>0, <1>3 DEF PutTag, StoreOK, At, Uploading, Stored
<1>4. CASE PutDisk(d)
  <2>1. PICK x \in FileState : disk' = [disk EXCEPT ![PathOf[This(d)]] = x]
    BY <1>4 DEF PutDisk, FileState
  <2> QED BY <1>0, <1>4, <2>1 DEF PutDisk, StoreOK, At
<1>5. CASE Record(d)
  BY <1>0, <1>5 DEF Record, StoreOK, At, Stored
<1>6. CASE UploadFails(d)
  BY <1>6 DEF UploadFails, StoreOK
<1>7. ASSUME NEW u \in Uploads, WriteEnds(d, u) PROVE StoreOK'
  <2>1. PICK x \in FileState : disk' = [disk EXCEPT ![PathOf[u]] = x]
    BY <1>7, OfUpload DEF WriteEnds, FileState, StoreOK
  <2> QED BY <1>7, <2>1, OfUpload DEF WriteEnds, StoreOK
<1>8. CASE UNCHANGED store
  BY <1>8 DEF StoreOK, store
<1> QED BY <1>1, <1>2, <1>3, <1>4, <1>5, <1>6, <1>7, <1>8
        DEF Works, Background, Execute, Deliver, Boundary, WriteLog, PointRow, LogFails, CaptureVmLog, Verdict,
            AttemptFails, BytesLand

(* A verdict, and only a verdict, records what the logs held.              *)
LEMMA SetJobStatusType ==
    ASSUME JobOK, LogsOK, NEW r \in Run, NEW s \in Terminal, SetJobStatus(r, s)
    PROVE  JobOK'
<1>1. [i \in Idx |-> IF row[r][i] = "logged" THEN file[r][i] ELSE 0] \in [Idx -> Nat]
  BY DEF LogsOK
<1> QED BY <1>1 DEF JobOK, SetJobStatus

LEMMA WorksJob ==
    ASSUME TypeInv, NEW d \in Delivery, Works(d)
    PROVE  \/ UNCHANGED verdicts
           \/ \E s \in Terminal :
                 /\ SetJobStatus(d[1], s)
                 /\ s = "success" => \/ d[1] \in Forgiven
                                     \/ exec[d].pc = "verdict" /\ exec[d].outcome = "success"
<1>1. exec[d].outcome \in Terminal /\ "success" \in Terminal /\ "failure" \in Terminal
  BY DEF TypeInv, ExecOK, ExecRec, Terminal
<1>2. CASE Verdict(d)
  <2>1. CASE exec[d].outcome = "failure" /\ d[1] \in Forgiven
    BY <1>1, <1>2, <2>1 DEF Verdict
  <2>2. CASE ~(exec[d].outcome = "failure" /\ d[1] \in Forgiven)
    <3>1. SetJobStatus(d[1], exec[d].outcome)
      BY <1>2, <2>2 DEF Verdict
    <3>2. exec[d].pc = "verdict"
      BY <1>2 DEF Verdict, At
    <3> QED BY <1>1, <3>1, <3>2
  <2> QED BY <2>1, <2>2
<1>3. CASE AttemptFails(d)
  <2>1. UNCHANGED verdicts \/ SetJobStatus(d[1], "failure")
    BY <1>3 DEF AttemptFails
  <2>2. "failure" # "success"
    OBVIOUS
  <2> QED BY <1>1, <2>1, <2>2
<1>4. CASE UNCHANGED verdicts
  BY <1>4
<1> QED BY <1>2, <1>3, <1>4
        DEF Works, Background, Execute, Deliver, Boundary, PutBlob, PutManifest, PutTag, PutDisk, Record, UploadFails,
            WriteLog, PointRow, LogFails, CaptureVmLog, WriteEnds, BytesLand

LEMMA WorksRest ==
    ASSUME TypeInv, NEW d \in Delivery, Works(d)
    PROVE  RestOK' /\ JobOK' /\ SweepOK' /\ Unlinked'
<1> USE DEF TypeInv
<1>0. UNCHANGED <<sink, tail, epoch, old, sweep, swept>> /\ d[1] \in Run
  BY WorksLeaves, OfDelivery
<1>1. left' \in [Fault -> Nat]
  <2>1. UNCHANGED left \/ Spend("upload") \/ Spend("log") \/ Spend("attempt") \/ Spend("lapse") \/ Spend("slow")
    BY DEF Works, Background, Execute, Deliver, Redelivers, Boundary, PutBlob, PutManifest, PutTag, PutDisk, Record,
         UploadFails, WriteLog, PointRow, LogFails, CaptureVmLog, Verdict, AttemptFails, WriteEnds, BytesLand
  <2> QED BY <2>1, SpendType DEF RestOK, Fault
<1>2. JobOK'
  <2>1. CASE UNCHANGED verdicts
    BY <2>1 DEF verdicts, JobOK
  <2> QED BY <1>0, <2>1, WorksJob, SetJobStatusType
<1>3. raced' \subseteq swept
  <2>1. UNCHANGED raced \/ (sweep.pc = "forget" /\ d[1] = First(sweep.todo) /\ raced' = raced \cup {d[1]})
    BY DEF Works, Background, Execute, Deliver, Boundary, PutBlob, PutManifest, PutTag, PutDisk, Record, UploadFails,
         WriteLog, PointRow, LogFails, CaptureVmLog, Verdict, AttemptFails, WriteEnds, BytesLand, sweeper
  <2> QED BY <2>1 DEF SweepOK, Unlinked
<1> QED BY <1>0, <1>1, <1>2, <1>3 DEF RestOK, SweepOK, Unlinked

LEMMA WorksType ==
    ASSUME TypeInv, NEW d \in Delivery, Works(d)
    PROVE  TypeInv'
BY WorksOthers, WorksUploads, WorksLogs, WorksStore, WorksRest, WorksLeaves DEF TypeInv, TailTypeOK

(* ... by the tails ...                                                    *)
LEMMA TailSet ==
    ASSUME TypeInv, NEW v \in Viewer, NEW t \in TailRec, SetTail(v, t), left' \in [Fault -> Nat]
    PROVE  TypeInv'
<1>1. TailTypeOK'
  BY DEF SetTail, TypeInv, TailTypeOK
<1> QED BY <1>1 DEF TypeInv, SetTail, ExecOK, LogsOK, StoreOK, SweepOK, JobOK, RestOK, Unlinked, Uploading, This, logs, store, sweeper, verdicts

LEMMA LoadPageType ==
    ASSUME TypeInv, NEW v \in Viewer, NEW r \in Run, LoadPage(v, r)
    PROVE  TypeInv'
<1>1. left' \in [Fault -> Nat] /\ epoch \in Nat
  BY DEF LoadPage, TypeInv, RestOK
<1>2. /\ [NoTail EXCEPT !.pc = "page", !.run = r, !.key = epoch] \in TailRec
      /\ [NoTail EXCEPT !.pc = "refused", !.run = r] \in TailRec
  BY <1>1, NoTailType DEF TailRec, TailPc
<1> QED BY <1>1, <1>2, TailSet DEF LoadPage

LEMMA WatchType ==
    ASSUME TypeInv, NEW v \in Viewer, Watch(v)
    PROVE  TypeInv'
<1> DEFINE t == tail[v]
<1>1. t \in TailRec
  BY DEF TypeInv, TailTypeOK
<1>2. left' \in [Fault -> Nat]
  <2>1. UNCHANGED left \/ Spend("read")
    BY DEF Watch, Connect, ReadJob, ReadSteps, ReadLog, EndPass
  <2> QED BY <2>1, SpendType DEF TypeInv, RestOK, Fault
<1>3. CASE Connect(v)
  <2>1. [t EXCEPT !.pc = "loop"] \in TailRec /\ [t EXCEPT !.pc = "refused"] \in TailRec
    BY <1>1 DEF TailRec, TailPc
  <2> QED BY <1>2, <1>3, <2>1, TailSet DEF Connect
<1>4. CASE ReadJob(v)
  <2>1. job[t.run] \in {"open"} \cup Terminal
    BY <1>1 DEF TailRec, TypeInv, JobOK
  <2>2. [t EXCEPT !.pc = "steps", !.status = job[t.run]] \in TailRec /\ [t EXCEPT !.pc = "cut"] \in TailRec
    BY <1>1, <2>1 DEF TailRec, TailPc
  <2> QED BY <1>2, <1>4, <2>2, TailSet DEF ReadJob
<1>5. CASE ReadSteps(v)
  <2> DEFINE S == {i \in Idx : row[tail[v].run][i] = "logged"}
  <2>1. S \in SUBSET Idx
    OBVIOUS
  <2> HIDE DEF S
  <2>2. [t EXCEPT !.pc = "logs", !.todo = S] \in TailRec /\ [t EXCEPT !.pc = "logs", !.missed = TRUE] \in TailRec
    BY <1>1, <2>1 DEF TailRec, TailPc
  <2> QED BY <1>2, <1>5, <2>2, TailSet DEF ReadSteps, S
<1>6. CASE ReadLog(v)
  <2> DEFINE i == First(t.todo)
             n == IF file[t.run][i] > t.sent[i] THEN file[t.run][i] ELSE t.sent[i]
             rest == [t EXCEPT !.todo = @ \ {i}]
  <2>1. i \in Idx
    <3>1. t.todo \in SUBSET Idx /\ t.todo # {}
      BY <1>1, <1>6 DEF TailRec, ReadLog
    <3>2. t.todo \in SUBSET Nat
      BY <3>1, Numbers
    <3> QED BY <3>1, <3>2, FirstIsIn
  <2>2. n \in Nat
    <3>1. file[t.run][i] \in Nat /\ t.sent[i] \in Nat
      BY <1>1, <2>1 DEF TailRec, TypeInv, LogsOK
    <3> QED BY <3>1
  <2>3. rest \in TailRec /\ rest.sent = t.sent
    BY <1>1 DEF TailRec
  <2>4. [rest EXCEPT !.missed = TRUE] \in TailRec
    BY <2>3 DEF TailRec
  <2>5. [rest EXCEPT !.sent[i] = n] \in TailRec
    <3>1. [rest.sent EXCEPT ![i] = n] \in [Idx -> Nat]
      <4> HIDE DEF n, i, rest
      <4> QED BY <2>1, <2>2, <2>3 DEF TailRec
    <3>2. [rest EXCEPT !.sent[i] = n] = [rest EXCEPT !.sent = [rest.sent EXCEPT ![i] = n]]
      <4> HIDE DEF n, i, rest
      <4> QED BY <2>3 DEF TailRec
    <3> HIDE DEF n, i, rest
    <3> QED BY <2>3, <3>1, <3>2 DEF TailRec
  <2>6. \/ SetTail(v, [rest EXCEPT !.sent[i] = n])
        \/ SetTail(v, [rest EXCEPT !.missed = TRUE])
    BY <1>6, <2>3 DEF ReadLog
  <2> HIDE DEF n, i, rest
  <2> QED BY <1>2, <2>4, <2>5, <2>6, TailSet
<1>7. CASE EndPass(v)
  <2>1. PICK p \in {"done", "loop"}, b \in BOOLEAN : SetTail(v, [t EXCEPT !.pc = p, !.missed = b])
    BY <1>7 DEF EndPass
  <2>2. [t EXCEPT !.pc = p, !.missed = b] \in TailRec
    BY <1>1 DEF TailRec, TailPc
  <2> QED BY <1>2, <2>1, <2>2, TailSet
<1> QED BY <1>3, <1>4, <1>5, <1>6, <1>7 DEF Watch

(* ... by the sweeper ...                                                  *)
LEMMA RestSweeps ==
    ASSUME SweepOK, sweep.pc # "idle"
    PROVE  /\ First(sweep.todo) \in sweep.todo /\ First(sweep.todo) \in Run
           /\ Rest(sweep.todo) \in [pc : {"idle", "remove", "forget"}, todo : SUBSET Run]
           /\ Rest(sweep.todo).pc = "idle" <=> Rest(sweep.todo).todo = {}
           /\ Rest(sweep.todo).pc # "forget"
<1>1. sweep.todo \in SUBSET Run /\ sweep.todo # {}
  BY DEF SweepOK
<1>2. First(sweep.todo) \in sweep.todo
  BY <1>1, FirstIsIn, Numbers
<1> QED BY <1>1, <1>2 DEF Rest

LEMMA SweepType ==
    ASSUME TypeInv, Sweep
    PROVE  TypeInv' /\ swept \subseteq swept'
<1> USE DEF TypeInv
<1>0. ExecOK' /\ TailTypeOK' /\ StoreOK' /\ JobOK' /\ \A d \in Delivery : Uploading(d)'
  BY DEF Sweep, Tick, Remove, RemoveFails, Forget, ExecOK, TailTypeOK, StoreOK, JobOK, Uploading, This, store, verdicts
<1>1. CASE Tick
  <2>1. Offered \subseteq Run /\ Offered # {}
    <3>1. Offered # {} /\ 1..old \subseteq Run
      BY <1>1, RecordsAssumption DEF Tick, Run, SweepOK
    <3>2. Offered \subseteq 1..old
      BY DEF Offered
    <3> QED BY <3>1, <3>2
  <2>2. SweepOK' /\ Unlinked' /\ swept' = swept
    BY <1>1, <2>1 DEF Tick, SweepOK, Unlinked
  <2> QED BY <1>0, <1>1, <2>2 DEF Tick, LogsOK, RestOK, logs
<1>2. CASE Remove
  <2>1. First(sweep.todo) \in Run /\ sweep.todo # {}
    BY <1>2, RestSweeps DEF Remove, SweepOK
  <2>2. SweepOK' /\ Unlinked' /\ swept \subseteq swept'
    BY <1>2, <2>1 DEF Remove, SweepOK, Unlinked
  <2>3. LogsOK'
    BY <1>2, <2>1 DEF Remove, LogsOK
  <2> QED BY <1>0, <1>2, <2>2, <2>3 DEF Remove, RestOK
<1>3. CASE RemoveFails
  <2>1. SweepOK' /\ Unlinked' /\ swept' = swept
    BY <1>3, RestSweeps DEF RemoveFails, SweepOK, Unlinked
  <2>2. left' \in [Fault -> Nat]
    BY <1>3, SpendType DEF RemoveFails, RestOK, Fault
  <2> QED BY <1>0, <1>3, <2>1, <2>2 DEF RemoveFails, LogsOK, RestOK, logs
<1>4. CASE Forget
  <2>1. SweepOK' /\ Unlinked' /\ swept' = swept /\ First(sweep.todo) \in Run
    BY <1>4, RestSweeps DEF Forget, SweepOK, Unlinked
  <2>2. left' \in [Fault -> Nat]
    BY <1>4, SpendType DEF Forget, RestOK, Fault
  <2>3. LogsOK'
    BY <1>4, <2>1 DEF Forget, LogsOK
  <2> QED BY <1>0, <1>4, <2>1, <2>2, <2>3 DEF Forget, RestOK
<1> QED BY <1>1, <1>2, <1>3, <1>4 DEF Sweep

(* ... and by what happens to the processes and their runs.                *)
LEMMA OutsideType ==
    ASSUME TypeInv, Age \/ Crash \/ (\E r \in Run : Cancel(r))
    PROVE  TypeInv'
<1> USE DEF TypeInv
<1>1. CASE Age
  <2>1. SweepOK' /\ RestOK'
    BY <1>1, SpendType, RecordsAssumption DEF Age, SweepOK, RestOK, Fault
  <2> QED BY <1>1, <2>1 DEF Age, ExecOK, TailTypeOK, LogsOK, StoreOK, JobOK, Unlinked, Uploading, This, store, logs, verdicts
<1>2. CASE Crash
  <2>1. SweepOK' /\ Unlinked'
    BY <1>2 DEF Crash, SweepOK, Unlinked
  <2>2. RestOK' /\ JobOK'
    BY <1>2, SpendType DEF Crash, RestOK, JobOK, Fault, verdicts
  <2>3. ExecOK' /\ \A d \in Delivery : Uploading(d)'
    <3>1. ExecOK' /\ sink' = sink
      BY <1>2, CrashDoes DEF Crash
    <3>2. ASSUME NEW d \in Delivery PROVE Uploading(d)'
      <4>1. CASE exec'[d] = exec[d]
        BY <3>1, <4>1 DEF Uploading, This
      <4>2. CASE exec'[d].pc = "over"
        BY <4>2 DEF Uploading, UploadPc
      <4> QED BY <1>2, <4>1, <4>2, CrashDoes
    <3> QED BY <3>1, <3>2
  <2>4. TailTypeOK'
    <3>1. \A v \in Viewer : tail[v] \in TailRec /\ [tail[v] EXCEPT !.pc = "cut"] \in TailRec
      BY DEF TailTypeOK, TailRec, TailPc
    <3> QED BY <1>2, <3>1 DEF Crash, TailTypeOK
  <2>5. LogsOK' /\ StoreOK'
    BY <1>2 DEF Crash, LogsOK, StoreOK
  <2> QED BY <2>1, <2>2, <2>3, <2>4, <2>5
<1>3. ASSUME NEW r \in Run, Cancel(r) PROVE TypeInv'
  <2>1. RestOK' /\ JobOK'
    BY <1>3, SpendType DEF Cancel, RestOK, JobOK, Fault, Terminal
  <2> QED BY <1>3, <2>1 DEF Cancel, ExecOK, TailTypeOK, LogsOK, StoreOK, SweepOK, Unlinked, Uploading, This, store, logs, sweeper
<1> QED BY <1>1, <1>2, <1>3

LEMMA NextCases ==
    ASSUME Next
    PROVE  \/ \E d \in Delivery : Works(d)
           \/ \E r \in Run : Cancel(r)
           \/ \E v \in Viewer : Watch(v) \/ \E r \in Run : LoadPage(v, r)
           \/ Age \/ Sweep \/ Crash
BY DEF Next, Works, Background

LEMMA NextType == TypeInv /\ [Next]_vars => TypeInv'
<1> SUFFICES ASSUME TypeInv, [Next]_vars PROVE TypeInv'
  OBVIOUS
<1>1. CASE Next
  BY <1>1, NextCases, WorksType, WatchType, LoadPageType, SweepType, OutsideType
<1>2. CASE UNCHANGED vars
  BY <1>2 DEF vars, TypeInv, ExecOK, TailTypeOK, LogsOK, StoreOK, SweepOK, JobOK, RestOK, Unlinked, Uploading, This, store, logs, sweeper, verdicts
<1> QED BY <1>1, <1>2

LEMMA TypeHolds == Spec => []TypeInv
BY InitType, NextType, PTL DEF Spec

(* Every record keeps its type, the sweep only holds runs while it runs,   *)
(* and it is only after the unlink that an append can race the UPDATE.     *)
THEOREM TypeCorrect == Spec => []TypeOK
BY TypeHolds, TypeParts, PTL


-----------------------------------------------------------------------------
(* What is listed is stored.  Nothing leaves the store; a file that was    *)
(* once filled is never again one that was not; and an upload that is about*)
(* to be listed has put its parts in order.                                *)
Ready(p) == disk[p] \in {"whole", "again", "mixed"}
TagGood(t) == tags[t] \in manifests /\ tags[t][2] \in blobs

UploadInv(d) ==
    /\ sink = "artifacts" /\ exec[d].pc \in {"manifest", "tag", "list"} => exec[d].digest \in blobs
    /\ sink = "artifacts" /\ exec[d].pc \in {"tag", "list"} => Stored(d) \in manifests
    /\ sink = "artifacts" /\ exec[d].pc = "list" => TagGood(TagOf[This(d)])
    /\ sink = "disk" /\ exec[d].pc = "list" => Ready(PathOf[This(d)])

StoreInv == ListedIsStored /\ \A d \in Delivery : UploadInv(d)

StoreGrows ==
    /\ sink' = sink
    /\ blobs \subseteq blobs' /\ manifests \subseteq manifests' /\ listed \subseteq listed'
    /\ \A t \in Tag : TagGood(t) => TagGood(t)'
    /\ \A p \in Path : Ready(p) => Ready(p)'

LEMMA StoreKept ==
    ASSUME UNCHANGED <<sink, blobs, manifests, tags, disk, listed>>
    PROVE  StoreGrows
BY DEF StoreGrows, TagGood, Ready

LEMMA PutTagKeeps ==
    ASSUME TypeInv, NEW d \in Delivery, UploadInv(d), PutTag(d)
    PROVE  StoreGrows /\ sink = "artifacts" /\ TagGood(TagOf[This(d)])'
<1>1. exec[d].pc = "tag" /\ sink = "artifacts" /\ This(d) \in Uploads
  BY DEF PutTag, At, TypeInv, Uploading, UploadPc
<1>2. PICK t \in Tag : t = TagOf[This(d)]
  BY <1>1, OfUpload
<1>3. PICK m : m = Stored(d) /\ m \in manifests /\ m[2] \in blobs
  BY <1>1 DEF UploadInv, Stored
<1>4. tags' = [tags EXCEPT ![t] = m] /\ UNCHANGED <<sink, blobs, manifests, disk, listed>>
  BY <1>2, <1>3 DEF PutTag
<1>5. tags \in [Tag -> (Uploads \X Digest) \cup {None}]
  BY DEF TypeInv, StoreOK
<1>6. tags'[t] = m /\ \A s \in Tag : s # t => tags'[s] = tags[s]
  BY <1>4, <1>5
<1>7. TagGood(t)'
  BY <1>3, <1>4, <1>6 DEF TagGood
<1>8. \A s \in Tag : TagGood(s) => TagGood(s)'
  BY <1>4, <1>6, <1>7 DEF TagGood
<1>9. StoreGrows
  BY <1>4, <1>8 DEF StoreGrows, Ready
<1>10. This(d)' = This(d)
  BY PutDoes DEF TypeInv, Moves, This
<1> QED BY <1>1, <1>2, <1>7, <1>9, <1>10 DEF TagGood

LEMMA PutDiskKeeps ==
    ASSUME TypeInv, NEW d \in Delivery, PutDisk(d)
    PROVE  StoreGrows
<1>0. PICK p : p = PathOf[This(d)]
  OBVIOUS
<1>1. PICK x : /\ disk' = [disk EXCEPT ![p] = x]
               /\ disk[p] \in {"whole", "again", "mixed"} => x \in {"whole", "again", "mixed"}
  BY <1>0 DEF PutDisk
<1>2. disk \in [Path -> FileState]
  BY DEF TypeInv, StoreOK
<1>3. \A q \in Path : Ready(q) => Ready(q)'
  BY <1>1, <1>2 DEF Ready
<1> QED BY <1>3 DEF PutDisk, StoreGrows, TagGood

LEMMA WriteEndsKeeps ==
    ASSUME TypeInv, NEW d \in Delivery, NEW u \in Uploads, WriteEnds(d, u)
    PROVE  StoreGrows /\ Ready(PathOf[u])'
<1>1. PICK x \in {"whole", "mixed"} : disk' = [disk EXCEPT ![PathOf[u]] = x]
  BY DEF WriteEnds
<1>2. disk \in [Path -> FileState] /\ PathOf[u] \in Path
  BY OfUpload DEF TypeInv, StoreOK
<1>3. Ready(PathOf[u])' /\ \A q \in Path : Ready(q) => Ready(q)'
  BY <1>1, <1>2 DEF Ready
<1> QED BY <1>3 DEF WriteEnds, StoreGrows, TagGood

LEMMA WorksGrows ==
    ASSUME TypeInv, NEW d \in Delivery, UploadInv(d), Works(d)
    PROVE  StoreGrows
<1>1. CASE PutTag(d)
  BY <1>1, PutTagKeeps
<1>2. CASE PutDisk(d)
  BY <1>2, PutDiskKeeps
<1>3. ASSUME NEW u \in Uploads, WriteEnds(d, u) PROVE StoreGrows
  BY <1>3, WriteEndsKeeps
<1>4. CASE PutBlob(d) \/ PutManifest(d) \/ Record(d)
  BY <1>4 DEF PutBlob, PutManifest, Record, StoreGrows, TagGood, Ready
<1>5. CASE UNCHANGED <<sink, blobs, manifests, tags, disk, listed>>
  BY <1>5, StoreKept
<1> QED BY <1>1, <1>2, <1>3, <1>4, <1>5
        DEF Works, Background, Execute, Deliver, Boundary, UploadFails, WriteLog, PointRow, LogFails, CaptureVmLog,
            Verdict, AttemptFails, BytesLand, store

(* A delivery that stays where it is, or leaves the upload, loses nothing. *)
LEMMA UploadStays ==
    ASSUME TypeInv, StoreGrows, NEW d \in Delivery, UploadInv(d),
           exec'[d] = exec[d] \/ exec'[d].pc \notin {"manifest", "tag", "list"}
    PROVE  UploadInv(d)'
<1>1. CASE exec'[d] = exec[d]
  <2>1. This(d)' = This(d) /\ Stored(d)' = Stored(d)
    BY <1>1 DEF This, Stored
  <2>2. exec[d].pc = "list" => TagOf[This(d)] \in Tag /\ PathOf[This(d)] \in Path
    BY OfUpload DEF TypeInv, Uploading, UploadPc
  <2> QED BY <1>1, <2>1, <2>2 DEF UploadInv, StoreGrows
<1>2. CASE exec'[d].pc \notin {"manifest", "tag", "list"}
  BY <1>2 DEF UploadInv
<1> QED BY <1>1, <1>2

LEMMA WorksUploadInv ==
    ASSUME TypeInv, NEW d \in Delivery, UploadInv(d), Works(d), StoreGrows
    PROVE  UploadInv(d)'
<1>0. ExecOK
  BY DEF TypeInv
<1>1. CASE exec'[d] = exec[d] \/ exec'[d].pc \notin {"manifest", "tag", "list"}
  BY <1>1, UploadStays
<1>2. CASE PutBlob(d)
  <2>1. exec'[d].pc = "manifest" /\ exec'[d].digest = exec[d].digest
    BY <1>0, <1>2, PutDoes DEF Moves
  <2> QED BY <1>2, <2>1 DEF PutBlob, UploadInv
<1>3. CASE PutManifest(d)
  <2>1. exec[d].pc = "manifest" /\ exec'[d].pc = "tag" /\ Stored(d)' = Stored(d) /\ exec'[d].digest = exec[d].digest
    BY <1>0, <1>3, PutDoes DEF Moves, Stored, This
  <2> QED BY <1>3, <2>1 DEF PutManifest, UploadInv
<1>4. CASE PutTag(d)
  <2>1. /\ exec[d].pc = "tag" /\ exec'[d].pc = "list" /\ exec'[d].digest = exec[d].digest
        /\ Stored(d)' = Stored(d) /\ This(d)' = This(d)
    BY <1>0, <1>4, PutDoes DEF Moves, Stored, This
  <2>2. sink = "artifacts" /\ TagGood(TagOf[This(d)])'
    BY <1>4, PutTagKeeps
  <2> QED BY <1>4, <2>1, <2>2 DEF PutTag, UploadInv
<1>5. ASSUME NEW u \in Uploads, WriteEnds(d, u) PROVE UploadInv(d)'
  <2>1. CASE exec' = exec
    BY <2>1, UploadStays
  <2>2. CASE exec[d].pc = "written" /\ This(d) = u /\ Moves(d, "list")
    <3>1. exec'[d].pc = "list" /\ This(d)' = u /\ sink' = "disk"
      BY <2>2 DEF Moves, This, TypeInv, Uploading, StoreGrows
    <3>2. Ready(PathOf[u])'
      BY <1>5, WriteEndsKeeps
    <3> QED BY <3>1, <3>2 DEF UploadInv, Ready
  <2> QED BY <1>0, <1>5, <2>1, <2>2, WriteEndsDoes
<1>6. ASSUME NEW i \in Idx, BytesLand(d, i) PROVE UploadInv(d)'
  <2>1. exec' = exec
    BY <1>6 DEF BytesLand
  <2> QED BY <2>1, UploadStays
<1>7. AfterLog(d) \in {"verdict", "vmlog", "boundary"}
  BY DEF AfterLog
<1>8. CASE Record(d) \/ PutDisk(d)
  BY <1>0, <1>8, <1>1, PutDoes DEF Moves
<1>9. CASE Deliver(d) \/ Boundary(d) \/ UploadFails(d)
  BY <1>0, <1>9, <1>1, DeliverDoes, BoundaryDoes, UploadFailsDoes DEF Moves, BoundaryGoes, Begins
<1>10. CASE WriteLog(d) \/ PointRow(d) \/ LogFails(d) \/ CaptureVmLog(d)
  BY <1>0, <1>10, <1>1, <1>7, LogDoes, CaptureVmLogDoes DEF Moves
<1>11. CASE Verdict(d) \/ AttemptFails(d)
  BY <1>0, <1>11, <1>1, EndDoes
<1> QED BY <1>2, <1>3, <1>4, <1>5, <1>6, <1>8, <1>9, <1>10, <1>11 DEF Works, Background, Execute

LEMMA ListedStays ==
    ASSUME TypeInv, ListedIsStored, StoreGrows, NEW a \in listed
    PROVE  IF sink' = "disk" THEN Ready(PathOf[a[1]])'
           ELSE a[2] \in blobs' /\ a \in manifests' /\ TagGood(TagOf[a[1]])'
<1>1. a[1] \in Uploads
  BY DEF TypeInv, StoreOK
<1>2. PathOf[a[1]] \in Path /\ TagOf[a[1]] \in Tag
  BY <1>1, OfUpload
<1> QED BY <1>2 DEF ListedIsStored, StoreGrows, Ready, TagGood

LEMMA ListedGood ==
    ASSUME \A a \in listed : IF sink = "disk" THEN Ready(PathOf[a[1]])
                             ELSE a[2] \in blobs /\ a \in manifests /\ TagGood(TagOf[a[1]])
    PROVE  ListedIsStored
BY DEF ListedIsStored, Ready, TagGood

LEMMA NextStore ==
    ASSUME TypeInv, StoreInv, [Next]_vars
    PROVE  StoreInv' /\ StoreGrows
<1> DEFINE Good(a) == IF sink = "disk" THEN Ready(PathOf[a[1]])
                      ELSE a[2] \in blobs /\ a \in manifests /\ TagGood(TagOf[a[1]])
<1>1. ASSUME NEW d \in Delivery, Works(d) PROVE StoreInv' /\ StoreGrows
  <2>1. StoreGrows /\ UploadInv(d)'
    BY <1>1, WorksGrows, WorksUploadInv DEF StoreInv
  <2>2. ASSUME NEW e \in Delivery, e # d PROVE UploadInv(e)'
    BY <1>1, <2>1, <2>2, WorksOthers, UploadStays DEF StoreInv, Others, TypeInv
  <2>3. \A a \in listed : Good(a)'
    BY <2>1, ListedStays DEF StoreInv
  <2>4. CASE Record(d)
    <3>1. exec[d].pc = "list" /\ listed' = listed \cup {Stored(d)} /\ UNCHANGED <<sink, blobs, manifests, tags, disk>>
      BY <2>4 DEF Record, At
    <3>2. Stored(d)[1] = This(d) /\ Stored(d)[2] = exec[d].digest /\ sink \in {"disk", "artifacts"}
      BY DEF Stored, TypeInv, RestOK
    <3>3. IF sink = "disk" THEN Ready(PathOf[This(d)])
          ELSE exec[d].digest \in blobs /\ Stored(d) \in manifests /\ TagGood(TagOf[This(d)])
      BY <3>1, <3>2 DEF StoreInv, UploadInv
    <3>4. \A a \in listed' : Good(a)'
      BY <2>3, <3>1, <3>2, <3>3 DEF Ready, TagGood
    <3>5. ListedIsStored'
      BY <3>4 DEF ListedIsStored, Ready, TagGood
    <3> QED BY <2>1, <2>2, <3>5 DEF StoreInv
  <2>5. CASE UNCHANGED listed
    <3>1. ListedIsStored'
      BY <2>3, <2>5 DEF ListedIsStored, Ready, TagGood
    <3> QED BY <2>1, <2>2, <3>1 DEF StoreInv
  <2> QED BY <1>1, <2>4, <2>5
          DEF Works, Background, Execute, Deliver, Boundary, PutBlob, PutManifest, PutTag, PutDisk, UploadFails, WriteLog,
              PointRow, LogFails, CaptureVmLog, Verdict, AttemptFails, BytesLand, WriteEnds, store
<1>2. ASSUME UNCHANGED <<sink, blobs, manifests, tags, disk, listed>>,
             \A d \in Delivery : exec'[d] = exec[d] \/ exec'[d].pc = "over"
      PROVE  StoreInv' /\ StoreGrows
  <2>1. StoreGrows
    BY <1>2, StoreKept
  <2>2. \A d \in Delivery : UploadInv(d)'
    BY <1>2, <2>1, UploadStays DEF StoreInv
  <2>3. ListedIsStored'
    BY <1>2 DEF ListedIsStored, StoreInv
  <2> QED BY <2>1, <2>2, <2>3 DEF StoreInv
<1>3. CASE Crash
  BY <1>2, <1>3, CrashDoes DEF Crash, TypeInv
<1>4. CASE \E r \in Run : Cancel(r)
  BY <1>2, <1>4 DEF Cancel, store
<1>5. CASE \E v \in Viewer : Watch(v) \/ \E r \in Run : LoadPage(v, r)
  BY <1>2, <1>5 DEF Watch, LoadPage, Connect, ReadJob, ReadSteps, ReadLog, EndPass, SetTail, store
<1>6. CASE Age \/ Sweep
  BY <1>2, <1>6 DEF Age, Sweep, Tick, Remove, RemoveFails, Forget, store
<1>7. CASE UNCHANGED vars
  BY <1>2, <1>7 DEF vars, store
<1>8. CASE Next
  BY <1>1, <1>3, <1>4, <1>5, <1>6, <1>8, NextCases
<1> QED BY <1>7, <1>8

LEMMA InitStore == Init => StoreInv
BY DEF Init, StoreInv, ListedIsStored, UploadInv, Attempt

(* An artifact on a job's page can be fetched: in the store, its bytes,    *)
(* its manifest, and a tag that leads to a manifest with bytes, also when  *)
(* the tag is shared, moved to other bytes, or left half way by an upload  *)
(* that failed; on disk, its file was filled before it was listed, though  *)
(* it may have been written over since (run_action, artifacts.rs).         *)
THEOREM ListedCanBeHad == Spec => []ListedIsStored
<1>1. Init => StoreInv
  BY InitStore
<1>2. TypeInv /\ StoreInv /\ [Next]_vars => StoreInv'
  BY NextStore
<1>3. StoreInv => ListedIsStored
  BY DEF StoreInv
<1> QED BY <1>1, <1>2, <1>3, TypeHolds, PTL DEF Spec

-----------------------------------------------------------------------------
(* A job that succeeds has listed what it had to.  Until a delivery gives  *)
(* its verdict, every upload it has put behind it is listed, unless a step *)
(* has failed or the job was cancelled.                                    *)
Listed(u) == \E a \in listed : a[1] = u

Passed(d, i) ==
    /\ exec[d].pc \in UploadPc => i < exec[d].step
    /\ exec[d].pc = "boundary" \/ (exec[d].pc \in {"write", "point"} /\ exec[d].step # 0) => i <= exec[d].step

OutcomeInv(d) ==
    /\ exec[d].pc = "due" => exec[d].outcome = "success" /\ exec[d].step = 0
    /\ exec[d].pc = "boundary" \/ exec[d].pc \in UploadPc => exec[d].outcome = "success"
    /\ exec[d].pc \in {"write", "point"} /\ exec[d].step # 0 => exec[d].outcome # "cancelled"

PassedInv(d) ==
    exec[d].pc \notin Idle /\ exec[d].outcome = "success" =>
        \A u \in Required : u[1] = d[1] /\ Passed(d, u[2]) => Listed(u)

SuccessInv == SuccessMeansListed /\ \A d \in Delivery : OutcomeInv(d) /\ PassedInv(d)

(* A delivery that keeps its outcome, and passes no upload that is not     *)
(* listed, keeps its promise.                                              *)
LEMMA PassedStays ==
    ASSUME NEW d \in Delivery, PassedInv(d), listed \subseteq listed',
           exec[d].pc \notin Idle, exec[d].outcome = "success",
           \A u \in Required : u[1] = d[1] /\ Passed(d, u[2])' => Passed(d, u[2]) \/ Listed(u)'
    PROVE  PassedInv(d)'
<1>1. \A u \in Required : Listed(u) => Listed(u)'
  BY DEF Listed
<1> QED BY <1>1 DEF PassedInv, Required

LEMMA OtherPassed ==
    ASSUME NEW d \in Delivery, PassedInv(d), OutcomeInv(d), listed \subseteq listed',
           exec'[d] = exec[d] \/ exec'[d].pc = "over"
    PROVE  PassedInv(d)' /\ OutcomeInv(d)'
<1>1. CASE exec'[d] = exec[d]
  <2>1. \A u \in Required : Listed(u) => Listed(u)'
    BY DEF Listed
  <2>2. \A u \in Required : Passed(d, u[2])' = Passed(d, u[2])
    BY <1>1 DEF Passed
  <2> QED BY <1>1, <2>1, <2>2 DEF PassedInv, OutcomeInv, Required
<1>2. CASE exec'[d].pc = "over"
  BY <1>2 DEF PassedInv, OutcomeInv, Idle, UploadPc
<1> QED BY <1>1, <1>2

LEMMA RequiredIs ==
    ASSUME NEW u \in Required
    PROVE  u \in Uploads /\ u \notin Optional /\ u \notin Tolerated /\ u[1] \notin Forgiven
BY DEF Required

LEMMA BoundaryPassed ==
    ASSUME TypeInv, NEW d \in Delivery, PassedInv(d), OutcomeInv(d), Boundary(d), listed' = listed
    PROVE  PassedInv(d)' /\ OutcomeInv(d)'
<1>1. exec[d].pc = "boundary" /\ exec[d].outcome = "success" /\ BoundaryGoes(d) /\ exec[d].step \in Nat
  BY BoundaryDoes, Numbers DEF TypeInv, OutcomeInv, ExecOK, ExecRec
<1>2. exec[d].pc \notin Idle
  BY <1>1 DEF Idle
<1>3. \A u \in Required : /\ u[2] \in 1..Steps /\ u = <<u[1], u[2]>>
                          /\ u[1] = d[1] /\ u[2] <= exec[d].step => Passed(d, u[2])
  BY <1>1, RequiredIs, OfUpload DEF Passed, UploadPc
<1>4. CASE exec'[d].pc = "vmlog" /\ exec'[d].outcome = "cancelled"
  BY <1>4 DEF PassedInv, OutcomeInv, UploadPc
<1>5. CASE exec[d].step + 1 > Steps /\ Moves(d, "vmlog")
  <2>1. \A u \in Required : u[2] <= exec[d].step
    BY <1>1, <1>3, <1>5, RecordsAssumption
  <2>2. PassedInv(d)'
    BY <1>1, <1>2, <1>3, <2>1, PassedStays
  <2> QED BY <1>5, <2>2 DEF Moves, OutcomeInv, UploadPc
<1>6. CASE Begins(d, "boundary") /\ <<d[1], exec'[d].step>> \in Optional /\ exec'[d].outcome = exec[d].outcome
  <2>1. ASSUME NEW u \in Required, u[1] = d[1], Passed(d, u[2])' PROVE Passed(d, u[2])
    <3>1. u[2] <= exec'[d].step /\ u[2] # exec'[d].step
      BY <1>3, <1>6, <2>1, RequiredIs DEF Passed, Begins
    <3> QED BY <1>1, <1>3, <1>6, <2>1, <3>1 DEF Begins
  <2>2. PassedInv(d)'
    BY <1>1, <1>2, <2>1, PassedStays
  <2> QED BY <1>1, <1>6, <2>2 DEF Begins, OutcomeInv
<1>7. CASE Begins(d, "blob") /\ exec'[d].outcome = exec[d].outcome
  <2>1. ASSUME NEW u \in Required, u[1] = d[1], Passed(d, u[2])' PROVE Passed(d, u[2])
    <3>1. u[2] < exec'[d].step
      BY <1>7, <2>1 DEF Passed, Begins, UploadPc
    <3> QED BY <1>1, <1>3, <1>7, <2>1, <3>1 DEF Begins
  <2>2. PassedInv(d)'
    BY <1>1, <1>2, <2>1, PassedStays
  <2> QED BY <1>1, <1>7, <2>2 DEF Begins, OutcomeInv
<1>8. CASE /\ Begins(d, "write") /\ <<d[1], exec'[d].step>> \notin Uploads
           /\ exec'[d].outcome \in {"success", "failure"}
  <2>1. ASSUME NEW u \in Required, u[1] = d[1], Passed(d, u[2])' PROVE Passed(d, u[2])
    <3>1. u[2] <= exec'[d].step /\ u[2] # exec'[d].step
      BY <1>3, <1>8, <2>1, RequiredIs DEF Passed, Begins
    <3> QED BY <1>1, <1>3, <1>8, <2>1, <3>1 DEF Begins
  <2>2. PassedInv(d)'
    BY <1>1, <1>2, <2>1, PassedStays
  <2> QED BY <1>8, <2>2 DEF Begins, OutcomeInv, UploadPc
<1> QED BY <1>1, <1>4, <1>5, <1>6, <1>7, <1>8 DEF BoundaryGoes

LEMMA PutPassed ==
    ASSUME TypeInv, NEW d \in Delivery, PassedInv(d), OutcomeInv(d), listed \subseteq listed',
           exec[d].pc \in UploadPc, exec'[d].step = exec[d].step,
           \/ exec'[d].pc \in UploadPc /\ exec'[d].outcome = exec[d].outcome
           \/ exec'[d].pc = "write" /\ exec'[d].outcome = "failure"
           \/ /\ exec'[d].pc = "write" /\ exec'[d].outcome = exec[d].outcome
              /\ This(d) \in Tolerated \/ Listed(This(d))'
    PROVE  PassedInv(d)' /\ OutcomeInv(d)'
<1>1. /\ exec[d].outcome = "success" /\ exec[d].pc \notin Idle /\ exec[d].step \in Nat
      /\ exec[d].pc # "boundary" /\ exec[d].pc \notin {"write", "point"}
  BY Numbers DEF TypeInv, OutcomeInv, Idle, UploadPc, ExecOK, ExecRec
<1>2. OutcomeInv(d)'
  BY <1>1 DEF OutcomeInv, UploadPc
<1>3. \A u \in Required : u[2] \in Nat /\ u = <<u[1], u[2]>>
  BY RequiredIs, OfUpload
<1>4. CASE exec'[d].pc \in UploadPc /\ exec'[d].outcome = exec[d].outcome
  <2>1. \A u \in Required : Passed(d, u[2])' => Passed(d, u[2])
    BY <1>1, <1>4 DEF Passed
  <2> QED BY <1>1, <1>2, <2>1, PassedStays
<1>5. CASE exec'[d].pc = "write" /\ exec'[d].outcome = "failure"
  BY <1>2, <1>5 DEF PassedInv
<1>6. CASE /\ exec'[d].pc = "write" /\ exec'[d].outcome = exec[d].outcome
           /\ This(d) \in Tolerated \/ Listed(This(d))'
  <2>1. ASSUME NEW u \in Required, u[1] = d[1], Passed(d, u[2])'
        PROVE  Passed(d, u[2]) \/ Listed(u)'
    <3>1. exec[d].step # 0
      BY OfUpload DEF TypeInv, Uploading, This
    <3>2. u[2] <= exec[d].step
      BY <1>6, <2>1, <3>1 DEF Passed
    <3>3. CASE u[2] < exec[d].step
      BY <1>1, <3>3 DEF Passed
    <3>4. CASE u[2] = exec[d].step
      <4>1. u = This(d)
        BY <1>3, <2>1, <3>4 DEF This
      <4>2. This(d) \notin Tolerated
        BY <4>1, RequiredIs
      <4>3. PICK a \in listed' : a[1] = This(d)
        <5>1. PICK w : w = This(d)
          OBVIOUS
        <5>2. This(d)' = This(d)
          BY DEF This
        <5> QED BY <1>6, <4>2, <5>1, <5>2 DEF Listed
      <4> QED BY <4>1, <4>3 DEF Listed
    <3> QED BY <1>1, <1>3, <3>2, <3>3, <3>4
  <2> QED BY <1>1, <1>2, <2>1, PassedStays
<1> QED BY <1>4, <1>5, <1>6

(* The log of a step, and of the console.                                  *)
LEMMA LogPassed ==
    ASSUME TypeInv, NEW d \in Delivery, PassedInv(d), OutcomeInv(d), listed' = listed,
           WriteLog(d) \/ PointRow(d) \/ LogFails(d) \/ CaptureVmLog(d)
    PROVE  PassedInv(d)' /\ OutcomeInv(d)'
<1>0. ExecOK
  BY DEF TypeInv
<1>1. exec[d].step \in Nat /\ \A u \in Required : u[2] \in Nat
  BY Numbers, RequiredIs, OfUpload DEF TypeInv, ExecOK, ExecRec
<1>2. CASE WriteLog(d)
  <2>1. exec[d].pc = "write" /\ Moves(d, "point") /\ exec[d].pc \notin Idle
    BY <1>0, <1>2, LogDoes DEF Idle
  <2>2. \A u \in Required : Passed(d, u[2])' => Passed(d, u[2])
    BY <2>1 DEF Passed, Moves, UploadPc
  <2> QED BY <2>1, <2>2, PassedStays DEF Moves, OutcomeInv, PassedInv, UploadPc
<1>3. CASE PointRow(d)
  <2>1. exec[d].pc = "point" /\ Moves(d, AfterLog(d)) /\ exec[d].pc \notin Idle
    BY <1>0, <1>3, LogDoes DEF Idle
  <2>2. CASE exec[d].step = 0
    <3>1. exec'[d].pc = "verdict" /\ exec'[d].outcome = exec[d].outcome
      BY <2>1, <2>2 DEF AfterLog, Moves
    <3>2. \A u \in Required : Passed(d, u[2])
      BY <2>1, <2>2 DEF Passed, UploadPc
    <3> QED BY <2>1, <3>1, <3>2, PassedStays DEF OutcomeInv, PassedInv, UploadPc
  <2>3. CASE exec[d].step # 0 /\ exec[d].outcome = "failure"
    <3>1. exec'[d].pc = "vmlog" /\ exec'[d].outcome = "failure"
      BY <2>1, <2>3 DEF AfterLog, Moves
    <3> QED BY <3>1 DEF OutcomeInv, PassedInv, UploadPc
  <2>4. CASE exec[d].step # 0 /\ exec[d].outcome # "failure"
    <3>1. exec'[d].pc = "boundary" /\ exec'[d].outcome = exec[d].outcome /\ exec'[d].step = exec[d].step
      BY <2>1, <2>4 DEF AfterLog, Moves
    <3>2. exec[d].outcome = "success"
      BY <2>1, <2>4 DEF OutcomeInv, TypeInv, ExecOK, ExecRec, Terminal
    <3>3. \A u \in Required : Passed(d, u[2])' => Passed(d, u[2])
      BY <2>1, <2>4, <3>1 DEF Passed, UploadPc
    <3> QED BY <2>1, <3>1, <3>2, <3>3, PassedStays DEF OutcomeInv, UploadPc
  <2> QED BY <2>2, <2>3, <2>4
<1>4. CASE LogFails(d)
  <2>1. CASE exec'[d].pc = "vmlog" /\ exec'[d].outcome = "failure"
    BY <2>1 DEF OutcomeInv, PassedInv, UploadPc
  <2>2. CASE exec[d].step = 0 /\ exec[d].pc \in {"write", "point"} /\ Moves(d, "verdict")
    <3>1. exec'[d].pc = "verdict" /\ exec'[d].outcome = exec[d].outcome
      BY <2>2 DEF Moves
    <3>2. exec[d].pc \notin Idle /\ \A u \in Required : Passed(d, u[2])
      BY <2>2 DEF Passed, UploadPc, Idle
    <3> QED BY <3>1, <3>2, PassedStays DEF OutcomeInv, PassedInv, UploadPc
  <2> QED BY <1>0, <1>4, <2>1, <2>2, LogDoes
<1>5. CASE CaptureVmLog(d)
  <2>1. /\ exec[d].pc = "vmlog" /\ exec'[d].outcome = exec[d].outcome
        /\ (exec'[d].pc = "write" /\ exec'[d].step = 0) \/ exec'[d].pc = "verdict"
    BY <1>0, <1>5, CaptureVmLogDoes DEF Moves
  <2>2. exec[d].pc \notin Idle /\ \A u \in Required : Passed(d, u[2])
    BY <2>1 DEF Passed, UploadPc, Idle
  <2> QED BY <2>1, <2>2, PassedStays DEF OutcomeInv, PassedInv, UploadPc
<1> QED BY <1>2, <1>3, <1>4, <1>5

LEMMA WorksPassed ==
    ASSUME TypeInv, NEW d \in Delivery, PassedInv(d), OutcomeInv(d), Works(d), listed \subseteq listed'
    PROVE  PassedInv(d)' /\ OutcomeInv(d)'
<1>0. ExecOK /\ StoreOK
  BY DEF TypeInv
<1>1. CASE Deliver(d)
  <2>1. /\ exec[d].pc = "due" /\ exec'[d].pc = "boundary"
        /\ exec'[d].step = exec[d].step /\ exec'[d].outcome = exec[d].outcome
    BY <1>0, <1>1, DeliverDoes DEF Moves
  <2>2. exec'[d].outcome = "success" /\ exec'[d].step = 0
    BY <2>1 DEF OutcomeInv
  <2>3. \A u \in Required : ~Passed(d, u[2])'
    <3>1. \A u \in Required : u[2] \in 1..Steps /\ Steps \in Nat
      BY RequiredIs, OfUpload, RecordsAssumption
    <3> QED BY <2>1, <2>2, <3>1 DEF Passed
  <2>4. PassedInv(d)'
    BY <2>3 DEF PassedInv, Required
  <2> QED BY <2>1, <2>2, <2>4 DEF OutcomeInv, UploadPc
<1>2. CASE Boundary(d)
  <2>1. listed' = listed
    BY <1>2 DEF Boundary, store
  <2> QED BY <1>2, <2>1, BoundaryPassed
<1>3. CASE PutBlob(d) \/ PutManifest(d) \/ PutTag(d) \/ PutDisk(d)
  <2>1. /\ exec[d].pc \in UploadPc /\ exec'[d].pc \in UploadPc
        /\ exec'[d].step = exec[d].step /\ exec'[d].outcome = exec[d].outcome
    BY <1>0, <1>3, PutDoes DEF Moves, UploadPc
  <2> QED BY <2>1, PutPassed
<1>4. CASE Record(d)
  <2>1. /\ exec[d].pc \in UploadPc /\ exec'[d].pc = "write"
        /\ exec'[d].step = exec[d].step /\ exec'[d].outcome = exec[d].outcome
    BY <1>0, <1>4, PutDoes DEF Moves, UploadPc
  <2>2. Listed(This(d))'
    <3>1. Stored(d) \in listed' /\ Stored(d)[1] = This(d) /\ This(d)' = This(d)
      BY <1>4, <2>1 DEF Record, Stored, This
    <3> QED BY <3>1 DEF Listed
  <2> QED BY <2>1, <2>2, PutPassed
<1>5. CASE UploadFails(d)
  BY <1>0, <1>5, UploadFailsDoes, PutPassed
<1>6. CASE WriteLog(d) \/ PointRow(d) \/ LogFails(d) \/ CaptureVmLog(d)
  <2>1. listed' = listed
    BY <1>6 DEF WriteLog, PointRow, LogFails, CaptureVmLog, store
  <2> QED BY <1>6, <2>1, LogPassed
<1>7. CASE Verdict(d) \/ AttemptFails(d)
  BY <1>0, <1>7, EndDoes, OtherPassed
<1>8. ASSUME NEW u \in Uploads, WriteEnds(d, u) PROVE PassedInv(d)' /\ OutcomeInv(d)'
  <2>1. CASE exec' = exec
    BY <2>1, OtherPassed
  <2>2. CASE exec[d].pc = "written" /\ Moves(d, "list")
    <3>1. /\ exec[d].pc \in UploadPc /\ exec'[d].pc \in UploadPc
          /\ exec'[d].step = exec[d].step /\ exec'[d].outcome = exec[d].outcome
      BY <2>2 DEF Moves, UploadPc
    <3> QED BY <3>1, PutPassed
  <2> QED BY <1>0, <1>8, <2>1, <2>2, WriteEndsDoes
<1>9. ASSUME NEW i \in Idx, BytesLand(d, i) PROVE PassedInv(d)' /\ OutcomeInv(d)'
  <2>1. exec' = exec
    BY <1>9 DEF BytesLand
  <2> QED BY <2>1, OtherPassed
<1> QED BY <1>1, <1>2, <1>3, <1>4, <1>5, <1>6, <1>7, <1>8, <1>9 DEF Works, Background, Execute

(* A job only becomes a success by the verdict of a delivery that passed   *)
(* all its steps, or by its own continue-on-error.                         *)
LEMMA SuccessStays ==
    ASSUME SuccessMeansListed, listed \subseteq listed',
           \A u \in Required : job'[u[1]] = "success" => job[u[1]] = "success" \/ Listed(u)
    PROVE  SuccessMeansListed'
<1>1. \A u \in Required : job'[u[1]] = "success" => Listed(u)
  BY DEF SuccessMeansListed, Listed
<1> QED BY <1>1 DEF SuccessMeansListed, Listed, Required

LEMMA WorksSuccess ==
    ASSUME TypeInv, SuccessInv, NEW d \in Delivery, Works(d), listed \subseteq listed'
    PROVE  SuccessMeansListed'
<1>1. ASSUME NEW s \in Terminal, SetJobStatus(d[1], s),
             s = "success" => d[1] \in Forgiven \/ (exec[d].pc = "verdict" /\ exec[d].outcome = "success"),
             NEW u \in Required, job'[u[1]] = "success"
      PROVE  job[u[1]] = "success" \/ Listed(u)
  <2>1. job' = [job EXCEPT ![d[1]] = s] /\ job \in [Run -> {"open"} \cup Terminal] /\ u[1] \in Run /\ d[1] \in Run
    BY <1>1, RequiredIs, OfUpload, OfDelivery DEF SetJobStatus, TypeInv, JobOK
  <2>2. CASE u[1] # d[1]
    BY <1>1, <2>1, <2>2
  <2>3. CASE u[1] = d[1]
    <3>1. s = "success" /\ d[1] \notin Forgiven
      BY <1>1, <2>1, <2>3, RequiredIs
    <3>2. exec[d].pc = "verdict" /\ exec[d].outcome = "success"
      BY <1>1, <3>1
    <3>3. Passed(d, u[2]) /\ exec[d].pc \notin Idle
      BY <3>2 DEF Passed, UploadPc, Idle
    <3> QED BY <2>3, <3>2, <3>3 DEF SuccessInv, PassedInv
  <2> QED BY <2>2, <2>3
<1>2. CASE UNCHANGED verdicts
  BY <1>2, SuccessStays DEF SuccessInv, verdicts
<1>3. ASSUME NEW s \in Terminal, SetJobStatus(d[1], s),
             s = "success" => d[1] \in Forgiven \/ (exec[d].pc = "verdict" /\ exec[d].outcome = "success")
      PROVE  SuccessMeansListed'
  BY <1>1, <1>3, SuccessStays DEF SuccessInv
<1> QED BY <1>2, <1>3, WorksJob

LEMMA NextSuccess ==
    ASSUME TypeInv, StoreInv, SuccessInv, [Next]_vars
    PROVE  SuccessInv'
<1>0. listed \subseteq listed'
  BY NextStore DEF StoreGrows
<1>1. ASSUME NEW d \in Delivery, Works(d) PROVE SuccessInv'
  <2>1. PassedInv(d)' /\ OutcomeInv(d)'
    BY <1>0, <1>1, WorksPassed DEF SuccessInv
  <2>2. ASSUME NEW e \in Delivery, e # d PROVE PassedInv(e)' /\ OutcomeInv(e)'
    BY <1>0, <1>1, <2>2, WorksOthers, OtherPassed DEF SuccessInv, Others, TypeInv
  <2> QED BY <1>0, <1>1, <2>1, <2>2, WorksSuccess DEF SuccessInv
<1>2. ASSUME \A r \in Run : job'[r] = "success" => job[r] = "success",
             \A d \in Delivery : exec'[d] = exec[d] \/ exec'[d].pc = "over"
      PROVE  SuccessInv'
  <2>1. \A u \in Required : u[1] \in Run
    BY RequiredIs, OfUpload
  <2> QED BY <1>0, <1>2, <2>1, SuccessStays, OtherPassed DEF SuccessInv
<1>3. CASE Crash
  BY <1>2, <1>3, CrashDoes DEF Crash, TypeInv, verdicts
<1>4. ASSUME NEW r \in Run, Cancel(r) PROVE SuccessInv'
  BY <1>2, <1>4 DEF Cancel, TypeInv, JobOK
<1>5. CASE \E v \in Viewer : Watch(v) \/ \E r \in Run : LoadPage(v, r)
  BY <1>2, <1>5 DEF Watch, LoadPage, Connect, ReadJob, ReadSteps, ReadLog, EndPass, SetTail, verdicts
<1>6. CASE Age \/ Sweep
  BY <1>2, <1>6 DEF Age, Sweep, Tick, Remove, RemoveFails, Forget, verdicts
<1>7. CASE UNCHANGED vars
  BY <1>2, <1>7 DEF vars, verdicts
<1>8. CASE Next
  BY <1>1, <1>3, <1>4, <1>5, <1>6, <1>8, NextCases
<1> QED BY <1>7, <1>8

LEMMA InitSuccess == Init => SuccessInv
<1> SUFFICES ASSUME Init PROVE SuccessInv
  OBVIOUS
<1>1. \A r \in Run : job[r] # "success"
  BY DEF Init
<1>2. SuccessMeansListed
  BY <1>1, RequiredIs, OfUpload DEF SuccessMeansListed
<1>3. \A d \in Delivery : OutcomeInv(d) /\ PassedInv(d)
  BY DEF Init, OutcomeInv, PassedInv, Attempt, UploadPc, Idle
<1> QED BY <1>2, <1>3 DEF SuccessInv

(* A job that succeeded lists every artifact its workflow uploads without a*)
(* condition and without continue-on-error, over all its deliveries, also  *)
(* those that overlap, and whatever uploads fail or processes die          *)
(* (run_action, run_steps, set_job_status).                                *)
THEOREM SuccessIsListed == Spec => []SuccessMeansListed
<1>1. Init => StoreInv /\ SuccessInv
  BY InitStore, InitSuccess
<1>2. TypeInv /\ StoreInv /\ SuccessInv /\ [Next]_vars => StoreInv' /\ SuccessInv'
  BY NextStore, NextSuccess
<1>3. SuccessInv => SuccessMeansListed
  BY DEF SuccessInv
<1> QED BY <1>1, <1>2, <1>3, TypeHolds, PTL DEF Spec

-----------------------------------------------------------------------------
(* The tail.  What a log held at its job's first verdict stays in it, until*)
(* the sweep takes it; and the tail reads the logs after the status.       *)
JudgedInv == \A r \in Run : job[r] \in {"success", "failure"} => r \in judged

KeptInv(r) ==
    r \in judged /\ r \notin swept =>
        \A i \in Idx : kept[r][i] <= file[r][i] /\ (kept[r][i] > 0 => row[r][i] = "logged")

KnowsOver(t) == t.pc \in {"steps", "logs", "done"} /\ t.status \in {"success", "failure"}

ReadInv(v) ==
    LET t == tail[v] IN
    /\ KnowsOver(t) => t.run \in judged
    /\ t.pc = "done" => t.todo = {}
    /\ KnowsOver(t) /\ t.pc # "steps" /\ ~t.missed /\ t.run \notin swept =>
           \A i \in Idx : i \in t.todo \/ t.sent[i] >= kept[t.run][i]

TailInv == JudgedInv /\ (\A r \in Run : KeptInv(r)) /\ \A v \in Viewer : ReadInv(v)

(* The first verdict stands for what was kept; a swept run stays swept.    *)
VerdictsKeep == judged \subseteq judged' /\ swept \subseteq swept' /\ \A q \in judged : kept'[q] = kept[q]

LogsGrow(r) ==
    r \notin swept' => \A i \in Idx : /\ file[r][i] <= file'[r][i]
                                      /\ row[r][i] = "logged" => row'[r][i] = "logged"

LEMMA KeptStays ==
    ASSUME TypeInv, TypeInv', VerdictsKeep, NEW r \in Run, KeptInv(r), LogsGrow(r), r \in judged' => r \in judged
    PROVE  KeptInv(r)'
<1> SUFFICES ASSUME r \in judged', r \notin swept', NEW i \in Idx
             PROVE  kept'[r][i] <= file'[r][i] /\ (kept'[r][i] > 0 => row'[r][i] = "logged")
  BY DEF KeptInv
<1>1. r \in judged /\ r \notin swept /\ kept'[r][i] = kept[r][i]
  BY DEF VerdictsKeep
<1>2. kept[r][i] \in Nat /\ file[r][i] \in Nat /\ file'[r][i] \in Nat
  BY DEF TypeInv, JobOK, LogsOK
<1>3. kept[r][i] <= file[r][i] /\ (kept[r][i] > 0 => row[r][i] = "logged")
  BY <1>1 DEF KeptInv
<1>4. file[r][i] <= file'[r][i] /\ (row[r][i] = "logged" => row'[r][i] = "logged")
  BY DEF LogsGrow
<1> QED BY <1>1, <1>2, <1>3, <1>4

LEMMA ReadStays ==
    ASSUME TypeInv, VerdictsKeep, NEW v \in Viewer, ReadInv(v), tail'[v] = tail[v]
    PROVE  ReadInv(v)'
<1> DEFINE t == tail[v]
<1>1. t.run \in Run
  BY DEF TypeInv, TailTypeOK, TailRec
<1>2. KnowsOver(t) => t.run \in judged /\ t.run \in judged' /\ kept'[t.run] = kept[t.run]
  BY DEF ReadInv, VerdictsKeep
<1>3. t.run \notin swept' => t.run \notin swept
  BY DEF VerdictsKeep
<1> QED BY <1>2, <1>3 DEF ReadInv, KnowsOver

(* What the executor does to the logs is to make them longer.              *)
LEMMA CreateKeeps ==
    ASSUME LogsOK, NEW r \in Run, NEW i \in Idx, Create(r, i), file' = file, NEW q \in Run
    PROVE  LogsGrow(q)
<1>1. \A j \in Idx : row[q][j] = "logged" => row'[q][j] = "logged"
  <2>1. PICK x : row' = [row EXCEPT ![r][i] = x] /\ (row[r][i] = "logged" => x = "logged")
    BY DEF Create, LogsOK
  <2> QED BY <2>1 DEF LogsOK
<1>2. \A j \in Idx : file[q][j] <= file'[q][j]
  BY DEF LogsOK
<1> QED BY <1>1, <1>2 DEF LogsGrow

LEMMA LogsSame == ASSUME LogsOK, UNCHANGED <<row, file>>, NEW q \in Run PROVE LogsGrow(q)
BY DEF LogsGrow, LogsOK

LEMMA WorksGrowLogs ==
    ASSUME TypeInv, NEW d \in Delivery, Works(d), NEW q \in Run
    PROVE  LogsGrow(q)
<1>0. exec[d].step \in Idx /\ d[1] \in Run /\ LogsOK
  BY OfDelivery DEF TypeInv, ExecOK, ExecRec
<1>1. CASE Boundary(d)
  <2>1. (\E i \in Idx : Create(d[1], i)) \/ UNCHANGED row
    BY <1>1, Numbers DEF Boundary
  <2>2. file' = file
    BY <1>1 DEF Boundary
  <2> QED BY <1>0, <2>1, <2>2, CreateKeeps, LogsSame
<1>2. CASE CaptureVmLog(d)
  BY <1>0, <1>2, Numbers, CreateKeeps, LogsSame DEF CaptureVmLog
<1>3. CASE WriteLog(d)
  <2>1. UNCHANGED row
    BY <1>3 DEF WriteLog
  <2>2. CASE file' = [file EXCEPT ![d[1]][exec[d].step] = @ + 1]
    BY <1>0, <2>1, <2>2 DEF LogsGrow, LogsOK
  <2>3. CASE file' = file
    BY <1>0, <2>1, <2>3, LogsSame
  <2> QED BY <1>3, <2>2, <2>3 DEF WriteLog
<1>4. CASE PointRow(d)
  BY <1>0, <1>4 DEF PointRow, LogsGrow, LogsOK
<1>5. ASSUME NEW i \in Idx, BytesLand(d, i) PROVE LogsGrow(q)
  <2>1. UNCHANGED row
    BY <1>5 DEF BytesLand
  <2>2. CASE file' = [file EXCEPT ![d[1]][i] = @ + 1]
    BY <1>0, <2>1, <2>2 DEF LogsGrow, LogsOK
  <2>3. CASE file' = file
    BY <1>0, <2>1, <2>3, LogsSame
  <2> QED BY <1>5, <2>2, <2>3 DEF BytesLand
<1>6. CASE UNCHANGED logs
  BY <1>0, <1>6, LogsSame DEF logs
<1> QED BY <1>1, <1>2, <1>3, <1>4, <1>5, <1>6
        DEF Works, Background, Execute, Deliver, PutBlob, PutManifest, PutTag, PutDisk, Record, UploadFails,
            LogFails, Verdict, AttemptFails, WriteEnds

(* A verdict notes what there is; a cancelled job's notes nothing.         *)
LEMMA VerdictKeeps ==
    ASSUME TypeInv, TypeInv', TailInv, NEW p \in Run, NEW s \in Terminal, SetJobStatus(p, s),
           UNCHANGED <<logs, tail, swept>>
    PROVE  TailInv'
<1>0. JobOK /\ LogsOK
  BY DEF TypeInv
<1>1. VerdictsKeep
  BY <1>0 DEF VerdictsKeep, SetJobStatus, JobOK
<1>2. JudgedInv'
  BY <1>0 DEF JudgedInv, TailInv, SetJobStatus, JobOK, Terminal
<1>3. ASSUME NEW r \in Run PROVE KeptInv(r)'
  <2>1. LogsGrow(r)
    BY <1>0, LogsSame DEF logs
  <2>2. CASE r \in judged' => r \in judged
    BY <1>1, <2>1, <2>2, KeptStays DEF TailInv
  <2>3. CASE r \in judged' /\ r \notin judged
    <3>1. r = p /\ kept' = [kept EXCEPT ![r] = [i \in Idx |-> IF row[r][i] = "logged" THEN file[r][i] ELSE 0]]
      BY <2>3 DEF SetJobStatus
    <3>2. \A i \in Idx : kept'[r][i] = IF row[r][i] = "logged" THEN file[r][i] ELSE 0
      BY <1>0, <3>1 DEF JobOK
    <3>3. \A i \in Idx : file[r][i] \in Nat
      BY <1>0 DEF LogsOK
    <3> QED BY <3>2, <3>3 DEF KeptInv, logs
  <2> QED BY <2>2, <2>3
<1>4. ASSUME NEW v \in Viewer PROVE ReadInv(v)'
  BY <1>1, ReadStays DEF TailInv
<1> QED BY <1>2, <1>3, <1>4 DEF TailInv

(* Steps that give no verdict.                                             *)
LEMMA NoVerdict ==
    ASSUME TypeInv, TypeInv', TailInv, UNCHANGED <<kept, judged>>, swept \subseteq swept',
           \A r \in Run : job'[r] \in {"success", "failure"} => job'[r] = job[r],
           \A r \in Run : LogsGrow(r)
    PROVE  VerdictsKeep /\ JudgedInv' /\ \A r \in Run : KeptInv(r)'
<1>1. VerdictsKeep
  BY DEF VerdictsKeep
<1>2. JudgedInv'
  BY DEF JudgedInv, TailInv
<1> QED BY <1>1, <1>2, KeptStays DEF TailInv

LEMMA WorksTail ==
    ASSUME TypeInv, TypeInv', TailInv, NEW d \in Delivery, Works(d)
    PROVE  TailInv'
<1>0. d[1] \in Run /\ UNCHANGED <<tail, swept>>
  BY OfDelivery, WorksLeaves
<1>1. CASE UNCHANGED verdicts
  <2>1. VerdictsKeep /\ JudgedInv' /\ \A r \in Run : KeptInv(r)'
    BY <1>0, <1>1, NoVerdict, WorksGrowLogs DEF verdicts
  <2> QED BY <1>0, <2>1, ReadStays DEF TailInv
<1>2. ASSUME NEW s \in Terminal, SetJobStatus(d[1], s), ~UNCHANGED verdicts PROVE TailInv'
  <2>1. UNCHANGED logs
    BY <1>2 DEF Works, Background, Execute, Deliver, Boundary, PutBlob, PutManifest, PutTag, PutDisk, Record,
         UploadFails, WriteLog, PointRow, LogFails, CaptureVmLog, Verdict, AttemptFails, WriteEnds, BytesLand
  <2> QED BY <1>0, <1>2, <2>1, VerdictKeeps
<1> QED BY <1>1, <1>2, WorksJob

(* The tail's own steps.                                                   *)
LEMMA SetTailKeeps ==
    ASSUME TypeInv, TypeInv', TailInv, NEW v \in Viewer, NEW t, SetTail(v, t),
           KnowsOver(t) => t.run \in judged,
           t.pc = "done" => t.todo = {},
           KnowsOver(t) /\ t.pc # "steps" /\ ~t.missed /\ t.run \notin swept =>
               \A i \in Idx : i \in t.todo \/ t.sent[i] >= kept[t.run][i]
    PROVE  TailInv'
<1>1. UNCHANGED <<kept, judged, job, swept, row, file>>
  BY DEF SetTail, verdicts, logs, sweeper
<1>2. \A r \in Run : LogsGrow(r)
  BY <1>1, LogsSame DEF TypeInv
<1>3. VerdictsKeep /\ JudgedInv' /\ \A r \in Run : KeptInv(r)'
  BY <1>1, <1>2, NoVerdict
<1>4. tail'[v] = t /\ \A w \in Viewer : w # v => tail'[w] = tail[w]
  BY DEF SetTail, TypeInv, TailTypeOK
<1>5. ReadInv(v)'
  BY <1>1, <1>4 DEF ReadInv, KnowsOver
<1>6. \A w \in Viewer : w # v => ReadInv(w)'
  BY <1>3, <1>4, ReadStays DEF TailInv
<1> QED BY <1>3, <1>5, <1>6 DEF TailInv

LEMMA WatchTail ==
    ASSUME TypeInv, TypeInv', TailInv, NEW v \in Viewer, Watch(v) \/ \E r \in Run : LoadPage(v, r)
    PROVE  TailInv'
<1> DEFINE t == tail[v]
<1>1. t \in TailRec /\ ReadInv(v)
  BY DEF TypeInv, TailTypeOK, TailInv
<1>2. ASSUME NEW x, SetTail(v, x), x.pc \notin {"steps", "logs", "done"} PROVE TailInv'
  BY <1>2, SetTailKeeps DEF KnowsOver
<1>3. CASE \E r \in Run : LoadPage(v, r)
  <2>1. PICK r \in Run : LoadPage(v, r)
    BY <1>3
  <2>2. /\ [NoTail EXCEPT !.pc = "page", !.run = r, !.key = epoch].pc = "page"
        /\ [NoTail EXCEPT !.pc = "refused", !.run = r].pc = "refused"
    BY DEF NoTail
  <2> QED BY <1>2, <2>1, <2>2 DEF LoadPage
<1>4. CASE Connect(v)
  <2>1. [t EXCEPT !.pc = "loop"].pc = "loop" /\ [t EXCEPT !.pc = "refused"].pc = "refused"
    BY <1>1 DEF TailRec
  <2> QED BY <1>2, <1>4, <2>1 DEF Connect
<1>5. CASE ReadJob(v)
  <2>1. CASE SetTail(v, [t EXCEPT !.pc = "cut"])
    <3>1. [t EXCEPT !.pc = "cut"].pc = "cut"
      BY <1>1 DEF TailRec
    <3> QED BY <1>2, <2>1, <3>1
  <2>2. CASE SetTail(v, [t EXCEPT !.pc = "steps", !.status = job[t.run]])
    <3>1. PICK x : x = [t EXCEPT !.pc = "steps", !.status = job[t.run]]
      OBVIOUS
    <3>2. x.pc = "steps" /\ x.status = job[t.run] /\ x.run = t.run /\ t.run \in Run
      BY <1>1, <3>1 DEF TailRec
    <3>3. KnowsOver(x) => x.run \in judged
      BY <3>2 DEF KnowsOver, TailInv, JudgedInv
    <3> QED BY <2>2, <3>1, <3>2, <3>3, SetTailKeeps
  <2> QED BY <1>5, <2>1, <2>2 DEF ReadJob
<1>6. CASE ReadSteps(v)
  <2> DEFINE S == {i \in Idx : row[tail[v].run][i] = "logged"}
  <2>1. t.pc = "steps" /\ t.run \in Run
    BY <1>1, <1>6 DEF ReadSteps, TailAt, TailRec
  <2>2. KnowsOver(t) => t.run \in judged
    BY <1>1 DEF ReadInv
  <2>3. CASE SetTail(v, [t EXCEPT !.pc = "logs", !.todo = S])
    <3>1. PICK x : x = [t EXCEPT !.pc = "logs", !.todo = S]
      OBVIOUS
    <3>2. x.pc = "logs" /\ x.todo = S /\ x.run = t.run /\ x.status = t.status /\ x.sent = t.sent
      <4> HIDE DEF S
      <4> QED BY <1>1, <3>1 DEF TailRec
    <3>3. KnowsOver(x) => KnowsOver(t)
      BY <2>1, <3>2 DEF KnowsOver
    <3>4. ASSUME KnowsOver(x), x.run \notin swept, NEW i \in Idx, i \notin S PROVE x.sent[i] >= kept[x.run][i]
      <4>1. x.run \in judged /\ row[x.run][i] # "logged" /\ KeptInv(x.run)
        BY <2>1, <2>2, <3>2, <3>3, <3>4 DEF TailInv
      <4>2. ~(kept[x.run][i] > 0)
        BY <3>4, <4>1 DEF KeptInv
      <4>3. kept[x.run][i] \in Nat /\ x.sent[i] \in Nat
        BY <1>1, <2>1, <3>2 DEF TailRec, TypeInv, JobOK
      <4> QED BY <4>2, <4>3
    <3> HIDE DEF S
    <3> QED BY <2>2, <2>3, <3>1, <3>2, <3>3, <3>4, SetTailKeeps
  <2>4. CASE SetTail(v, [t EXCEPT !.pc = "logs", !.missed = TRUE])
    <3>1. PICK x : x = [t EXCEPT !.pc = "logs", !.missed = TRUE]
      OBVIOUS
    <3>2. x.pc = "logs" /\ x.missed = TRUE /\ x.run = t.run /\ x.status = t.status
      BY <1>1, <3>1 DEF TailRec
    <3>3. KnowsOver(x) => KnowsOver(t)
      BY <2>1, <3>2 DEF KnowsOver
    <3> QED BY <2>2, <2>4, <3>1, <3>2, <3>3, SetTailKeeps
  <2> QED BY <1>6, <2>3, <2>4 DEF ReadSteps
<1>7. CASE ReadLog(v)
  <2>1. PICK i \in Idx : i = First(t.todo) /\ i \in t.todo
    <3>1. t.todo \in SUBSET Nat /\ t.todo # {} /\ t.todo \in SUBSET Idx
      BY <1>1, <1>7, Numbers DEF ReadLog, TailRec
    <3> QED BY <3>1, FirstIsIn
  <2>2. PICK rest : rest = [t EXCEPT !.todo = @ \ {i}]
    OBVIOUS
  <2>3. /\ rest.todo = t.todo \ {i} /\ rest.pc = t.pc /\ rest.run = t.run /\ rest.status = t.status
        /\ rest.sent = t.sent /\ rest.missed = t.missed /\ rest \in TailRec
    BY <1>1, <2>2 DEF TailRec
  <2>4. t.pc = "logs" /\ t.run \in Run
    BY <1>1, <1>7 DEF ReadLog, TailAt, TailRec
  <2>5. file[t.run][i] \in Nat /\ t.sent[i] \in Nat /\ \A j \in Idx : kept[t.run][j] \in Nat /\ t.sent[j] \in Nat
    BY <1>1, <2>4 DEF TypeInv, LogsOK, JobOK, TailRec
  <2>6. PICK n \in Nat : n = IF file[t.run][i] > t.sent[i] THEN file[t.run][i] ELSE t.sent[i]
    BY <2>5
  <2>7. SetTail(v, [rest EXCEPT !.sent[i] = n]) \/ SetTail(v, [rest EXCEPT !.missed = TRUE])
    BY <1>7, <2>1, <2>2, <2>3, <2>6 DEF ReadLog
  <2>8. CASE SetTail(v, [rest EXCEPT !.missed = TRUE])
    <3>1. PICK x : x = [rest EXCEPT !.missed = TRUE]
      OBVIOUS
    <3>2. x.pc = "logs" /\ x.missed = TRUE /\ x.run = t.run /\ x.status = t.status
      BY <2>3, <2>4, <3>1 DEF TailRec
    <3>3. KnowsOver(x) => x.run \in judged
      BY <1>1, <2>4, <3>2 DEF KnowsOver, ReadInv
    <3> QED BY <2>8, <3>1, <3>2, <3>3, SetTailKeeps
  <2>9. CASE SetTail(v, [rest EXCEPT !.sent[i] = n])
    <3>1. PICK x : x = [rest EXCEPT !.sent[i] = n]
      OBVIOUS
    <3>2. /\ x.pc = "logs" /\ x.run = t.run /\ x.status = t.status /\ x.missed = t.missed /\ x.todo = t.todo \ {i}
          /\ x.sent[i] = n /\ \A j \in Idx : j # i => x.sent[j] = t.sent[j]
      BY <2>3, <2>4, <3>1 DEF TailRec
    <3>3. KnowsOver(x) => KnowsOver(t) /\ x.run \in judged
      BY <1>1, <2>4, <3>2 DEF KnowsOver, ReadInv
    <3>4. ASSUME KnowsOver(x), ~x.missed, x.run \notin swept, NEW j \in Idx
          PROVE  j \in x.todo \/ x.sent[j] >= kept[x.run][j]
      <4>1. CASE j # i
        BY <1>1, <2>4, <3>2, <3>3, <3>4, <4>1 DEF ReadInv
      <4>2. CASE j = i
        <5>1. kept[t.run][i] <= file[t.run][i]
          BY <2>4, <3>2, <3>3, <3>4 DEF TailInv, KeptInv
        <5> QED BY <2>5, <2>6, <3>2, <4>2, <5>1
      <4> QED BY <4>1, <4>2
    <3> QED BY <2>9, <3>1, <3>2, <3>3, <3>4, SetTailKeeps
  <2> QED BY <2>7, <2>8, <2>9
<1>8. CASE EndPass(v)
  <2>1. t.pc = "logs" /\ t.todo = {}
    BY <1>8 DEF EndPass, TailAt
  <2>2. PICK x : /\ x = [t EXCEPT !.pc = IF t.status \in Terminal THEN "done" ELSE "loop",
                                  !.missed = @ /\ t.status \in Terminal]
                 /\ SetTail(v, x)
    BY <1>8 DEF EndPass
  <2>3. x.run = t.run /\ x.status = t.status /\ x.sent = t.sent /\ x.todo = {}
    BY <1>1, <2>1, <2>2 DEF TailRec
  <2>4. CASE t.status \in Terminal
    <3>1. x.pc = "done"
      BY <1>1, <2>2, <2>4 DEF TailRec
    <3>2. x.missed = t.missed
      BY <1>1, <2>2, <2>4 DEF TailRec
    <3> QED BY <1>1, <2>1, <2>2, <2>3, <3>1, <3>2, SetTailKeeps DEF KnowsOver, ReadInv
  <2>5. CASE t.status \notin Terminal
    <3>1. x.pc = "loop"
      BY <1>1, <2>2, <2>5 DEF TailRec
    <3> QED BY <1>2, <2>2, <3>1
  <2> QED BY <2>4, <2>5
<1> QED BY <1>3, <1>4, <1>5, <1>6, <1>7, <1>8 DEF Watch

(* The sweep takes the logs of runs it then counts as swept.               *)
LEMMA SweepGrows ==
    ASSUME TypeInv, Sweep, NEW q \in Run
    PROVE  LogsGrow(q)
<1>0. LogsOK /\ SweepOK
  BY DEF TypeInv
<1>1. CASE Tick \/ RemoveFails
  BY <1>0, <1>1, LogsSame DEF Tick, RemoveFails, logs
<1>2. CASE Remove
  <2>1. First(sweep.todo) \in swept' /\ \A r \in Run : r # First(sweep.todo) => file'[r] = file[r]
    BY <1>0, <1>2 DEF Remove, LogsOK
  <2> QED BY <1>0, <1>2, <2>1 DEF Remove, LogsGrow, LogsOK
<1>3. CASE Forget
  <2>1. First(sweep.todo) \in swept' /\ \A r \in Run : r # First(sweep.todo) => row'[r] = row[r]
    BY <1>0, <1>3 DEF Forget, LogsOK, TypeInv, Unlinked
  <2> QED BY <1>0, <1>3, <2>1 DEF Forget, LogsGrow, LogsOK
<1> QED BY <1>1, <1>2, <1>3 DEF Sweep

LEMMA NextTail ==
    ASSUME TypeInv, TailInv, [Next]_vars
    PROVE  TailInv'
<1>0. TypeInv'
  BY NextType
<1>1. ASSUME UNCHANGED <<kept, judged>>, swept \subseteq swept',
             \A r \in Run : job'[r] \in {"success", "failure"} => job'[r] = job[r],
             \A r \in Run : LogsGrow(r),
             \A v \in Viewer : tail'[v] = tail[v] \/ tail'[v].pc = "cut"
      PROVE  TailInv'
  <2>1. VerdictsKeep /\ JudgedInv' /\ \A r \in Run : KeptInv(r)'
    BY <1>0, <1>1, NoVerdict
  <2>2. ASSUME NEW v \in Viewer PROVE ReadInv(v)'
    <3>1. CASE tail'[v] = tail[v]
      BY <2>1, <3>1, ReadStays DEF TailInv
    <3>2. CASE tail'[v].pc = "cut"
      BY <3>2 DEF ReadInv, KnowsOver
    <3> QED BY <1>1, <3>1, <3>2
  <2> QED BY <2>1, <2>2 DEF TailInv
<1>2. \A r \in Run : UNCHANGED <<row, file>> => LogsGrow(r)
  BY LogsSame DEF TypeInv
<1>3. CASE Sweep
  <2>1. swept \subseteq swept' /\ UNCHANGED <<verdicts, tail>>
    BY <1>3, SweepType DEF Sweep, Tick, Remove, RemoveFails, Forget
  <2> QED BY <1>1, <1>3, <2>1, SweepGrows DEF verdicts
<1>4. CASE Age
  BY <1>1, <1>2, <1>4 DEF Age, verdicts, logs
<1>5. CASE Crash
  <2>1. \A v \in Viewer : tail'[v] = tail[v] \/ tail'[v].pc = "cut"
    BY <1>5 DEF Crash, TypeInv, TailTypeOK, TailRec
  <2> QED BY <1>1, <1>2, <1>5, <2>1 DEF Crash, verdicts
<1>6. ASSUME NEW r \in Run, Cancel(r) PROVE TailInv'
  BY <1>1, <1>2, <1>6 DEF Cancel, logs, sweeper, TypeInv, JobOK
<1>7. CASE UNCHANGED vars
  BY <1>1, <1>2, <1>7 DEF vars, verdicts, logs, sweeper
<1>8. CASE Next
  BY <1>0, <1>3, <1>4, <1>5, <1>6, <1>8, NextCases, WorksTail, WatchTail
<1> QED BY <1>7, <1>8

LEMMA InitTail == Init => TailInv
<1> SUFFICES ASSUME Init PROVE TailInv
  OBVIOUS
<1>1. JudgedInv /\ \A r \in Run : KeptInv(r)
  BY DEF Init, JudgedInv, KeptInv
<1>2. ASSUME NEW v \in Viewer PROVE tail[v].pc \in {"off", "refused"}
  <2>1. NoTail.pc = "off" /\ [NoTail EXCEPT !.pc = "refused"].pc = "refused"
    BY DEF NoTail
  <2>2. PICK S : tail = [w \in Viewer |-> IF w \in S THEN NoTail ELSE [NoTail EXCEPT !.pc = "refused"]]
    BY DEF Init
  <2> HIDE DEF NoTail
  <2> QED BY <2>1, <2>2
<1>3. \A v \in Viewer : ReadInv(v)
  BY <1>2 DEF ReadInv, KnowsOver
<1> QED BY <1>1, <1>3 DEF TailInv

(* When a tail says that a job is over, it has sent all that was on disk   *)
(* of the job's logs when the job was first given a verdict, whatever else *)
(* is appended to them and whenever bytes land (log_stream, append_log).   *)
THEOREM TailSendsAll == Spec => []TailComplete
<1>1. TypeInv /\ TailInv => TailComplete
  BY DEF TailInv, TailComplete, ReadInv, KnowsOver
<1> QED BY <1>1, InitTail, NextTail, TypeHolds, PTL DEF Spec
=============================================================================
