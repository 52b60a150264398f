------------------------------- MODULE Records -------------------------------
(***************************************************************************)
(* What a job leaves behind, and who reads it: step logs on disk with their*)
(* pointers in ci_step, artifacts in a store with their rows in ci_artifact*)
(* the live tail of a job's page, and the hourly sweep of old logs.        *)
(*                                                                         *)
(* Every run has one job (Dispatch has the rest); a command is its output  *)
(* and its verdict (JobExec has the rest).  A log is its length, one unit  *)
(* per append.  Log 0 is the VM console's, ci_step.idx -2.  Two deliveries *)
(* of a job may be at work at once, in two processes; the directories of   *)
(* logs and artifacts are then ones they share, and the tails and the sweep*)
(* are those of one process.                                               *)
(***************************************************************************)
EXTENDS Naturals, FiniteSets

CONSTANTS
    Runs,        \* the runs are 1..Runs, in the order of created_at
    Steps,       \* steps of a job
    Uploads,     \* the steps that are ci/upload-artifact, with their run
    Optional,    \* steps with an `if:`, which may come to false
    Tolerated,   \* steps with continue-on-error
    Forgiven,    \* runs whose job has a continue-on-error of its own
    Tag, TagOf,  \* the tag of an upload in the store, cut to 64 characters
    Path, PathOf,\* its file in the disk sink, named by its `with.name`
    Digest,      \* what the bytes of a build may hash to
    None,
    Viewer,      \* browsers with a job page open
    MaxDeliver,  \* bus::MAX_DELIVER
    Batch,       \* BATCH, runs per sweep
    Scenarios    \* [sink, active, viewers, left]: see Init

Run == 1..Runs
Idx == 0..Steps
StepNo == Run \X (1..Steps)

(* A job and the count JetStream gives with each delivery of its message.  *)
Delivery == Run \X (1..MaxDeliver)

(* A process dies; an attempt ends in an error or in JobTimeout; a lapse   *)
(* of the ack window hands a job to a second dispatcher; an append, or     *)
(* another query of run_steps, fails; the bytes of an append are slow, or  *)
(* never come; a call to the artifact store fails; the tail's queries fail;*)
(* the sweeper's unlink, or its UPDATE, fails; somebody presses cancel.    *)
(* And for how many runs the retention passes.                             *)
Fault == {"crash", "attempt", "lapse", "log", "slow", "upload", "read", "remove", "forget",
          "cancel", "age"}

ASSUME RecordsAssumption ==
    /\ Runs \in Nat \ {0} /\ Steps \in Nat
    /\ Uploads \subseteq StepNo /\ Optional \subseteq StepNo /\ Tolerated \subseteq StepNo
    /\ Forgiven \subseteq Run
    /\ TagOf \in [Uploads -> Tag] /\ PathOf \in [Uploads -> Path]
    /\ None \notin Digest
    /\ MaxDeliver \in Nat \ {0} /\ Batch \in Nat \ {0}
    /\ \A s \in Scenarios :
           /\ s.sink \in {"disk", "artifacts"} /\ s.active \subseteq Run
           /\ s.viewers \subseteq Viewer /\ s.left \in [Fault -> Nat]

VARIABLES
    sink,       \* CI_ARTIFACT_SINK
    job,        \* ci_job.status; "open" is anything that is not terminal
    kept,       \* how much of each log was there at the job's first verdict
    judged,     \* the runs whose job has had one, of its own
    exec,       \* what each delivery is at
    row,        \* ci_step: no row, a bare one, or one with log_path set
    file,       \* the length of the file at that path
    unwritten,  \* appends that have returned, with their bytes on the way
    blobs, manifests, tags,     \* the artifact store
    disk,       \* files of the disk sink
    writing,    \* writes of such files, which outlive whoever waits for them
    listed,     \* ci_artifact
    tail,       \* one per viewer
    epoch,      \* counts the processes: each has a stream key of its own
    old,        \* the last run that CI_LOG_RETENTION_DAYS has passed for
    sweep,      \* the sweeper
    swept,      \* runs whose directory was removed, so far
    raced,      \* the ones of them appended to before their rows were cleared
    left        \* faults still allowed, per kind

verdicts == <<job, kept, judged>>
store == <<blobs, manifests, tags, disk, writing, listed>>
logs == <<row, file, unwritten>>
sweeper == <<old, sweep, swept, raced>>
vars == <<sink, verdicts, exec, logs, store, tail, epoch, sweeper, left>>

Terminal == {"success", "failure", "cancelled"}
Idle == {"due", "over"}
UploadPc == {"blob", "manifest", "tag", "written", "list"}
ExecPc == Idle \cup UploadPc \cup {"boundary", "write", "point", "vmlog", "verdict"}
TailPc == {"off", "page", "refused", "loop", "steps", "logs", "done", "cut"}

Attempt(pc) == [pc |-> pc, step |-> 0, outcome |-> "success", digest |-> None]
NoTail == [pc |-> "off", run |-> 1, key |-> 0, status |-> "open", todo |-> {},
           sent |-> [i \in Idx |-> 0], missed |-> FALSE]

(* A file of the disk sink: being filled, or cut off in it, and never yet  *)
(* whole; the same once it was whole; gone over by two writes at once.     *)
FileState == {"none", "part", "again", "mixed", "whole"}

TypeOK ==
    /\ sink \in {"disk", "artifacts"}
    /\ job \in [Run -> {"open"} \cup Terminal]
    /\ kept \in [Run -> [Idx -> Nat]] /\ judged \subseteq Run
    /\ exec \in [Delivery -> [pc : ExecPc, step : Idx, outcome : Terminal,
                              digest : Digest \cup {None}]]
    /\ row \in [Run -> [Idx -> {"none", "bare", "logged"}]]
    /\ file \in [Run -> [Idx -> Nat]] /\ unwritten \subseteq Delivery \X Idx
    /\ blobs \subseteq Digest /\ manifests \subseteq Uploads \X Digest
    /\ tags \in [Tag -> (Uploads \X Digest) \cup {None}]
    /\ disk \in [Path -> FileState] /\ writing \subseteq Delivery \X Uploads
    /\ listed \subseteq Uploads \X (Digest \cup {None})
    /\ tail \in [Viewer -> [pc : TailPc, run : Run, key : Nat, status : {"open"} \cup Terminal,
                            todo : SUBSET Idx, sent : [Idx -> Nat], missed : BOOLEAN]]
    /\ epoch \in Nat \ {0} /\ old \in 0..Runs
    /\ sweep \in [pc : {"idle", "remove", "forget"}, todo : SUBSET Run]
    /\ sweep.pc = "idle" <=> sweep.todo = {}
    /\ swept \subseteq Run /\ raced \subseteq swept
    /\ left \in [Fault -> Nat]

(* A run that takes no part was cancelled before it was delivered.         *)
Init ==
    /\ \E s \in Scenarios :
           /\ sink = s.sink /\ left = s.left
           /\ job = [r \in Run |-> IF r \in s.active THEN "open" ELSE "cancelled"]
           /\ tail = [v \in Viewer |-> IF v \in s.viewers THEN NoTail
                                       ELSE [NoTail EXCEPT !.pc = "refused"]]
    /\ kept = [r \in Run |-> [i \in Idx |-> 0]] /\ judged = {}
    /\ exec = [d \in Delivery |-> Attempt("due")]
    /\ row = [r \in Run |-> [i \in Idx |-> "none"]]
    /\ file = [r \in Run |-> [i \in Idx |-> 0]] /\ unwritten = {}
    /\ blobs = {} /\ manifests = {} /\ listed = {}
    /\ tags = [t \in Tag |-> None]
    /\ disk = [p \in Path |-> "none"] /\ writing = {}
    /\ epoch = 1 /\ old = 0
    /\ sweep = [pc |-> "idle", todo |-> {}]
    /\ swept = {} /\ raced = {}

Spend(f) == left[f] > 0 /\ left' = [left EXCEPT ![f] = @ - 1]

At(d, pc) == exec[d].pc = pc
InHand == {d \in Delivery : exec[d].pc \notin Idle}
Goto(d, pc) == exec' = [exec EXCEPT ![d].pc = pc]
Failed(d, pc) == exec' = [exec EXCEPT ![d].pc = pc, ![d].outcome = "failure"]
First(s) == CHOOSE r \in s : \A q \in s : r <= q

(* set_job_status, over whatever the row says by now.                      *)
SetJobStatus(r, s) ==
    /\ job' = [job EXCEPT ![r] = s]
    /\ judged' = IF s = "cancelled" THEN judged ELSE judged \cup {r}
    /\ kept' = IF s = "cancelled" \/ r \in judged THEN kept
               ELSE [kept EXCEPT ![r] = [i \in Idx |-> IF row[r][i] = "logged" THEN file[r][i] ELSE 0]]

-----------------------------------------------------------------------------
(* The executor, as far as it leaves records.                              *)

(* JetStream delivers a message again that was given back, or that nobody  *)
(* speaks for any more; that includes one somebody is working on, after a  *)
(* lapse.                                                                  *)
Redelivers(d) ==
    LET before == <<d[1], d[2] - 1>> IN
    \/ (d[2] > 1 => At(before, "over")) /\ UNCHANGED left
    \/ d[2] > 1 /\ before \in InHand /\ Spend("lapse")

(* get_job and claim_job, which refuse a terminal job and nothing else.    *)
Deliver(d) ==
    /\ At(d, "due") /\ job[d[1]] = "open"
    /\ Redelivers(d)
    /\ Goto(d, "boundary")
    /\ UNCHANGED <<sink, verdicts, logs, store, tail, epoch, sweeper>>

(* create_step: ON CONFLICT DO NOTHING.                                    *)
Create(r, i) == row' = [row EXCEPT ![r][i] = IF @ = "none" THEN "bare" ELSE @]

(* The step boundary: a cancelled job, or one without a further step, is   *)
(* done; else the next step is created and started, or skipped.  A command *)
(* is run to its end, its output in hand; one that fails and is tolerated  *)
(* goes on like one that succeeds.  An upload has collected its bytes.     *)
Boundary(d) ==
    LET r == d[1]
        i == exec[d].step + 1
        goes == job[r] # "cancelled" /\ i \in 1..Steps
    IN
    /\ At(d, "boundary")
    /\ \/ /\ job[r] = "cancelled"
          /\ exec' = [exec EXCEPT ![d].pc = "vmlog", ![d].outcome = "cancelled"]
          /\ UNCHANGED row
       \/ /\ job[r] # "cancelled" /\ i > Steps
          /\ Goto(d, "vmlog")
          /\ UNCHANGED row
       \/ /\ goes /\ <<r, i>> \in Optional
          /\ exec' = [exec EXCEPT ![d].step = i]
          /\ Create(r, i)
       \/ /\ goes /\ <<r, i>> \in Uploads
          /\ \E g \in IF sink = "disk" THEN {None} ELSE Digest :
                 exec' = [exec EXCEPT ![d].pc = "blob", ![d].step = i, ![d].digest = g]
          /\ Create(r, i)
       \/ /\ goes /\ <<r, i>> \notin Uploads
          /\ \E verdict \in {"success", "failure"} :
                 exec' = [exec EXCEPT ![d].pc = "write", ![d].step = i, ![d].outcome = verdict]
          /\ Create(r, i)
    /\ UNCHANGED <<sink, verdicts, file, unwritten, store, tail, epoch, sweeper, left>>

(* ArtifactSink::put.  In the store: the blob unless HEAD finds it, the    *)
(* manifest, the tag.                                                      *)
This(d) == <<d[1], exec[d].step>>
Stored(d) == <<This(d), exec[d].digest>>

PutBlob(d) ==
    /\ At(d, "blob") /\ sink = "artifacts"
    /\ blobs' = blobs \cup {exec[d].digest}
    /\ Goto(d, "manifest")
    /\ UNCHANGED <<sink, verdicts, logs, manifests, tags, disk, writing, listed, tail, epoch, sweeper, left>>

PutManifest(d) ==
    /\ At(d, "manifest")
    /\ manifests' = manifests \cup {Stored(d)}
    /\ Goto(d, "tag")
    /\ UNCHANGED <<sink, verdicts, logs, blobs, tags, disk, writing, listed, tail, epoch, sweeper, left>>

(* One tag may stand for several uploads: the last of them has it.         *)
PutTag_unchecked(d) ==
    /\ At(d, "tag")
    /\ tags' \in {tags, [tags EXCEPT ![TagOf[This(d)]] = Stored(d)]}
    /\ Goto(d, "list")
    /\ UNCHANGED <<sink, verdicts, logs, blobs, manifests, disk, writing, listed, tail, epoch, sweeper, left>>
PutTag(d) ==
    /\ At(d, "tag")
    /\ tags' = [tags EXCEPT ![TagOf[This(d)]] = Stored(d)]
    /\ Goto(d, "list")
    /\ UNCHANGED <<sink, verdicts, logs, blobs, manifests, disk, writing, listed, tail, epoch, sweeper, left>>

(* On disk: a thread of its own truncates the file and fills it.           *)
OnPath(p) == {w \in writing : PathOf[w[2]] = p}

PutDisk(d) ==
    LET p == PathOf[This(d)] IN
    /\ At(d, "blob") /\ sink = "disk"
    /\ disk' = [disk EXCEPT ![p] = IF OnPath(p) # {} THEN "mixed"
                                   ELSE IF @ \in {"none", "part"} THEN "part" ELSE "again"]
    /\ writing' = writing \cup {<<d, This(d)>>}
    /\ Goto(d, "written")
    /\ UNCHANGED <<sink, verdicts, logs, blobs, manifests, tags, listed, tail, epoch, sweeper, left>>

(* The write is done; whoever waits for it goes on.                        *)
WriteEnds(d, u) ==
    LET p == PathOf[u] IN
    /\ <<d, u>> \in writing
    /\ writing' = writing \ {<<d, u>>}
    /\ disk' = [disk EXCEPT ![p] = IF @ = "mixed" THEN @ ELSE "whole"]
    /\ IF At(d, "written") /\ This(d) = u THEN Goto(d, "list") ELSE UNCHANGED exec
    /\ UNCHANGED <<sink, verdicts, logs, blobs, manifests, tags, listed, tail, epoch, sweeper, left>>

(* record_artifact.                                                        *)
Record_unchecked(d) ==
    /\ At(d, "list")
    /\ listed' \in {listed, listed \cup {Stored(d)}}
    /\ Goto(d, "write")
    /\ UNCHANGED <<sink, verdicts, logs, blobs, manifests, tags, disk, writing, tail, epoch, sweeper, left>>
Record(d) ==
    /\ At(d, "list")
    /\ listed' = listed \cup {Stored(d)}
    /\ Goto(d, "write")
    /\ UNCHANGED <<sink, verdicts, logs, blobs, manifests, tags, disk, writing, tail, epoch, sweeper, left>>

(* The action returns an error, whose text goes into the log.  It breaks   *)
(* the loop unless the step has continue-on-error.                         *)
UploadFails(d) ==
    /\ exec[d].pc \in UploadPc
    /\ Spend("upload")
    /\ IF This(d) \in Tolerated THEN Goto(d, "write") ELSE Failed(d, "write")
    /\ writing' = writing \ {<<d, This(d)>>}
    /\ UNCHANGED <<sink, verdicts, logs, blobs, manifests, tags, disk, listed, tail, epoch, sweeper>>

(* append_log: the bytes, in a directory made for them, then the row.  The *)
(* file is never flushed, so the bytes may still be on their way when the  *)
(* append has returned, and its last write may fail with nobody to see it. *)
WriteLog(d) ==
    LET r == d[1] IN
    /\ At(d, "write")
    /\ \/ file' = [file EXCEPT ![r][exec[d].step] = @ + 1] /\ UNCHANGED <<unwritten, left>>
       \/ Spend("slow") /\ unwritten' = unwritten \cup {<<d, exec[d].step>>} /\ UNCHANGED file
    /\ Goto(d, "point")
    /\ raced' = IF sweep.pc = "forget" /\ r = First(sweep.todo) THEN raced \cup {r} ELSE raced
    /\ UNCHANGED <<sink, verdicts, row, store, tail, epoch, old, sweep, swept>>

BytesLand(d, i) ==
    /\ <<d, i>> \in unwritten
    /\ unwritten' = unwritten \ {<<d, i>>}
    /\ file' \in {[file EXCEPT ![d[1]][i] = @ + 1], file}
    /\ UNCHANGED <<sink, verdicts, exec, row, store, tail, epoch, sweeper, left>>

(* Where an appended log leads: the console's is the last.                 *)
AfterLog(d) ==
    IF exec[d].step = 0 THEN "verdict"
    ELSE IF exec[d].outcome = "failure" THEN "vmlog" ELSE "boundary"

PointRow(d) ==
    /\ At(d, "point")
    /\ row' = [row EXCEPT ![d[1]][exec[d].step] = "logged"]
    /\ Goto(d, AfterLog(d))
    /\ UNCHANGED <<sink, verdicts, file, unwritten, store, tail, epoch, sweeper, left>>

(* Either half of it fails, or a query at the step boundary: that fails the*)
(* job, except under the console's log.                                    *)
LogFails(d) ==
    /\ exec[d].pc \in {"boundary", "write", "point"}
    /\ Spend("log")
    /\ IF exec[d].step = 0 /\ ~At(d, "boundary") THEN Goto(d, "verdict") ELSE Failed(d, "vmlog")
    /\ UNCHANGED <<sink, verdicts, logs, store, tail, epoch, sweeper>>

(* capture_vm_log, before the verdict; a step that cannot be created is    *)
(* done without.                                                           *)
CaptureVmLog(d) ==
    /\ At(d, "vmlog")
    /\ \/ Create(d[1], 0) /\ exec' = [exec EXCEPT ![d].pc = "write", ![d].step = 0]
          /\ UNCHANGED left
       \/ Spend("log") /\ Goto(d, "verdict") /\ UNCHANGED row
    /\ UNCHANGED <<sink, verdicts, file, unwritten, store, tail, epoch, sweeper>>

(* The verdict, then the ack.                                              *)
Verdict(d) ==
    /\ At(d, "verdict")
    /\ SetJobStatus(d[1], IF exec[d].outcome = "failure" /\ d[1] \in Forgiven
                          THEN "success" ELSE exec[d].outcome)
    /\ exec' = [exec EXCEPT ![d] = Attempt("over")]
    /\ UNCHANGED <<sink, logs, store, tail, epoch, sweeper, left>>

(* The attempt is dropped where it is; the last delivery fails the job.    *)
AttemptFails(d) ==
    /\ d \in InHand
    /\ Spend("attempt")
    /\ exec' = [exec EXCEPT ![d] = Attempt("over")]
    /\ IF d[2] < MaxDeliver THEN UNCHANGED verdicts ELSE SetJobStatus(d[1], "failure")
    /\ UNCHANGED <<sink, logs, store, tail, epoch, sweeper>>

Cancel(r) ==
    /\ job[r] = "open"
    /\ Spend("cancel")
    /\ job' = [job EXCEPT ![r] = "cancelled"]
    /\ UNCHANGED <<sink, kept, judged, exec, logs, store, tail, epoch, sweeper>>

-----------------------------------------------------------------------------
(* The live tail.                                                          *)

SetTail(v, rec) ==
    /\ tail' = [tail EXCEPT ![v] = rec]
    /\ UNCHANGED <<sink, verdicts, exec, logs, store, epoch, sweeper>>
TailAt(v, pc) == tail[v].pc = pc

(* job_page mints a token for a job that is not over; none, no script.     *)
LoadPage(v, r) ==
    /\ TailAt(v, "off")
    /\ SetTail(v, IF job[r] = "open" THEN [NoTail EXCEPT !.pc = "page", !.run = r, !.key = epoch]
                  ELSE [NoTail EXCEPT !.pc = "refused", !.run = r])
    /\ UNCHANGED left

(* stream::verify: signed by this process, for this job, not an hour old.  *)
Connect(v) ==
    /\ TailAt(v, "page")
    /\ \/ tail[v].key = epoch /\ SetTail(v, [tail[v] EXCEPT !.pc = "loop"])
       \/ SetTail(v, [tail[v] EXCEPT !.pc = "refused"])
    /\ UNCHANGED left

(* log_stream, one pass: the job's row; its steps; each log, from the byte *)
(* after the last one sent.                                                *)
ReadJob(v) ==
    /\ TailAt(v, "loop")
    /\ \/ SetTail(v, [tail[v] EXCEPT !.pc = "steps", !.status = job[tail[v].run]]) /\ UNCHANGED left
       \/ Spend("read") /\ SetTail(v, [tail[v] EXCEPT !.pc = "cut"])

(* A query that fails counts as no steps, a file that cannot be read as an *)
(* empty one.                                                              *)
ReadSteps(v) ==
    /\ TailAt(v, "steps")
    /\ \/ /\ SetTail(v, [tail[v] EXCEPT !.pc = "logs",
                                        !.todo = {i \in Idx : row[tail[v].run][i] = "logged"}])
          /\ UNCHANGED left
       \/ Spend("read") /\ SetTail(v, [tail[v] EXCEPT !.pc = "logs", !.missed = TRUE])

ReadLog(v) ==
    /\ TailAt(v, "logs") /\ tail[v].todo # {}
    /\ LET i == First(tail[v].todo)
           length == file[tail[v].run][i]
           rest == [tail[v] EXCEPT !.todo = @ \ {i}]
       IN  \/ SetTail(v, [rest EXCEPT !.sent[i] = IF length > @ THEN length ELSE @])
              /\ UNCHANGED left
           \/ Spend("read") /\ SetTail(v, [rest EXCEPT !.missed = TRUE])

(* `done` by the status read at the head of the pass; else it sleeps.      *)
EndPass_status_now(v) ==
    /\ TailAt(v, "logs") /\ tail[v].todo = {}
    /\ SetTail(v, [tail[v] EXCEPT !.status = job[tail[v].run],
                                  !.pc = IF job[tail[v].run] \in Terminal THEN "done" ELSE "loop"])
    /\ UNCHANGED left
EndPass(v) ==
    /\ TailAt(v, "logs") /\ tail[v].todo = {}
    /\ SetTail(v, [tail[v] EXCEPT !.pc = IF tail[v].status \in Terminal THEN "done" ELSE "loop",
                                  !.missed = @ /\ tail[v].status \in Terminal])
    /\ UNCHANGED left

-----------------------------------------------------------------------------
(* spawn_log_sweeper.                                                      *)

Age ==
    /\ old < Runs /\ Spend("age")
    /\ old' = old + 1
    /\ UNCHANGED <<sink, verdicts, exec, logs, store, tail, epoch, sweep, swept, raced>>

(* runs_with_logs_before: the oldest Batch of them.                        *)
Offered ==
    LET candidates == {r \in 1..old : \E i \in Idx : row[r][i] = "logged"}
    IN  {r \in candidates : Cardinality({q \in candidates : q < r}) < Batch}

Tick ==
    /\ sweep.pc = "idle" /\ Offered # {}
    /\ sweep' = [pc |-> "remove", todo |-> Offered]
    /\ UNCHANGED <<sink, verdicts, exec, logs, store, tail, epoch, old, swept, raced, left>>

Rest(s) == [pc |-> IF s \ {First(s)} = {} THEN "idle" ELSE "remove", todo |-> s \ {First(s)}]

(* remove_dir_all: a directory that is not there is as good as removed;    *)
(* any other error leaves the run for the next sweep.  Bytes on their way  *)
(* into a file go with it.                                                 *)
Remove_must_exist ==
    LET r == First(sweep.todo)
        there == \E i \in Idx : file[r][i] > 0
    IN  /\ sweep.pc = "remove"
        /\ file' = [file EXCEPT ![r] = [i \in Idx |-> 0]]
        /\ unwritten' = {u \in unwritten : u[1][1] # r}
        /\ swept' = swept \cup {r}
        /\ sweep' = IF there THEN [sweep EXCEPT !.pc = "forget"] ELSE Rest(sweep.todo)
        /\ UNCHANGED <<sink, verdicts, exec, row, store, tail, epoch, old, raced, left>>
Remove ==
    LET r == First(sweep.todo) IN
    /\ sweep.pc = "remove"
    /\ file' = [file EXCEPT ![r] = [i \in Idx |-> 0]]
    /\ unwritten' = {u \in unwritten : u[1][1] # r}
    /\ swept' = swept \cup {r}
    /\ sweep' = [sweep EXCEPT !.pc = "forget"]
    /\ UNCHANGED <<sink, verdicts, exec, row, store, tail, epoch, old, raced, left>>

RemoveFails ==
    /\ sweep.pc = "remove" /\ Spend("remove")
    /\ sweep' = Rest(sweep.todo)
    /\ UNCHANGED <<sink, verdicts, exec, logs, store, tail, epoch, old, swept, raced>>

(* forget_logs_of; its failure is a warning.                               *)
Forget ==
    LET r == First(sweep.todo) IN
    /\ sweep.pc = "forget"
    /\ \/ /\ row' = [row EXCEPT ![r] = [i \in Idx |-> IF @[i] = "logged" THEN "bare" ELSE @[i]]]
            /\ UNCHANGED left
       \/ Spend("forget") /\ UNCHANGED row
    /\ sweep' = Rest(sweep.todo)
    /\ UNCHANGED <<sink, verdicts, exec, file, unwritten, store, tail, epoch, old, swept, raced>>

-----------------------------------------------------------------------------
(* A process dies and comes back: with it its deliveries and what its      *)
(* threads had not written; and, if it is the one with the tails and the   *)
(* sweep, those.  A page that has loaded keeps a token nobody honours.     *)
Crash ==
    /\ Spend("crash")
    /\ \E its \in SUBSET {d \in Delivery : ~At(d, "due")} :
           /\ exec' = [d \in Delivery |-> IF d \in its THEN Attempt("over") ELSE exec[d]]
           /\ unwritten' = {u \in unwritten : u[1] \notin its}
           /\ writing' = {w \in writing : w[1] \notin its}
    /\ \/ /\ tail' = [v \in Viewer |-> IF tail[v].pc \in {"loop", "steps", "logs"}
                                       THEN [tail[v] EXCEPT !.pc = "cut"] ELSE tail[v]]
          /\ epoch' = epoch + 1
          /\ sweep' = [pc |-> "idle", todo |-> {}]
       \/ UNCHANGED <<tail, epoch, sweep>>
    /\ UNCHANGED <<sink, verdicts, row, file, blobs, manifests, tags, disk, listed, old, swept, raced>>

Execute(d) ==
    \/ Deliver(d) \/ Boundary(d)
    \/ PutBlob(d) \/ PutManifest(d) \/ PutTag(d) \/ PutDisk(d) \/ Record(d) \/ UploadFails(d)
    \/ WriteLog(d) \/ PointRow(d) \/ LogFails(d)
    \/ CaptureVmLog(d) \/ Verdict(d) \/ AttemptFails(d)

Watch(v) == Connect(v) \/ ReadJob(v) \/ ReadSteps(v) \/ ReadLog(v) \/ EndPass(v)
Sweep == Tick \/ Remove \/ RemoveFails \/ Forget

Next ==
    \/ \E d \in Delivery :
           \/ Execute(d)
           \/ \E u \in Uploads : WriteEnds(d, u)
           \/ \E i \in Idx : BytesLand(d, i)
    \/ \E r \in Run : Cancel(r) \/ \E v \in Viewer : LoadPage(v, r)
    \/ \E v \in Viewer : Watch(v)
    \/ Age \/ Sweep \/ Crash

Spec == Init /\ [][Next]_vars

(* The sweeper's ticker never stops.                                       *)
FairSpec == Spec /\ WF_vars(Sweep)

-----------------------------------------------------------------------------
(* Properties.                                                             *)

(* When a tail says `done` of a job that has a verdict, it has sent all    *)
(* that was on disk of the job's logs, the console's included, when the job*)
(* was first given one, however its reads fell between the executor's      *)
(* appends (log_stream reads the status before the logs).  Bytes that land *)
(* later, late ones of an append that has returned or those of a second    *)
(* dispatcher, are on the page the browser then reloads.  Logs the sweep   *)
(* took and a query that failed are excepted, and a job somebody cancelled,*)
(* whose executor may still be writing.                                    *)
TailComplete ==
    \A v \in Viewer :
        LET t == tail[v] IN
        (t.pc = "done" /\ t.status \in {"success", "failure"} /\ ~t.missed /\ t.run \notin swept)
            => \A i \in Idx : t.sent[i] >= kept[t.run][i]

(* What ci_artifact lists was put first (run_action).  In the store: its   *)
(* bytes are there, described by a manifest, and its tag leads to a        *)
(* manifest whose bytes are there too, even when a repeated delivery, or   *)
(* another upload with the same tag, puts other bytes behind it or dies in *)
(* the middle.  On disk its file was filled to the end; it is whole but    *)
(* when the same path was written again since, or by two at once.          *)
ListedIsStored ==
    \A a \in listed :
        IF sink = "disk" THEN disk[PathOf[a[1]]] \in {"whole", "again", "mixed"}
        ELSE /\ a[2] \in blobs /\ a \in manifests
             /\ LET m == tags[TagOf[a[1]]] IN m \in manifests /\ m[2] \in blobs

(* A job that succeeded has every artifact on its page that its workflow   *)
(* uploads, whichever of its deliveries uploaded it.  An upload under an   *)
(* `if:` or with continue-on-error may be missing, and so may any of a job *)
(* whose own continue-on-error forgave its failure.                        *)
Required == {u \in Uploads : u \notin Optional \cup Tolerated /\ u[1] \notin Forgiven}
SuccessMeansListed ==
    \A u \in Required : job[u[1]] = "success" => \E a \in listed : a[1] = u

(* Logs past their retention go, from the rows and from the disk, even if  *)
(* an unlink or an UPDATE of the sweep fails on the way or the process dies*)
(* between the two (runs_with_logs_before: "what makes the sweep           *)
(* converge").  Excepted are runs a delivery appended to just then, between*)
(* the unlink and the UPDATE: their file is left without a pointer.        *)
Settled(r) == job[r] \in Terminal /\ r <= old /\ \A d \in InHand : d[1] # r
Aged(r) == Settled(r) /\ r \notin raced /\ \E i \in Idx : row[r][i] = "logged"
Gone(r) == \A i \in Idx : row[r][i] # "logged" /\ file[r][i] = 0
AgedLogsGo == \A r \in Run : Aged(r) ~> Gone(r)

-----------------------------------------------------------------------------
(* What the documents say of this code, and it does not do.                *)

(* artifacts.rs, StoredArtifact.uri: "How to get it back - a path".  A     *)
(* repeated delivery uploads over the file a row already leads to, and a   *)
(* process that dies while it does leaves the row with a stump.            *)
UriGetsItBack ==
    sink = "disk" =>
        \A a \in listed : OnPath(PathOf[a[1]]) = {} => disk[PathOf[a[1]]] \in {"whole", "mixed"}
=============================================================================
