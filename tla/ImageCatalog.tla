---------------------------- MODULE ImageCatalog ----------------------------
(***************************************************************************)
(* Images built on demand: ensure_image, the ci_vm_image table it claims   *)
(* and waits on, the runner's daemon that does the building, and the       *)
(* create that boots from the result.  An Image is one primary key, a      *)
(* content-hashed name on one host; a Job is one delivery at a time of a   *)
(* job that wants it.  Each SQL statement and each request is one step.    *)
(*                                                                         *)
(* Two bounds order the clocks.  A builder's requests are each far shorter *)
(* than BUILD_LEASE and it renews at every poll, so a lease lapses under a *)
(* live builder only if its renewals are lost for half an hour: the fault  *)
(* "stall".  A waiter's budget is longer than a lease, so a waiter may     *)
(* outlive a dead builder's.                                               *)
(***************************************************************************)
EXTENDS Naturals, FiniteSets

CONSTANTS
    Image,      \* (name, runner_hd_id)
    Job,        \* jobs whose plan has vm.build
    Wants,      \* the image a job's Dockerfile and context name
    MaxDeliver, \* deliveries of one job
    MaxFaults   \* bound on each kind of fault

(* stall: a live build's lease lapses all the same; restart: the daemon    *)
(* loses its tracker; remove: somebody deletes the .ext4 by hand; call: a  *)
(* request, a statement or the tunnel fails; cut: the delivery's future is *)
(* dropped, by its process dying or by the job's time limit.               *)
Fault == {"stall", "restart", "remove", "call", "cut"}

ASSUME ImageAssumption ==
    /\ Wants \in [Job -> Image]
    /\ MaxDeliver \in Nat
    /\ MaxFaults \in [Fault -> Nat]

VARIABLES
    entry,      \* ci_vm_image: status, and the state of leased_until
    file,       \* whether the host has the .ext4
    tracker,    \* what the daemon knows of a build that left no file
    pc,         \* where each job's delivery is
    tries,      \* deliveries so far
    faults

vars == <<entry, file, tracker, pc, tries, faults>>

EntryRec == [status : {"absent", "building", "ready", "failed"},
             lease : {"null", "live", "lapsed"}]
Missing == [status |-> "absent", lease |-> "null"]
Building == [status |-> "building", lease |-> "live"]

(* Where a job is when the claim is its own.                               *)
OwnPc == {"dial", "post", "renew", "poll", "repost", "ready", "failed"}
Pc == {"idle", "claim", "status", "wait", "create", "forget", "done"} \cup OwnPc

TypeOK ==
    /\ entry \in [Image -> EntryRec]
    /\ file \in [Image -> BOOLEAN]
    /\ tracker \in [Image -> {"unknown", "building", "failed"}]
    /\ pc \in [Job -> Pc]
    /\ tries \in [Job -> 0..MaxDeliver]
    /\ faults \in [Fault -> Nat]

Init ==
    /\ entry = [i \in Image |-> Missing]
    /\ file = [i \in Image |-> FALSE]
    /\ tracker = [i \in Image |-> "unknown"]
    /\ pc = [j \in Job |-> "idle"]
    /\ tries = [j \in Job |-> 0]
    /\ faults = [f \in Fault |-> 0]

Spend(f) ==
    /\ faults[f] < MaxFaults[f]
    /\ faults' = [faults EXCEPT ![f] = @ + 1]

Goto(j, l) == pc' = [pc EXCEPT ![j] = l]

-----------------------------------------------------------------------------
(* ensure_image up to the claim.                                           *)

Deliver(j) ==
    /\ pc[j] = "idle"
    /\ tries[j] < MaxDeliver
    /\ tries' = [tries EXCEPT ![j] = @ + 1]
    /\ Goto(j, "claim")
    /\ UNCHANGED <<entry, file, tracker, faults>>

Claimable_any_lease(e) == e.status # "ready"
Claimable_null_lease(e) == e.status = "absent" \/ (e.status # "ready" /\ e.lease = "null")
(* What the upsert's ON CONFLICT ... WHERE lets a caller take.             *)
Claimable(e) == e.status = "absent" \/ (e.status # "ready" /\ e.lease # "live")

Claim(j) ==
    LET i == Wants[j] IN
    /\ pc[j] = "claim"
    /\ IF Claimable(entry[i])
       THEN entry' = [entry EXCEPT ![i] = Building] /\ Goto(j, "dial")
       ELSE entry' = entry /\ Goto(j, "status")
    /\ UNCHANGED <<file, tracker, tries, faults>>

(* The upsert did nothing, so the row is read to say why: by a second      *)
(* statement, which may see it gone.                                       *)
ReadStatus_not_failed(j) ==
    /\ pc[j] = "status"
    /\ Goto(j, IF entry[Wants[j]].status # "failed" THEN "create" ELSE "wait")
    /\ UNCHANGED <<entry, file, tracker, tries, faults>>
ReadStatus(j) ==
    /\ pc[j] = "status"
    /\ Goto(j, IF entry[Wants[j]].status = "ready" THEN "create" ELSE "wait")
    /\ UNCHANGED <<entry, file, tracker, tries, faults>>

WaitPoll(j) ==
    /\ pc[j] = "wait"
    /\ Goto(j, "claim")
    /\ UNCHANGED <<entry, file, tracker, tries, faults>>

(* WaitTimeout: the attempt ends and is delivered again.                   *)
GiveUpWaiting(j) ==
    /\ pc[j] = "wait"
    /\ Goto(j, "idle")
    /\ UNCHANGED <<entry, file, tracker, tries, faults>>

-----------------------------------------------------------------------------
(* The build, by the job that owns it.                                     *)

Dial(j) ==
    /\ pc[j] = "dial"
    /\ Goto(j, "post")
    /\ UNCHANGED <<entry, file, tracker, tries, faults>>

(* options_for fails and ? returns: the row keeps its lease.               *)
DialFails(j) ==
    /\ pc[j] = "dial"
    /\ Spend("call")
    /\ Goto(j, "idle")
    /\ UNCHANGED <<entry, file, tracker, tries>>

(* The daemon's route is idempotent by name: a file answers "ready", a     *)
(* build in hand is joined, anything else starts one.                      *)
PostBuild(j, next) ==
    LET i == Wants[j] IN
    /\ IF file[i]
       THEN Goto(j, "ready") /\ tracker' = tracker
       ELSE tracker' = [tracker EXCEPT ![i] = "building"] /\ Goto(j, next)
    /\ UNCHANGED <<entry, file, tries, faults>>

Post(j) == pc[j] = "post" /\ PostBuild(j, "renew")

Renew(j) ==
    LET i == Wants[j] IN
    /\ pc[j] = "renew"
    /\ entry' = IF entry[i].status = "building"
                THEN [entry EXCEPT ![i] = Building] ELSE entry
    /\ Goto(j, "poll")
    /\ UNCHANGED <<file, tracker, tries, faults>>

(* renew's error is logged and dropped.                                    *)
RenewFails(j) ==
    /\ pc[j] = "renew"
    /\ Spend("call")
    /\ Goto(j, "poll")
    /\ UNCHANGED <<entry, file, tracker, tries>>

Poll(j) ==
    LET i == Wants[j] IN
    /\ pc[j] = "poll"
    /\ \/ file[i] /\ Goto(j, "ready")
       \/ ~file[i] /\ tracker[i] = "failed" /\ Goto(j, "failed")
       \/ ~file[i] /\ tracker[i] = "building" /\ Goto(j, "renew")
       \/ ~file[i] /\ tracker[i] = "unknown" /\ Goto(j, "repost")
    /\ UNCHANGED <<entry, file, tracker, tries, faults>>

(* A re-request that was not answered "ready" may find the budget spent.   *)
Repost(j) == pc[j] = "repost" /\ \E next \in {"renew", "failed"} : PostBuild(j, next)

(* A request fails, or BUILD_BUDGET is spent while the daemon still builds.*)
BuildFails(j) ==
    /\ \/ pc[j] \in {"post", "poll", "repost"} /\ Spend("call")
       \/ /\ pc[j] = "poll" /\ ~file[Wants[j]] /\ tracker[Wants[j]] = "building"
          /\ faults' = faults
    /\ Goto(j, "failed")
    /\ UNCHANGED <<entry, file, tracker, tries>>

(* attach_build_log, then mark_ready, on whatever the row says.  Its ?     *)
(* leaves the row building.                                                *)
MarkReady(j) ==
    LET i == Wants[j] IN
    /\ pc[j] = "ready"
    /\ \/ /\ entry' = IF entry[i].status = "absent" THEN entry
                      ELSE [entry EXCEPT ![i] = [status |-> "ready", lease |-> "null"]]
          /\ Goto(j, "create") /\ faults' = faults
       \/ entry' = entry /\ Goto(j, "idle") /\ Spend("call")
    /\ UNCHANGED <<file, tracker, tries>>

MarkFailed_unguarded(j) ==
    /\ pc[j] = "failed"
    /\ entry' = [entry EXCEPT ![Wants[j]] = [status |-> "failed", lease |-> "null"]]
    /\ Goto(j, "idle")
    /\ UNCHANGED <<file, tracker, tries, faults>>
(* mark_failed spares a ready row; its own error is logged and dropped.    *)
MarkFailed(j) ==
    LET i == Wants[j] IN
    /\ pc[j] = "failed"
    /\ \/ /\ entry' = IF entry[i].status \in {"absent", "ready"} THEN entry
                      ELSE [entry EXCEPT ![i] = [status |-> "failed", lease |-> "null"]]
          /\ faults' = faults
       \/ entry' = entry /\ Spend("call")
    /\ Goto(j, "idle")
    /\ UNCHANGED <<file, tracker, tries>>

-----------------------------------------------------------------------------
(* acquire_vm boots from the image, and forgets a row whose file is gone.  *)

Create(j) ==
    /\ pc[j] = "create"
    /\ Goto(j, IF file[Wants[j]] THEN "done" ELSE "forget")
    /\ UNCHANGED <<entry, file, tracker, tries, faults>>

Forget(j) ==
    /\ pc[j] = "forget"
    /\ \/ entry' = [entry EXCEPT ![Wants[j]] = Missing] /\ faults' = faults
       \/ entry' = entry /\ Spend("call")
    /\ Goto(j, "idle")
    /\ UNCHANGED <<file, tracker, tries>>

(* The future is dropped wherever it is; the message comes again.          *)
Cut(j) ==
    /\ pc[j] \notin {"idle", "done"}
    /\ Spend("cut")
    /\ Goto(j, "idle")
    /\ UNCHANGED <<entry, file, tracker, tries>>

-----------------------------------------------------------------------------
(* The daemon, the clock and the operator.                                 *)

DaemonBuilds(i) ==
    /\ tracker[i] = "building"
    /\ \/ file' = [file EXCEPT ![i] = TRUE] /\ tracker' = [tracker EXCEPT ![i] = "unknown"]
       \/ tracker' = [tracker EXCEPT ![i] = "failed"] /\ file' = file
    /\ UNCHANGED <<entry, pc, tries, faults>>

DaemonRestarts(i) ==
    /\ tracker[i] # "unknown"
    /\ Spend("restart")
    /\ tracker' = [tracker EXCEPT ![i] = "unknown"]
    /\ UNCHANGED <<entry, file, pc, tries>>

RemoveFile(i) ==
    /\ file[i]
    /\ Spend("remove")
    /\ file' = [file EXCEPT ![i] = FALSE]
    /\ UNCHANGED <<entry, tracker, pc, tries>>

Owners(i) == {j \in Job : Wants[j] = i /\ pc[j] \in OwnPc}

(* now() passes leased_until.                                              *)
LeaseLapses(i) ==
    /\ entry[i].lease = "live"
    /\ IF Owners(i) = {} THEN faults' = faults ELSE Spend("stall")
    /\ entry' = [entry EXCEPT ![i] = [status |-> entry[i].status, lease |-> "lapsed"]]
    /\ UNCHANGED <<file, tracker, pc, tries>>

EnsureImage(j) ==
    \/ Claim(j) \/ ReadStatus(j) \/ WaitPoll(j) \/ Dial(j) \/ Post(j)
    \/ Renew(j) \/ Poll(j) \/ Repost(j) \/ MarkReady(j) \/ MarkFailed(j)
    \/ Create(j) \/ Forget(j)

Next ==
    \/ \E j \in Job : \/ EnsureImage(j) \/ Deliver(j) \/ GiveUpWaiting(j)
                      \/ DialFails(j) \/ RenewFails(j) \/ BuildFails(j) \/ Cut(j)
    \/ \E i \in Image : \/ DaemonBuilds(i) \/ DaemonRestarts(i)
                        \/ RemoveFile(i) \/ LeaseLapses(i)

Spec == Init /\ [][Next]_vars

(* A task takes its next step, the daemon finishes what it builds, and a   *)
(* lease nobody renews runs out.  Nobody is promised that a waiter's       *)
(* patience ends, or that a job is delivered again.                        *)
FairSpec ==
    /\ Spec
    /\ \A j \in Job : WF_vars(EnsureImage(j))
    /\ \A i \in Image : /\ WF_vars(DaemonBuilds(i))
                        /\ WF_vars(Owners(i) = {} /\ LeaseLapses(i))

-----------------------------------------------------------------------------
(* Properties.                                                             *)

(* "N jobs landing on a cold host produce one build request and not N":    *)
(* as long as no live build misses its renewals and nobody removes a file  *)
(* (a late forget then deletes another job's claim), one job at a time     *)
(* owns the build of an image, whoever dies, times out or takes over.      *)
OneBuilder ==
    faults["stall"] = 0 /\ faults["remove"] = 0 =>
        \A j, k \in Job : pc[j] \in OwnPc /\ pc[k] \in OwnPc /\ Wants[j] = Wants[k] => j = k

(* Nobody boots from an image that was never built: a job past             *)
(* ensure_image has a file under it, unless the file was removed since,    *)
(* over lapsed leases, daemon restarts and late verdicts of other jobs.    *)
UsableImage ==
    faults["remove"] = 0 =>
        \A j \in Job : pc[j] \in {"create", "done"} => file[Wants[j]]

(* A verdict that comes late does not undo a build that another job has    *)
(* finished: a ready row is left ready by everything but forget.           *)
ReadyNotUndone ==
    [][\A i \in Image : entry[i].status = "ready" =>
            \/ entry'[i].status = "ready"
            \/ \E j \in Job : Wants[j] = i /\ pc[j] = "forget"]_vars

(* "A dispatcher that died mid-build does not block the image for ever":   *)
(* a job that waits for somebody else's build gets the image or the build. *)
WaiterServed ==
    \A j \in Job : pc[j] \in {"claim", "status", "wait"}
                   ~> pc[j] \notin {"claim", "status", "wait"}
=============================================================================
