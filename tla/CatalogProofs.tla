--------------------------- MODULE CatalogProofs ----------------------------
(***************************************************************************)
(* Proofs about ImageCatalog, for any set of jobs and images and any       *)
(* budget of faults and deliveries.                                        *)
(***************************************************************************)
EXTENDS ImageCatalog, TLAPS

(* Types, which also say that a fault budget is spent once per fault.      *)
LEMMA TypeInvariance == Spec => []TypeOK
<1>1. Init => TypeOK
  BY ImageAssumption DEF Init, TypeOK, EntryRec, Missing, Pc, OwnPc
<1>2. TypeOK /\ [Next]_vars => TypeOK'
  <2> SUFFICES ASSUME TypeOK, [Next]_vars PROVE TypeOK'
    OBVIOUS
  <2> USE ImageAssumption
  <2>1. CASE UNCHANGED vars
    BY <2>1 DEF TypeOK, vars
  <2>2. ASSUME NEW j \in Job, EnsureImage(j) PROVE TypeOK'
    <3>1. CASE Claim(j)
      <4>1. entry' \in [Image -> EntryRec]
        BY <3>1 DEF TypeOK, Claim, EntryRec, Building
      <4>2. pc' \in [Job -> Pc]
        BY <3>1 DEF TypeOK, Claim, Goto, Pc, OwnPc
      <4> QED BY <3>1, <4>1, <4>2 DEF TypeOK, Claim
    <3>2. CASE ReadStatus(j) \/ WaitPoll(j) \/ Dial(j) \/ Poll(j) \/ Create(j)
      BY <3>2 DEF TypeOK, ReadStatus, WaitPoll, Dial, Poll, Create, Goto, Pc, OwnPc
    <3>3. CASE Post(j) \/ Repost(j)
      BY <3>3 DEF TypeOK, Post, Repost, PostBuild, Goto, Pc, OwnPc
    <3>4. CASE Renew(j)
      BY <3>4 DEF TypeOK, Renew, EntryRec, Building, Goto, Pc, OwnPc
    <3>5. CASE MarkReady(j) \/ MarkFailed(j) \/ Forget(j)
      <4>1. entry' \in [Image -> EntryRec]
        BY <3>5 DEF TypeOK, MarkReady, MarkFailed, Forget, Missing, EntryRec
      <4>2. pc' \in [Job -> Pc]
        BY <3>5 DEF TypeOK, MarkReady, MarkFailed, Forget, Goto, Pc, OwnPc
      <4>3. faults' \in [Fault -> Nat]
        BY <3>5 DEF TypeOK, MarkReady, MarkFailed, Forget, Spend, Fault
      <4> QED BY <3>5, <4>1, <4>2, <4>3 DEF TypeOK, MarkReady, MarkFailed, Forget
    <3> QED BY <2>2, <3>1, <3>2, <3>3, <3>4, <3>5 DEF EnsureImage
  <2>3. ASSUME NEW j \in Job,
               Deliver(j) \/ GiveUpWaiting(j) \/ DialFails(j) \/ RenewFails(j) \/ BuildFails(j) \/ Cut(j)
        PROVE  TypeOK'
    BY <2>3 DEF TypeOK, Deliver, GiveUpWaiting, DialFails, RenewFails, BuildFails, Cut, Goto, Spend, Pc, OwnPc
  <2>4. ASSUME NEW i \in Image, DaemonBuilds(i) \/ DaemonRestarts(i) \/ RemoveFile(i) \/ LeaseLapses(i)
        PROVE  TypeOK'
    <3>1. entry' \in [Image -> EntryRec]
      BY <2>4 DEF TypeOK, DaemonBuilds, DaemonRestarts, RemoveFile, LeaseLapses, EntryRec
    <3>2. file' \in [Image -> BOOLEAN]
      BY <2>4 DEF TypeOK, DaemonBuilds, DaemonRestarts, RemoveFile, LeaseLapses
    <3>3. tracker' \in [Image -> {"unknown", "building", "failed"}]
      BY <2>4 DEF TypeOK, DaemonBuilds, DaemonRestarts, RemoveFile, LeaseLapses
    <3>4. faults' \in [Fault -> Nat]
      BY <2>4 DEF TypeOK, DaemonBuilds, DaemonRestarts, RemoveFile, LeaseLapses, Spend, Fault
    <3> QED BY <2>4, <3>1, <3>2, <3>3, <3>4 DEF TypeOK, DaemonBuilds, DaemonRestarts, RemoveFile, LeaseLapses
  <2> QED BY <2>1, <2>2, <2>3, <2>4 DEF Next
<1> QED BY <1>1, <1>2, PTL DEF Spec

-----------------------------------------------------------------------------
(* Until a file is removed, a row that reads ready and a job that was told *)
(* so have a file under them, and nobody has a row to forget.              *)
FileInv ==
    faults["remove"] = 0 =>
        /\ \A i \in Image : entry[i].status = "ready" => file[i]
        /\ \A j \in Job : pc[j] \in {"ready", "create", "done"} => file[Wants[j]]
        /\ \A j \in Job : pc[j] # "forget"

LEMMA FileStep == TypeOK /\ FileInv /\ [Next]_vars => FileInv'
<1> SUFFICES ASSUME TypeOK, FileInv, [Next]_vars, faults'["remove"] = 0
             PROVE  /\ \A i \in Image : entry'[i].status = "ready" => file'[i]
                    /\ \A j \in Job : pc'[j] \in {"ready", "create", "done"} => file'[Wants[j]]
                    /\ \A j \in Job : pc'[j] # "forget"
  BY DEF FileInv
<1> USE ImageAssumption
<1>0. faults["remove"] = 0
  <2>1. ASSUME NEW f \in Fault, Spend(f) PROVE faults["remove"] = 0
    BY <2>1 DEF Spend, TypeOK, Fault
  <2>2. ASSUME faults' = faults PROVE faults["remove"] = 0
    BY <2>2
  <2> QED BY <2>1, <2>2 DEF Next, vars, EnsureImage, Claim, ReadStatus, WaitPoll, Dial, Post, Renew,
        Poll, Repost, PostBuild, MarkReady, MarkFailed, Create, Forget, Deliver, GiveUpWaiting, DialFails,
        RenewFails, BuildFails, Cut, DaemonBuilds, DaemonRestarts, RemoveFile, LeaseLapses, Fault
<1>1. CASE UNCHANGED vars
  BY <1>0, <1>1 DEF FileInv, vars
<1>2. ASSUME NEW j \in Job, EnsureImage(j)
      PROVE  /\ \A i \in Image : entry'[i].status = "ready" => file'[i]
             /\ \A k \in Job : pc'[k] \in {"ready", "create", "done"} => file'[Wants[k]]
             /\ \A k \in Job : pc'[k] # "forget"
  <2>1. CASE Claim(j)
    BY <1>0, <2>1 DEF FileInv, TypeOK, Claim, Building, Goto
  <2>2. CASE ReadStatus(j) \/ WaitPoll(j) \/ Dial(j) \/ Poll(j) \/ Create(j)
    BY <1>0, <2>2 DEF FileInv, TypeOK, ReadStatus, WaitPoll, Dial, Poll, Create, Goto
  <2>3. CASE Post(j) \/ Repost(j)
    BY <1>0, <2>3 DEF FileInv, TypeOK, Post, Repost, PostBuild, Goto
  <2>4. CASE Renew(j)
    BY <1>0, <2>4 DEF FileInv, TypeOK, Renew, Building, Goto
  <2>5. CASE MarkReady(j) \/ MarkFailed(j)
    BY <1>0, <2>5 DEF FileInv, TypeOK, MarkReady, MarkFailed, EntryRec, Goto
  <2>6. CASE Forget(j)
    BY <1>0, <2>6 DEF FileInv, Forget
  <2> QED BY <1>2, <2>1, <2>2, <2>3, <2>4, <2>5, <2>6 DEF EnsureImage
<1>3. ASSUME NEW j \in Job,
             Deliver(j) \/ GiveUpWaiting(j) \/ DialFails(j) \/ RenewFails(j) \/ BuildFails(j) \/ Cut(j)
      PROVE  /\ \A i \in Image : entry'[i].status = "ready" => file'[i]
             /\ \A k \in Job : pc'[k] \in {"ready", "create", "done"} => file'[Wants[k]]
             /\ \A k \in Job : pc'[k] # "forget"
  BY <1>0, <1>3 DEF FileInv, TypeOK, Deliver, GiveUpWaiting, DialFails, RenewFails, BuildFails, Cut, Goto
<1>4. ASSUME NEW i \in Image, DaemonBuilds(i) \/ DaemonRestarts(i) \/ RemoveFile(i) \/ LeaseLapses(i)
      PROVE  /\ \A l \in Image : entry'[l].status = "ready" => file'[l]
             /\ \A k \in Job : pc'[k] \in {"ready", "create", "done"} => file'[Wants[k]]
             /\ \A k \in Job : pc'[k] # "forget"
  <2>1. ~RemoveFile(i)
    BY <1>0 DEF RemoveFile, Spend, TypeOK, Fault
  <2>2. CASE DaemonBuilds(i)
    <3>1. \A l \in Image : file[l] => file'[l]
      BY <2>2 DEF TypeOK, DaemonBuilds
    <3> QED BY <1>0, <2>2, <3>1 DEF FileInv, DaemonBuilds
  <2>3. CASE DaemonRestarts(i)
    BY <1>0, <2>3 DEF FileInv, DaemonRestarts
  <2>4. CASE LeaseLapses(i)
    <3>1. \A l \in Image : entry'[l].status = entry[l].status
      BY <2>4 DEF TypeOK, LeaseLapses, EntryRec
    <3> QED BY <1>0, <2>4, <3>1 DEF FileInv, LeaseLapses
  <2> QED BY <1>4, <2>1, <2>2, <2>3, <2>4
<1> QED BY <1>1, <1>2, <1>3, <1>4 DEF Next

(* UsableImage for every instance: nobody boots from an image that was     *)
(* never built.                                                            *)
THEOREM ImageIsThere == Spec => []UsableImage
<1>1. Init => FileInv
  BY ImageAssumption DEF Init, FileInv, Missing
<1>2. FileInv => UsableImage
  BY DEF FileInv, UsableImage
<1> QED BY <1>1, <1>2, FileStep, TypeInvariance, PTL DEF Spec

-----------------------------------------------------------------------------
(* The owner of a build holds a live claim, and it is the only one.        *)
OwnInv ==
    faults["stall"] = 0 /\ faults["remove"] = 0 =>
        /\ \A j \in Job : pc[j] \in OwnPc => entry[Wants[j]] = Building
        /\ \A j, k \in Job : pc[j] \in OwnPc /\ pc[k] \in OwnPc /\ Wants[j] = Wants[k] => j = k

LEMMA OwnStep == TypeOK /\ FileInv /\ OwnInv /\ [Next]_vars => OwnInv'
<1> SUFFICES ASSUME TypeOK, FileInv, OwnInv, [Next]_vars,
                    faults'["stall"] = 0, faults'["remove"] = 0
             PROVE  /\ \A j \in Job : pc'[j] \in OwnPc => entry'[Wants[j]] = Building
                    /\ \A j, k \in Job : pc'[j] \in OwnPc /\ pc'[k] \in OwnPc /\ Wants[j] = Wants[k] => j = k
  BY DEF OwnInv, Building
<1> USE ImageAssumption
<1>0. faults["stall"] = 0 /\ faults["remove"] = 0
  <2>1. ASSUME NEW f \in Fault, Spend(f) PROVE faults["stall"] = 0 /\ faults["remove"] = 0
    BY <2>1 DEF Spend, TypeOK, Fault
  <2>2. ASSUME faults' = faults PROVE faults["stall"] = 0 /\ faults["remove"] = 0
    BY <2>2
  <2> QED BY <2>1, <2>2 DEF Next, vars, EnsureImage, Claim, ReadStatus, WaitPoll, Dial, Post, Renew,
        Poll, Repost, PostBuild, MarkReady, MarkFailed, Create, Forget, Deliver, GiveUpWaiting, DialFails,
        RenewFails, BuildFails, Cut, DaemonBuilds, DaemonRestarts, RemoveFile, LeaseLapses, Fault
<1>1. CASE UNCHANGED vars
  BY <1>0, <1>1 DEF OwnInv, vars
<1>2. ASSUME NEW j \in Job, EnsureImage(j)
      PROVE  /\ \A k \in Job : pc'[k] \in OwnPc => entry'[Wants[k]] = Building
             /\ \A k, l \in Job : pc'[k] \in OwnPc /\ pc'[l] \in OwnPc /\ Wants[k] = Wants[l] => k = l
  <2>1. CASE Claim(j)
    <3>1. CASE Claimable(entry[Wants[j]])
      <4>1. \A k \in Job : pc[k] \in OwnPc => Wants[k] # Wants[j]
        BY <1>0, <3>1 DEF OwnInv, Claimable, Building
      <4> QED BY <1>0, <2>1, <3>1, <4>1 DEF OwnInv, TypeOK, Claim, Goto, OwnPc
    <3>2. CASE ~Claimable(entry[Wants[j]])
      BY <1>0, <2>1, <3>2 DEF OwnInv, TypeOK, Claim, Goto, OwnPc
    <3> QED BY <3>1, <3>2
  <2>2. CASE ReadStatus(j) \/ WaitPoll(j) \/ Dial(j) \/ Poll(j) \/ Create(j)
    BY <1>0, <2>2 DEF OwnInv, TypeOK, ReadStatus, WaitPoll, Dial, Poll, Create, Goto, OwnPc
  <2>3. CASE Post(j) \/ Repost(j)
    BY <1>0, <2>3 DEF OwnInv, TypeOK, Post, Repost, PostBuild, Goto, OwnPc
  <2>4. CASE Renew(j)
    <3>1. entry[Wants[j]] = Building
      BY <1>0, <2>4 DEF OwnInv, Renew, OwnPc
    <3>2. entry' = entry
      BY <2>4, <3>1 DEF Renew, TypeOK, EntryRec, Building
    <3> QED BY <1>0, <2>4, <3>2 DEF OwnInv, TypeOK, Renew, Goto, OwnPc
  <2>5. CASE MarkReady(j) \/ MarkFailed(j)
    <3>1. \A k \in Job : pc[k] \in OwnPc /\ k # j => Wants[k] # Wants[j]
      BY <1>0, <2>5 DEF OwnInv, MarkReady, MarkFailed, OwnPc
    <3>2. pc'[j] \notin OwnPc /\ \A k \in Job : k # j => pc'[k] = pc[k]
      <4> USE DEF TypeOK, Goto, OwnPc, Pc
      <4>1. CASE MarkReady(j)  BY <4>1 DEF MarkReady
      <4>2. CASE MarkFailed(j) BY <4>2 DEF MarkFailed
      <4> QED BY <2>5, <4>1, <4>2
    <3>3. \A i \in Image : i # Wants[j] => entry'[i] = entry[i]
      BY <2>5 DEF TypeOK, MarkReady, MarkFailed
    <3> QED BY <1>0, <3>1, <3>2, <3>3 DEF OwnInv
  <2>6. CASE Forget(j)
    BY <1>0, <2>6 DEF FileInv, Forget
  <2> QED BY <1>2, <2>1, <2>2, <2>3, <2>4, <2>5, <2>6 DEF EnsureImage
<1>3. ASSUME NEW j \in Job,
             Deliver(j) \/ GiveUpWaiting(j) \/ DialFails(j) \/ RenewFails(j) \/ BuildFails(j) \/ Cut(j)
      PROVE  /\ \A k \in Job : pc'[k] \in OwnPc => entry'[Wants[k]] = Building
             /\ \A k, l \in Job : pc'[k] \in OwnPc /\ pc'[l] \in OwnPc /\ Wants[k] = Wants[l] => k = l
  BY <1>0, <1>3 DEF OwnInv, TypeOK, Deliver, GiveUpWaiting, DialFails, RenewFails, BuildFails, Cut, Goto, OwnPc
<1>4. ASSUME NEW i \in Image, DaemonBuilds(i) \/ DaemonRestarts(i) \/ RemoveFile(i) \/ LeaseLapses(i)
      PROVE  /\ \A k \in Job : pc'[k] \in OwnPc => entry'[Wants[k]] = Building
             /\ \A k, l \in Job : pc'[k] \in OwnPc /\ pc'[l] \in OwnPc /\ Wants[k] = Wants[l] => k = l
  <2>1. CASE LeaseLapses(i)
    <3>1. Owners(i) = {}
      BY <1>0, <2>1 DEF LeaseLapses, Spend, TypeOK, Fault
    <3> QED BY <1>0, <2>1, <3>1 DEF OwnInv, TypeOK, LeaseLapses, Owners
  <2>2. CASE DaemonBuilds(i) \/ DaemonRestarts(i) \/ RemoveFile(i)
    BY <1>0, <2>2 DEF OwnInv, DaemonBuilds, DaemonRestarts, RemoveFile
  <2> QED BY <1>4, <2>1, <2>2
<1> QED BY <1>1, <1>2, <1>3, <1>4 DEF Next

(* OneBuilder for every instance: while live builds renew and no file is   *)
(* removed, Catalog::claim hands one job at a time the build of an image.  *)
THEOREM ExclusiveBuild == Spec => []OneBuilder
<1>1. Init => FileInv /\ OwnInv
  BY ImageAssumption DEF Init, FileInv, OwnInv, Missing, OwnPc
<1>2. OwnInv => OneBuilder
  BY DEF OwnInv, OneBuilder
<1> QED BY <1>1, <1>2, FileStep, OwnStep, TypeInvariance, PTL DEF Spec

(* ReadyNotUndone for every instance, whatever is late, lapsed or taken    *)
(* over: only forget takes a ready row away.                               *)
THEOREM ReadyIsKept == Spec => ReadyNotUndone
<1>1. ASSUME TypeOK, [Next]_vars, NEW i \in Image, entry[i].status = "ready"
      PROVE  entry'[i].status = "ready" \/ \E j \in Job : Wants[j] = i /\ pc[j] = "forget"
  <2> USE ImageAssumption
  <2>1. CASE entry' = entry
    BY <1>1, <2>1
  <2>2. ASSUME NEW j \in Job, Claim(j) \/ Renew(j) \/ MarkReady(j) \/ MarkFailed(j)
        PROVE  entry'[i].status = "ready"
    BY <1>1, <2>2 DEF TypeOK, Claim, Claimable, Renew, MarkReady, MarkFailed, EntryRec
  <2>3. ASSUME NEW j \in Job, Forget(j)
        PROVE  entry'[i].status = "ready" \/ \E k \in Job : Wants[k] = i /\ pc[k] = "forget"
    BY <1>1, <2>3 DEF TypeOK, Forget
  <2>4. ASSUME NEW l \in Image, LeaseLapses(l) PROVE entry'[i].status = "ready"
    BY <1>1, <2>4 DEF TypeOK, LeaseLapses, EntryRec
  <2> QED BY <1>1, <2>1, <2>2, <2>3, <2>4 DEF Next, vars, EnsureImage, ReadStatus, WaitPoll, Dial, Post,
        Poll, Repost, PostBuild, Create, Deliver, GiveUpWaiting, DialFails, RenewFails, BuildFails, Cut,
        DaemonBuilds, DaemonRestarts, RemoveFile
<1>2. TypeOK /\ [Next]_vars =>
        [\A i \in Image : entry[i].status = "ready" =>
            \/ entry'[i].status = "ready"
            \/ \E j \in Job : Wants[j] = i /\ pc[j] = "forget"]_vars
  BY <1>1
<1> QED BY <1>2, TypeInvariance, PTL DEF Spec, ReadyNotUndone
=============================================================================
