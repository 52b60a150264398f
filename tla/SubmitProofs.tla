---------------------------- MODULE SubmitProofs ----------------------------
(***************************************************************************)
(* Proofs about Submit, for any requests, repositories, networks, tokens,  *)
(* workflow objects and submitted trees, and any fault budget.             *)
(***************************************************************************)
EXTENDS Submit, WellFoundedInduction, FiniteSetTheorems, TLAPS

LEMMA LeastNumber ==
    ASSUME NEW S \in SUBSET Nat, S # {}
    PROVE  \E x \in S : \A y \in S : x <= y
<1> DEFINE R == {ss \in Nat \X Nat : ss[1] < ss[2]}
<1>1. IsWellFoundedOn(R, Nat)
  BY NatLessThanWellFounded DEF OpToRel
<1>2. PICK x \in S : \A y \in S : ~(<<y, x>> \in R)
  <2> HIDE DEF R
  <2> QED BY <1>1, WFMin
<1>3. ASSUME NEW y \in S PROVE x <= y
  <2>1. x \in Nat /\ y \in Nat /\ <<y, x>> \in Nat \X Nat
    OBVIOUS
  <2>2. ~(y < x)
    BY <1>2, <2>1
  <2> QED BY <2>1, <2>2
<1> QED BY <1>3

(* The loop always has a next file while some are left.                    *)
LEMMA FirstIsIn ==
    ASSUME NEW S \in SUBSET (Nat \X Nat), S # {}
    PROVE  First(S) \in S
<1> DEFINE N == {e[1] : e \in S}
<1>1. PICK m \in N : \A n \in N : m <= n
  <2>1. N \in SUBSET Nat /\ N # {}
    OBVIOUS
  <2> HIDE DEF N
  <2> QED BY <2>1, LeastNumber
<1> DEFINE K == {e[2] : e \in {d \in S : d[1] = m}}
<1>2. PICK k \in K : \A l \in K : k <= l
  <2>1. K \in SUBSET Nat /\ K # {}
    BY <1>1
  <2> HIDE DEF K
  <2> QED BY <2>1, LeastNumber
<1>3. PICK d \in S : d[1] = m /\ d[2] = k
  BY <1>2
<1>4. ASSUME NEW e \in S PROVE Before(d, e)
  <2>1. m <= e[1] /\ m \in Nat /\ e[1] \in Nat
    BY <1>1
  <2>2. e[1] = m => k <= e[2]
    BY <1>2
  <2> QED BY <1>3, <2>1, <2>2 DEF Before
<1> QED BY <1>3, <1>4 DEF First

-----------------------------------------------------------------------------
(* Shapes: what may be in a payload, an object or a file is left open.     *)

IsReq(q) ==
    q = [pc |-> q.pc, payload |-> q.payload, repo |-> q.repo, changes |-> q.changes,
         sources |-> q.sources, todo |-> q.todo, network |-> q.network, made |-> q.made,
         skipped |-> q.skipped]

IsRun(x) ==
    x = [req |-> x.req, ws |-> x.ws, src |-> x.src, file |-> x.file, repo |-> x.repo,
         network |-> x.network]

ReqShape == reqs = [r \in Request |-> reqs[r]] /\ \A r \in Request : IsReq(reqs[r])
RunShape == \A x \in runs : IsRun(x)

LEMMA Written ==
    ASSUME ReqShape, NEW r \in Request, NEW q, IsReq(q), SetReq(r, q)
    PROVE  /\ ReqShape'
           /\ reqs'[r] = q
           /\ \A o \in Request : o # r => reqs'[o] = reqs[o]
BY DEF ReqShape, SetReq, IsReq

-----------------------------------------------------------------------------
(* The steps of a submit, as what they do to its own row, to the trees and *)
(* to the runs.  Several actions are one of these: whatever ends a submit  *)
(* only writes its answer.                                                 *)

Others(r) == \A o \in Request : o # r => reqs'[o] = reqs[o]
KeepsInput(r) ==
    /\ reqs'[r].payload = reqs[r].payload
    /\ reqs'[r].changes = reqs[r].changes
    /\ reqs'[r].sources = reqs[r].sources
KeepsWork(r) ==
    /\ reqs'[r].todo = reqs[r].todo
    /\ reqs'[r].made = reqs[r].made
    /\ reqs'[r].skipped = reqs[r].skipped
Goes(r, from, to) == reqs[r].pc = from /\ reqs'[r].pc = to

AuthStep(r) ==
    /\ Others(r) /\ KeepsInput(r) /\ KeepsWork(r) /\ reqs[r].pc = "new"
    /\ reqs'[r].pc \in {"authenticated", "refused", "failed"}
    /\ UNCHANGED <<trees, runs>>

PrepStep(r) ==
    /\ Others(r) /\ Goes(r, "authenticated", "files")
    /\ reqs'[r].payload = reqs[r].payload
    /\ reqs'[r].sources = SourcesOf(reqs[r].payload, reqs[r].repo)
    /\ reqs'[r].todo = FilesOf(reqs[r].payload, reqs'[r].sources)
    /\ reqs'[r].changes \in {ChangedPaths(reqs[r].payload), Unknown}
    /\ reqs'[r].made = reqs[r].made /\ reqs'[r].skipped = reqs[r].skipped
    /\ trees' = trees \union {<<r, 0>>} /\ UNCHANGED runs

PassStep(r) ==
    /\ Others(r) /\ KeepsInput(r) /\ AtFile(r) /\ ~File(r).on
    /\ reqs'[r].pc = "files" /\ reqs'[r].todo = Rest(r)
    /\ reqs'[r].made = reqs[r].made /\ reqs'[r].skipped = reqs[r].skipped
    /\ UNCHANGED <<trees, runs>>

DeclineStep(r) ==
    /\ Others(r) /\ KeepsInput(r) /\ AtFile(r) /\ ~Admitted(r)
    /\ reqs'[r].pc = "files" /\ reqs'[r].todo = Rest(r)
    /\ reqs'[r].made = reqs[r].made
    /\ reqs'[r].skipped = reqs[r].skipped \union {[src |-> Source(r), file |-> File(r)]}
    /\ UNCHANGED <<trees, runs>>

AcceptStep(r) ==
    /\ Others(r) /\ KeepsInput(r) /\ KeepsWork(r) /\ AtFile(r)
    /\ reqs'[r].pc = "copying" /\ reqs'[r].network = Stamped(r) /\ Stamped(r) \in serving
    /\ UNCHANGED <<trees, runs>>

CopyStep(r) ==
    /\ Others(r) /\ KeepsInput(r) /\ KeepsWork(r) /\ Goes(r, "copying", "creating")
    /\ reqs'[r].network = reqs[r].network
    /\ trees' = trees \union {WorkspaceOf(r)} /\ UNCHANGED runs

NewRun(r) ==
    [req |-> r, ws |-> WorkspaceOf(r), src |-> Source(r), file |-> File(r).name,
     repo |-> IF reqs[r].repo = None THEN None ELSE reqs[r].repo.id, network |-> reqs[r].network]

CreateStep(r) ==
    /\ Others(r) /\ KeepsInput(r) /\ KeepsWork(r) /\ Goes(r, "creating", "advancing")
    /\ reqs[r].repo = None \/ Live(reqs[r].repo.id)
    /\ runs' = runs \union {NewRun(r)} /\ UNCHANGED trees

AdvanceStep(r) ==
    /\ Others(r) /\ KeepsInput(r) /\ Goes(r, "advancing", "files")
    /\ reqs'[r].todo = Rest(r) /\ reqs'[r].made = reqs[r].made + 1
    /\ reqs'[r].skipped = reqs[r].skipped
    /\ UNCHANGED <<trees, runs>>

EndStep(r) ==
    /\ Others(r) /\ KeepsInput(r) /\ KeepsWork(r)
    /\ reqs[r].pc \notin Final \union {"new"} /\ reqs'[r].pc \in {"failed", "accepted"}
    /\ reqs'[r].pc = "accepted" => reqs[r].pc = "files" /\ reqs[r].todo = {}
    /\ UNCHANGED runs /\ trees' \in {trees, trees \union {<<r, 0>>}}

CrashStep ==
    /\ \A r \in Request :
           /\ KeepsInput(r) /\ KeepsWork(r) /\ reqs'[r].network = reqs[r].network
           /\ \/ reqs'[r].pc = reqs[r].pc
              \/ reqs[r].pc \notin Final \union {"new"} /\ reqs'[r].pc = "lost"
    /\ UNCHANGED <<trees, runs>>

Forget(x, id) == IF x.repo = id THEN [x EXCEPT !.repo = None] ELSE x
DeleteStep ==
    /\ UNCHANGED <<reqs, trees>>
    /\ \E id : runs' = {Forget(x, id) : x \in runs}

SubmitStep(r) ==
    \/ AuthStep(r) \/ PrepStep(r) \/ PassStep(r) \/ DeclineStep(r) \/ AcceptStep(r)
    \/ CopyStep(r) \/ CreateStep(r) \/ AdvanceStep(r) \/ EndStep(r)

LEMMA PcOnly ==
    ASSUME ReqShape, NEW r \in Request, NEW pc, Answer(r, pc)
    PROVE  /\ ReqShape'
           /\ Others(r) /\ KeepsInput(r) /\ KeepsWork(r)
           /\ reqs'[r].pc = pc /\ reqs'[r].network = reqs[r].network
<1> DEFINE q == [reqs[r] EXCEPT !.pc = pc]
<1>1. IsReq(reqs[r])
  BY DEF ReqShape
<1>2. IsReq(q) /\ q.payload = reqs[r].payload /\ q.changes = reqs[r].changes /\ q.sources = reqs[r].sources
      /\ q.todo = reqs[r].todo /\ q.made = reqs[r].made /\ q.skipped = reqs[r].skipped
      /\ q.pc = pc /\ q.network = reqs[r].network
  BY <1>1 DEF IsReq
<1>3. SetReq(r, q)
  BY DEF Answer
<1> HIDE DEF q
<1> QED BY <1>2, <1>3, Written DEF Others, KeepsInput, KeepsWork
(* Every step of the handler is one of these.                              *)
LEMMA HandleSteps ==
    ASSUME ReqShape, NEW r \in Request, Handle(r)
    PROVE  SubmitStep(r) /\ ReqShape'
<1>0. IsReq(reqs[r])
  BY DEF ReqShape
<1>1. CASE Authenticate(r)
  <2>1. PICK repo : SetReq(r, [reqs[r] EXCEPT !.pc = "authenticated", !.repo = repo]) \/ Answer(r, "refused")
    BY <1>1 DEF Authenticate
  <2>2. reqs[r].pc = "new" /\ UNCHANGED <<trees, runs>>
    BY <1>1 DEF Authenticate
  <2>3. CASE Answer(r, "refused")
    BY <2>2, <2>3, PcOnly DEF SubmitStep, AuthStep
  <2>4. CASE SetReq(r, [reqs[r] EXCEPT !.pc = "authenticated", !.repo = repo])
    <3>q. PICK q : q = [reqs[r] EXCEPT !.pc = "authenticated", !.repo = repo]
      OBVIOUS
    <3>1. IsReq(q) /\ q.payload = reqs[r].payload /\ q.changes = reqs[r].changes
          /\ q.sources = reqs[r].sources /\ q.todo = reqs[r].todo /\ q.made = reqs[r].made
          /\ q.skipped = reqs[r].skipped /\ q.pc = "authenticated"
      BY <3>q, <1>0 DEF IsReq
    <3>2. SetReq(r, q)
      BY <3>q, <2>4
    <3>3. ReqShape' /\ reqs'[r] = q /\ Others(r)
      BY <3>1, <3>2, Written DEF Others
    <3> QED BY <2>2, <3>1, <3>3 DEF SubmitStep, AuthStep, KeepsInput, KeepsWork
  <2> QED BY <2>1, <2>3, <2>4
<1>2. CASE AuthenticateUnread(r)
  <2>1. PICK pc \in {"failed", "authenticated"} : Answer(r, pc)
    BY <1>2 DEF AuthenticateUnread
  <2> QED BY <1>2, <2>1, PcOnly DEF AuthenticateUnread, SubmitStep, AuthStep
<1>3. CASE Prepare(r)
  <2>0. reqs[r].pc = "authenticated" /\ trees' = trees \union {<<r, 0>>} /\ UNCHANGED runs
    BY <1>3 DEF Prepare
  <2>1. CASE Answer(r, "failed")
    BY <2>0, <2>1, PcOnly DEF SubmitStep, EndStep, Final
  <2>2. CASE ~Answer(r, "failed")
    <3> DEFINE sources == SourcesOf(reqs[r].payload, reqs[r].repo)
    <3> DEFINE todo == FilesOf(reqs[r].payload, sources)
    <3>1. PICK changes \in {ChangedPaths(reqs[r].payload), Unknown} :
            SetReq(r, [reqs[r] EXCEPT !.pc = "files", !.sources = sources, !.todo = todo, !.changes = changes])
      BY <1>3, <2>2 DEF Prepare
    <3> HIDE DEF todo, sources
    <3>q. PICK q : q = [reqs[r] EXCEPT !.pc = "files", !.sources = sources, !.todo = todo, !.changes = changes]
      OBVIOUS
    <3>2. IsReq(q) /\ q.payload = reqs[r].payload /\ q.changes = changes /\ q.sources = sources
          /\ q.todo = todo /\ q.made = reqs[r].made /\ q.skipped = reqs[r].skipped /\ q.pc = "files"
      BY <3>q, <1>0 DEF IsReq
    <3>3. SetReq(r, q)
      BY <3>q, <3>1
    <3>4. ReqShape' /\ reqs'[r] = q /\ Others(r)
      BY <3>2, <3>3, Written DEF Others
    <3>5. PrepStep(r)
      BY <2>0, <3>2, <3>4 DEF PrepStep, Goes, sources, todo
    <3> QED BY <3>4, <3>5 DEF SubmitStep
  <2> QED BY <2>1, <2>2
<1>4. CASE MaterializeFails(r)
  BY <1>4, PcOnly DEF MaterializeFails, SubmitStep, EndStep, Final
<1>5. CASE Pass(r)
  <2>q. PICK q : q = [reqs[r] EXCEPT !.todo = Rest(r)]
    OBVIOUS
  <2>1. IsReq(q) /\ q.payload = reqs[r].payload /\ q.changes = reqs[r].changes /\ q.sources = reqs[r].sources
        /\ q.todo = Rest(r) /\ q.made = reqs[r].made /\ q.skipped = reqs[r].skipped /\ q.pc = reqs[r].pc
    BY <2>q, <1>0 DEF IsReq
  <2>2. SetReq(r, q)
    BY <2>q, <1>5 DEF Pass
  <2>3. ReqShape' /\ reqs'[r] = q /\ Others(r)
    BY <2>1, <2>2, Written DEF Others
  <2>4. PassStep(r)
    BY <1>5, <2>1, <2>3 DEF PassStep, Pass, KeepsInput, AtFile
  <2> QED BY <2>3, <2>4 DEF SubmitStep
<1>6. CASE Decline(r)
  <2> DEFINE more == reqs[r].skipped \union {[src |-> Source(r), file |-> File(r)]}
  <2> HIDE DEF more
  <2>q. PICK q : q = [reqs[r] EXCEPT !.todo = Rest(r), !.skipped = more]
    OBVIOUS
  <2>1. IsReq(q) /\ q.payload = reqs[r].payload /\ q.changes = reqs[r].changes /\ q.sources = reqs[r].sources
        /\ q.todo = Rest(r) /\ q.made = reqs[r].made /\ q.skipped = more /\ q.pc = reqs[r].pc
    BY <2>q, <1>0 DEF IsReq
  <2>2. SetReq(r, q)
    BY <2>q, <1>0, <1>6 DEF Decline, IsReq, more
  <2>3. ReqShape' /\ reqs'[r] = q /\ Others(r)
    BY <2>1, <2>2, Written DEF Others
  <2>4. DeclineStep(r)
    BY <1>6, <2>1, <2>3 DEF DeclineStep, Decline, KeepsInput, AtFile, more
  <2> QED BY <2>3, <2>4 DEF SubmitStep
<1>7. CASE Reject(r)
  BY <1>7, PcOnly DEF Reject, SubmitStep, EndStep, Final, AtFile
<1>8. CASE Accept(r)
  <2>q. PICK q : q = [reqs[r] EXCEPT !.pc = "copying", !.network = Stamped(r)]
    OBVIOUS
  <2>1. IsReq(q) /\ q.payload = reqs[r].payload /\ q.changes = reqs[r].changes /\ q.sources = reqs[r].sources
        /\ q.todo = reqs[r].todo /\ q.made = reqs[r].made /\ q.skipped = reqs[r].skipped
        /\ q.pc = "copying" /\ q.network = Stamped(r)
    BY <2>q, <1>0 DEF IsReq
  <2>2. SetReq(r, q)
    BY <2>q, <1>8 DEF Accept
  <2>3. ReqShape' /\ reqs'[r] = q /\ Others(r)
    BY <2>1, <2>2, Written DEF Others
  <2>4. Stamped(r) \in serving
    BY <1>8 DEF Accept, Plannable
  <2>5. AcceptStep(r)
    BY <1>8, <2>1, <2>3, <2>4 DEF AcceptStep, Accept, KeepsInput, KeepsWork
  <2> QED BY <2>3, <2>5 DEF SubmitStep
<1>9. CASE CopyTree(r)
  BY <1>9, PcOnly DEF CopyTree, SubmitStep, CopyStep, Goes
<1>10. CASE CreateRun(r)
  <2>1. CASE reqs[r].repo = None \/ Live(reqs[r].repo.id)
    BY <1>10, <2>1, PcOnly DEF CreateRun, SubmitStep, CreateStep, Goes, NewRun
  <2>2. CASE ~(reqs[r].repo = None \/ Live(reqs[r].repo.id))
    BY <1>10, <2>2, PcOnly DEF CreateRun, SubmitStep, EndStep, Final
  <2> QED BY <2>1, <2>2
<1>11. CASE Advanced(r)
  <2>q. PICK q : q = [reqs[r] EXCEPT !.pc = "files", !.todo = Rest(r), !.made = reqs[r].made + 1]
    OBVIOUS
  <2>1. IsReq(q) /\ q.payload = reqs[r].payload /\ q.changes = reqs[r].changes /\ q.sources = reqs[r].sources
        /\ q.todo = Rest(r) /\ q.made = reqs[r].made + 1 /\ q.skipped = reqs[r].skipped /\ q.pc = "files"
    BY <2>q, <1>0 DEF IsReq
  <2>2. SetReq(r, q)
    BY <2>q, <1>0, <1>11 DEF Advanced, IsReq
  <2>3. ReqShape' /\ reqs'[r] = q /\ Others(r)
    BY <2>1, <2>2, Written DEF Others
  <2>4. AdvanceStep(r)
    BY <1>11, <2>1, <2>3 DEF AdvanceStep, Advanced, KeepsInput, Goes
  <2> QED BY <2>3, <2>4 DEF SubmitStep
<1>12. CASE StepFails(r)
  BY <1>12, PcOnly DEF StepFails, SubmitStep, EndStep, Final
<1>13. CASE Finish(r)
  <2>1. PICK pc \in {"failed", "accepted"} : Answer(r, pc)
    BY <1>13 DEF Finish
  <2> QED BY <1>13, <2>1, PcOnly DEF Finish, SubmitStep, EndStep, Final
<1> QED BY <1>1, <1>2, <1>3, <1>4, <1>5, <1>6, <1>7, <1>8, <1>9, <1>10, <1>11, <1>12, <1>13 DEF Handle

LEMMA CrashSteps ==
    ASSUME ReqShape, Crash
    PROVE  CrashStep /\ ReqShape'
<1>1. reqs' = [r \in Request |->
                 IF reqs[r].pc \in Final \union {"new"} THEN reqs[r] ELSE [reqs[r] EXCEPT !.pc = "lost"]]
  BY DEF Crash
<1>2. ASSUME NEW r \in Request
      PROVE  /\ IsReq(reqs'[r]) /\ KeepsInput(r) /\ KeepsWork(r) /\ reqs'[r].network = reqs[r].network
             /\ \/ reqs'[r].pc = reqs[r].pc
                \/ reqs[r].pc \notin Final \union {"new"} /\ reqs'[r].pc = "lost"
  <2>1. IsReq(reqs[r])
    BY DEF ReqShape
  <2>2. CASE reqs[r].pc \in Final \union {"new"}
    BY <1>1, <2>1, <2>2 DEF KeepsInput, KeepsWork
  <2>3. CASE reqs[r].pc \notin Final \union {"new"}
    <3>1. reqs'[r] = [reqs[r] EXCEPT !.pc = "lost"]
      BY <1>1, <2>3
    <3> QED BY <2>1, <2>3, <3>1 DEF KeepsInput, KeepsWork, IsReq
  <2> QED BY <2>2, <2>3
<1>3. reqs' = [r \in Request |-> reqs'[r]]
  BY <1>1
<1> QED BY <1>2, <1>3 DEF ReqShape, CrashStep, Crash

(* Everything else leaves the submits alone, and, but for a deletion, the  *)
(* runs.                                                                   *)
LEMMA OtherSteps ==
    ASSUME Administer \/ ObjectsChange \/ RefreshObjects \/ PoolChanges
    PROVE  UNCHANGED <<reqs, trees>> /\ (UNCHANGED runs \/ DeleteStep)
<1>1. CASE \E u \in Url : Delete(u)
  <2>1. PICK u \in Url : Delete(u)
    BY <1>1
  <2> QED BY <2>1 DEF Delete, delete_repo, DeleteStep, Forget
<1> QED BY <1>1 DEF Administer, Register, SetNetwork, SetEnabled, Mint, Revoke,
                    ObjectsChange, RefreshObjects, PoolChanges

LEMMA HandleKeepsWorld ==
    ASSUME NEW r \in Request, Handle(r)
    PROVE  UNCHANGED <<registry, tokens, lastId, objects, cache, serving>>
<1>1. CASE Authenticate(r) \/ AuthenticateUnread(r)
  BY <1>1 DEF Authenticate, AuthenticateUnread, admin, world
<1>2. CASE Prepare(r) \/ MaterializeFails(r)
  BY <1>2 DEF Prepare, MaterializeFails, admin, world
<1>3. CASE Pass(r) \/ Decline(r) \/ Reject(r) \/ Accept(r)
  BY <1>3 DEF Pass, Decline, Reject, Accept, admin, world
<1>4. CASE CopyTree(r) \/ CreateRun(r) \/ Advanced(r) \/ StepFails(r) \/ Finish(r)
  BY <1>4 DEF CopyTree, CreateRun, Advanced, StepFails, Finish, admin, world
<1> QED BY <1>1, <1>2, <1>3, <1>4 DEF Handle

LEMMA Steps ==
    ASSUME ReqShape, [Next]_vars
    PROVE  /\ ReqShape'
           /\ \/ \E r \in Request : SubmitStep(r) /\ Handle(r)
              \/ CrashStep \/ DeleteStep
              \/ UNCHANGED <<reqs, trees, runs>>
<1>1. CASE \E r \in Request : Handle(r)
  BY <1>1, HandleSteps
<1>2. CASE Crash
  BY <1>2, CrashSteps
<1>3. CASE Administer \/ ObjectsChange \/ RefreshObjects \/ PoolChanges
  BY <1>3, OtherSteps DEF ReqShape, IsReq
<1>4. CASE UNCHANGED vars
  BY <1>4 DEF vars, ReqShape, IsReq
<1> QED BY <1>1, <1>2, <1>3, <1>4 DEF Next

LEMMA InitShape == Init => ReqShape /\ RunShape
<1> SUFFICES ASSUME Init PROVE ReqShape /\ RunShape
  OBVIOUS
<1>1. PICK s \in Scenarios : reqs = [o \in Request |-> NewRequest(s.payloads[o])]
  BY DEF Init
<1>2. ASSUME NEW p, NEW q, q = NewRequest(p) PROVE IsReq(q)
  BY <1>2 DEF NewRequest, IsReq
<1>3. \A r \in Request : IsReq(reqs[r])
  BY <1>1, <1>2
<1>4. reqs = [r \in Request |-> reqs[r]]
  BY <1>1
<1> QED BY <1>3, <1>4 DEF Init, ReqShape, RunShape

LEMMA ForgetShape ==
    ASSUME NEW x, IsRun(x), NEW id
    PROVE  /\ IsRun(Forget(x, id))
           /\ Forget(x, id).req = x.req /\ Forget(x, id).ws = x.ws /\ Forget(x, id).src = x.src
           /\ Forget(x, id).file = x.file /\ Forget(x, id).network = x.network
           /\ Forget(x, id).repo = IF x.repo = id THEN None ELSE x.repo
<1>1. CASE x.repo = id
  <2>1. PICK z : z = [x EXCEPT !.repo = None]
    OBVIOUS
  <2>2. IsRun(z) /\ z.req = x.req /\ z.ws = x.ws /\ z.src = x.src /\ z.file = x.file
        /\ z.network = x.network /\ z.repo = None
    BY <2>1 DEF IsRun
  <2> QED BY <1>1, <2>1, <2>2 DEF Forget
<1> QED BY <1>1 DEF Forget

LEMMA NewRunShape ==
    ASSUME NEW r
    PROVE  /\ IsRun(NewRun(r)) /\ NewRun(r).req = r /\ NewRun(r).ws = WorkspaceOf(r)
           /\ NewRun(r).src = Source(r) /\ NewRun(r).file = File(r).name
           /\ NewRun(r).network = reqs[r].network
           /\ NewRun(r).repo = IF reqs[r].repo = None THEN None ELSE reqs[r].repo.id
<1>1. PICK x : x = NewRun(r)
  OBVIOUS
<1>2. /\ IsRun(x) /\ x.req = r /\ x.ws = WorkspaceOf(r) /\ x.src = Source(r) /\ x.file = File(r).name
      /\ x.network = reqs[r].network
      /\ x.repo = IF reqs[r].repo = None THEN None ELSE reqs[r].repo.id
  BY <1>1 DEF NewRun, IsRun
<1> QED BY <1>1, <1>2

LEMMA NextShape ==
    ASSUME ReqShape, RunShape, [Next]_vars
    PROVE  ReqShape' /\ RunShape'
<1>1. CASE \E r \in Request : SubmitStep(r)
  <2>1. PICK r \in Request : SubmitStep(r)
    BY <1>1
  <2>2. runs' = runs \/ runs' = runs \union {NewRun(r)}
    BY <2>1 DEF SubmitStep, AuthStep, PrepStep, PassStep, DeclineStep, AcceptStep, CopyStep,
                CreateStep, AdvanceStep, EndStep
  <2> QED BY <2>2, Steps, NewRunShape DEF RunShape
<1>2. CASE DeleteStep
  BY <1>2, Steps, ForgetShape DEF RunShape, DeleteStep
<1>3. CASE CrashStep
  BY <1>3, Steps DEF CrashStep, RunShape
<1>4. CASE UNCHANGED <<reqs, trees, runs>>
  BY <1>4, Steps DEF RunShape
<1> QED BY <1>1, <1>2, <1>3, <1>4, Steps

-----------------------------------------------------------------------------
(* Inputs.  The sources of a submit come from one snapshot of the objects, *)
(* so no two of them are the same, and what is left to do is a part of     *)
(* what they find in the tree.                                             *)

DistinctSources(ss) ==
    /\ DOMAIN ss \subseteq Nat
    /\ \A i, j \in DOMAIN ss : ss[i] = ss[j] => i = j

SnapshotInv == DistinctObjects(objects) /\ DistinctObjects(cache.objects)

InputOf(q) ==
    /\ DistinctFiles(q.payload.files)
    /\ DistinctSources(q.sources)
    /\ q.todo \subseteq FilesOf(q.payload, q.sources)
    /\ q.pc \in {"copying", "creating", "advancing"} => q.todo # {}

InputInv == \A r \in Request : InputOf(reqs[r])

LEMMA EntryIsIn ==
    ASSUME NEW r, InputOf(reqs[r]), reqs[r].todo # {}
    PROVE  /\ Entry(r) \in reqs[r].todo
           /\ Entry(r) \in FilesOf(reqs[r].payload, reqs[r].sources)
           /\ Rest(r) \subseteq reqs[r].todo
<1>1. reqs[r].todo \in SUBSET (Nat \X Nat)
  BY DEF InputOf, DistinctFiles, DistinctSources, FilesOf
<1>2. Entry(r) \in reqs[r].todo
  BY <1>1, FirstIsIn DEF Entry
<1> QED BY <1>2 DEF Rest, InputOf

LEMMA SourcesDistinct ==
    ASSUME SnapshotInv, NEW p, NEW repo
    PROVE  DistinctSources(SourcesOf(p, repo))
<1> DEFINE matched == Matched(p, repo)
<1> DEFINE net == IF repo = None THEN None ELSE repo.network
<1>1. CASE matched = {}
  <2>1. PICK one : SourcesOf(p, repo) = <<one>>
    BY <1>1 DEF SourcesOf
  <2> QED BY <2>1 DEF DistinctSources
<1>2. CASE matched # {}
  <2>1. SourcesOf(p, repo) = [i \in matched |->
                [id |-> cache.objects[i].id, path |-> cache.objects[i].path,
                 network |-> Or(cache.objects[i].network, net)]]
    BY <1>2 DEF SourcesOf
  <2>2. matched \subseteq DOMAIN cache.objects
    BY DEF Matched
  <2> HIDE DEF matched, net
  <2> QED BY <2>1, <2>2 DEF DistinctSources, SnapshotInv, DistinctObjects
<1> QED BY <1>1, <1>2

LEMMA InitInput == Init => SnapshotInv /\ InputInv
<1> SUFFICES ASSUME Init PROVE SnapshotInv /\ InputInv
  OBVIOUS
<1>1. DistinctObjects(<<>>)
  BY DEF DistinctObjects
<1>2. SnapshotInv
  BY <1>1, InputAssumption DEF Init, SnapshotInv
<1>3. ASSUME NEW r \in Request PROVE InputOf(reqs[r])
  <2>1. PICK s \in Scenarios : reqs = [o \in Request |-> NewRequest(s.payloads[o])]
    BY DEF Init
  <2>2. reqs[r] = NewRequest(s.payloads[r])
    BY <2>1
  <2>3. reqs[r].payload = s.payloads[r] /\ reqs[r].sources = <<>> /\ reqs[r].todo = {} /\ reqs[r].pc = "new"
    BY <2>2 DEF NewRequest
  <2>4. DistinctSources(<<>>)
    BY DEF DistinctSources
  <2> QED BY <2>3, <2>4, InputAssumption DEF InputOf
<1> QED BY <1>2, <1>3 DEF InputInv

LEMMA NextSnapshot ==
    ASSUME SnapshotInv, [Next]_vars
    PROVE  SnapshotInv'
<1>0. DistinctObjects(<<>>)
  BY DEF DistinctObjects
<1>1. CASE \E r \in Request : Handle(r)
  BY <1>1, HandleKeepsWorld DEF SnapshotInv
<1>2. CASE Crash
  BY <1>0, <1>2 DEF Crash, SnapshotInv
<1>3. CASE Administer
  BY <1>3 DEF Administer, Register, SetNetwork, SetEnabled, Delete, Mint, Revoke, world, SnapshotInv
<1>4. CASE ObjectsChange \/ RefreshObjects \/ PoolChanges
  BY <1>4, InputAssumption DEF ObjectsChange, RefreshObjects, PoolChanges, SnapshotInv
<1>5. CASE UNCHANGED vars
  BY <1>5 DEF vars, SnapshotInv
<1> QED BY <1>1, <1>2, <1>3, <1>4, <1>5 DEF Next

LEMMA NextInput ==
    ASSUME ReqShape, SnapshotInv, InputInv, [Next]_vars
    PROVE  InputInv'
<1>1. CASE \E r \in Request : SubmitStep(r)
  <2>1. PICK r \in Request : SubmitStep(r)
    BY <1>1
  <2>2. InputOf(reqs[r]) /\ \A o \in Request : InputOf(reqs[o])
    BY DEF InputInv
  <2>3. InputOf(reqs'[r])
    <3>1. CASE AuthStep(r) \/ EndStep(r) \/ AcceptStep(r) \/ CopyStep(r) \/ CreateStep(r)
      BY <2>2, <3>1 DEF AuthStep, EndStep, AcceptStep, CopyStep, CreateStep, InputOf, KeepsInput, KeepsWork,
                        AtFile, Goes
    <3>2. CASE PrepStep(r)
      BY <2>2, <3>2, SourcesDistinct DEF PrepStep, InputOf, Goes
    <3>3. CASE PassStep(r) \/ DeclineStep(r) \/ AdvanceStep(r)
      BY <2>2, <3>3 DEF PassStep, DeclineStep, AdvanceStep, InputOf, KeepsInput, Rest, Goes
    <3> QED BY <2>1, <3>1, <3>2, <3>3 DEF SubmitStep
  <2>4. Others(r)
    BY <2>1 DEF SubmitStep, AuthStep, PrepStep, PassStep, DeclineStep, AcceptStep, CopyStep,
                CreateStep, AdvanceStep, EndStep
  <2> QED BY <2>2, <2>3, <2>4 DEF InputInv, Others
<1>2. CASE CrashStep
  BY <1>2 DEF CrashStep, InputInv, InputOf, KeepsInput, KeepsWork
<1>3. CASE UNCHANGED <<reqs, trees>>
  BY <1>3 DEF InputInv
<1> QED BY <1>1, <1>2, <1>3, Steps DEF DeleteStep
-----------------------------------------------------------------------------
(* The registry.  A row is rewritten under its own id or written under a   *)
(* fresh one, so ids stay apart whatever is deleted and registered again.  *)

RegistryOK ==
    /\ lastId \in Nat
    /\ registry \in [Url -> Registration \union {None}]
    /\ \A u \in Url : registry[u] # None => registry[u].url = u /\ registry[u].id \in 1 .. lastId

(* No two registrations share an id: the one a token or a run names is the *)
(* only one it can mean.                                                   *)
OneRowPerId ==
    \A u, v \in Url : registry[u] # None /\ registry[v] # None /\ registry[u].id = registry[v].id => u = v

Writes(u, row) ==
    /\ registry' = [registry EXCEPT ![u] = row]
    /\ row \in Registration /\ row.url = u
    /\ \/ registry[u] # None /\ row.id = registry[u].id /\ lastId' = lastId
       \/ registry[u] = None /\ row.id = lastId + 1 /\ lastId' = lastId + 1

Drops(u) == registry[u] # None /\ registry' = [registry EXCEPT ![u] = None] /\ lastId' = lastId

LEMMA AdminWrites ==
    ASSUME RegistryOK, Administer
    PROVE  \/ UNCHANGED <<registry, lastId, runs>>
           \/ UNCHANGED runs /\ \E u \in Url, row \in Registration : Writes(u, row)
           \/ \E u \in Url : Delete(u) /\ Drops(u)
<1>1. CASE \E u \in Url, n \in Network \union {None}, p \in {None, DefaultPath} : Register(u, n, p)
  <2>1. PICK u \in Url, n \in Network \union {None}, p \in {None, DefaultPath} : Register(u, n, p)
    BY <1>1
  <2> DEFINE again == registry[u] # None
  <2>0. again => registry[u] \in Registration
    BY DEF RegistryOK
  <2>2. PICK e \in BOOLEAN : e = IF again THEN registry[u].enabled ELSE TRUE
    <3>1. CASE again
      <4>1. registry[u].enabled \in BOOLEAN
        BY <2>0, <3>1 DEF Registration
      <4> QED BY <3>1, <4>1
    <3> QED BY <3>1
  <2>3. PICK id : id = IF again THEN registry[u].id ELSE lastId + 1
    OBVIOUS
  <2>4. id \in Nat
    BY <2>0, <2>3 DEF RegistryOK, Registration
  <2>5. PICK row : row = [id |-> id, url |-> u, network |-> n, path |-> p, enabled |-> e]
    OBVIOUS
  <2>6. row \in Registration /\ row.url = u /\ row.id = id
    BY <2>4, <2>5 DEF Registration
  <2>7. registry' = [registry EXCEPT ![u] = row]
    BY <2>1, <2>2, <2>3, <2>5 DEF Register, register_repo
  <2>8. lastId' = IF again THEN lastId ELSE lastId + 1
    BY <2>1 DEF Register, register_repo
  <2>9. Writes(u, row)
    BY <2>3, <2>6, <2>7, <2>8 DEF Writes
  <2> QED BY <2>1, <2>6, <2>9 DEF Register
<1>2. CASE \E u \in Url, n \in Network \union {None} : SetNetwork(u, n)
  <2>1. PICK u \in Url, n \in Network \union {None} : SetNetwork(u, n)
    BY <1>2
  <2>2. registry[u] \in Registration /\ registry[u] # None /\ registry[u].url = u
    BY <2>1 DEF RegistryOK, SetNetwork
  <2>3. PICK row : row = [registry[u] EXCEPT !.network = n]
    OBVIOUS
  <2>4. row \in Registration /\ row.id = registry[u].id /\ row.url = u
    BY <2>2, <2>3 DEF Registration
  <2>5. registry' = [registry EXCEPT ![u] = row] /\ lastId' = lastId /\ UNCHANGED runs
    BY <2>1, <2>3 DEF SetNetwork
  <2> QED BY <2>2, <2>4, <2>5 DEF Writes
<1>3. CASE \E u \in Url, e \in BOOLEAN : SetEnabled(u, e)
  <2>1. PICK u \in Url, e \in BOOLEAN : SetEnabled(u, e)
    BY <1>3
  <2>2. registry[u] \in Registration /\ registry[u] # None /\ registry[u].url = u
    BY <2>1 DEF RegistryOK, SetEnabled
  <2>3. PICK row : row = [registry[u] EXCEPT !.enabled = e]
    OBVIOUS
  <2>4. row \in Registration /\ row.id = registry[u].id /\ row.url = u
    BY <2>2, <2>3 DEF Registration
  <2>5. registry' = [registry EXCEPT ![u] = row] /\ lastId' = lastId /\ UNCHANGED runs
    BY <2>1, <2>3 DEF SetEnabled
  <2> QED BY <2>2, <2>4, <2>5 DEF Writes
<1>4. CASE \E u \in Url : Delete(u)
  BY <1>4 DEF Delete, delete_repo, Drops
<1>5. CASE (\E u \in Url, t \in Token : Mint(u, t)) \/ \E t \in Token : Revoke(t)
  BY <1>5 DEF Mint, Revoke
<1> QED BY <1>1, <1>2, <1>3, <1>4, <1>5 DEF Administer

LEMMA RegistryInit == Init => RegistryOK /\ OneRowPerId /\ serving \subseteq Network
<1>1. Cardinality(Url) \in Nat
  BY RegistryAssumption, FS_CardinalityType
<1> QED BY <1>1, RegistryAssumption DEF Init, RegistryOK, OneRowPerId

LEMMA RegistryNext ==
    ASSUME RegistryOK, OneRowPerId, serving \subseteq Network, [Next]_vars
    PROVE  RegistryOK' /\ OneRowPerId' /\ serving' \subseteq Network
<1>1. CASE \E r \in Request : Handle(r)
  BY <1>1, HandleKeepsWorld DEF RegistryOK, OneRowPerId
<1>2. CASE Administer
  <2>0. serving' = serving
    BY <1>2 DEF Administer, Register, SetNetwork, SetEnabled, Delete, Mint, Revoke, world
  <2>1. CASE \E u \in Url, row \in Registration : Writes(u, row)
    <3>1. PICK u \in Url, row \in Registration : Writes(u, row)
      BY <2>1
    <3>2. lastId' \in Nat /\ lastId <= lastId' /\ row.id \in 1 .. lastId'
      BY <3>1 DEF Writes, RegistryOK
    <3>3. RegistryOK'
      BY <3>1, <3>2 DEF Writes, RegistryOK
    <3>4. ASSUME NEW v \in Url, v # u, registry'[v] # None PROVE registry'[v].id # row.id
      <4>1. registry'[v] = registry[v] /\ registry[v].id \in 1 .. lastId
        BY <3>1, <3>4 DEF Writes, RegistryOK
      <4> QED BY <3>1, <3>4, <4>1 DEF Writes, RegistryOK, OneRowPerId
    <3>5. registry'[u] = row /\ \A v \in Url : v # u => registry'[v] = registry[v]
      BY <3>1 DEF Writes, RegistryOK
    <3>6. OneRowPerId'
      BY <3>4, <3>5 DEF OneRowPerId
    <3> QED BY <2>0, <3>3, <3>6
  <2>2. CASE \E u \in Url : Drops(u)
    BY <2>0, <2>2 DEF Drops, RegistryOK, OneRowPerId
  <2>3. CASE UNCHANGED <<registry, lastId>>
    BY <2>0, <2>3 DEF RegistryOK, OneRowPerId
  <2> QED BY <1>2, <2>1, <2>2, <2>3, AdminWrites
<1>3. CASE ObjectsChange \/ RefreshObjects \/ Crash
  BY <1>3 DEF ObjectsChange, RefreshObjects, Crash, admin, RegistryOK, OneRowPerId
<1>4. CASE PoolChanges
  BY <1>4 DEF PoolChanges, admin, RegistryOK, OneRowPerId
<1>5. CASE UNCHANGED vars
  BY <1>5 DEF vars, RegistryOK, OneRowPerId
<1> QED BY <1>1, <1>2, <1>3, <1>4, <1>5 DEF Next

(* What a run names is there: a registration is only ever missing once its *)
(* deletion has made the runs forget it, and create_run refuses one that   *)
(* went away while its submit was under way.                               *)
LEMMA DanglingNext ==
    ASSUME RegistryOK, ReqShape, RunShape, NoDanglingRun, [Next]_vars
    PROVE  NoDanglingRun'
<1> USE DEF NoDanglingRun
<1>0. ASSUME UNCHANGED registry, NEW id PROVE Live(id)' <=> Live(id)
  BY <1>0 DEF Live, Rows
<1>1. CASE \E r \in Request : SubmitStep(r) /\ Handle(r)
  <2>1. PICK r \in Request : SubmitStep(r) /\ Handle(r)
    BY <1>1
  <2>2. UNCHANGED registry
    BY <2>1, HandleKeepsWorld
  <2>3. runs' = runs \/ CreateStep(r)
    BY <2>1 DEF SubmitStep, AuthStep, PrepStep, PassStep, DeclineStep, AcceptStep, CopyStep,
                AdvanceStep, EndStep
  <2>4. CASE CreateStep(r)
    <3>1. NewRun(r).repo = None \/ Live(NewRun(r).repo)
      BY <2>4, NewRunShape DEF CreateStep
    <3> QED BY <1>0, <2>2, <2>4, <3>1 DEF CreateStep
  <2> QED BY <1>0, <2>2, <2>3, <2>4
<1>2. CASE Administer
  <2>1. CASE UNCHANGED runs /\ \E u \in Url, row \in Registration : Writes(u, row)
    <3>1. PICK u \in Url, row \in Registration : Writes(u, row)
      BY <2>1
    <3>2. row # None
      BY RegistryAssumption
    <3>3. ASSUME NEW id, Live(id) PROVE Live(id)'
      <4>1. PICK v \in Url : registry[v] # None /\ registry[v].id = id
        BY <3>3 DEF Live, Rows
      <4>2. registry'[v] # None /\ registry'[v].id = id
        BY <3>1, <3>2, <4>1 DEF Writes, RegistryOK
      <4> QED BY <4>2 DEF Live, Rows
    <3> QED BY <2>1, <3>3
  <2>2. CASE \E u \in Url : Delete(u) /\ Drops(u)
    <3>1. PICK u \in Url : Delete(u) /\ Drops(u)
      BY <2>2
    <3>2. runs' = {Forget(x, registry[u].id) : x \in runs}
      BY <3>1 DEF Delete, delete_repo, Forget
    <3>3. ASSUME NEW y \in runs' PROVE y.repo = None \/ Live(y.repo)'
      <4>0. PICK x \in runs : y = Forget(x, registry[u].id)
        BY <3>2
      <4>1. IsRun(x)
        BY DEF RunShape
      <4>2. CASE x.repo \notin {None, registry[u].id}
        <5>1. PICK v \in Url : registry[v] # None /\ registry[v].id = x.repo
          BY <4>2 DEF Live, Rows
        <5>2. registry'[v] = registry[v]
          BY <3>1, <4>2, <5>1 DEF Drops, RegistryOK
        <5>3. Live(x.repo)'
          BY <5>1, <5>2 DEF Live, Rows
        <5>4. y.repo = x.repo
          BY <4>0, <4>1, <4>2, ForgetShape
        <5> QED BY <5>3, <5>4
      <4> QED BY <4>0, <4>1, <4>2, ForgetShape
    <3> QED BY <3>3
  <2> QED BY <1>0, <1>2, <2>1, <2>2, AdminWrites
<1>3. CASE ObjectsChange \/ RefreshObjects \/ PoolChanges \/ Crash
  BY <1>0, <1>3 DEF ObjectsChange, RefreshObjects, PoolChanges, Crash, admin
<1>4. CASE UNCHANGED vars
  BY <1>0, <1>4 DEF vars
<1> QED BY <1>1, <1>2, <1>3, <1>4, HandleSteps DEF Next
-----------------------------------------------------------------------------
(* A submit's own work, and the trees and runs it leaves.                  *)

WorkOf(q) ==
    /\ q.pc \in Final \union {"new", "authenticated", "files", "copying", "creating", "advancing"}
    /\ q.made \in Nat
    /\ q.pc \in {"copying", "creating"} => q.network \in Network

WorkOK ==
    /\ \A r \in Request : WorkOf(reqs[r])
    /\ trees \subseteq Request \X Nat
    /\ \A x \in runs : x.req \in Request /\ x.ws \in Request \X Nat /\ x.network \in Network

(* The number of runs a submit has reported is the number of its next      *)
(* workspace: only the run it is about to report has that one already.     *)
WorkspaceInv(x, q) ==
    /\ x.ws[1] = x.req /\ x.ws[2] <= q.made
    /\ x.ws[2] = q.made => q.pc \in Final \union {"advancing"}

TreeInv ==
    /\ \A x \in runs : WorkspaceInv(x, reqs[x.req])
    /\ \A r \in Request : reqs[r].pc = "creating" => <<r, reqs[r].made>> \in trees
    /\ OwnTree

(* What a submit goes by is the truth or no answer.                        *)
Truth(q) == [known |-> TRUE, paths |-> q.payload.diff]
ChangesInv == \A r \in Request : reqs[r].changes \in {Unknown, Truth(reqs[r])}

(* The accounts of one submit q = reqs[r] among the runs R: a file still to*)
(* do is neither declined nor run, except the one whose run is being       *)
(* advanced; a file that is done is one of the two.                        *)
Ran(R, r, s, name) == \E x \in R : x.req = r /\ x.src = s /\ x.file = name

AccountOf(q, r, R) ==
    \A e \in FilesOf(q.payload, q.sources) :
        LET s == q.sources[e[1]]
            f == q.payload.files[e[2]]
            declined == [src |-> s, file |-> f] \in q.skipped
        IN  /\ e \in q.todo => ~declined
            /\ e \in q.todo /\ Ran(R, r, s, f.name) =>
                   e = First(q.todo) /\ q.pc \in {"advancing", "failed", "lost"}
            /\ e \in q.todo /\ e = First(q.todo) /\ q.pc = "advancing" => Ran(R, r, s, f.name)
            /\ e \notin q.todo /\ f.on => (declined <=> ~Ran(R, r, s, f.name))

EdgesOf(q, r, R) ==
    /\ q.pc \in {"new", "authenticated"} => q.skipped = {} /\ \A x \in R : x.req # r
    /\ q.pc = "accepted" => q.todo = {}

AccountInv ==
    /\ \A r \in Request : AccountOf(reqs[r], r, runs) /\ EdgesOf(reqs[r], r, runs)
    /\ \A x, y \in runs : x.req = y.req /\ x.src = y.src /\ x.file = y.file => x = y

LEMMA WorkInit == Init => WorkOK /\ TreeInv /\ ChangesInv /\ NeverDeclinedWrongly /\ NoDanglingRun
<1> SUFFICES ASSUME Init
             PROVE  WorkOK /\ TreeInv /\ ChangesInv /\ NeverDeclinedWrongly /\ NoDanglingRun
  OBVIOUS
<1>1. PICK s \in Scenarios : reqs = [o \in Request |-> NewRequest(s.payloads[o])]
  BY DEF Init
<1>2. runs = {} /\ trees = {}
  BY DEF Init
<1>3. ASSUME NEW r \in Request
      PROVE  reqs[r].pc = "new" /\ reqs[r].made = 0 /\ reqs[r].changes = Unknown /\ reqs[r].skipped = {}
  BY <1>1 DEF NewRequest
<1> QED BY <1>2, <1>3 DEF WorkOK, WorkOf, TreeInv, OwnTree, ChangesInv,
                          NeverDeclinedWrongly, NoDanglingRun

LEMMA WorkNext ==
    ASSUME ReqShape, RunShape, WorkOK, serving \subseteq Network, [Next]_vars
    PROVE  WorkOK'
<1>1. CASE \E r \in Request : SubmitStep(r) /\ Handle(r)
  <2>1. PICK r \in Request : SubmitStep(r)
    BY <1>1
  <2>2. WorkOf(reqs[r]) /\ \A o \in Request : WorkOf(reqs[o])
    BY DEF WorkOK
  <2>3. Others(r)
    BY <2>1 DEF SubmitStep, AuthStep, PrepStep, PassStep, DeclineStep, AcceptStep, CopyStep,
                CreateStep, AdvanceStep, EndStep
  <2>4. WorkOf(reqs'[r])
    <3>1. CASE AuthStep(r) \/ PrepStep(r) \/ EndStep(r)
      BY <2>2, <3>1 DEF AuthStep, PrepStep, EndStep, WorkOf, KeepsWork, Goes, Final
    <3>2. CASE PassStep(r) \/ DeclineStep(r) \/ AdvanceStep(r)
      BY <2>2, <3>2 DEF PassStep, DeclineStep, AdvanceStep, WorkOf, Goes
    <3>3. CASE AcceptStep(r) \/ CopyStep(r) \/ CreateStep(r)
      BY <2>2, <3>3 DEF AcceptStep, CopyStep, CreateStep, WorkOf, KeepsWork, Goes
    <3> QED BY <2>1, <3>1, <3>2, <3>3 DEF SubmitStep
  <2>5. trees' \subseteq Request \X Nat
    <3>1. <<r, 0>> \in Request \X Nat /\ WorkspaceOf(r) \in Request \X Nat
      BY <2>2 DEF WorkOf, WorkspaceOf
    <3>2. trees' \in {trees, trees \union {<<r, 0>>}, trees \union {WorkspaceOf(r)}}
      BY <2>1 DEF SubmitStep, AuthStep, PrepStep, PassStep, DeclineStep, AcceptStep, CopyStep,
                  CreateStep, AdvanceStep, EndStep
    <3> QED BY <3>1, <3>2 DEF WorkOK
  <2>6. CASE CreateStep(r)
    <3>1. WorkspaceOf(r) \in Request \X Nat /\ reqs[r].network \in Network
      BY <2>2, <2>6 DEF WorkOf, WorkspaceOf, CreateStep, Goes
    <3>2. \A x \in runs' : x.req \in Request /\ x.ws \in Request \X Nat /\ x.network \in Network
      BY <2>6, <3>1, NewRunShape DEF CreateStep, WorkOK
    <3> QED BY <2>2, <2>3, <2>4, <2>5, <3>2 DEF WorkOK, Others
  <2>7. CASE runs' = runs
    BY <2>2, <2>3, <2>4, <2>5, <2>7 DEF WorkOK, Others
  <2> QED BY <2>1, <2>6, <2>7 DEF SubmitStep, AuthStep, PrepStep, PassStep, DeclineStep, AcceptStep,
                                  CopyStep, AdvanceStep, EndStep
<1>2. CASE CrashStep
  <2>1. ASSUME NEW r \in Request PROVE WorkOf(reqs'[r])
    BY <1>2 DEF CrashStep, WorkOK, WorkOf, KeepsWork, Final
  <2> QED BY <1>2, <2>1 DEF CrashStep, WorkOK
<1>3. CASE DeleteStep
  <2>1. PICK id : runs' = {Forget(x, id) : x \in runs}
    BY <1>3 DEF DeleteStep
  <2>2. \A x \in runs' : x.req \in Request /\ x.ws \in Request \X Nat /\ x.network \in Network
    BY <2>1, ForgetShape DEF RunShape, WorkOK
  <2> QED BY <1>3, <2>2 DEF DeleteStep, WorkOK
<1>4. CASE UNCHANGED <<reqs, trees, runs>>
  BY <1>4 DEF WorkOK
<1> QED BY <1>1, <1>2, <1>3, <1>4, Steps

LEMMA TreeNext ==
    ASSUME ReqShape, RunShape, WorkOK, TreeInv, [Next]_vars
    PROVE  TreeInv'
<1>0. \A r \in Request : reqs[r].made \in Nat
  BY DEF WorkOK, WorkOf
<1>00. \A x \in runs : x.req \in Request /\ x.ws \in Request \X Nat
  BY DEF WorkOK
<1>1. CASE \E r \in Request : SubmitStep(r) /\ Handle(r)
  <2>1. PICK r \in Request : SubmitStep(r)
    BY <1>1
  <2>2. Others(r)
    BY <2>1 DEF SubmitStep, AuthStep, PrepStep, PassStep, DeclineStep, AcceptStep, CopyStep,
                CreateStep, AdvanceStep, EndStep
  <2>3. \A x \in runs : x.ws \in trees
    BY DEF TreeInv, OwnTree
  <2>4. \A x \in runs : WorkspaceInv(x, reqs[x.req])
    BY DEF TreeInv
  <2>5. CASE CreateStep(r)
    <3>1. <<r, reqs[r].made>> \in trees /\ WorkspaceOf(r) = <<r, reqs[r].made>>
      BY <2>5 DEF CreateStep, Goes, TreeInv, WorkspaceOf
    <3>2. \A x \in runs : x.ws # WorkspaceOf(r)
      BY <1>0, <1>00, <2>4, <2>5, <3>1 DEF CreateStep, Goes, WorkspaceInv, Final
    <3>3. OwnTree'
      BY <2>5, <3>1, <3>2, NewRunShape DEF CreateStep, TreeInv, OwnTree
    <3>4. ASSUME NEW x \in runs' PROVE WorkspaceInv(x, reqs'[x.req])
      <4>1. CASE x = NewRun(r)
        <5>1. x.req = r /\ x.ws = <<r, reqs[r].made>>
          BY <3>1, <4>1, NewRunShape
        <5> QED BY <1>0, <2>5, <5>1 DEF CreateStep, Goes, KeepsWork, WorkspaceInv
      <4>2. CASE x \in runs /\ x.req = r
        BY <1>0, <1>00, <2>4, <2>5, <4>2 DEF CreateStep, Goes, KeepsWork, WorkspaceInv
      <4>3. CASE x \in runs /\ x.req # r
        BY <1>00, <2>2, <2>4, <4>3 DEF Others
      <4> QED BY <2>5, <4>1, <4>2, <4>3 DEF CreateStep
    <3>5. \A o \in Request : reqs'[o].pc = "creating" => <<o, reqs'[o].made>> \in trees'
      BY <2>2, <2>5 DEF CreateStep, Goes, Others, TreeInv
    <3> QED BY <3>3, <3>4, <3>5 DEF TreeInv
  <2>6. CASE ~CreateStep(r)
    <3>1. runs' = runs /\ trees \subseteq trees'
      BY <2>1, <2>6 DEF SubmitStep, AuthStep, PrepStep, PassStep, DeclineStep, AcceptStep, CopyStep,
                        AdvanceStep, EndStep
    <3>2. OwnTree'
      BY <3>1 DEF TreeInv, OwnTree
    <3>3. ASSUME NEW x \in runs PROVE WorkspaceInv(x, reqs'[x.req])
      <4>1. CASE x.req # r
        BY <1>00, <2>2, <2>4, <4>1 DEF Others
      <4>2. CASE x.req = r
        <5>1. WorkspaceInv(x, reqs[r]) /\ x.ws[2] \in Nat /\ reqs[r].made \in Nat
          BY <1>0, <1>00, <2>4, <4>2
        <5>2. CASE AdvanceStep(r)
          BY <4>2, <5>1, <5>2 DEF AdvanceStep, WorkspaceInv
        <5>3. CASE AuthStep(r) \/ PrepStep(r) \/ PassStep(r) \/ DeclineStep(r)
          BY <4>2, <5>1, <5>3 DEF AuthStep, PrepStep, PassStep, DeclineStep, Goes, KeepsWork, AtFile,
                                  WorkspaceInv, Final
        <5>4. CASE AcceptStep(r) \/ CopyStep(r) \/ EndStep(r)
          BY <4>2, <5>1, <5>4 DEF AcceptStep, CopyStep, EndStep, Goes, KeepsWork, AtFile, WorkspaceInv, Final
        <5> QED BY <2>1, <2>6, <5>2, <5>3, <5>4 DEF SubmitStep
      <4> QED BY <4>1, <4>2
    <3>4. \A o \in Request : reqs'[o].pc = "creating" => <<o, reqs'[o].made>> \in trees'
      <4>1. reqs'[r].pc = "creating" => CopyStep(r)
        BY <2>1, <2>6 DEF SubmitStep, AuthStep, PrepStep, PassStep, DeclineStep, AcceptStep,
                          AdvanceStep, EndStep, Goes
      <4>2. CopyStep(r) => <<r, reqs'[r].made>> \in trees'
        BY DEF CopyStep, KeepsWork, WorkspaceOf
      <4> QED BY <2>2, <3>1, <4>1, <4>2 DEF Others, TreeInv
    <3> QED BY <3>1, <3>2, <3>3, <3>4 DEF TreeInv
  <2> QED BY <2>5, <2>6
<1>2. CASE CrashStep
  <2>1. ASSUME NEW x \in runs PROVE WorkspaceInv(x, reqs'[x.req])
    <3>1. x.req \in Request /\ WorkspaceInv(x, reqs[x.req])
      BY <1>00 DEF TreeInv
    <3> QED BY <1>2, <3>1 DEF CrashStep, KeepsWork, WorkspaceInv, Final
  <2>2. \A r \in Request : reqs'[r].pc = "creating" => <<r, reqs'[r].made>> \in trees'
    BY <1>2 DEF CrashStep, KeepsWork, TreeInv
  <2>3. OwnTree'
    BY <1>2 DEF CrashStep, TreeInv, OwnTree
  <2> QED BY <1>2, <2>1, <2>2, <2>3 DEF CrashStep, TreeInv
<1>3. CASE DeleteStep
  <2>1. PICK id : runs' = {Forget(x, id) : x \in runs}
    BY <1>3 DEF DeleteStep
  <2>2. \A x \in runs : Forget(x, id).ws = x.ws /\ Forget(x, id).req = x.req
    BY ForgetShape DEF RunShape
  <2>3. reqs' = reqs /\ trees' = trees
    BY <1>3 DEF DeleteStep
  <2>4. OwnTree'
    BY <2>1, <2>2, <2>3 DEF TreeInv, OwnTree
  <2>5. \A x \in runs' : WorkspaceInv(x, reqs'[x.req])
    BY <2>1, <2>2, <2>3 DEF TreeInv, WorkspaceInv
  <2> QED BY <2>3, <2>4, <2>5 DEF TreeInv
<1>4. CASE UNCHANGED <<reqs, trees, runs>>
  BY <1>4 DEF TreeInv, OwnTree
<1> QED BY <1>1, <1>2, <1>3, <1>4, Steps

(* Not knowing what changed only ever admits more.                         *)
LEMMA UnknownAdmitsMore ==
    ASSUME NEW f, NEW branch, NEW changes, ~Admits(f, branch, Unknown)
    PROVE  ~Admits(f, branch, changes)
<1>1. ~Unknown.known
  BY DEF Unknown
<1> QED BY <1>1 DEF Admits, MatchesAny, AllMatch

LEMMA SkippedNext ==
    ASSUME ReqShape, ChangesInv, NeverDeclinedWrongly, [Next]_vars
    PROVE  ChangesInv' /\ NeverDeclinedWrongly'
<1> DEFINE Honest(q) ==
      /\ q.changes \in {Unknown, Truth(q)}
      /\ \A d \in q.skipped : ~Admits(d.file.wf.filter, q.payload.branch, Truth(q))
<1>0. \A r \in Request : Honest(reqs[r])
  BY DEF ChangesInv, NeverDeclinedWrongly, Truth
<1>00. SUFFICES \A r \in Request : Honest(reqs'[r])
  BY DEF ChangesInv, NeverDeclinedWrongly, Truth
<1>1. CASE \E r \in Request : SubmitStep(r) /\ Handle(r)
  <2>1. PICK r \in Request : SubmitStep(r)
    BY <1>1
  <2>2. Others(r)
    BY <2>1 DEF SubmitStep, AuthStep, PrepStep, PassStep, DeclineStep, AcceptStep, CopyStep,
                CreateStep, AdvanceStep, EndStep
  <2>3. reqs'[r].payload = reqs[r].payload /\ Truth(reqs'[r]) = Truth(reqs[r])
    BY <2>1 DEF SubmitStep, AuthStep, PrepStep, PassStep, DeclineStep, AcceptStep, CopyStep,
                CreateStep, AdvanceStep, EndStep, KeepsInput, Truth
  <2>4. Honest(reqs'[r])
    <3>1. CASE PrepStep(r)
      <4>1. ChangedPaths(reqs[r].payload) \in {Unknown, Truth(reqs[r])}
        BY DEF ChangedPaths, Known, Truth
      <4> QED BY <1>0, <2>3, <3>1, <4>1 DEF PrepStep
    <3>2. CASE DeclineStep(r)
      <4>1. ~Admits(File(r).wf.filter, reqs[r].payload.branch, Truth(reqs[r]))
        BY <1>0, <3>2, UnknownAdmitsMore DEF DeclineStep, Admitted
      <4>2. PICK d : d = [src |-> Source(r), file |-> File(r)]
        OBVIOUS
      <4>3. d.file = File(r)
        BY <4>2
      <4> QED BY <1>0, <2>3, <3>2, <4>1, <4>2, <4>3 DEF DeclineStep, KeepsInput
    <3>3. CASE reqs'[r].skipped = reqs[r].skipped /\ reqs'[r].changes = reqs[r].changes
      BY <1>0, <2>3, <3>3
    <3> QED BY <2>1, <3>1, <3>2, <3>3 DEF SubmitStep, AuthStep, PassStep, AcceptStep, CopyStep,
                CreateStep, AdvanceStep, EndStep, KeepsInput, KeepsWork
  <2> QED BY <1>0, <2>2, <2>4 DEF Others
<1>2. CASE CrashStep
  BY <1>0, <1>2 DEF CrashStep, KeepsInput, KeepsWork, Truth
<1>3. CASE reqs' = reqs
  BY <1>0, <1>3
<1> QED BY <1>1, <1>2, <1>3, Steps DEF DeleteStep
-----------------------------------------------------------------------------
(* Accounts.                                                               *)

(* Two entries of a submit are told apart by their source and file name.   *)
LEMMA EntriesDistinct ==
    ASSUME NEW q, InputOf(q),
           NEW d \in FilesOf(q.payload, q.sources), NEW e \in FilesOf(q.payload, q.sources),
           q.sources[d[1]] = q.sources[e[1]],
           q.payload.files[d[2]].name = q.payload.files[e[2]].name
    PROVE  d = e
<1>1. d \in (DOMAIN q.sources) \X (DOMAIN q.payload.files) /\ e \in (DOMAIN q.sources) \X (DOMAIN q.payload.files)
  BY DEF FilesOf
<1>2. d[1] = e[1]
  BY <1>1 DEF InputOf, DistinctSources
<1>3. q.payload.files[d[2]].dir = q.payload.files[e[2]].dir
  BY DEF FilesOf
<1>4. d[2] = e[2]
  BY <1>1, <1>3 DEF InputOf, DistinctFiles
<1> QED BY <1>1, <1>2, <1>4

(* The parts of a request the accounts are about.                          *)
SameAccount(p, q) ==
    p.payload = q.payload /\ p.sources = q.sources /\ p.todo = q.todo /\ p.skipped = q.skipped

LEMMA AccountFrame ==
    ASSUME NEW p, NEW q, NEW r, NEW R, NEW S, AccountOf(p, r, R), SameAccount(p, q),
           \A s, n : Ran(S, r, s, n) <=> Ran(R, r, s, n),
           p.pc # "advancing" => q.pc # "advancing",
           p.pc \in {"advancing", "failed", "lost"} => q.pc \in {"advancing", "failed", "lost"}
    PROVE  AccountOf(q, r, S)
BY DEF AccountOf, SameAccount

LEMMA AccountInit == Init => AccountInv
<1> SUFFICES ASSUME Init PROVE AccountInv
  OBVIOUS
<1>1. PICK s \in Scenarios : reqs = [o \in Request |-> NewRequest(s.payloads[o])]
  BY DEF Init
<1>2. runs = {}
  BY DEF Init
<1>3. ASSUME NEW r \in Request PROVE AccountOf(reqs[r], r, runs) /\ EdgesOf(reqs[r], r, runs)
  <2>1. reqs[r].pc = "new" /\ reqs[r].sources = <<>> /\ reqs[r].skipped = {} /\ reqs[r].todo = {}
    BY <1>1 DEF NewRequest
  <2>2. FilesOf(reqs[r].payload, reqs[r].sources) = {}
    BY <2>1 DEF FilesOf
  <2> QED BY <1>2, <2>1, <2>2 DEF AccountOf, EdgesOf
<1> QED BY <1>2, <1>3 DEF AccountInv

(* Nothing but the step itself changes what is known of a submit.          *)
LEMMA AccountStep ==
    ASSUME InputInv, AccountInv, NEW r \in Request, SubmitStep(r)
    PROVE  AccountOf(reqs'[r], r, runs')
<1>0. InputOf(reqs[r]) /\ AccountOf(reqs[r], r, runs) /\ EdgesOf(reqs[r], r, runs)
  BY DEF InputInv, AccountInv
<1>1. CASE AuthStep(r) \/ AcceptStep(r) \/ CopyStep(r) \/ EndStep(r)
  <2>1. SameAccount(reqs[r], reqs'[r]) /\ runs' = runs
    BY <1>1 DEF AuthStep, AcceptStep, CopyStep, EndStep, KeepsInput, KeepsWork, SameAccount
  <2>2. reqs'[r].pc # "advancing"
    BY <1>1 DEF AuthStep, AcceptStep, CopyStep, EndStep, Goes
  <2>3. reqs[r].pc \in {"advancing", "failed", "lost"} => reqs'[r].pc \in {"advancing", "failed", "lost"}
    BY <1>1 DEF AuthStep, AcceptStep, CopyStep, EndStep, Goes, AtFile, Final
  <2> HIDE DEF SameAccount
  <2> QED BY <1>0, <2>1, <2>2, <2>3, AccountFrame
<1>2. CASE PrepStep(r)
  <2>1. reqs'[r].todo = FilesOf(reqs'[r].payload, reqs'[r].sources) /\ reqs'[r].skipped = {}
        /\ runs' = runs /\ reqs'[r].pc = "files"
    BY <1>0, <1>2 DEF PrepStep, Goes, EdgesOf
  <2>2. \A s, n : ~Ran(runs, r, s, n)
    BY <1>0, <1>2 DEF PrepStep, Goes, EdgesOf, Ran
  <2> QED BY <2>1, <2>2 DEF AccountOf
<1> DEFINE e0 == Entry(r)
<1> DEFINE All == FilesOf(reqs[r].payload, reqs[r].sources)
<1>3. ASSUME reqs[r].todo # {}
      PROVE  e0 \in All /\ e0 \in reqs[r].todo /\ e0 = First(reqs[r].todo)
  BY <1>0, <1>3, EntryIsIn DEF Entry
<1>4. CASE PassStep(r)
  <2>1. reqs[r].todo # {} /\ reqs[r].pc = "files" /\ ~File(r).on
    BY <1>4 DEF PassStep, AtFile
  <2>2. reqs'[r].todo = reqs[r].todo \ {e0} /\ reqs'[r].skipped = reqs[r].skipped /\ runs' = runs
        /\ reqs'[r].pc = "files" /\ reqs'[r].payload = reqs[r].payload /\ reqs'[r].sources = reqs[r].sources
    BY <1>4 DEF PassStep, KeepsInput, Rest
  <2>3. ~reqs[r].payload.files[e0[2]].on
    BY <2>1 DEF File
  <2> HIDE DEF e0
  <2> QED BY <1>0, <2>1, <2>2, <2>3 DEF AccountOf
<1>5. CASE DeclineStep(r)
  <2>1. reqs[r].todo # {} /\ reqs[r].pc = "files"
    BY <1>5 DEF DeclineStep, AtFile
  <2> DEFINE d0 == [src |-> reqs[r].sources[e0[1]], file |-> reqs[r].payload.files[e0[2]]]
  <2>2. reqs'[r].todo = reqs[r].todo \ {e0} /\ reqs'[r].skipped = reqs[r].skipped \union {d0} /\ runs' = runs
        /\ reqs'[r].pc = "files" /\ reqs'[r].payload = reqs[r].payload /\ reqs'[r].sources = reqs[r].sources
    BY <1>5 DEF DeclineStep, KeepsInput, Rest, Source, File
  <2>3. ASSUME NEW e \in All, [src |-> reqs[r].sources[e[1]], file |-> reqs[r].payload.files[e[2]]] = d0
        PROVE  e = e0
    <3>1. reqs[r].sources[e[1]] = reqs[r].sources[e0[1]] /\ reqs[r].payload.files[e[2]] = reqs[r].payload.files[e0[2]]
      BY <2>3
    <3>2. e0 \in All
      BY <1>3, <2>1
    <3> HIDE DEF e0
    <3> QED BY <1>0, <3>1, <3>2, EntriesDistinct
  <2>4. ~Ran(runs, r, reqs[r].sources[e0[1]], reqs[r].payload.files[e0[2]].name)
    BY <1>0, <1>3, <2>1 DEF AccountOf
  <2> HIDE DEF e0, d0
  <2>5. ASSUME NEW e \in All
        PROVE  LET s == reqs[r].sources[e[1]]
                   f == reqs[r].payload.files[e[2]]
                   declined == [src |-> s, file |-> f] \in reqs[r].skipped \union {d0}
                   todo == reqs[r].todo \ {e0}
               IN  /\ e \in todo => ~declined
                   /\ e \in todo => ~Ran(runs, r, s, f.name)
                   /\ e \notin todo /\ f.on => (declined <=> ~Ran(runs, r, s, f.name))
    <3>1. CASE e = e0
      BY <2>4, <3>1 DEF d0
    <3>2. CASE e # e0
      <4>1. [src |-> reqs[r].sources[e[1]], file |-> reqs[r].payload.files[e[2]]] # d0
        BY <2>3, <3>2
      <4> QED BY <1>0, <2>1, <3>2, <4>1 DEF AccountOf
    <3> QED BY <3>1, <3>2
  <2> QED BY <2>2, <2>5 DEF AccountOf
<1>6. CASE CreateStep(r)
  <2>1. reqs[r].todo # {}
    BY <1>0, <1>6 DEF CreateStep, Goes, InputOf
  <2>2. SameAccount(reqs[r], reqs'[r]) /\ reqs[r].pc = "creating" /\ reqs'[r].pc = "advancing"
    BY <1>6 DEF CreateStep, Goes, KeepsInput, KeepsWork, SameAccount
  <2>3. \A s, n : Ran(runs', r, s, n) <=>
            (Ran(runs, r, s, n) \/ (s = reqs[r].sources[e0[1]] /\ n = reqs[r].payload.files[e0[2]].name))
    BY <1>6, NewRunShape DEF CreateStep, Ran, Source, File
  <2>4. e0 \in All /\ e0 \in reqs[r].todo /\ e0 = First(reqs[r].todo)
    BY <1>3, <2>1
  <2>5. ASSUME NEW e \in All, reqs[r].sources[e[1]] = reqs[r].sources[e0[1]],
               reqs[r].payload.files[e[2]].name = reqs[r].payload.files[e0[2]].name
        PROVE  e = e0
    <3> HIDE DEF e0
    <3> QED BY <1>0, <2>4, <2>5, EntriesDistinct
  <2> HIDE DEF e0
  <2>6. ASSUME NEW e \in All
        PROVE  LET s == reqs[r].sources[e[1]]
                   f == reqs[r].payload.files[e[2]]
                   declined == [src |-> s, file |-> f] \in reqs[r].skipped
                   todo == reqs[r].todo
               IN  /\ e \in todo => ~declined
                   /\ e \in todo /\ Ran(runs', r, s, f.name) => e = First(todo)
                   /\ e = First(todo) => Ran(runs', r, s, f.name)
                   /\ e \notin todo /\ f.on => (declined <=> ~Ran(runs', r, s, f.name))
    <3>1. CASE e = e0
      BY <1>0, <2>3, <2>4, <3>1 DEF AccountOf
    <3>2. CASE e # e0
      <4>1. Ran(runs', r, reqs[r].sources[e[1]], reqs[r].payload.files[e[2]].name)
              <=> Ran(runs, r, reqs[r].sources[e[1]], reqs[r].payload.files[e[2]].name)
        BY <2>3, <2>5, <3>2
      <4> QED BY <1>0, <2>2, <2>4, <3>2, <4>1 DEF AccountOf
    <3> QED BY <3>1, <3>2
  <2> QED BY <2>2, <2>6 DEF AccountOf, SameAccount
<1>7. CASE AdvanceStep(r)
  <2>1. reqs[r].todo # {} /\ reqs[r].pc = "advancing"
    BY <1>0, <1>7 DEF AdvanceStep, Goes, InputOf
  <2>2. reqs'[r].todo = reqs[r].todo \ {e0} /\ reqs'[r].skipped = reqs[r].skipped /\ runs' = runs
        /\ reqs'[r].pc = "files" /\ reqs'[r].payload = reqs[r].payload /\ reqs'[r].sources = reqs[r].sources
    BY <1>7 DEF AdvanceStep, KeepsInput, Goes, Rest
  <2>3. e0 \in All /\ e0 \in reqs[r].todo /\ e0 = First(reqs[r].todo)
    BY <1>3, <2>1
  <2> HIDE DEF e0
  <2> QED BY <1>0, <2>1, <2>2, <2>3 DEF AccountOf
<1> QED BY <1>1, <1>2, <1>4, <1>5, <1>6, <1>7 DEF SubmitStep

LEMMA AccountNext ==
    ASSUME ReqShape, RunShape, WorkOK, InputInv, AccountInv, [Next]_vars
    PROVE  AccountInv'
<1>0. \A o \in Request : AccountOf(reqs[o], o, runs) /\ EdgesOf(reqs[o], o, runs)
  BY DEF AccountInv
<1>1. CASE \E r \in Request : SubmitStep(r) /\ Handle(r)
  <2>1. PICK r \in Request : SubmitStep(r)
    BY <1>1
  <2>2. Others(r)
    BY <2>1 DEF SubmitStep, AuthStep, PrepStep, PassStep, DeclineStep, AcceptStep, CopyStep,
                CreateStep, AdvanceStep, EndStep
  <2>3. runs' = runs \/ CreateStep(r)
    BY <2>1 DEF SubmitStep, AuthStep, PrepStep, PassStep, DeclineStep, AcceptStep, CopyStep,
                AdvanceStep, EndStep
  <2>4. ASSUME NEW o \in Request, o # r
        PROVE  AccountOf(reqs'[o], o, runs') /\ EdgesOf(reqs'[o], o, runs')
    <3>1. reqs'[o] = reqs[o]
      BY <2>2, <2>4 DEF Others
    <3>2. \A s, n : Ran(runs', o, s, n) <=> Ran(runs, o, s, n)
      BY <2>3, <2>4, NewRunShape DEF CreateStep, Ran
    <3>3. (\A x \in runs : x.req # o) => \A x \in runs' : x.req # o
      BY <2>3, <2>4, NewRunShape DEF CreateStep
    <3>4. SameAccount(reqs[o], reqs[o])
      BY DEF SameAccount
    <3>5. AccountOf(reqs[o], o, runs')
      BY <1>0, <3>2, <3>4, AccountFrame
    <3> QED BY <1>0, <3>1, <3>3, <3>5 DEF EdgesOf
  <2>5. EdgesOf(reqs'[r], r, runs')
    BY <1>0, <2>1 DEF SubmitStep, AuthStep, PrepStep, PassStep, DeclineStep, AcceptStep, CopyStep,
                      CreateStep, AdvanceStep, EndStep, EdgesOf, KeepsWork, Goes, AtFile, Final
  <2>6. \A x, y \in runs' : x.req = y.req /\ x.src = y.src /\ x.file = y.file => x = y
    <3>1. CASE CreateStep(r)
      <4>1. InputOf(reqs[r]) /\ reqs[r].todo # {} /\ reqs[r].pc = "creating"
        BY <3>1 DEF CreateStep, Goes, InputInv, InputOf
      <4>2. Entry(r) \in FilesOf(reqs[r].payload, reqs[r].sources) /\ Entry(r) \in reqs[r].todo
        BY <4>1, EntryIsIn
      <4>3. ~Ran(runs, r, Source(r), File(r).name)
        BY <1>0, <4>1, <4>2 DEF AccountOf, Source, File
      <4>4. \A x \in runs : ~(x.req = r /\ x.src = Source(r) /\ x.file = File(r).name)
        BY <4>3 DEF Ran
      <4> QED BY <3>1, <4>4, NewRunShape DEF CreateStep, AccountInv
    <3>2. CASE runs' = runs
      BY <3>2 DEF AccountInv
    <3> QED BY <2>3, <3>1, <3>2
  <2>7. AccountOf(reqs'[r], r, runs')
    BY <2>1, AccountStep
  <2> QED BY <2>4, <2>5, <2>6, <2>7 DEF AccountInv
<1>2. CASE CrashStep
  <2>1. ASSUME NEW r \in Request PROVE AccountOf(reqs'[r], r, runs) /\ EdgesOf(reqs'[r], r, runs)
    <3>1. SameAccount(reqs[r], reqs'[r])
      BY <1>2 DEF CrashStep, KeepsInput, KeepsWork, SameAccount
    <3>2. (reqs[r].pc # "advancing" => reqs'[r].pc # "advancing")
          /\ (reqs[r].pc \in {"advancing", "failed", "lost"} => reqs'[r].pc \in {"advancing", "failed", "lost"})
      BY <1>2 DEF CrashStep, Final
    <3>3. AccountOf(reqs'[r], r, runs)
      BY <1>0, <3>1, <3>2, AccountFrame
    <3>4. EdgesOf(reqs'[r], r, runs)
      BY <1>0, <1>2 DEF CrashStep, KeepsWork, EdgesOf
    <3> QED BY <3>3, <3>4
  <2> QED BY <1>2, <2>1 DEF CrashStep, AccountInv
<1>3. CASE DeleteStep
  <2>1. PICK id : runs' = {Forget(x, id) : x \in runs}
    BY <1>3 DEF DeleteStep
  <2>2. \A x \in runs : Forget(x, id).req = x.req /\ Forget(x, id).src = x.src /\ Forget(x, id).file = x.file
    BY ForgetShape DEF RunShape
  <2>3. \A r, s, n : Ran(runs', r, s, n) <=> Ran(runs, r, s, n)
    BY <2>1, <2>2 DEF Ran
  <2>4. ASSUME NEW r \in Request PROVE AccountOf(reqs[r], r, runs') /\ EdgesOf(reqs[r], r, runs')
    <3>1. SameAccount(reqs[r], reqs[r])
      BY DEF SameAccount
    <3>2. AccountOf(reqs[r], r, runs')
      BY <1>0, <2>3, <3>1, AccountFrame
    <3>3. EdgesOf(reqs[r], r, runs')
      BY <1>0, <2>1, <2>2 DEF EdgesOf
    <3> QED BY <3>2, <3>3
  <2>5. \A x, y \in runs' : x.req = y.req /\ x.src = y.src /\ x.file = y.file => x = y
    BY <2>1, <2>2 DEF AccountInv
  <2> QED BY <1>3, <2>4, <2>5 DEF DeleteStep, AccountInv
<1>4. CASE UNCHANGED <<reqs, trees, runs>>
  BY <1>4 DEF AccountInv
<1> QED BY <1>1, <1>2, <1>3, <1>4, Steps
-----------------------------------------------------------------------------
(* The theorems.                                                           *)

Inv ==
    /\ ReqShape /\ RunShape
    /\ SnapshotInv /\ InputInv
    /\ RegistryOK /\ OneRowPerId /\ serving \subseteq Network
    /\ WorkOK /\ TreeInv
    /\ ChangesInv /\ NeverDeclinedWrongly
    /\ NoDanglingRun
    /\ AccountInv

LEMMA Invariance == Spec => []Inv
<1>1. Init => Inv
  BY InitShape, InitInput, RegistryInit, WorkInit, AccountInit DEF Inv
<1>2. Inv /\ [Next]_vars => Inv'
  <2> SUFFICES ASSUME Inv, [Next]_vars PROVE Inv'
    OBVIOUS
  <2>1. ReqShape' /\ RunShape' /\ SnapshotInv' /\ InputInv'
    BY NextShape, NextSnapshot, NextInput DEF Inv
  <2>2. RegistryOK' /\ OneRowPerId' /\ serving' \subseteq Network
    BY RegistryNext DEF Inv
  <2>3. WorkOK' /\ TreeInv'
    BY WorkNext, TreeNext DEF Inv
  <2>4. ChangesInv' /\ NeverDeclinedWrongly'
    BY SkippedNext DEF Inv
  <2>5. NoDanglingRun'
    BY DanglingNext DEF Inv
  <2>6. AccountInv'
    BY AccountNext DEF Inv
  <2> QED BY <2>1, <2>2, <2>3, <2>4, <2>5, <2>6 DEF Inv
<1> QED BY <1>1, <1>2, PTL DEF Spec

(* Every variable keeps its type, whatever the administrator, app-lb, the  *)
(* pool and the submits do.                                                *)
THEOREM TypeCorrect == Spec => []TypeOK
<1>1. Inv => TypeOK
  BY DEF Inv, TypeOK, RegistryOK, WorkOK, WorkOf
<1> QED BY <1>1, Invariance, PTL

(* A registration's id is its own for ever: deleting a repository and      *)
(* registering its URL again gives it another one, so neither an old token *)
(* nor an old run can come to mean a different registration.               *)
THEOREM IdsAreNeverShared == Spec => []OneRowPerId
<1>1. Inv => OneRowPerId
  BY DEF Inv
<1> QED BY <1>1, Invariance, PTL

(* However many submits run at once and wherever one is cut off, every run *)
(* has a workspace of its own with the submitted tree in it.               *)
THEOREM EveryRunItsTree == Spec => []OwnTree
<1>1. Inv => OwnTree
  BY DEF Inv, TreeInv
<1> QED BY <1>1, Invariance, PTL

(* A repository may be registered, reassigned, deleted and registered      *)
(* again between any two awaits of a submit: no run ever names a           *)
(* registration that is gone.                                              *)
THEOREM RunsNameLiveRepos == Spec => []NoDanglingRun
<1>1. Inv => NoDanglingRun
  BY DEF Inv
<1> QED BY <1>1, Invariance, PTL

(* Whatever git could or could not say about a commit, a workflow that was *)
(* declined would have been declined on the whole truth.                   *)
THEOREM DeclinedForGood == Spec => []NeverDeclinedWrongly
<1>1. Inv => NeverDeclinedWrongly
  BY DEF Inv
<1> QED BY <1>1, Invariance, PTL

(* An accepted answer accounts for every workflow file of every source:    *)
(* exactly one run each, or a warning.                                     *)
THEOREM NothingIsLeftOut == Spec => []AcceptedAccountsForAll
<1>1. Inv => AcceptedAccountsForAll
  <2> SUFFICES ASSUME Inv, NEW r \in Request, reqs[r].pc = "accepted",
                      NEW i \in DOMAIN reqs[r].sources, NEW k \in DOMAIN reqs[r].payload.files,
                      reqs[r].payload.files[k].dir = reqs[r].sources[i].path,
                      reqs[r].payload.files[k].on
               PROVE  LET s == reqs[r].sources[i]
                          f == reqs[r].payload.files[k]
                          declined == [src |-> s, file |-> f] \in reqs[r].skipped
                      IN  Cardinality(RunsFor(r, s, f)) = (IF declined THEN 0 ELSE 1)
    BY DEF AcceptedAccountsForAll
  <2> DEFINE s == reqs[r].sources[i]
  <2> DEFINE f == reqs[r].payload.files[k]
  <2> DEFINE declined == [src |-> s, file |-> f] \in reqs[r].skipped
  <2>1. <<i, k>> \in FilesOf(reqs[r].payload, reqs[r].sources)
    BY DEF FilesOf
  <2>2. reqs[r].todo = {}
    BY DEF Inv, AccountInv, EdgesOf
  <2>3. AccountOf(reqs[r], r, runs)
    BY DEF Inv, AccountInv
  <2>4. declined <=> ~Ran(runs, r, s, f.name)
    BY <2>1, <2>2, <2>3 DEF AccountOf
  <2>5. CASE declined
    <3>1. RunsFor(r, s, f) = {}
      BY <2>4, <2>5 DEF RunsFor, Ran
    <3> QED BY <2>5, <3>1, FS_EmptySet
  <2>6. CASE ~declined
    <3>1. PICK x \in runs : x.req = r /\ x.src = s /\ x.file = f.name
      BY <2>4, <2>6 DEF Ran
    <3>2. RunsFor(r, s, f) = {x}
      BY <3>1 DEF RunsFor, Inv, AccountInv
    <3>3. Cardinality({x}) = 1
      BY FS_Singleton
    <3> QED BY <2>6, <3>2, <3>3
  <2> QED BY <2>5, <2>6
<1> QED BY <1>1, Invariance, PTL

=============================================================================
