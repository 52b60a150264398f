---------------------------- MODULE FleetProofs -----------------------------
(***************************************************************************)
(* Proofs about Fleet and Placement, for any orchestrators, hosts, networks*)
(* and jobs, any memberships and statuses, and any fault budget.           *)
(***************************************************************************)
EXTENDS Fleet, WellFoundedInduction, FiniteSetTheorems, TLAPS

(* A budgeted fault keeps the counters natural numbers.                    *)
LEMMA SpendType ==
    ASSUME left \in [Fault -> Nat], NEW f \in Fault, Spend(f)
    PROVE  left' \in [Fault -> Nat]
BY DEF Spend

LEMMA LeastNumber ==
    ASSUME NEW S \in SUBSET Nat, S # {}
    PROVE  \E x \in S : \A y \in S : x <= y
<1> DEFINE R == {ss \in Nat \X Nat : ss[1] < ss[2]}
<1>1. IsWellFoundedOn(R, Nat)
  BY NatLessThanWellFounded DEF OpToRel
<1>2. PICK x \in S : \A y \in S : ~(<<y, x>> \in R)
  <2> HIDE DEF R
  <2> QED BY <1>1, WFMin
<1>3. ASSUME NEW y \in S PROVE x <= y
  <2>1. x \in Nat /\ y \in Nat /\ <<y, x>> \in Nat \X Nat
    OBVIOUS
  <2>2. ~(y < x)
    BY <1>2, <2>1
  <2> QED BY <2>1, <2>2
<1> QED BY <1>3

(* A list that is not empty has a first element, by name and then by id.   *)
LEMMA FirstIsIn ==
    ASSUME NEW S, S # {}, \A x \in S : x.name \in Nat /\ x.id \in Nat
    PROVE  First(S) \in S
<1> DEFINE N == {x.name : x \in S}
<1>1. PICK m \in N : \A y \in N : m <= y
  <2>1. N \in SUBSET Nat /\ N # {}
    OBVIOUS
  <2> HIDE DEF N
  <2> QED BY <2>1, LeastNumber
<1> DEFINE I == {x.id : x \in {y \in S : y.name = m}}
<1>2. PICK i \in I : \A y \in I : i <= y
  <2>1. I \in SUBSET Nat /\ I # {}
    BY <1>1
  <2> HIDE DEF I
  <2> QED BY <2>1, LeastNumber
<1>3. PICK x \in S : x.name = m /\ x.id = i
  BY <1>2
<1>4. ASSUME NEW y \in S PROVE x.name < y.name \/ (x.name = y.name /\ x.id <= y.id)
  <2>1. m <= y.name /\ m \in Nat /\ y.name \in Nat
    BY <1>1
  <2>2. y.name = m => i <= y.id
    BY <1>2
  <2> QED BY <1>3, <2>1, <2>2
<1> QED BY <1>3, <1>4 DEF First

-----------------------------------------------------------------------------
(* Snapshots.  Whatever answers a refresh got, its networks and runners    *)
(* are ones of the account, under their names.                             *)
Status == HostStatus \cup {"orphaned"}
Runner == [id : Host, name : Nat, status : Status]

ViewOK(view) == view.up \in [Host -> HostStatus] /\ view.member \in [Net -> SUBSET Host]

NetworkOK(n) ==
    /\ n.id \in Net /\ n.name = NetName[n.id] /\ n.name \in Nat /\ n.id \in Nat
    /\ n.runners \subseteq Runner
    /\ \A r \in n.runners : r.name = HostName[r.id] /\ r.id \in Nat

PoolOK(pool) ==
    /\ \A n \in pool.networks : NetworkOK(n)
    /\ pool.defaultNode \in Host \cup {None}

LEMMA ProjectIsOK ==
    ASSUME NEW view, ViewOK(view), NEW n \in Net
    PROVE  /\ Project(Members(view, n), Daemons(view)) \subseteq Runner
           /\ \A r \in Project(Members(view, n), Daemons(view)) : r.name = HostName[r.id]
<1> SUFFICES ASSUME NEW r \in Project(Members(view, n), Daemons(view))
             PROVE  r \in Runner /\ r.name = HostName[r.id]
  OBVIOUS
<1> DEFINE ds == Daemons(view)
           st(m) == IF \E d \in ds : d.id = m.id
                    THEN (CHOOSE d \in ds : d.id = m.id).status ELSE "orphaned"
<1>1. \A d \in ds : d.status \in HostStatus
  BY DEF Daemons, ViewOK
<1>2. PICK m \in Members(view, n) : r = [id |-> m.id, name |-> m.name, status |-> st(m)]
  BY DEF Project
<1>3. PICK h \in Host : m.id = h /\ m.name = HostName[h]
  BY DEF Members, ViewOK
<1>4. st(m) \in Status
  <2> HIDE DEF ds
  <2> QED BY <1>1 DEF Status
<1>5. HostName[h] \in Nat
  BY FleetAssumption
<1> HIDE DEF st
<1> QED BY <1>2, <1>3, <1>4, <1>5 DEF Runner

LEMMA DefaultNodeIsOK ==
    ASSUME NEW view, ViewOK(view), NEW self
    PROVE  ResolveDefaultNode(Daemons(view), self) \in Host \cup {None}
<1> DEFINE ds == Daemons(view)
<1>1. \A d \in ds : d.id \in Host
  BY DEF Daemons
<1>2. ASSUME NEW needle PROVE PickDaemon(ds, needle) \in Host \cup {None}
  <2> DEFINE found == Matching(ds, needle)
             live == {d \in found : d.status = "online"}
  <2>1. found \subseteq ds /\ live \subseteq ds
    BY DEF Matching
  <2>2. Cardinality(found) = 1 => found # {}
    BY FS_EmptySet
  <2>3. Cardinality(live) = 1 => live # {}
    BY FS_EmptySet
  <2> HIDE DEF ds
  <2>4. Cardinality(found) = 1 => (CHOOSE d \in found : TRUE).id \in Host
    BY <1>1, <2>1, <2>2
  <2>5. Cardinality(live) = 1 => (CHOOSE d \in live : TRUE).id \in Host
    BY <1>1, <2>1, <2>3
  <2> QED BY <2>4, <2>5 DEF PickDaemon
<1> HIDE DEF ds
<1>3. ResolveDefaultNode(ds, self) \in Host \cup {None}
  BY <1>1, <1>2 DEF ResolveDefaultNode
<1> QED BY <1>3 DEF ds

LEMMA LoadIsOK ==
    ASSUME NEW view, ViewOK(view), NEW o
    PROVE  PoolOK(Load(o, view))
<1>1. ASSUME NEW x \in Load(o, view).networks PROVE NetworkOK(x)
  <2>1. PICK n \in Net : /\ x.id = n /\ x.name = NetName[n]
                         /\ x.runners = Project(Members(view, n), Daemons(view))
    <3> DEFINE net(n) == [id |-> n, name |-> NetName[n], isDefault |-> n = IsDefault,
                          served |-> Includes(CiNetwork[o], [id |-> n, name |-> NetName[n]]),
                          runners |-> Project(Members(view, n), Daemons(view))]
    <3>1. Load(o, view).networks = {net(n) : n \in Net}
      BY DEF Load
    <3>2. \A n \in Net : /\ net(n).id = n /\ net(n).name = NetName[n]
                         /\ net(n).runners = Project(Members(view, n), Daemons(view))
      OBVIOUS
    <3> HIDE DEF net
    <3> QED BY <3>1, <3>2
  <2>2. n \in Nat /\ NetName[n] \in Nat
    BY FleetAssumption
  <2>3. \A r \in Runner : r.id \in Nat
    BY FleetAssumption DEF Runner
  <2> QED BY <2>1, <2>2, <2>3, ProjectIsOK DEF NetworkOK
<1>2. Load(o, view).defaultNode \in Host \cup {None}
  BY DefaultNodeIsOK DEF Load
<1> QED BY <1>1, <1>2 DEF PoolOK

LEMMA ViewIsOK ==
    ASSUME up \in [Host -> HostStatus], member \in [Net -> SUBSET Host], NEW u
    PROVE  ViewOK(View(u))
BY DEF ViewOK, View

-----------------------------------------------------------------------------
(* Placement.  Where a placement is not refused, it is in a network of the *)
(* snapshot, and its node is a runner of that network.                     *)
LEMMA Sought ==
    ASSUME NEW pool, PoolOK(pool), NEW S \in SUBSET pool.networks, S # {}
    PROVE  First(S) \in S
BY FirstIsIn DEF PoolOK, NetworkOK

LEMMA PlaceIsOK ==
    ASSUME NEW pool, PoolOK(pool), NEW jb, Place(pool, jb).network # None
    PROVE  /\ Place(pool, jb).network \in pool.networks
           /\ Place(pool, jb).node # None =>
                  Place(pool, jb).node \in Place(pool, jb).network.runners
<1>1. CASE jb.target.local
  <2> DEFINE h == pool.defaultNode
             net == Locate(pool, h)
             holding == {n \in Served(pool.networks) : \E r \in n.runners : r.id = h}
             default == {n \in holding : n.id = pool.defaultNetwork}
  <2>1. h # None /\ net # None
    BY <1>1 DEF Place, PlaceLocal, Refused
  <2>2. holding \subseteq pool.networks /\ default \subseteq holding /\ default \subseteq pool.networks
    BY DEF Served
  <2>3. net = IF default # {} THEN First(default) ELSE IF holding # {} THEN First(holding) ELSE None
    BY DEF Locate
  <2>4. \A n \in holding : \E r \in n.runners : r.id = h
    OBVIOUS
  <2> HIDE DEF holding, default
  <2>5. net \in holding
    BY <2>1, <2>2, <2>3, Sought
  <2>6. net \in pool.networks /\ (CHOOSE r \in net.runners : r.id = h) \in net.runners
    BY <2>2, <2>4, <2>5
  <2>7. Place(pool, jb).network = net /\ Place(pool, jb).node = CHOOSE r \in net.runners : r.id = h
    BY <1>1, <2>1 DEF Place, PlaceLocal
  <2> HIDE DEF net, h
  <2> QED BY <2>6, <2>7
<1>2. CASE ~jb.target.local
  <2> DEFINE net == NetworkOf(pool, jb.target)
             found == Matching(net.runners, jb.target.node)
  <2>1. net # None
    BY <1>2 DEF Place, PlaceNamed, Refused
  <2>2. net \in pool.networks
    <3>1. CASE jb.target.network = None
      <4> DEFINE served == Served(pool.networks)
                 default == {n \in served : n.id = pool.defaultNetwork}
      <4>1. served \subseteq pool.networks /\ default \subseteq pool.networks
        BY DEF Served
      <4>2. net = IF default # {} THEN First(default) ELSE IF served # {} THEN First(served) ELSE None
        BY <3>1 DEF NetworkOf, DefaultSet
      <4> HIDE DEF served, default, net
      <4> QED BY <2>1, <4>1, <4>2, Sought
    <3>2. CASE jb.target.network # None
      <4> DEFINE named == Matching(pool.networks, jb.target.network)
      <4>1. named \subseteq pool.networks
        BY DEF Matching
      <4>2. named # {} /\ net = First(named)
        BY <2>1, <3>2 DEF NetworkOf
      <4> HIDE DEF named, net
      <4> QED BY <4>1, <4>2, Sought
    <3> QED BY <3>1, <3>2
  <2>3. found # {} => First(found) \in found
    <3>1. \A r \in found : r.name \in Nat /\ r.id \in Nat
      BY <2>2 DEF PoolOK, NetworkOK, Matching, Runner
    <3> HIDE DEF found
    <3> QED BY <3>1, FirstIsIn
  <2>4. found \subseteq net.runners
    BY DEF Matching
  <2>5. /\ Place(pool, jb).network = net
        /\ Place(pool, jb).node = None \/ (found # {} /\ Place(pool, jb).node = First(found))
    BY <1>2, <2>1 DEF Place, PlaceNamed, Refused
  <2> HIDE DEF net, found
  <2> QED BY <2>2, <2>3, <2>4, <2>5
<1> QED BY <1>1, <1>2

LEMMA PickRunnerIsOK ==
    ASSUME NEW pool, PoolOK(pool), NEW jb, PickRunner(pool, jb) # None
    PROVE  /\ PickRunner(pool, jb) \in Host /\ Place(pool, jb).network # None
           /\ Place(pool, jb).network \in pool.networks /\ Place(pool, jb).network.id \in Net
           /\ Place(pool, jb).node # None => PickRunner(pool, jb) = Place(pool, jb).node.id
<1> DEFINE p == Place(pool, jb)
<1>1. p.network # None
  BY DEF PickRunner
<1>2. p.network \in pool.networks /\ NetworkOK(p.network) /\ (p.node # None => p.node \in p.network.runners)
  BY <1>1, PlaceIsOK DEF PoolOK
<1>3. CASE p.node # None
  <2>1. PickRunner(pool, jb) = p.node.id
    BY <1>1, <1>3 DEF PickRunner
  <2> HIDE DEF p
  <2>2. p.node.id \in Host
    BY <1>2, <1>3 DEF NetworkOK, Runner
  <2> QED BY <1>1, <1>2, <2>1, <2>2 DEF p, NetworkOK
<1>4. CASE p.node = None
  <2> DEFINE ready == Dispatchable(p.network)
  <2>1. ready # {} /\ PickRunner(pool, jb) = First(ready).id
    BY <1>1, <1>4 DEF PickRunner
  <2>2. ready \subseteq p.network.runners /\ \A r \in ready : r.name \in Nat /\ r.id \in Nat /\ r.id \in Host
    <3> HIDE DEF p
    <3> QED BY <1>2 DEF NetworkOK, Dispatchable, Runner
  <2>3. First(ready) \in ready
    <3> HIDE DEF ready, p
    <3> QED BY <2>1, <2>2, FirstIsIn
  <2>4. First(ready).id \in Host
    <3> HIDE DEF ready, p
    <3> QED BY <2>2, <2>3
  <2> QED BY <1>1, <1>2, <1>4, <2>1, <2>4 DEF NetworkOK
<1> QED BY <1>3, <1>4
-----------------------------------------------------------------------------
(* Types.  A busy attempt has an orchestrator and a host.                  *)
Routes == [kind : {"network", "runner"}, id : Host \cup Net]
AttRec == [pc : Pc, orch : Orch \cup {None}, host : Host \cup {None}, net : Net \cup {None},
           port : {"none", "open", "closed"}]

SnapOK == \A o \in Orch : PoolOK(Pool(o)) /\ bound[o] \subseteq Routes
CloudOK == up \in [Host -> HostStatus] /\ member \in [Net -> SUBSET Host]
BoundOK == DOMAIN snap = Orch /\ DOMAIN bound = Orch
FleetOK == CloudOK /\ BoundOK /\ SnapOK

Held == {"dial", "dialing", "probe", "use", "evict", "steps", "verdict"}
Placed(a) ==
    /\ a \in AttRec
    /\ a.pc \in {"idle", "pick"} => a.host = None
    /\ a.pc \notin {"idle", "done"} => a.orch \in Orch
    /\ a.pc \in Held => a.host \in Host
AttOK == DOMAIN att = Job /\ att = [j \in Job |-> att[j]] /\ \A j \in Job : Placed(att[j])

TunnelTypeOK ==
    /\ cache \in [Orch -> [Host -> {"none", "live", "dead"}]]
    /\ lock \in [Orch -> Job \cup {None}]
    /\ open \in [Orch -> [Host -> Nat]]
    /\ met \subseteq Orch \X Host \X Job

TypeInv == FleetOK /\ AttOK /\ TunnelTypeOK /\ left \in [Fault -> Nat]

LEMMA TypeParts == TypeInv => TypeOK
BY DEF TypeInv, FleetOK, CloudOK, AttOK, Placed, Held, AttRec, TunnelTypeOK, TypeOK

LEMMA IdlePlaced == Placed(Idle) /\ \A o \in Orch : Placed([Idle EXCEPT !.pc = "pick", !.orch = o])
BY DEF Idle, Placed, Held, AttRec, Pc

LEMMA InitType == Init => TypeInv
<1> SUFFICES ASSUME Init PROVE TypeInv
  OBVIOUS
<1>1. CloudOK
  BY FleetAssumption DEF Init, CloudOK
<1>2. BoundOK /\ SnapOK
  <2>1. ASSUME NEW o \in Orch PROVE PoolOK(Pool(o)) /\ bound[o] \subseteq Routes
    <3>1. Pool(o) = Load(o, View({})) /\ bound[o] = {}
      BY DEF Init, Pool, Snapshot
    <3>2. ViewOK(View({}))
      BY <1>1, ViewIsOK DEF CloudOK
    <3> QED BY <3>1, <3>2, LoadIsOK
  <2> QED BY <2>1 DEF Init, BoundOK, SnapOK
<1>3. AttOK
  <2>1. PICK s \in Scenarios : att = [j \in Job |-> [Idle EXCEPT !.pc = IF j \in s.jobs THEN "idle" ELSE "done"]]
    BY DEF Init
  <2>2. \A p \in {"idle", "done"} : Placed([Idle EXCEPT !.pc = p])
    BY DEF Idle, Placed, Held, AttRec, Pc
  <2>3. ASSUME NEW j \in Job PROVE Placed(att[j])
    <3>1. PICK p \in {"idle", "done"} : att[j] = [Idle EXCEPT !.pc = p]
      BY <2>1
    <3> QED BY <2>2, <3>1
  <2>4. DOMAIN att = Job /\ att = [j \in Job |-> att[j]]
    BY <2>1
  <2> QED BY <2>3, <2>4 DEF AttOK
<1>4. TunnelTypeOK
  BY DEF Init, TunnelTypeOK
<1>5. left \in [Fault -> Nat]
  BY FleetAssumption DEF Init
<1> QED BY <1>1, <1>2, <1>3, <1>4, <1>5 DEF TypeInv, FleetOK

(* One attempt is written.                                                 *)
LEMMA AttWritten ==
    ASSUME AttOK, NEW j \in Job, NEW a, Placed(a), att' = [att EXCEPT ![j] = a]
    PROVE  AttOK' /\ att'[j] = a /\ \A k \in Job : k # j => att'[k] = att[k]
BY DEF AttOK

Others(j) == \A k \in Job : k # j => att'[k] = att[k]

(* What each action does to the attempts.                                  *)
Moves(j, from, to) ==
    /\ att[j].pc \in from /\ att'[j].pc = to
    /\ att'[j].orch = att[j].orch /\ att'[j].host = att[j].host /\ att'[j].net = att[j].net

LEMMA SetPcDoes ==
    ASSUME AttOK, NEW j \in Job, NEW l \in Pc \ {"idle", "pick"}, SetPc(j, l),
           att[j].pc \in Held
    PROVE  AttOK' /\ Others(j) /\ Moves(j, {att[j].pc}, l) /\ att'[j].port = att[j].port
<1> DEFINE a == [att[j] EXCEPT !.pc = l]
<1>1. Placed(att[j])
  BY DEF AttOK
<1>2. Placed(a) /\ a.pc = l /\ a.orch = att[j].orch /\ a.host = att[j].host /\ a.net = att[j].net /\ a.port = att[j].port
  BY <1>1 DEF Placed, Held, AttRec
<1>3. att' = [att EXCEPT ![j] = a]
  BY DEF SetPc
<1> HIDE DEF a
<1> QED BY <1>2, <1>3, AttWritten DEF Others, Moves

LEMMA GivenDoes ==
    ASSUME AttOK, NEW j \in Job, Given(j), att[j].pc \in {"dial", "probe"}
    PROVE  AttOK' /\ Others(j) /\ Moves(j, {att[j].pc}, "use")
<1> DEFINE a == [att[j] EXCEPT !.pc = "use", !.port = "open"]
<1>1. Placed(att[j])
  BY DEF AttOK
<1>2. Placed(a) /\ a.pc = "use" /\ a.orch = att[j].orch /\ a.host = att[j].host /\ a.net = att[j].net
  BY <1>1 DEF Placed, Held, AttRec, Pc
<1>3. att' = [att EXCEPT ![j] = a]
  BY DEF Given
<1> HIDE DEF a
<1> QED BY <1>2, <1>3, AttWritten DEF Others, Moves

LEMMA QueueJobDoes ==
    ASSUME TypeInv, NEW o \in Orch, NEW j \in Job, QueueJob(o, j)
    PROVE  AttOK' /\ Others(j) /\ (att'[j] = att[j] \/ (att'[j].pc = "done" /\ att'[j].host = None)) /\ att[j].pc = "idle"
<1> DEFINE a == [att[j] EXCEPT !.pc = "done"]
<1>1. Placed(att[j]) /\ AttOK /\ att[j].pc = "idle"
  BY DEF AttOK, TypeInv, QueueJob
<1>2. Placed(a) /\ a.pc = "done" /\ a.host = None
  BY <1>1 DEF Placed, Held, AttRec, Pc
<1>3. att' = att \/ att' = [att EXCEPT ![j] = a]
  BY DEF QueueJob
<1> HIDE DEF a
<1>4. CASE att' = att
  BY <1>1, <1>4 DEF AttOK, Others
<1>5. CASE att' = [att EXCEPT ![j] = a]
  BY <1>1, <1>2, <1>5, AttWritten DEF Others
<1> QED BY <1>3, <1>4, <1>5

LEMMA TakeDoes ==
    ASSUME AttOK, NEW o \in Orch, NEW j \in Job, Take(o, j)
    PROVE  AttOK' /\ Others(j) /\ att[j].pc = "idle" /\ att'[j].pc = "pick" /\ att'[j].host = None
<1> DEFINE a == [Idle EXCEPT !.pc = "pick", !.orch = o]
<1>1. Placed(a) /\ a.pc = "pick" /\ a.host = None
  BY IdlePlaced DEF Idle
<1>2. att' = [att EXCEPT ![j] = a] /\ att[j].pc = "idle"
  BY DEF Take
<1> HIDE DEF a
<1> QED BY <1>1, <1>2, AttWritten DEF Others

LEMMA PickDoes ==
    ASSUME TypeInv, NEW j \in Job, Pick(j)
    PROVE  /\ AttOK' /\ Others(j) /\ att[j].pc = "pick"
           /\ \/ att'[j].pc = "idle" /\ att'[j].host = None
              \/ \E o \in Orch :
                     /\ att'[j].pc = "dial" /\ PickRunner(Pool(o), job[j]) # None
                     /\ att'[j].host = PickRunner(Pool(o), job[j])
                     /\ att'[j].net = Place(Pool(o), job[j]).network.id
<1> DEFINE o == att[j].orch
           h == PickRunner(Pool(o), job[j])
           n == Place(Pool(o), job[j]).network.id
           a == [pc |-> "dial", orch |-> o, host |-> h, port |-> "none", net |-> n]
<1>1. AttOK /\ Placed(att[j]) /\ att[j].pc = "pick" /\ o \in Orch
  BY DEF TypeInv, AttOK, Placed, Held, Pick
<1>2. PoolOK(Pool(o))
  BY <1>1 DEF TypeInv, FleetOK, SnapOK
<1>3. att' = [att EXCEPT ![j] = IF h = None THEN Idle ELSE a]
  BY DEF Pick
<1>4. h # None => h \in Host /\ n \in Net
  BY <1>2, PickRunnerIsOK
<1>5. CASE h = None
  <2>1. att' = [att EXCEPT ![j] = Idle]
    BY <1>3, <1>5
  <2>2. AttOK' /\ att'[j] = Idle /\ Others(j)
    BY <1>1, <2>1, IdlePlaced, AttWritten DEF Others
  <2> QED BY <1>1, <2>2 DEF Idle
<1>6. CASE h # None
  <2>1. att' = [att EXCEPT ![j] = a]
    BY <1>3, <1>6
  <2>2. Placed(a) /\ a.pc = "dial" /\ a.host = h /\ a.net = n
    <3> HIDE DEF h, n, o
    <3> QED BY <1>1, <1>4, <1>6 DEF Placed, Held, AttRec, Pc
  <2>3. AttOK' /\ att'[j] = a /\ Others(j)
    <3> HIDE DEF a
    <3> QED BY <1>1, <2>1, <2>2, AttWritten DEF Others
  <2>4. att'[j].pc = "dial" /\ att'[j].host = h /\ att'[j].net = n
    <3> HIDE DEF a, h, n
    <3> QED BY <2>2, <2>3
  <2> QED BY <1>1, <1>6, <2>3, <2>4
<1> QED BY <1>5, <1>6

LEMMA DropDialDoes ==
    ASSUME AttOK, NEW j \in Job, DropDial(j)
    PROVE  AttOK' /\ Others(j) /\ att'[j].pc = "idle" /\ att'[j].host = None
<1>1. AttOK' /\ att'[j] = Idle /\ Others(j)
  BY IdlePlaced, AttWritten DEF DropDial, Others
<1> QED BY <1>1 DEF Idle

LEMMA VerdictDoes ==
    ASSUME AttOK, NEW j \in Job, Verdict(j)
    PROVE  /\ AttOK' /\ Others(j) /\ att[j].pc = "verdict"
           /\ \/ Moves(j, {"verdict"}, "done")
              \/ att'[j].pc = "idle" /\ att'[j].host = None
<1>1. CASE SetPc(j, "done")
  BY <1>1, SetPcDoes DEF Verdict, Held, Pc, Moves
<1>2. CASE att' = [att EXCEPT ![j] = Idle]
  <2>1. AttOK' /\ att'[j] = Idle /\ Others(j)
    BY <1>2, IdlePlaced, AttWritten DEF Others
  <2> QED BY <2>1 DEF Idle, Verdict
<1> QED BY <1>1, <1>2 DEF Verdict

LEMMA EvictDoes ==
    ASSUME AttOK, NEW j \in Job, Evict(j)
    PROVE  /\ AttOK' /\ att[j].pc = "evict" /\ att'[j].pc = "idle" /\ att'[j].host = None
           /\ \A k \in Job : k # j => /\ att'[k].pc = att[k].pc /\ att'[k].orch = att[k].orch
                                      /\ att'[k].host = att[k].host /\ att'[k].net = att[k].net
<1> DEFINE closed == {k \in Job \ {j} : att[k].orch = att[j].orch /\ att[k].host = att[j].host /\ att[k].port = "open"}
<1>1. att[j].pc = "evict" /\ att' = [k \in Job |-> CASE k = j -> Idle
                                                  [] k \in closed -> [att[k] EXCEPT !.port = "closed"]
                                                  [] OTHER -> att[k]]
  BY DEF Evict
<1>2. att'[j] = Idle /\ Idle.pc = "idle" /\ Idle.host = None
  BY <1>1 DEF Idle
<1>3. DOMAIN att' = Job /\ att' = [k \in Job |-> att'[k]]
  BY <1>1
<1>4. ASSUME NEW k \in Job, k # j
      PROVE  /\ Placed(att'[k]) /\ att'[k].pc = att[k].pc /\ att'[k].orch = att[k].orch
             /\ att'[k].host = att[k].host /\ att'[k].net = att[k].net
  <2>1. att'[k] = att[k] \/ att'[k] = [att[k] EXCEPT !.port = "closed"]
    BY <1>1, <1>4
  <2>2. Placed(att[k])
    BY DEF AttOK
  <2> QED BY <2>1, <2>2 DEF Placed, Held, AttRec
<1>5. \A k \in Job : Placed(att'[k])
  BY <1>2, <1>4, IdlePlaced
<1> QED BY <1>1, <1>2, <1>3, <1>4, <1>5 DEF AttOK

-----------------------------------------------------------------------------
(* The fleet keeps its types.                                              *)
LEMMA SnapWritten ==
    ASSUME FleetOK, NEW o \in Orch, NEW view, ViewOK(view),
           snap' = [snap EXCEPT ![o] = Snapshot(o, view)], UNCHANGED bound, CloudOK'
    PROVE  FleetOK'
<1>1. BoundOK'
  BY DEF FleetOK, BoundOK
<1>2. ASSUME NEW q \in Orch PROVE PoolOK(Pool(q))' /\ bound'[q] \subseteq Routes
  <2>1. CASE q = o
    <3>1. Pool(q)' = Load(o, view)
      BY <2>1 DEF FleetOK, BoundOK, Pool, Snapshot
    <3>2. PoolOK(Load(o, view))
      BY LoadIsOK
    <3>3. PoolOK(Pool(q)')
      BY <3>1, <3>2
    <3> QED BY <3>3 DEF FleetOK, SnapOK, PoolOK, NetworkOK
  <2>2. CASE q # o
    <3>1. Pool(q)' = Pool(q)
      BY <2>2 DEF FleetOK, BoundOK, Pool
    <3>2. PoolOK(Pool(q)')
      BY <3>1 DEF FleetOK, SnapOK
    <3> QED BY <3>2 DEF FleetOK, SnapOK, PoolOK, NetworkOK
  <2> QED BY <2>1, <2>2
<1> QED BY <1>1, <1>2 DEF FleetOK, SnapOK

LEMMA FleetSame == FleetOK /\ UNCHANGED fleetVars => FleetOK'
<1> SUFFICES ASSUME FleetOK, UNCHANGED fleetVars PROVE FleetOK'
  OBVIOUS
<1>1. \A o \in Orch : Pool(o)' = Pool(o)
  BY DEF Pool, fleetVars
<1>2. SnapOK'
  BY <1>1 DEF FleetOK, SnapOK, PoolOK, NetworkOK, fleetVars
<1> QED BY <1>2 DEF FleetOK, CloudOK, BoundOK, fleetVars

CloudSteps ==
    \/ CloudChanges
    \/ \E o \in Orch : Refresh(o) \/ RefreshUnread(o) \/ JoinNetwork(o) \/ SpawnConsumers(o)

LEMMA CloudType ==
    ASSUME FleetOK, left \in [Fault -> Nat], CloudSteps
    PROVE  FleetOK' /\ left' \in [Fault -> Nat] /\ UNCHANGED <<jobVars, att, tunnelVars>>
<1> USE DEF CloudSteps
<1>0. UNCHANGED <<jobVars, att, tunnelVars>>
  BY DEF CloudChanges, Refresh, RefreshUnread, JoinNetwork, SpawnConsumers
<1>1. left' \in [Fault -> Nat]
  <2>1. UNCHANGED left \/ Spend("cloud") \/ Spend("unread")
    BY DEF CloudChanges, Refresh, RefreshUnread, JoinNetwork, SpawnConsumers
  <2> QED BY <2>1, SpendType DEF Fault
<1>2. CASE CloudChanges
  <2>1. CloudOK'
    BY <1>2 DEF CloudChanges, FleetOK, CloudOK
  <2>2. \A o \in Orch : Pool(o)' = Pool(o)
    BY <1>2 DEF Pool, CloudChanges
  <2>3. SnapOK' /\ BoundOK'
    BY <1>2, <2>2 DEF CloudChanges, FleetOK, SnapOK, PoolOK, NetworkOK, BoundOK
  <2> QED BY <1>0, <1>1, <2>1, <2>3 DEF FleetOK
<1>3. \A u : ViewOK(View(u))
  BY ViewIsOK DEF FleetOK, CloudOK
<1>4. ASSUME NEW o \in Orch, Refresh(o) \/ RefreshUnread(o) PROVE FleetOK'
  <2>1. CloudOK' /\ UNCHANGED bound
    BY <1>4 DEF Refresh, RefreshUnread, FleetOK, CloudOK
  <2>2. PICK u : snap' = [snap EXCEPT ![o] = Snapshot(o, View(u))]
    BY <1>4 DEF Refresh, RefreshUnread
  <2> QED BY <1>3, <2>1, <2>2, SnapWritten
<1>5. ASSUME NEW o \in Orch, JoinNetwork(o) PROVE FleetOK'
  <2>1. Pool(o).defaultNode \in Host
    BY <1>5 DEF JoinNetwork, FleetOK, SnapOK, PoolOK
  <2>2. CloudOK' /\ UNCHANGED bound
    BY <1>5, <2>1 DEF JoinNetwork, FleetOK, CloudOK
  <2>3. ViewOK(View({})')
    BY <2>2 DEF ViewOK, View, CloudOK
  <2>4. snap' = [snap EXCEPT ![o] = Snapshot(o, View({})')]
    BY <1>5 DEF JoinNetwork
  <2>5. PICK view : view = View({})'
    OBVIOUS
  <2>6. ViewOK(view)
    BY <2>3, <2>5
  <2>7. snap' = [snap EXCEPT ![o] = Snapshot(o, view)]
    BY <2>4, <2>5
  <2> QED BY <2>2, <2>6, <2>7, SnapWritten
<1>6. ASSUME NEW o \in Orch, SpawnConsumers(o) PROVE FleetOK'
  <2>1. WantedRoutes(Pool(o)) \subseteq Routes
    <3>1. \A n \in Pool(o).networks : NetworkOK(n)
      BY DEF FleetOK, SnapOK, PoolOK
    <3> QED BY <3>1 DEF WantedRoutes, Served, Route, Routes, Dispatchable, NetworkOK, Runner
  <2>2. \A q \in Orch : Pool(q)' = Pool(q)
    BY <1>6 DEF Pool, SpawnConsumers
  <2>3. \A q \in Orch : bound'[q] \subseteq Routes
    BY <1>6, <2>1 DEF SpawnConsumers, FleetOK, SnapOK, BoundOK
  <2>4. SnapOK'
    BY <2>2, <2>3 DEF FleetOK, SnapOK, PoolOK, NetworkOK
  <2> QED BY <1>6, <2>4 DEF SpawnConsumers, FleetOK, CloudOK, BoundOK
<1> QED BY <1>0, <1>1, <1>2, <1>4, <1>5, <1>6

-----------------------------------------------------------------------------
(* Tunnels.  The mutex of an orchestrator is held by the one attempt that  *)
(* is dialing there, to a host whose cache is empty; so the tunnels to a   *)
(* host are the cached one or the one being probed, never both.            *)
Dialing(a) == a.pc \in {"dialing", "probe"}
Probing(o, h) == \E j \in Job : att[j].pc = "probe" /\ att[j].orch = o /\ att[j].host = h

LockInv == \A o \in Orch, j \in Job : lock[o] = j <=> Dialing(att[j]) /\ att[j].orch = o
DialInv == \A j \in Job : Dialing(att[j]) => cache[att[j].orch][att[j].host] = "none"
OpenInv ==
    \A o \in Orch, h \in Host :
        open[o][h] = IF cache[o][h] # "none" \/ Probing(o, h) THEN 1 ELSE 0

(* Who got no VM over a tunnel that is still cached has yet to evict it.   *)
MetInv ==
    \A o \in Orch, h \in Host, j \in Job :
        <<o, h, j>> \in met => att[j].pc = "evict" /\ att[j].orch = o /\ att[j].host = h

TunnelInv == LockInv /\ DialInv /\ OpenInv /\ MetInv
Inv == TypeInv /\ TunnelInv

LEMMA InitInv == Init => Inv
<1> SUFFICES ASSUME Init PROVE TunnelInv
  BY InitType DEF Inv
<1>1. \A j \in Job : att[j].pc \in {"idle", "done"}
  BY DEF Init, Idle
<1>2. \A j \in Job : j # None
  BY NoneAssumption
<1> QED BY <1>1, <1>2 DEF Init, TunnelInv, LockInv, DialInv, OpenInv, MetInv, Dialing, Probing

(* A step that touches no tunnel, and takes no attempt into or out of the  *)
(* mutex.                                                                  *)
Alike(k) == att'[k].pc = att[k].pc /\ att'[k].orch = att[k].orch /\ att'[k].host = att[k].host

LEMMA TunnelsSame ==
    ASSUME Inv, AttOK', UNCHANGED <<lock, open>>, TunnelTypeOK',
           \A o \in Orch, h \in Host : cache'[o][h] = cache[o][h] \/ {cache[o][h], cache'[o][h]} = {"live", "dead"},
           \A k \in Job : Alike(k) \/ (~Dialing(att[k]) /\ ~Dialing(att'[k]))
    PROVE  LockInv' /\ DialInv' /\ OpenInv'
<1>1. \A k \in Job : Dialing(att[k]) => att[k].orch \in Orch /\ att[k].host \in Host
  BY DEF Inv, TypeInv, AttOK, Placed, Held, Dialing
<1>2. \A o \in Orch, h \in Host : cache'[o][h] = "none" <=> cache[o][h] = "none"
  BY Zenon
<1>3. LockInv'
  BY DEF Inv, TunnelInv, LockInv, Dialing, Alike
<1>4. DialInv'
  BY <1>1, <1>2 DEF Inv, TunnelInv, DialInv, Dialing, Alike
<1>5. \A o \in Orch, h \in Host : Probing(o, h)' <=> Probing(o, h)
  BY DEF Probing, Dialing, Alike
<1> QED BY <1>2, <1>3, <1>4, <1>5 DEF Inv, TunnelInv, OpenInv

(* Whoever is dialing holds the mutex, alone.                              *)
LEMMA OneDials ==
    ASSUME Inv, NEW j \in Job, Dialing(att[j]), NEW k \in Job, Dialing(att[k]), att[k].orch = att[j].orch
    PROVE  k = j
<1>1. att[j].orch \in Orch
  BY DEF Inv, TypeInv, AttOK, Placed, Held, Dialing
<1> QED BY <1>1 DEF Inv, TunnelInv, LockInv

LEMMA NobodyDials ==
    ASSUME Inv, NEW o \in Orch, lock[o] = None, NEW k \in Job, Dialing(att[k])
    PROVE  att[k].orch # o
BY NoneAssumption DEF Inv, TunnelInv, LockInv

LEMMA DialMissTunnels ==
    ASSUME Inv, NEW j \in Job, DialMiss(j)
    PROVE  AttOK' /\ TunnelTypeOK' /\ TunnelInv'
<1> DEFINE o == att[j].orch
           h == att[j].host
<1>0. TypeInv /\ AttOK /\ TunnelTypeOK /\ att[j].pc = "dial" /\ o \in Orch /\ h \in Host
  BY DEF Inv, TypeInv, AttOK, Placed, Held, DialMiss
<1>1. /\ lock[o] = None /\ cache[o][h] = "none" /\ lock' = [lock EXCEPT ![o] = j]
      /\ UNCHANGED <<cache, open, met>>
  BY DEF DialMiss
<1>2. AttOK' /\ Others(j) /\ Moves(j, {"dial"}, "dialing")
  BY <1>0, SetPcDoes DEF DialMiss, Held, Pc
<1>3. TunnelTypeOK'
  BY <1>0, <1>1 DEF TunnelTypeOK
<1>4. \A k \in Job : Dialing(att[k]) => att[k].orch # o /\ k # j
  BY <1>0, <1>1, NobodyDials DEF Dialing
<1>5. LockInv'
  <2> SUFFICES ASSUME NEW q \in Orch, NEW k \in Job
               PROVE  lock'[q] = k <=> Dialing(att'[k]) /\ att'[k].orch = q
    BY DEF LockInv
  <2>1. lock'[q] = IF q = o THEN j ELSE lock[q]
    BY <1>0, <1>1 DEF TunnelTypeOK
  <2>2. lock[q] = k <=> Dialing(att[k]) /\ att[k].orch = q
    BY DEF Inv, TunnelInv, LockInv
  <2>3. CASE k = j
    <3>1. Dialing(att'[k]) /\ att'[k].orch = o /\ ~Dialing(att[k])
      BY <1>0, <1>2, <2>3 DEF Dialing, Moves
    <3> QED BY <2>1, <2>2, <2>3, <3>1
  <2>4. CASE k # j
    <3>1. att'[k] = att[k]
      BY <1>2, <2>4 DEF Others
    <3> QED BY <1>4, <2>1, <2>2, <2>4, <3>1
  <2> QED BY <2>3, <2>4
<1>6. DialInv'
  <2> SUFFICES ASSUME NEW k \in Job, Dialing(att'[k]) PROVE cache[att'[k].orch][att'[k].host] = "none"
    BY <1>1 DEF DialInv
  <2>1. CASE k = j
    BY <1>1, <1>2, <2>1 DEF Moves
  <2>2. CASE k # j
    BY <1>2, <2>2 DEF Others, Inv, TunnelInv, DialInv
  <2> QED BY <2>1, <2>2
<1>7. OpenInv'
  <2>1. \A q \in Orch, x \in Host : Probing(q, x)' <=> Probing(q, x)
    BY <1>0, <1>2 DEF Probing, Others, Moves
  <2> QED BY <1>1, <2>1 DEF Inv, TunnelInv, OpenInv
<1>8. MetInv'
  BY <1>0, <1>1, <1>2 DEF Inv, TunnelInv, MetInv, Others
<1> QED BY <1>2, <1>3, <1>5, <1>6, <1>7, <1>8 DEF TunnelInv

LEMMA ConnectedTunnels ==
    ASSUME Inv, NEW j \in Job, Connected(j)
    PROVE  AttOK' /\ TunnelTypeOK' /\ TunnelInv'
<1> DEFINE o == att[j].orch
           h == att[j].host
<1>0. TypeInv /\ AttOK /\ TunnelTypeOK /\ att[j].pc = "dialing" /\ o \in Orch /\ h \in Host
  BY DEF Inv, TypeInv, AttOK, Placed, Held, Connected
<1>1. open' = [open EXCEPT ![o][h] = @ + 1] /\ UNCHANGED <<cache, lock, met>>
  BY DEF Connected
<1>2. AttOK' /\ Others(j) /\ Moves(j, {"dialing"}, "probe")
  BY <1>0, SetPcDoes DEF Connected, Held, Pc
<1>3. cache[o][h] = "none" /\ ~Probing(o, h)
  <2>1. Dialing(att[j])
    BY <1>0 DEF Dialing
  <2>2. ASSUME NEW k \in Job, att[k].pc = "probe", att[k].orch = o PROVE FALSE
    BY <1>0, <2>1, <2>2, OneDials DEF Dialing
  <2> QED BY <2>1, <2>2 DEF Inv, TunnelInv, DialInv, Probing
<1>4. open[o][h] = 0
  BY <1>0, <1>3 DEF Inv, TunnelInv, OpenInv
<1>5. \A q \in Orch, x \in Host : open'[q][x] = IF q = o /\ x = h THEN 1 ELSE open[q][x]
  BY <1>0, <1>1, <1>4 DEF TunnelTypeOK
<1>6. TunnelTypeOK'
  <2>1. 1 \in Nat /\ open' = [open EXCEPT ![o][h] = 1]
    BY <1>0, <1>1, <1>4 DEF TunnelTypeOK
  <2> QED BY <1>0, <1>1, <2>1 DEF TunnelTypeOK
<1>7. LockInv'
  BY <1>0, <1>1, <1>2 DEF Inv, TunnelInv, LockInv, Dialing, Others, Moves
<1>8. DialInv'
  BY <1>0, <1>1, <1>2, <1>3 DEF Inv, TunnelInv, DialInv, Others, Moves
<1>9. OpenInv'
  <2> SUFFICES ASSUME NEW q \in Orch, NEW x \in Host
               PROVE  open'[q][x] = IF cache[q][x] # "none" \/ Probing(q, x)' THEN 1 ELSE 0
    BY <1>1 DEF OpenInv
  <2>1. CASE q = o /\ x = h
    <3>1. Probing(q, x)'
      BY <1>2, <2>1 DEF Probing, Moves
    <3> QED BY <1>5, <2>1, <3>1
  <2>2. CASE ~(q = o /\ x = h)
    <3>1. Probing(q, x)' <=> Probing(q, x)
      BY <1>0, <1>2, <2>2 DEF Probing, Others, Moves
    <3> QED BY <1>5, <2>2, <3>1 DEF Inv, TunnelInv, OpenInv
  <2> QED BY <2>1, <2>2
<1>10. MetInv'
  BY <1>0, <1>1, <1>2 DEF Inv, TunnelInv, MetInv, Others
<1> QED BY <1>2, <1>6, <1>7, <1>8, <1>9, <1>10 DEF TunnelInv

(* The mutex is given back, with a tunnel in the cache or without one.     *)
LEMMA LockFreed ==
    ASSUME Inv, NEW j \in Job, Dialing(att[j]), Others(j), ~Dialing(att'[j]),
           lock' = [lock EXCEPT ![att[j].orch] = None]
    PROVE  LockInv' /\ \A k \in Job : Dialing(att'[k]) => att'[k] = att[k] /\ att[k].orch # att[j].orch
<1> DEFINE o == att[j].orch
<1>0. o \in Orch /\ lock \in [Orch -> Job \cup {None}]
  BY DEF Inv, TypeInv, AttOK, Placed, Held, Dialing, TunnelTypeOK
<1>1. ASSUME NEW k \in Job, Dialing(att'[k]) PROVE att'[k] = att[k] /\ att[k].orch # o
  <2>1. k # j /\ att'[k] = att[k]
    BY <1>1 DEF Others
  <2>2. Dialing(att[k])
    BY <1>1, <2>1
  <2> QED BY <2>1, <2>2, OneDials
<1>2. ASSUME NEW q \in Orch, NEW k \in Job
      PROVE  lock'[q] = k <=> Dialing(att'[k]) /\ att'[k].orch = q
  <2>1. lock'[q] = IF q = o THEN None ELSE lock[q]
    BY <1>0
  <2>2. lock[q] = k <=> Dialing(att[k]) /\ att[k].orch = q
    BY DEF Inv, TunnelInv, LockInv
  <2>3. k # None
    BY NoneAssumption
  <2>4. CASE k = j
    BY <2>1, <2>2, <2>3, <2>4
  <2>5. CASE k # j
    <3>1. att'[k] = att[k]
      BY <2>5 DEF Others
    <3> QED BY <1>1, <2>1, <2>2, <2>3, <3>1
  <2> QED BY <2>4, <2>5
<1> QED BY <1>1, <1>2 DEF LockInv

LEMMA ProbePassesTunnels ==
    ASSUME Inv, NEW j \in Job, ProbePasses(j)
    PROVE  AttOK' /\ TunnelTypeOK' /\ TunnelInv'
<1> DEFINE o == att[j].orch
           h == att[j].host
<1>0. TypeInv /\ AttOK /\ TunnelTypeOK /\ att[j].pc = "probe" /\ o \in Orch /\ h \in Host
  BY DEF Inv, TypeInv, AttOK, Placed, Held, ProbePasses
<1>1. /\ cache' = [cache EXCEPT ![o][h] = "live"] /\ lock' = [lock EXCEPT ![o] = None]
      /\ UNCHANGED <<open, met>>
  BY DEF ProbePasses
<1>2. AttOK' /\ Others(j) /\ Moves(j, {"probe"}, "use")
  BY <1>0, GivenDoes DEF ProbePasses
<1>3. TunnelTypeOK'
  BY <1>0, <1>1 DEF TunnelTypeOK
<1>4. LockInv' /\ \A k \in Job : Dialing(att'[k]) => att'[k] = att[k] /\ att[k].orch # o
  <2>1. Dialing(att[j]) /\ ~Dialing(att'[j])
    BY <1>2 DEF Dialing, Moves
  <2> QED BY <1>1, <1>2, <2>1, LockFreed
<1>5. \A q \in Orch, x \in Host : cache'[q][x] = IF q = o /\ x = h THEN "live" ELSE cache[q][x]
  BY <1>0, <1>1 DEF TunnelTypeOK
<1>6. DialInv'
  <2>1. \A k \in Job : Dialing(att'[k]) => att'[k].orch \in Orch /\ att'[k].host \in Host
    BY <1>2 DEF AttOK, Placed, Held, Dialing
  <2> QED BY <1>4, <1>5, <2>1 DEF Inv, TunnelInv, DialInv, Dialing
<1>7. OpenInv'
  <2> SUFFICES ASSUME NEW q \in Orch, NEW x \in Host
               PROVE  open[q][x] = IF cache'[q][x] # "none" \/ Probing(q, x)' THEN 1 ELSE 0
    BY <1>1 DEF OpenInv
  <2>1. CASE q = o /\ x = h
    <3>1. Probing(q, x)
      BY <1>0, <2>1 DEF Probing
    <3>2. open[q][x] = 1 /\ cache'[q][x] = "live"
      BY <1>5, <2>1, <3>1 DEF Inv, TunnelInv, OpenInv
    <3> QED BY <3>2
  <2>2. CASE ~(q = o /\ x = h)
    <3>1. Probing(q, x)' <=> Probing(q, x)
      BY <1>2, <2>2 DEF Probing, Others, Moves
    <3> QED BY <1>5, <2>2, <3>1 DEF Inv, TunnelInv, OpenInv
  <2> QED BY <2>1, <2>2
<1>8. MetInv'
  BY <1>0, <1>1, <1>2 DEF Inv, TunnelInv, MetInv, Others
<1> QED BY <1>2, <1>3, <1>4, <1>6, <1>7, <1>8 DEF TunnelInv

(* A dial that fails, or an attempt that is cut off, wherever it is.       *)
LEMMA DropDialTunnels ==
    ASSUME Inv, NEW j \in Job, DropDial(j), met' \subseteq met,
           \A o \in Orch, h \in Host : <<o, h, j>> \notin met'
    PROVE  AttOK' /\ TunnelTypeOK' /\ TunnelInv'
<1> DEFINE o == att[j].orch
           h == att[j].host
<1>0. TypeInv /\ AttOK /\ TunnelTypeOK /\ UNCHANGED cache
  BY DEF Inv, TypeInv, DropDial
<1>1. AttOK' /\ Others(j) /\ att'[j].pc = "idle"
  BY <1>0, DropDialDoes
<1>2. MetInv'
  BY <1>1 DEF Inv, TunnelInv, MetInv, Others
<1>3. CASE ~Dialing(att[j])
  <2>1. UNCHANGED <<lock, open>>
    BY <1>3 DEF DropDial, Dialing
  <2>2. TunnelTypeOK'
    BY <1>0, <2>1 DEF TunnelTypeOK
  <2>3. \A k \in Job : Alike(k) \/ (~Dialing(att[k]) /\ ~Dialing(att'[k]))
    BY <1>1, <1>3 DEF Dialing, Others, Alike
  <2> QED BY <1>0, <1>1, <1>2, <2>1, <2>2, <2>3, TunnelsSame DEF TunnelInv
<1>4. CASE Dialing(att[j])
  <2>0. o \in Orch /\ h \in Host
    BY <1>0, <1>4 DEF AttOK, Placed, Held, Dialing
  <2>1. lock' = [lock EXCEPT ![o] = None]
    BY <1>4 DEF DropDial, Dialing
  <2>2. LockInv' /\ \A k \in Job : Dialing(att'[k]) => att'[k] = att[k] /\ att[k].orch # o
    BY <1>1, <1>4, <2>1, LockFreed DEF Dialing
  <2>3. DialInv'
    BY <1>0, <2>2 DEF Inv, TunnelInv, DialInv
  <2>4. cache[o][h] = "none"
    BY <1>4 DEF Inv, TunnelInv, DialInv
  <2>5. \A q \in Orch, x \in Host : q = o => ~Probing(q, x)'
    BY <2>2 DEF Probing, Dialing
  <2>6. \A q \in Orch, x \in Host : open'[q][x] = IF q = o /\ x = h THEN 0 ELSE open[q][x]
    <3>1. CASE att[j].pc = "probe"
      <4>1. Probing(o, h)
        BY <3>1 DEF Probing
      <4>2. open[o][h] = 1
        BY <2>0, <4>1 DEF Inv, TunnelInv, OpenInv
      <4>3. open' = [open EXCEPT ![o][h] = @ - 1]
        BY <3>1 DEF DropDial
      <4> QED BY <1>0, <2>0, <4>2, <4>3 DEF TunnelTypeOK
    <3>2. CASE att[j].pc = "dialing"
      <4>1. ~Probing(o, h)
        <5>1. ASSUME NEW k \in Job, att[k].pc = "probe", att[k].orch = o PROVE FALSE
          BY <1>4, <3>2, <5>1, OneDials DEF Dialing
        <5> QED BY <5>1 DEF Probing
      <4>2. open[o][h] = 0
        BY <2>0, <2>4, <4>1 DEF Inv, TunnelInv, OpenInv
      <4>3. open' = open
        BY <3>2 DEF DropDial
      <4> QED BY <4>2, <4>3
    <3> QED BY <1>4, <3>1, <3>2 DEF Dialing
  <2>7. open' \in [Orch -> [Host -> Nat]]
    <3>1. open' = open \/ open' = [open EXCEPT ![o][h] = @ - 1]
      BY DEF DropDial
    <3>2. PICK x : open' = [open EXCEPT ![o][h] = x] \/ open' = open
      BY <3>1
    <3>3. open' = open \/ open'[o][h] = 0
      BY <2>0, <2>6
    <3>4. CASE open' = [open EXCEPT ![o][h] = x]
      <4>1. open'[o][h] = x
        BY <1>0, <2>0, <3>4 DEF TunnelTypeOK
      <4>2. x = 0
        BY <2>0, <2>6, <4>1
      <4> QED BY <1>0, <2>0, <3>4, <4>2 DEF TunnelTypeOK
    <3> QED BY <1>0, <3>2, <3>4 DEF TunnelTypeOK
  <2>8. TunnelTypeOK'
    BY <1>0, <2>0, <2>1, <2>7 DEF TunnelTypeOK
  <2>9. OpenInv'
    <3> SUFFICES ASSUME NEW q \in Orch, NEW x \in Host
                 PROVE  open'[q][x] = IF cache[q][x] # "none" \/ Probing(q, x)' THEN 1 ELSE 0
      BY <1>0 DEF OpenInv
    <3>1. CASE q = o /\ x = h
      BY <2>4, <2>5, <2>6, <3>1
    <3>2. CASE ~(q = o /\ x = h)
      <4>1. Probing(q, x)' <=> Probing(q, x)
        BY <1>1, <3>2 DEF Probing, Others
      <4> QED BY <2>6, <3>2, <4>1 DEF Inv, TunnelInv, OpenInv
    <3> QED BY <3>1, <3>2
  <2> QED BY <1>1, <1>2, <2>2, <2>3, <2>8, <2>9 DEF TunnelInv
<1> QED BY <1>3, <1>4

LEMMA EvictTunnels ==
    ASSUME Inv, NEW j \in Job, Evict(j)
    PROVE  AttOK' /\ TunnelTypeOK' /\ TunnelInv'
<1> DEFINE o == att[j].orch
           h == att[j].host
<1>0. TypeInv /\ AttOK /\ TunnelTypeOK /\ att[j].pc = "evict" /\ o \in Orch /\ h \in Host
  BY DEF Inv, TypeInv, AttOK, Placed, Held, Evict
<1>1. /\ lock[o] = None /\ UNCHANGED lock /\ cache' = [cache EXCEPT ![o][h] = "none"]
      /\ open' = IF cache[o][h] = "none" THEN open ELSE [open EXCEPT ![o][h] = @ - 1]
      /\ met' = met \cap {m \in Orch \X Host \X Job : ~(m[1] = o /\ m[2] = h)}
  BY DEF Evict
<1>2. /\ AttOK' /\ att'[j].pc = "idle"
      /\ \A k \in Job : k # j => Alike(k)
  BY <1>0, EvictDoes DEF Alike
<1>3. \A k \in Job : Dialing(att[k]) => att[k].orch # o
  BY <1>0, <1>1, NobodyDials
<1>4. LockInv'
  BY <1>0, <1>1, <1>2 DEF Inv, TunnelInv, LockInv, Dialing, Alike
<1>5. \A q \in Orch, x \in Host : cache'[q][x] = IF q = o /\ x = h THEN "none" ELSE cache[q][x]
  BY <1>0, <1>1 DEF TunnelTypeOK
<1>6. DialInv'
  <2>1. \A k \in Job : Dialing(att[k]) => att[k].orch \in Orch /\ att[k].host \in Host
    BY <1>0 DEF AttOK, Placed, Held, Dialing
  <2>2. \A k \in Job : Dialing(att'[k]) => Dialing(att[k]) /\ Alike(k)
    BY <1>0, <1>2 DEF Dialing, Alike
  <2> QED BY <1>5, <2>1, <2>2 DEF Inv, TunnelInv, DialInv, Alike
<1>7. \A q \in Orch, x \in Host : Probing(q, x)' <=> Probing(q, x)
  BY <1>0, <1>2 DEF Probing, Alike
<1>8. ~Probing(o, h)
  BY <1>3 DEF Probing, Dialing
<1>9. \A q \in Orch, x \in Host : open'[q][x] = IF q = o /\ x = h THEN 0 ELSE open[q][x]
  <2>1. CASE cache[o][h] = "none"
    <3>1. open[o][h] = 0
      BY <1>0, <1>8, <2>1 DEF Inv, TunnelInv, OpenInv
    <3> QED BY <1>1, <2>1, <3>1
  <2>2. CASE cache[o][h] # "none"
    <3>1. open[o][h] = 1
      BY <1>0, <2>2 DEF Inv, TunnelInv, OpenInv
    <3>2. open' = [open EXCEPT ![o][h] = @ - 1]
      BY <1>1, <2>2
    <3> QED BY <1>0, <3>1, <3>2 DEF TunnelTypeOK
  <2> QED BY <2>1, <2>2
<1>10. OpenInv'
  BY <1>5, <1>7, <1>8, <1>9 DEF Inv, TunnelInv, OpenInv
<1>11. TunnelTypeOK'
  <2>1. cache' \in [Orch -> [Host -> {"none", "live", "dead"}]] /\ met' \subseteq Orch \X Host \X Job
    BY <1>0, <1>1 DEF TunnelTypeOK
  <2>2. open' = open \/ open' = [open EXCEPT ![o][h] = @ - 1]
    BY <1>1
  <2>3. PICK x : open' = [open EXCEPT ![o][h] = x] \/ open' = open
    BY <2>2
  <2>4. CASE open' = [open EXCEPT ![o][h] = x]
    <3>1. open'[o][h] = x
      BY <1>0, <2>4 DEF TunnelTypeOK
    <3>2. x = 0
      BY <1>0, <1>9, <3>1
    <3> QED BY <1>0, <1>1, <2>1, <2>4, <3>2 DEF TunnelTypeOK
  <2>5. CASE open' = open
    BY <1>0, <1>1, <2>1, <2>5 DEF TunnelTypeOK
  <2> QED BY <2>3, <2>4, <2>5
<1>12. MetInv'
  <2> SUFFICES ASSUME NEW q \in Orch, NEW x \in Host, NEW k \in Job, <<q, x, k>> \in met'
               PROVE  att'[k].pc = "evict" /\ att'[k].orch = q /\ att'[k].host = x
    BY DEF MetInv
  <2>1. <<q, x, k>> \in met /\ ~(q = o /\ x = h)
    BY <1>1
  <2>2. att[k].pc = "evict" /\ att[k].orch = q /\ att[k].host = x
    BY <2>1 DEF Inv, TunnelInv, MetInv
  <2>3. k # j
    BY <2>1, <2>2
  <2> QED BY <1>2, <2>2, <2>3 DEF Alike
<1> QED BY <1>2, <1>4, <1>6, <1>10, <1>11, <1>12 DEF TunnelInv

(* The steps of an attempt outside the mutex.                              *)
LEMMA OtherTunnels ==
    ASSUME Inv, NEW j \in Job,
           \/ Pick(j) \/ DialHit(j) \/ Acquire(j) \/ AcquireFails(j) \/ StepsEnd(j) \/ Verdict(j)
           \/ \E o \in Orch : Submit(o, j) \/ QueueJob(o, j) \/ Take(o, j)
    PROVE  AttOK' /\ TunnelTypeOK' /\ TunnelInv'
<1>0. TypeInv /\ AttOK /\ TunnelTypeOK /\ Placed(att[j])
  BY DEF Inv, TypeInv, AttOK
<1>1. UNCHANGED <<cache, lock, open>>
  BY DEF Pick, DialHit, Acquire, AcquireFails, StepsEnd, Verdict, Submit, QueueJob, Take, tunnelVars
<1>2. /\ AttOK' /\ Others(j) /\ att[j].pc \in {"idle", "pick", "dial", "use", "steps", "verdict"}
      /\ att'[j].pc \in {"idle", "pick", "dial", "use", "evict", "steps", "verdict", "done"}
      /\ AcquireFails(j) => Moves(j, {"use"}, "evict")
  <2>1. CASE Pick(j)
    BY <1>0, <2>1, PickDoes DEF AcquireFails
  <2>2. CASE DialHit(j)
    BY <1>0, <2>2, GivenDoes DEF DialHit, Moves, AcquireFails
  <2>3. CASE Acquire(j)
    BY <1>0, <2>3, SetPcDoes DEF Acquire, Moves, Held, Pc, AcquireFails
  <2>4. CASE AcquireFails(j)
    BY <1>0, <2>4, SetPcDoes DEF AcquireFails, Moves, Held, Pc
  <2>5. CASE StepsEnd(j)
    BY <1>0, <2>5, SetPcDoes DEF StepsEnd, Moves, Held, Pc, AcquireFails
  <2>6. CASE Verdict(j)
    BY <1>0, <2>6, VerdictDoes DEF Moves, AcquireFails
  <2>7. ASSUME NEW o \in Orch, Submit(o, j)
        PROVE  att' = att /\ att[j].pc = "idle"
    BY <2>7 DEF Submit
  <2>8. ASSUME NEW o \in Orch, QueueJob(o, j) \/ Take(o, j)
        PROVE  /\ AttOK' /\ Others(j) /\ att[j].pc = "idle"
               /\ att'[j].pc \in {"idle", "pick", "done"}
    BY <1>0, <2>8, QueueJobDoes, TakeDoes
  <2>9. AcquireFails(j) => att[j].pc = "use"
    BY DEF AcquireFails
  <2>10. CASE att' = att /\ att[j].pc = "idle"
    BY <1>0, <2>9, <2>10 DEF AttOK, Others
  <2> QED BY <2>1, <2>2, <2>3, <2>4, <2>5, <2>6, <2>7, <2>8, <2>9, <2>10
<1>3. met' = met \/ (AcquireFails(j) /\ met' = met \cup {<<att[j].orch, att[j].host, j>>})
  BY DEF Pick, DialHit, Acquire, AcquireFails, OnCached, StepsEnd, Verdict, Submit, QueueJob, Take, tunnelVars
<1>4. TunnelTypeOK'
  <2>1. AcquireFails(j) => att[j].orch \in Orch /\ att[j].host \in Host
    BY <1>0 DEF AcquireFails, Placed, Held
  <2> QED BY <1>0, <1>1, <1>3, <2>1 DEF TunnelTypeOK
<1>5. LockInv' /\ DialInv' /\ OpenInv'
  <2>1. \A k \in Job : Alike(k) \/ (~Dialing(att[k]) /\ ~Dialing(att'[k]))
    BY <1>2 DEF Dialing, Others, Alike
  <2> QED BY <1>1, <1>2, <1>4, <2>1, TunnelsSame
<1>6. MetInv'
  BY <1>2, <1>3 DEF Inv, TunnelInv, MetInv, Others, Moves
<1> QED BY <1>2, <1>4, <1>5, <1>6 DEF TunnelInv

LEMMA NextInv == Inv /\ [Next]_vars => Inv'
<1> SUFFICES ASSUME Inv, [Next]_vars PROVE Inv'
  OBVIOUS
<1>0. TypeInv /\ FleetOK /\ AttOK /\ TunnelTypeOK /\ left \in [Fault -> Nat]
  BY DEF Inv, TypeInv
<1>1. CASE CloudSteps
  <2>1. FleetOK' /\ left' \in [Fault -> Nat] /\ UNCHANGED <<jobVars, att, tunnelVars>>
    BY <1>0, <1>1, CloudType
  <2>2. AttOK' /\ TunnelTypeOK'
    BY <1>0, <2>1 DEF AttOK, TunnelTypeOK, tunnelVars
  <2>3. TunnelInv'
    BY <2>1 DEF Inv, TunnelInv, LockInv, DialInv, OpenInv, MetInv, Dialing, Probing, tunnelVars
  <2> QED BY <2>1, <2>2, <2>3 DEF Inv, TypeInv
<1>2. ASSUME NEW j \in Job, AttOK', TunnelTypeOK', TunnelInv', UNCHANGED fleetVars,
             UNCHANGED left \/ \E f \in Fault : Spend(f)
      PROVE  Inv'
  <2>1. left' \in [Fault -> Nat]
    BY <1>0, <1>2, SpendType
  <2>2. FleetOK'
    BY <1>0, <1>2, FleetSame
  <2> QED BY <1>2, <2>1, <2>2 DEF Inv, TypeInv
<1>3. ASSUME NEW j \in Job, Attempt(j) \/ \E o \in Orch : Submit(o, j) \/ QueueJob(o, j) \/ Take(o, j)
      PROVE  Inv'
  <2>1. UNCHANGED fleetVars /\ (UNCHANGED left \/ \E f \in Fault : Spend(f))
    BY <1>3 DEF Attempt, Pick, DialHit, DialMiss, Connected, ProbePasses, Acquire, AcquireFails, Evict,
                StepsEnd, Verdict, Fault, Submit, QueueJob, Take
  <2>2. AttOK' /\ TunnelTypeOK' /\ TunnelInv'
    BY <1>3, DialMissTunnels, ConnectedTunnels, ProbePassesTunnels, EvictTunnels, OtherTunnels DEF Attempt
  <2> QED BY <1>2, <2>1, <2>2
<1>4. ASSUME NEW j \in Job, DialFails(j) PROVE Inv'
  <2>1. \A o \in Orch, h \in Host : <<o, h, j>> \notin met
    BY <1>4 DEF DialFails, Inv, TunnelInv, MetInv
  <2>2. DropDial(j) /\ met' = met /\ Spend("dial") /\ UNCHANGED fleetVars
    BY <1>4 DEF DialFails, DropDial
  <2> QED BY <1>2, <2>1, <2>2, DropDialTunnels DEF Fault
<1>5. ASSUME NEW j \in Job, CutOff(j) PROVE Inv'
  <2>1. DropDial(j) /\ Spend("cut") /\ UNCHANGED fleetVars
    BY <1>5 DEF CutOff, DropDial
  <2>2. met' = met \ {<<att[j].orch, att[j].host, j>>}
    BY <1>5 DEF CutOff
  <2>3. \A o \in Orch, h \in Host : <<o, h, j>> \notin met'
    BY <2>2 DEF Inv, TunnelInv, MetInv
  <2> QED BY <1>2, <2>1, <2>2, <2>3, DropDialTunnels DEF Fault
<1>6. ASSUME NEW o \in Orch, NEW h \in Host, LinkDies(o, h) PROVE Inv'
  <2>1. UNCHANGED <<fleetVars, att, lock, open, met>> /\ Spend("link")
    BY <1>6 DEF LinkDies
  <2>2. cache[o][h] = "live" /\ cache' = [cache EXCEPT ![o][h] = "dead"]
    BY <1>6 DEF LinkDies
  <2>3. AttOK' /\ TunnelTypeOK'
    BY <1>0, <2>1, <2>2 DEF AttOK, TunnelTypeOK
  <2>4. \A q \in Orch, x \in Host : cache'[q][x] = IF q = o /\ x = h THEN "dead" ELSE cache[q][x]
    BY <1>0, <2>2 DEF TunnelTypeOK
  <2>5. LockInv' /\ DialInv' /\ OpenInv'
    <3>1. \A k \in Job : Alike(k)
      BY <2>1 DEF Alike
    <3>2. \A q \in Orch, x \in Host : cache'[q][x] = cache[q][x] \/ {cache[q][x], cache'[q][x]} = {"live", "dead"}
      BY <2>2, <2>4
    <3> QED BY <2>1, <2>3, <3>1, <3>2, TunnelsSame
  <2>6. MetInv'
    BY <2>1 DEF Inv, TunnelInv, MetInv
  <2>7. left' \in [Fault -> Nat]
    BY <1>0, <2>1, SpendType DEF Fault
  <2>8. FleetOK'
    BY <1>0, <2>1, FleetSame
  <2> QED BY <2>3, <2>5, <2>6, <2>7, <2>8 DEF Inv, TypeInv, TunnelInv
<1>7. CASE UNCHANGED vars
  <2>1. FleetOK' /\ UNCHANGED <<fleetVars, att, cache, lock, open, met, left>>
    BY <1>0, <1>7, FleetSame DEF vars, tunnelVars
  <2>2. AttOK' /\ TunnelTypeOK' /\ left' \in [Fault -> Nat]
    BY <1>0, <2>1 DEF AttOK, TunnelTypeOK
  <2>3. TunnelInv'
    BY <2>1 DEF Inv, TunnelInv, LockInv, DialInv, OpenInv, MetInv, Dialing, Probing
  <2> QED BY <2>1, <2>2, <2>3 DEF Inv, TypeInv
<1> QED BY <1>1, <1>3, <1>4, <1>5, <1>6, <1>7 DEF Next, CloudSteps

LEMMA InvHolds == Spec => []Inv
BY InitInv, NextInv, PTL DEF Spec

(* Every variable keeps its type: in particular every host an attempt is   *)
(* sent to, and every host that joins a network, is one of the account's,  *)
(* and the count of tunnels never falls below zero.                        *)
THEOREM TypeCorrect == Spec => []TypeOK
BY InvHolds, TypeParts, PTL DEF Inv

(* A process has at most one tunnel to a host, the one being dialed        *)
(* counted, over failed dials, dropped futures and evictions.              *)
THEOREM AtMostOneTunnel == Spec => []OneTunnel
<1>1. Inv => OneTunnel
  <2> SUFFICES ASSUME Inv, NEW o \in Orch, NEW h \in Host PROVE open[o][h] <= 1
    BY DEF OneTunnel
  <2>1. open[o][h] = 0 \/ open[o][h] = 1
    BY DEF Inv, TunnelInv, OpenInv
  <2> QED BY <2>1
<1> QED BY <1>1, InvHolds, PTL

(* An attempt is never given the tunnel over which an earlier one of the   *)
(* same job got no image or no VM: client_for's failed acquisitions evict. *)
(* It says nothing of a tunnel that dies under the steps, which nobody     *)
(* evicts.                                                                 *)
THEOREM RetryDialsAfresh == Spec => []NeverTheSameDeadTunnel
<1>1. Inv => NeverTheSameDeadTunnel
  <2> SUFFICES ASSUME Inv, NEW j \in Job, att[j].pc = "use" PROVE <<att[j].orch, att[j].host, j>> \notin met
    BY DEF NeverTheSameDeadTunnel
  <2>1. att[j].orch \in Orch /\ att[j].host \in Host
    BY DEF Inv, TypeInv, AttOK, Placed, Held
  <2> QED BY <2>1 DEF Inv, TunnelInv, MetInv
<1> QED BY <1>1, InvHolds, PTL

-----------------------------------------------------------------------------
(* Where a job runs.  The stored plan names the network, and the host if   *)
(* it was pinned to one, by their display names: it leads back to them if  *)
(* no two networks, and no two hosts, share one.                           *)
UniqueNames ==
    /\ \A m, n \in Net : NetName[m] = NetName[n] => m = n
    /\ \A g, h \in Host : HostName[g] = HostName[h] => g = h

Stamped(j) ==
    /\ job[j].target.local <=> Written[j].target.local
    /\ job[j].fallback = Written[j].fallback
    /\ ~Written[j].target.local =>
           /\ home[j].net \in Net /\ job[j].target.network = ByName(NetName[home[j].net])
           /\ home[j].node # None =>
                  home[j].node \in Host /\ job[j].target.node = ByName(HostName[home[j].node])

Runs(j) ==
    att[j].host # None /\ ~Written[j].target.local =>
        /\ att[j].net = home[j].net
        /\ home[j].node # None /\ Written[j].fallback # "any" => att[j].host = home[j].node

HomeInv ==
    \A j \in Job :
        /\ job[j] # None \/ queue[j] # None \/ att[j].pc \notin {"idle", "done"} => Stamped(j)
        /\ Runs(j)
HomeDomains == DOMAIN job = Job /\ DOMAIN home = Job /\ DOMAIN queue = Job

LEMMA NamesAreNeedles ==
    (\A n \in Net : ByName(NetName[n]) # None) /\ (\A h \in Host : ByName(HostName[h]) # None)
BY FleetAssumption, NoneAssumption DEF ByName, Needle

LEMMA SubmitStamps ==
    ASSUME TypeInv, HomeDomains, NEW o \in Orch, NEW j \in Job, Submit(o, j)
    PROVE  Stamped(j)' /\ \A k \in Job : k # j => job'[k] = job[k] /\ home'[k] = home[k]
<1> DEFINE jb == WithNetwork(Written[j], RepoNet[j])
           p == Place(Pool(o), jb)
           W == Written[j]
<1>1. PICK t : jb = [target |-> t, fallback |-> W.fallback] /\ (t.local <=> W.target.local)
  <2>1. W = [target |-> W.target, fallback |-> W.fallback]
    BY FleetAssumption
  <2>2. /\ W.target = [network |-> W.target.network, node |-> W.target.node, vm |-> W.target.vm, local |-> W.target.local]
        /\ W.target.local \in BOOLEAN
    BY FleetAssumption
  <2>3. PICK n : jb = W \/ jb = [W EXCEPT !.target.network = n]
    BY DEF WithNetwork
  <2> DEFINE t == [network |-> n, node |-> W.target.node, vm |-> W.target.vm, local |-> W.target.local]
  <2>4. [W EXCEPT !.target.network = n] = [target |-> [W.target EXCEPT !.network = n], fallback |-> W.fallback]
    BY <2>1
  <2>5. [W.target EXCEPT !.network = n] = t
    BY <2>2
  <2>6. t.local <=> W.target.local
    BY <2>2
  <2>7. CASE jb = W
    BY <2>1, <2>7
  <2>8. CASE jb = [W EXCEPT !.target.network = n]
    <3>1. jb = [target |-> t, fallback |-> W.fallback]
      BY <2>4, <2>5, <2>8
    <3> HIDE DEF t, jb
    <3> QED BY <2>6, <3>1
  <2> QED BY <2>3, <2>7, <2>8
<1>2. PoolOK(Pool(o)) /\ p.network # None
  BY DEF TypeInv, FleetOK, SnapOK, Submit
<1>3. /\ p.network \in Pool(o).networks /\ NetworkOK(p.network)
      /\ p.node # None => p.node \in p.network.runners
  BY <1>2, PlaceIsOK DEF PoolOK
<1>4. /\ job' = [job EXCEPT ![j] = Stamp(Pool(o), jb)]
      /\ home' = [home EXCEPT ![j] = [net |-> p.network.id, node |-> IF p.node = None THEN None ELSE p.node.id]]
  BY DEF Submit
<1>5. job'[j] = Stamp(Pool(o), jb) /\ \A k \in Job : k # j => job'[k] = job[k] /\ home'[k] = home[k]
  BY <1>4 DEF HomeDomains
<1>6. home'[j].net = p.network.id /\ home'[j].node = IF p.node = None THEN None ELSE p.node.id
  BY <1>4 DEF HomeDomains
<1> DEFINE node == IF p.node = None THEN t.node ELSE ByName(p.node.name)
           target == [network |-> ByName(p.network.name), node |-> node, vm |-> t.vm, local |-> t.local]
<1>7. Stamp(Pool(o), jb) = [target |-> target, fallback |-> W.fallback]
  <2>1. jb.target = t
    BY <1>1
  <2>2. Stamp(Pool(o), jb) = [jb EXCEPT !.target = target]
    BY <2>1 DEF Stamp
  <2>3. [jb EXCEPT !.target = target] = [target |-> target, fallback |-> W.fallback]
    <3> HIDE DEF target, p
    <3>1. \A x : x = [target |-> t, fallback |-> W.fallback] => [x EXCEPT !.target = target] = [target |-> target, fallback |-> W.fallback]
      OBVIOUS
    <3> QED BY <1>1, <3>1
  <2> QED BY <2>2, <2>3
<1>8. job'[j].target = target /\ job'[j].fallback = W.fallback
  <2> HIDE DEF target
  <2> QED BY <1>5, <1>7
<1>9. (job'[j].target.local <=> W.target.local) /\ job'[j].target.network = ByName(p.network.name) /\ job'[j].target.node = node
  <2>1. target.network = ByName(p.network.name) /\ target.node = node
    OBVIOUS
  <2>2. target.local = t.local
    BY Zenon
  <2> HIDE DEF target
  <2> QED BY <1>1, <1>8, <2>1, <2>2
<1>10. p.network.id \in Net /\ p.network.name = NetName[p.network.id]
  BY <1>3 DEF NetworkOK
<1>11. p.node # None => p.node.id \in Host /\ p.node.name = HostName[p.node.id] /\ node = ByName(p.node.name)
  BY <1>3 DEF NetworkOK, Runner
<1> HIDE DEF p, jb, node, target
<1> QED BY <1>5, <1>6, <1>8, <1>9, <1>10, <1>11 DEF Stamped

(* A stamped job is placed where its submit placed it.                     *)
LEMMA PickLeadsHome ==
    ASSUME UniqueNames, TypeInv, NEW o \in Orch, NEW j \in Job, Stamped(j), ~Written[j].target.local,
           PickRunner(Pool(o), job[j]) # None
    PROVE  /\ Place(Pool(o), job[j]).network.id = home[j].net
           /\ home[j].node # None /\ Written[j].fallback # "any" => PickRunner(Pool(o), job[j]) = home[j].node
<1> DEFINE pool == Pool(o)
           jb == job[j]
           p == Place(pool, jb)
           n0 == home[j].net
           net == NetworkOf(pool, jb.target)
<1>0. PoolOK(pool)
  BY DEF TypeInv, FleetOK, SnapOK
<1>1. p.network # None /\ (p.node # None => PickRunner(pool, jb) = p.node.id)
  BY <1>0, PickRunnerIsOK
<1>2. p = PlaceNamed(pool, jb) /\ ~jb.target.local /\ jb.target.network = ByName(NetName[n0]) /\ n0 \in Net
  BY DEF Stamped, Place
<1>3. net # None /\ p.network = net
  BY <1>1, <1>2 DEF PlaceNamed, Refused
<1>4. net \in pool.networks /\ net.name = NetName[n0]
  <2> DEFINE found == Matching(pool.networks, ByName(NetName[n0]))
  <2>1. found \subseteq pool.networks /\ \A x \in found : x.name = NetName[n0]
    BY DEF Matching, Matches, ByName
  <2>2. found # {} /\ net = First(found)
    <3> DEFINE sought == jb.target.network
    <3>1. sought # None /\ found = Matching(pool.networks, sought)
      BY <1>2, NamesAreNeedles
    <3>2. net = IF sought = None THEN DefaultSet(pool)
                ELSE IF Matching(pool.networks, sought) # {} /\ First(Matching(pool.networks, sought)).served
                     THEN First(Matching(pool.networks, sought)) ELSE None
      BY DEF NetworkOf
    <3> HIDE DEF net, found, sought
    <3> QED BY <1>3, <3>1, <3>2
  <2> HIDE DEF found, net, pool
  <2> QED BY <1>0, <2>1, <2>2, Sought
<1>5. NetworkOK(net) /\ net.id = n0
  BY <1>0, <1>2, <1>4 DEF PoolOK, NetworkOK, UniqueNames
<1>6. ASSUME home[j].node # None, Written[j].fallback # "any" PROVE PickRunner(pool, jb) = home[j].node
  <2> DEFINE h0 == home[j].node
             found == Matching(net.runners, ByName(HostName[h0]))
  <2>1. h0 \in Host /\ jb.target.node = ByName(HostName[h0]) /\ jb.target.node # None /\ jb.fallback # "any"
    BY <1>6, NamesAreNeedles DEF Stamped
  <2>2. found # {} /\ p.node = First(found)
    BY <1>1, <1>2, <1>3, <2>1 DEF PlaceNamed, Refused
  <2>3. found \subseteq net.runners /\ \A x \in found : x.name = HostName[h0]
    BY DEF Matching, Matches, ByName
  <2>4. \A x \in found : x \in Runner /\ x.name = HostName[x.id] /\ x.name \in Nat /\ x.id \in Nat /\ x.id \in Host
    <3> HIDE DEF found, net
    <3> QED BY <1>5, <2>3 DEF NetworkOK, Runner
  <2>5. First(found) \in found
    <3> HIDE DEF found
    <3> QED BY <2>2, <2>4, FirstIsIn
  <2>6. p.node \in Runner /\ p.node.id = h0
    <3> HIDE DEF found, p
    <3> QED BY <2>1, <2>2, <2>3, <2>4, <2>5 DEF UniqueNames
  <2>7. p.node # None
    BY <2>6, NoneAssumption DEF Runner, Status
  <2> QED BY <1>1, <2>6, <2>7
<1> QED BY <1>3, <1>5, <1>6

LEMMA InitHome == Init => HomeInv /\ HomeDomains
<1> SUFFICES ASSUME Init PROVE HomeInv /\ HomeDomains
  OBVIOUS
<1>1. \A j \in Job : att[j].pc \in {"idle", "done"} /\ att[j].host = None
  BY DEF Init, Idle
<1> QED BY <1>1 DEF Init, HomeInv, HomeDomains, Runs

(* A step that leaves the plan, the queue and the host of a job alone.     *)
LEMMA HomeSame ==
    ASSUME NEW j \in Job, HomeInv, job'[j] = job[j], home'[j] = home[j], queue'[j] = queue[j],
           att'[j].host = None \/ (att'[j].host = att[j].host /\ att'[j].net = att[j].net),
           att'[j].pc \in {"idle", "done"} \/ att[j].pc \notin {"idle", "done"}
    PROVE  /\ (job[j] # None \/ queue[j] # None \/ att[j].pc \notin {"idle", "done"} => Stamped(j))'
           /\ Runs(j)'
<1>1. Stamped(j)' <=> Stamped(j)
  BY DEF Stamped
<1>2. Runs(j)'
  BY DEF HomeInv, Runs
<1> QED BY <1>1, <1>2 DEF HomeInv

LEMMA NextHome == UniqueNames /\ Inv /\ HomeInv /\ HomeDomains /\ [Next]_vars => HomeInv' /\ HomeDomains'
<1> SUFFICES ASSUME UniqueNames, Inv, HomeInv, HomeDomains, [Next]_vars PROVE HomeInv' /\ HomeDomains'
  OBVIOUS
<1>0. TypeInv /\ AttOK /\ FleetOK /\ left \in [Fault -> Nat]
  BY DEF Inv, TypeInv
<1>1. HomeDomains'
  BY DEF HomeDomains, Next, vars, CloudChanges, Refresh, RefreshUnread, JoinNetwork, SpawnConsumers, Submit, QueueJob,
         Take, Attempt, Pick, DialHit, DialMiss, Connected, ProbePasses, Acquire, AcquireFails, Evict, StepsEnd,
         Verdict, DialFails,
         CutOff, DropDial, LinkDies, jobVars
<1> DEFINE Home(j) == /\ job[j] # None \/ queue[j] # None \/ att[j].pc \notin {"idle", "done"} => Stamped(j)
                      /\ Runs(j)
<1>2. CASE UNCHANGED <<jobVars, att>>
  BY <1>1, <1>2, HomeSame DEF jobVars, HomeInv
<1>3. ASSUME NEW o \in Orch, NEW j \in Job, Submit(o, j) PROVE HomeInv'
  <2>1. Stamped(j)' /\ \A k \in Job : k # j => job'[k] = job[k] /\ home'[k] = home[k]
    BY <1>0, <1>3, SubmitStamps
  <2>2. UNCHANGED <<queue, att>> /\ att[j].pc = "idle" /\ att[j].host = None
    BY <1>0, <1>3 DEF Submit, AttOK, Placed, Held
  <2>3. Home(j)'
    BY <2>1, <2>2 DEF Runs
  <2>4. \A k \in Job : k # j => Home(k)'
    BY <2>1, <2>2, HomeSame
  <2> QED BY <2>3, <2>4 DEF HomeInv
<1>4. ASSUME NEW o \in Orch, NEW j \in Job, QueueJob(o, j) PROVE HomeInv'
  <2>1. job[j] # None /\ att[j].pc = "idle" /\ UNCHANGED <<job, home>> /\ \A k \in Job : k # j => queue'[k] = queue[k]
    BY <1>4 DEF QueueJob, HomeDomains
  <2>2. AttOK' /\ Others(j) /\ (att'[j] = att[j] \/ (att'[j].pc = "done" /\ att'[j].host = None))
    BY <1>0, <1>4, QueueJobDoes
  <2>3. Stamped(j)'
    BY <2>1 DEF HomeInv, Stamped
  <2>4. Home(j)'
    BY <2>1, <2>2, <2>3 DEF Runs, HomeInv
  <2>5. \A k \in Job : k # j => Home(k)'
    BY <2>1, <2>2, HomeSame DEF Others
  <2> QED BY <2>4, <2>5 DEF HomeInv
<1>5. ASSUME NEW o \in Orch, NEW j \in Job, Take(o, j) PROVE HomeInv'
  <2>1. UNCHANGED <<job, home, queue>> /\ queue[j] \in Routes
    BY <1>0, <1>5 DEF Take, FleetOK, SnapOK, jobVars
  <2>2. AttOK' /\ Others(j) /\ att'[j].pc = "pick" /\ att'[j].host = None
    BY <1>0, <1>5, TakeDoes
  <2>3. queue[j] # None
    BY <2>1, NoneAssumption DEF Routes
  <2>4. Home(j)'
    BY <2>1, <2>2, <2>3 DEF HomeInv, Stamped, Runs
  <2>5. \A k \in Job : k # j => Home(k)'
    BY <2>1, <2>2, HomeSame DEF Others
  <2> QED BY <2>4, <2>5 DEF HomeInv
<1>6. ASSUME NEW j \in Job, Pick(j) PROVE HomeInv'
  <2>1. UNCHANGED <<job, home, queue>>
    BY <1>6 DEF Pick, jobVars
  <2>2. /\ Others(j) /\ att[j].pc = "pick"
        /\ \/ att'[j].pc = "idle" /\ att'[j].host = None
           \/ \E o \in Orch :
                  /\ att'[j].pc = "dial" /\ PickRunner(Pool(o), job[j]) # None
                  /\ att'[j].host = PickRunner(Pool(o), job[j])
                  /\ att'[j].net = Place(Pool(o), job[j]).network.id
    BY <1>0, <1>6, PickDoes
  <2>3. Stamped(j) /\ Stamped(j)'
    BY <2>1, <2>2 DEF HomeInv, Stamped
  <2>4. CASE att'[j].pc = "idle" /\ att'[j].host = None
    <3>1. Home(j)'
      BY <2>3, <2>4 DEF Runs
    <3>2. \A k \in Job : k # j => Home(k)'
      BY <2>1, <2>2, HomeSame DEF Others
    <3> QED BY <3>1, <3>2 DEF HomeInv
  <2>5. ASSUME NEW o \in Orch, att'[j].pc = "dial", PickRunner(Pool(o), job[j]) # None,
               att'[j].host = PickRunner(Pool(o), job[j]), att'[j].net = Place(Pool(o), job[j]).network.id
        PROVE  HomeInv'
    <3>1. Runs(j)'
      BY <1>0, <2>1, <2>3, <2>5, PickLeadsHome DEF Runs
    <3>2. Home(j)'
      BY <2>3, <3>1
    <3>3. \A k \in Job : k # j => Home(k)'
      BY <2>1, <2>2, HomeSame DEF Others
    <3> QED BY <3>2, <3>3 DEF HomeInv
  <2> QED BY <2>2, <2>4, <2>5
<1>7. ASSUME NEW j \in Job,
             \/ DialHit(j) \/ DialMiss(j) \/ Connected(j) \/ ProbePasses(j)
             \/ Acquire(j) \/ AcquireFails(j) \/ StepsEnd(j)
      PROVE  HomeInv'
  <2>1. UNCHANGED <<job, home, queue>> /\ att[j].pc \notin {"idle", "done"}
    BY <1>7 DEF DialHit, DialMiss, Connected, ProbePasses, Acquire, AcquireFails, StepsEnd, jobVars
  <2>2. Others(j) /\ att'[j].host = att[j].host /\ att'[j].net = att[j].net
    BY <1>0, <1>7, SetPcDoes, GivenDoes
    DEF DialHit, DialMiss, Connected, ProbePasses, Acquire, AcquireFails, StepsEnd, Moves, Held, Pc
  <2> QED BY <2>1, <2>2, HomeSame DEF HomeInv, Others
<1>8. ASSUME NEW j \in Job, DialFails(j) \/ CutOff(j) PROVE HomeInv'
  <2>1. UNCHANGED <<job, home, queue>> /\ DropDial(j)
    BY <1>8 DEF DialFails, CutOff, DropDial, jobVars
  <2>2. Others(j) /\ att'[j].host = None /\ att'[j].pc = "idle"
    BY <1>0, <2>1, DropDialDoes
  <2> QED BY <2>1, <2>2, HomeSame DEF HomeInv, Others
<1>9. ASSUME NEW j \in Job, Evict(j) PROVE HomeInv'
  <2>1. UNCHANGED <<job, home, queue>>
    BY <1>9 DEF Evict, jobVars
  <2> QED BY <1>0, <1>9, <2>1, EvictDoes, HomeSame DEF HomeInv
<1>10. ASSUME NEW j \in Job, Verdict(j) PROVE HomeInv'
  <2>1. UNCHANGED <<job, home, queue>>
    BY <1>10 DEF Verdict, jobVars
  <2> QED BY <1>0, <1>10, <2>1, VerdictDoes, HomeSame DEF HomeInv, Others, Moves
<1>11. CASE CloudSteps \/ (\E o \in Orch, h \in Host : LinkDies(o, h)) \/ UNCHANGED vars
  <2>1. UNCHANGED <<jobVars, att>>
    BY <1>0, <1>11, CloudType DEF LinkDies, vars
  <2> QED BY <1>2, <2>1
<1> QED BY <1>1, <1>3, <1>4, <1>5, <1>6, <1>7, <1>8, <1>9, <1>10, <1>11 DEF Next, Attempt, CloudSteps

(* A job runs in the network, and pinned on the host, its submit decided   *)
(* on, whichever orchestrators route it and pick it up and however stale   *)
(* their snapshots, as long as no two networks and no two hosts share a    *)
(* display name: names are what the stored plan goes by.                   *)
THEOREM RunsAtHome == UniqueNames /\ Spec => []RunsWhereSubmitted
<1>1. HomeInv => RunsWhereSubmitted
  BY DEF HomeInv, RunsWhereSubmitted, Runs
<1>2. CASE UniqueNames
  <2>1. Inv /\ HomeInv /\ HomeDomains /\ [Next]_vars => HomeInv' /\ HomeDomains'
    BY <1>2, NextHome
  <2>2. Spec => []HomeInv
    BY <2>1, InitHome, InvHolds, PTL DEF Spec
  <2> QED BY <1>1, <2>2, PTL
<1> QED BY <1>2

=============================================================================
