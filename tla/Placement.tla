------------------------------ MODULE Placement ------------------------------
(***************************************************************************)
(* Where a job runs: the pure part of runners.rs (what a refresh makes of  *)
(* the control plane's answers) and of dispatch.rs (assign_network, place, *)
(* route_for, pick_runner).                                                *)
(*                                                                         *)
(* Networks and hosts have an id, unique by construction, and a display    *)
(* name, which is not.  Both are numbers: the id's order is the order the  *)
(* control plane lists things in, the name's order is the one lists are    *)
(* sorted in.  A list is the set of its elements, its first element is     *)
(* First.  A needle is what a workflow, CI_NETWORK or CI_DEFAULT_NODE says,*)
(* an id or a name up to case: [by, v].                                    *)
(***************************************************************************)
EXTENDS Naturals, FiniteSets

CONSTANT None

First(S) ==
    CHOOSE x \in S : \A y \in S : x.name < y.name \/ (x.name = y.name /\ x.id <= y.id)

ById(i) == [by |-> "id", v |-> i]
ByName(n) == [by |-> "name", v |-> n]

Matches(x, needle) == x[needle.by] = needle.v
Matching(S, needle) == {x \in S : Matches(x, needle)}

-----------------------------------------------------------------------------
(* runners.rs: from the two control-plane reads to a snapshot.             *)

(* The daemon CI_DEFAULT_NODE (or daemon.json) refers to: an exact id, the *)
(* only one of that name, or the only live one of that name.               *)
PickDaemon(daemons, needle) ==
    LET found == Matching(daemons, needle)
        live == {d \in found : d.status = "online"}
    IN  IF Cardinality(found) = 1 THEN (CHOOSE d \in found : TRUE).id
        ELSE IF Cardinality(live) = 1 THEN (CHOOSE d \in live : TRUE).id
        ELSE None

(* resolve_default_node: which daemon this orchestrator sits on, by what it*)
(* is told (CI_DEFAULT_NODE), else by the id in daemon.json, else by what  *)
(* the daemon next to it answers to /daemon/name.  An id counts only if the*)
(* account knows it; config, disk and probe are None where there is none.  *)
ResolveDefaultNode(daemons, self) ==
    LET known(i) == \E d \in daemons : d.id = i
        probe == self.probe
    IN  CASE self.config # None -> PickDaemon(daemons, self.config)
          [] self.config = None /\ known(self.disk) -> self.disk
          [] self.config = None /\ ~known(self.disk) ->
                IF probe = None THEN None
                ELSE IF known(probe.id) THEN probe.id
                ELSE IF probe.name = None THEN None
                ELSE PickDaemon(daemons, ByName(probe.name))

(* A network's hosts: its members of kind host, with the daemon's status   *)
(* where there is a daemon row.                                            *)
Project(members, daemons) ==
    {[id |-> m.id, name |-> m.name,
      status |-> IF \E d \in daemons : d.id = m.id
                 THEN (CHOOSE d \in daemons : d.id = m.id).status ELSE "orphaned"] :
        m \in {x \in members : x.kind = "host"}}

(* CI_NETWORK: everything, or the networks it names, of which the first is *)
(* the default.                                                            *)
Includes(ci, net) == ci.all \/ \E i \in DOMAIN ci.names : Matches(net, ci.names[i])
Preferred(ci) == IF ci.all \/ ci.names = <<>> THEN None ELSE ci.names[1]

Served(networks) == {n \in networks : n.served}

PickDefault(networks, preferred) ==
    LET served == Served(networks)
        wanted == IF preferred = None THEN {} ELSE Matching(served, preferred)
        flagged == {n \in served : n.isDefault}
    IN  CASE wanted # {} -> First(wanted).id
          [] wanted = {} /\ flagged # {} -> First(flagged).id
          [] wanted = {} /\ flagged = {} /\ served # {} -> First(served).id
          [] OTHER -> None

-----------------------------------------------------------------------------
(* Pool's lookups.                                                         *)

DefaultSet(pool) ==
    LET served == Served(pool.networks)
        default == {n \in served : n.id = pool.defaultNetwork}
    IN  IF default # {} THEN First(default)
        ELSE IF served # {} THEN First(served) ELSE None

Locate(pool, h) ==
    LET holding == {n \in Served(pool.networks) : \E r \in n.runners : r.id = h}
        default == {n \in holding : n.id = pool.defaultNetwork}
    IN  IF default # {} THEN First(default)
        ELSE IF holding # {} THEN First(holding) ELSE None

Dispatchable(net) == {r \in net.runners : r.status = "online"}

-----------------------------------------------------------------------------
(* dispatch.rs.  A job here is its target and its fallback.                *)

NetworkOf(pool, target) ==
    IF target.network = None THEN DefaultSet(pool)
    ELSE LET found == Matching(pool.networks, target.network) IN
         IF found # {} /\ First(found).served THEN First(found) ELSE None

Refused == [network |-> None, node |-> None, vm |-> None]

(* uses: default is whichever served network holds this orchestrator's own *)
(* host, whatever else the target says.                                    *)
PlaceLocal(pool, target) ==
    LET h == pool.defaultNode
        net == Locate(pool, h)
    IN  IF h = None \/ net = None THEN Refused
        ELSE [network |-> net, node |-> CHOOSE r \in net.runners : r.id = h, vm |-> target.vm]

PlaceNamed(pool, job) ==
    LET net == NetworkOf(pool, job.target)
        found == Matching(net.runners, job.target.node)
    IN  CASE net = None -> Refused
          [] net # None /\ job.target.node = None ->
                [network |-> net, node |-> None, vm |-> None]
          [] net # None /\ job.target.node # None ->
                IF found # {}
                THEN [network |-> net, node |-> First(found), vm |-> job.target.vm]
                ELSE IF job.fallback = "any" /\ job.target.vm = None
                THEN [network |-> net, node |-> None, vm |-> None]
                ELSE Refused

Place(pool, job) ==
    IF job.target.local THEN PlaceLocal(pool, job.target) ELSE PlaceNamed(pool, job)

(* assign_network's first half: the repository's network, where the target *)
(* names none.                                                             *)
WithNetwork(job, repo) ==
    IF job.target.network = None /\ ~job.target.local
    THEN [job EXCEPT !.target.network = repo] ELSE job

Stamp_not_at_all(pool, job) == job
(* Its second half: canonical names over whatever was written.             *)
Stamp(pool, job) ==
    LET p == Place(pool, job)
        node == IF p.node = None THEN job.target.node ELSE ByName(p.node.name)
    IN  [job EXCEPT !.target = [network |-> ByName(p.network.name), node |-> node,
                                vm |-> job.target.vm, local |-> job.target.local]]

Route(kind, i) == [kind |-> kind, id |-> i]

RouteFor(pool, job) ==
    LET p == Place(pool, job) IN
    IF p.network = None THEN None
    ELSE IF p.node # None THEN Route("runner", p.node.id)
    ELSE Route("network", p.network.id)

(* The host of an attempt, or None: refused, offline, or nobody online.    *)
PickRunner(pool, job) ==
    LET p == Place(pool, job) IN
    IF p.network = None THEN None
    ELSE IF p.node # None
    THEN IF p.node.status = "online" THEN p.node.id ELSE None
    ELSE IF Dispatchable(p.network) # {} THEN First(Dispatchable(p.network)).id ELSE None

(* What spawn_consumers binds.                                             *)
WantedRoutes(pool) ==
    UNION {{Route("network", n.id)} \cup {Route("runner", r.id) : r \in Dispatchable(n)} :
               n \in Served(pool.networks)}
=============================================================================
