-------------------------------- MODULE Fleet --------------------------------
(***************************************************************************)
(* Several orchestrators on one account: each has its own snapshot of the  *)
(* networks and hosts, refreshed on its own ticker; a job is stamped by    *)
(* the one it was submitted to, routed by whichever runs advance_run, and  *)
(* picked up by any that has a consumer on its subject; and each reaches a *)
(* host over one cached tunnel, which fails, is evicted and is redialed    *)
(* under the jobs that use it.                                             *)
(*                                                                         *)
(* The rows' life (claims, redeliveries, verdicts) is Dispatch's; here an  *)
(* attempt that fails simply goes back to its subject.                     *)
(***************************************************************************)
EXTENDS Placement

CONSTANTS
    Orch,           \* orchestrator processes
    Host, Net,      \* ids
    HostName, NetName,
    IsDefault,      \* the account's default network
    CiNetwork,      \* per orchestrator: CI_NETWORK, [all, names]
    Self,           \* per orchestrator: [config, disk, probe], its own host's identity
    Job, Written,   \* jobs, and each one's uses: and fallback:
    RepoNet,        \* the repository's assigned network, or None
    InitUps,        \* host statuses to start from
    InitMember,     \* network members at the start
    Scenarios       \* [jobs, left]: the jobs that take part, and how many faults of each kind

(* A scenario is drawn at the start, so that one run may look at trouble in*)
(* the fleet and at trouble in the tunnels without multiplying the two.    *)
(* cloud: a host goes up or down, or a membership changes; unread: one     *)
(* network's members cannot be read; link: a tunnel dies; dial: a dial     *)
(* fails, or a request is refused; cut: an attempt's future is dropped;    *)
(* row: the verdict cannot be written.                                     *)
Fault == {"cloud", "unread", "link", "dial", "cut", "row"}

HostStatus == {"online", "stale", "gone"}
Needle == [by : {"id", "name"}, v : Nat]

ASSUME FleetAssumption ==
    /\ Host \subseteq Nat /\ Net \subseteq Nat
    /\ HostName \in [Host -> Nat] /\ NetName \in [Net -> Nat]
    /\ \A o \in Orch : CiNetwork[o].all \in BOOLEAN
    /\ Written \in [Job -> [target : [network : Needle \cup {None}, node : Needle \cup {None},
                                      vm : Nat \cup {None}, local : BOOLEAN],
                            fallback : {"none", "any"}]]
    /\ InitUps \subseteq [Host -> HostStatus] /\ InitMember \in [Net -> SUBSET Host]
    /\ \A s \in Scenarios : s.jobs \subseteq Job /\ s.left \in [Fault -> Nat]

(* None is Rust's, and no host, network, job, runner, needle or route.     *)
ASSUME NoneAssumption ==
    /\ None \notin Host \cup Net \cup Job \cup Orch
    /\ None \notin [id : Host, name : Nat, status : HostStatus \cup {"orphaned"}]
    /\ None \notin Needle
    /\ None \notin [kind : {"network", "runner"}, id : Host \cup Net]

VARIABLES
    up,         \* per host: the status the control plane reports
    member,     \* per network: the hosts in it
    snap,       \* per orchestrator: Runners::snapshot
    bound,      \* per orchestrator: the routes with a consumer task
    job,        \* the stored plan's target, or None before the submit
    home,       \* history: the network and node the submit decided on
    queue,      \* the subject the job is on
    att,        \* the attempt in progress: where, and the port it was given
    cache,      \* per orchestrator and host: the cached tunnel
    lock,       \* per orchestrator: the job dialing under the tunnels mutex
    open,       \* per orchestrator and host: tunnels that exist
    met,        \* history: (orch, host, job) that got no VM over the tunnel still cached
    died,       \* history: (orch, host, job) whose steps died on the tunnel still cached
    left        \* faults left

fleetVars == <<up, member, snap, bound>>
jobVars == <<job, home, queue>>
tunnelVars == <<cache, lock, open, met, died>>
vars == <<fleetVars, jobVars, att, tunnelVars, left>>

(* A port is open as long as the cached client it belongs to is.           *)
Idle == [pc |-> "idle", orch |-> None, host |-> None, net |-> None, port |-> "none"]
Pc == {"idle", "pick", "dial", "dialing", "probe", "use", "evict", "steps", "verdict", "done"}

Spend(f) ==
    /\ left[f] > 0
    /\ left' = [left EXCEPT ![f] = @ - 1]

-----------------------------------------------------------------------------
(* The control plane and the snapshots of it.                              *)

(* The answers a refresh gets.                                             *)
View(unread) ==
    [up |-> up, member |-> [n \in Net |-> IF n \in unread THEN {} ELSE member[n]]]

Daemons(view) ==
    {[id |-> h, name |-> HostName[h], status |-> view.up[h]] : h \in {x \in Host : view.up[x] # "gone"}}

Members(view, n) == {[id |-> h, name |-> HostName[h], kind |-> "host"] : h \in view.member[n]}

Load(o, view) ==
    LET networks == {[id |-> n, name |-> NetName[n], isDefault |-> n = IsDefault,
                      served |-> Includes(CiNetwork[o], [id |-> n, name |-> NetName[n]]),
                      runners |-> Project(Members(view, n), Daemons(view))] : n \in Net}
    IN  [networks |-> networks,
         defaultNetwork |-> PickDefault(networks, Preferred(CiNetwork[o])),
         defaultNode |-> ResolveDefaultNode(Daemons(view), Self[o])]

(* A snapshot, with the answers it was computed from.                      *)
Snapshot(o, view) == [view |-> view, pool |-> Load(o, view)]
Pool(o) == snap[o].pool

Init ==
    /\ up \in InitUps
    /\ member = InitMember
    /\ snap = [o \in Orch |-> Snapshot(o, View({}))]
    /\ bound = [o \in Orch |-> {}]
    /\ job = [j \in Job |-> None]
    /\ home = [j \in Job |-> None]
    /\ queue = [j \in Job |-> None]
    /\ \E s \in Scenarios :
         /\ att = [j \in Job |-> [Idle EXCEPT !.pc = IF j \in s.jobs THEN "idle" ELSE "done"]]
         /\ left = s.left
    /\ cache = [o \in Orch |-> [h \in Host |-> "none"]]
    /\ lock = [o \in Orch |-> None]
    /\ open = [o \in Orch |-> [h \in Host |-> 0]]
    /\ met = {} /\ died = {}

CloudChanges ==
    /\ Spend("cloud")
    /\ \/ /\ \E h \in Host, s \in HostStatus :
                up[h] # s /\ up' = [up EXCEPT ![h] = s]
          /\ UNCHANGED member
       \/ /\ \E n \in Net : \E h \in member[n] : member' = [member EXCEPT ![n] = @ \ {h}]
          /\ UNCHANGED up
    /\ UNCHANGED <<snap, bound, jobVars, att, tunnelVars>>

(* A refresh that fails keeps the snapshot it had, and one that gets the   *)
(* same answers makes the same one: neither is a step.                     *)
Refresh(o) ==
    /\ snap[o].view # View({})
    /\ snap' = [snap EXCEPT ![o] = Snapshot(o, View({}))]
    /\ UNCHANGED <<up, member, bound, jobVars, att, tunnelVars, left>>

RefreshUnread(o) ==
    /\ Spend("unread")
    /\ \E n \in Net : snap' = [snap EXCEPT ![o] = Snapshot(o, View({n}))]
    /\ UNCHANGED <<up, member, bound, jobVars, att, tunnelVars>>

(* The dashboard's join button: this orchestrator's own host, then a       *)
(* refresh.                                                                *)
JoinNetwork(o) ==
    LET h == Pool(o).defaultNode IN
    /\ h # None
    /\ Spend("cloud")
    /\ \E n \in Net :
         /\ h \notin member[n]
         /\ member' = [member EXCEPT ![n] = @ \cup {h}]
    /\ up' = up
    /\ snap' = [snap EXCEPT ![o] = Snapshot(o, View({})')]
    /\ UNCHANGED <<bound, jobVars, att, tunnelVars>>

(* Consumers are added for what is online now and never taken down.        *)
SpawnConsumers_networks_only(o) ==
    /\ bound' = [bound EXCEPT ![o] = {r \in WantedRoutes(Pool(o)) : r.kind = "network"} \cup @]
    /\ UNCHANGED <<up, member, snap, jobVars, att, tunnelVars, left>>
SpawnConsumers(o) ==
    /\ ~(WantedRoutes(Pool(o)) \subseteq bound[o])
    /\ bound' = [bound EXCEPT ![o] = WantedRoutes(Pool(o)) \cup @]
    /\ UNCHANGED <<up, member, snap, jobVars, att, tunnelVars, left>>

-----------------------------------------------------------------------------
(* From submit to an attempt.                                              *)

(* assign_network; a refused placement refuses the submit.                 *)
Submit(o, j) ==
    LET jb == WithNetwork(Written[j], RepoNet[j])
        p == Place(Pool(o), jb)
    IN
    /\ job[j] = None /\ att[j].pc = "idle"
    /\ p.network # None
    /\ job' = [job EXCEPT ![j] = Stamp(Pool(o), jb)]
    /\ home' = [home EXCEPT ![j] =
                  [net |-> p.network.id, node |-> IF p.node = None THEN None ELSE p.node.id]]
    /\ UNCHANGED <<fleetVars, queue, att, tunnelVars, left>>

(* advance_run: a placement that is refused by now fails the job, which is *)
(* then on no subject.                                                     *)
QueueJob(o, j) ==
    /\ job[j] # None /\ queue[j] = None /\ att[j].pc = "idle"
    /\ LET r == RouteFor(Pool(o), job[j]) IN
       IF r # None
       THEN queue' = [queue EXCEPT ![j] = r] /\ att' = att
       ELSE queue' = queue /\ att' = [att EXCEPT ![j].pc = "done"]
    /\ UNCHANGED <<fleetVars, job, home, tunnelVars, left>>

Take(o, j) ==
    /\ att[j].pc = "idle"
    /\ queue[j] \in bound[o]
    /\ att' = [att EXCEPT ![j] = [Idle EXCEPT !.pc = "pick", !.orch = o]]
    /\ UNCHANGED <<fleetVars, jobVars, tunnelVars, left>>

Pick(j) ==
    LET o == att[j].orch
        h == PickRunner(Pool(o), job[j])
    IN
    /\ att[j].pc = "pick"
    /\ att' = [att EXCEPT ![j] =
                 IF h = None THEN Idle
                 ELSE [pc |-> "dial", orch |-> o, host |-> h, port |-> "none",
                       net |-> Place(Pool(o), job[j]).network.id]]
    /\ UNCHANGED <<fleetVars, jobVars, tunnelVars, left>>

-----------------------------------------------------------------------------
(* The tunnel: client_for under its mutex, the work, evict.                *)

SetPc(j, l) == att' = [att EXCEPT ![j].pc = l]
Given(j) == att' = [att EXCEPT ![j].pc = "use", ![j].port = "open"]

DialHit(j) ==
    LET o == att[j].orch IN
    /\ att[j].pc = "dial" /\ lock[o] = None
    /\ cache[o][att[j].host] # "none"
    /\ Given(j)
    /\ UNCHANGED <<fleetVars, jobVars, tunnelVars, left>>

DialMiss_unlocked(j) ==
    /\ att[j].pc = "dial"
    /\ cache[att[j].orch][att[j].host] = "none"
    /\ SetPc(j, "dialing")
    /\ UNCHANGED <<fleetVars, jobVars, tunnelVars, left>>
(* The lock is kept through the ticket, the dial and the probe.            *)
DialMiss(j) ==
    LET o == att[j].orch IN
    /\ att[j].pc = "dial" /\ lock[o] = None
    /\ cache[o][att[j].host] = "none"
    /\ lock' = [lock EXCEPT ![o] = j]
    /\ SetPc(j, "dialing")
    /\ UNCHANGED <<fleetVars, jobVars, cache, open, met, died, left>>

(* connect_p2p returns, and the tunnel exists.                             *)
Connected(j) ==
    /\ att[j].pc = "dialing"
    /\ open' = [open EXCEPT ![att[j].orch][att[j].host] = @ + 1]
    /\ SetPc(j, "probe")
    /\ UNCHANGED <<fleetVars, jobVars, cache, lock, met, died, left>>

(* The daemon refuses the anonymous request, or does not answer it.        *)
ProbePasses(j) ==
    /\ att[j].pc = "probe"
    /\ cache' = [cache EXCEPT ![att[j].orch][att[j].host] = "live"]
    /\ lock' = [lock EXCEPT ![att[j].orch] = None]
    /\ Given(j)
    /\ UNCHANGED <<fleetVars, jobVars, open, met, died, left>>

(* What a future that ends while dialing leaves: no lock, no tunnel.       *)
DropDial(j) ==
    LET o == att[j].orch IN
    /\ lock' = IF att[j].pc \in {"dialing", "probe"} THEN [lock EXCEPT ![o] = None] ELSE lock
    /\ open' = IF att[j].pc = "probe"
               THEN [open EXCEPT ![o][att[j].host] = @ - 1] ELSE open
    /\ att' = [att EXCEPT ![j] = Idle]
    /\ UNCHANGED <<fleetVars, jobVars, cache>>

(* No ticket, no link in time, or a daemon that answers without a bearer;  *)
(* or one that answers that the image or the VM is not to be had: nothing  *)
(* is cached and nothing evicted.                                          *)
DialFails(j) ==
    /\ att[j].pc \in {"dialing", "probe", "use"}
    /\ Spend("dial")
    /\ DropDial(j)
    /\ UNCHANGED <<met, died>>

(* The time limit drops the attempt wherever it is, before its evict too.  *)
CutOff(j) ==
    /\ att[j].pc \notin {"idle", "done"}
    /\ Spend("cut")
    /\ DropDial(j)
    /\ met' = met \ {<<att[j].orch, att[j].host, j>>}
    /\ died' = died

Usable(j) == att[j].port = "open" /\ cache[att[j].orch][att[j].host] = "live"
OnCached(j, s) == IF att[j].port = "open" THEN s \cup {<<att[j].orch, att[j].host, j>>} ELSE s

(* The image and the VM are there: start_job, checkout, the steps.         *)
Acquire(j) ==
    /\ att[j].pc = "use" /\ Usable(j)
    /\ SetPc(j, "steps")
    /\ UNCHANGED <<fleetVars, jobVars, tunnelVars, left>>

(* A request over a dead link, or to a port whose client was evicted, is a *)
(* transport failure; the two look the same.  While the image is built and *)
(* the VM acquired it leaves run_claimed as what it is.                    *)
AcquireFails(j) ==
    /\ att[j].pc = "use" /\ ~Usable(j)
    /\ SetPc(j, "evict")
    /\ met' = OnCached(j, met)
    /\ UNCHANGED <<fleetVars, jobVars, cache, lock, open, died, left>>

Evict_missing(j) ==
    /\ att[j].pc = "evict"
    /\ att' = [att EXCEPT ![j] = Idle]
    /\ UNCHANGED <<fleetVars, jobVars, tunnelVars, left>>
(* evict removes whatever the cache holds by now, and the job is retried.  *)
Evict(j) ==
    LET o == att[j].orch  h == att[j].host
        closed == {k \in Job \ {j} : att[k].orch = o /\ att[k].host = h /\ att[k].port = "open"}
        elsewhere == {m \in Orch \X Host \X Job : ~(m[1] = o /\ m[2] = h)}
    IN
    /\ att[j].pc = "evict" /\ lock[o] = None
    /\ cache' = [cache EXCEPT ![o][h] = "none"]
    /\ open' = IF cache[o][h] = "none" THEN open ELSE [open EXCEPT ![o][h] = @ - 1]
    /\ met' = met \cap elsewhere /\ died' = died \cap elsewhere
    /\ att' = [k \in Job |->
                 CASE k = j -> Idle
                   [] k \in closed -> [att[k] EXCEPT !.port = "closed"]
                   [] OTHER -> att[k]]
    /\ UNCHANGED <<fleetVars, jobVars, lock, left>>

(* The steps end; or one of their requests, or checkout's, does not get    *)
(* through.  What is left of that error is its text, in a Checkout or a    *)
(* StepFailed, which is_tunnel_failure does not take for one: nothing is   *)
(* evicted.                                                                *)
StepsEnd(j) ==
    /\ att[j].pc = "steps"
    /\ SetPc(j, "verdict")
    /\ died' = IF Usable(j) THEN died ELSE OnCached(j, died)
    /\ UNCHANGED <<fleetVars, jobVars, cache, lock, open, met, left>>

(* The verdict; without it the message goes back.                          *)
Verdict(j) ==
    /\ att[j].pc = "verdict"
    /\ \/ SetPc(j, "done") /\ UNCHANGED left
       \/ Spend("row") /\ att' = [att EXCEPT ![j] = Idle]
    /\ UNCHANGED <<fleetVars, jobVars, tunnelVars>>

LinkDies(o, h) ==
    /\ cache[o][h] = "live"
    /\ Spend("link")
    /\ cache' = [cache EXCEPT ![o][h] = "dead"]
    /\ UNCHANGED <<fleetVars, jobVars, att, lock, open, met, died>>

-----------------------------------------------------------------------------
Attempt(j) ==
    \/ Pick(j) \/ DialHit(j) \/ DialMiss(j) \/ Connected(j) \/ ProbePasses(j)
    \/ Acquire(j) \/ AcquireFails(j) \/ Evict(j) \/ StepsEnd(j) \/ Verdict(j)

Next ==
    \/ CloudChanges
    \/ \E o \in Orch : Refresh(o) \/ RefreshUnread(o) \/ JoinNetwork(o) \/ SpawnConsumers(o)
    \/ \E o \in Orch, j \in Job : Submit(o, j) \/ QueueJob(o, j) \/ Take(o, j)
    \/ \E j \in Job : Attempt(j) \/ DialFails(j) \/ CutOff(j)
    \/ \E o \in Orch, h \in Host : LinkDies(o, h)

Spec == Init /\ [][Next]_vars

(* The two tickers tick, and a subject with a consumer is read.            *)
FairSpec ==
    /\ Spec
    /\ \A o \in Orch : WF_vars(Refresh(o)) /\ WF_vars(SpawnConsumers(o))
    /\ \A j \in Job : WF_vars(\E o \in Orch : Take(o, j))

-----------------------------------------------------------------------------
(* Properties.                                                             *)

TypeOK ==
    /\ up \in [Host -> HostStatus]
    /\ member \in [Net -> SUBSET Host]
    /\ \A j \in Job : /\ att[j].pc \in Pc /\ att[j].orch \in Orch \cup {None}
                      /\ att[j].host \in Host \cup {None}
    /\ cache \in [Orch -> [Host -> {"none", "live", "dead"}]]
    /\ lock \in [Orch -> Job \cup {None}]
    /\ open \in [Orch -> [Host -> Nat]]

(* A job runs in the network its submit decided on, and on the host it was *)
(* pinned to, whichever orchestrator routes it, whichever picks it up, and *)
(* whatever their snapshots have become since; uses: default, which names  *)
(* no network or host, and fallback: any, apart.                           *)
RunsWhereSubmitted ==
    \A j \in Job : att[j].host # None /\ ~Written[j].target.local =>
        /\ att[j].net = home[j].net
        /\ home[j].node # None /\ Written[j].fallback # "any" => att[j].host = home[j].node

(* "A pinned job does not silently migrate" (README), uses: default        *)
(* included: the host is the one the submit warned about, stamped into the *)
(* plan and queued for.                                                    *)
PinnedStays ==
    \A j \in Job : att[j].host # None /\ Written[j].fallback # "any" /\ home[j].node # None
        => att[j].host = home[j].node

(* "Two concurrent misses for the same runner would open two tunnels and   *)
(* leak one": a process has at most one tunnel to a host, counting the one *)
(* being dialed, over failed dials, dropped futures and evictions.         *)
OneTunnel == \A o \in Orch, h \in Host : open[o][h] <= 1

(* "Without this the NAK'd retries only rediscover the same dead local     *)
(* port": an attempt is never given the tunnel over which an earlier one of*)
(* the same job got no image or no VM, unless that one was cut off before  *)
(* it could evict.  A tunnel that dies under the steps is another matter:  *)
(* see NextJobRedials.                                                     *)
NeverTheSameDeadTunnel ==
    \A j \in Job : att[j].pc = "use" /\ att[j].port = "open" =>
        <<att[j].orch, att[j].host, j>> \notin met

(* "A host joins a network, or comes back after a reboot, and its queue    *)
(* needs an owner": a job queued for a host that is up, in a network       *)
(* somebody serves, does not wait for ever.                                *)
Owned(r) ==
    \E o \in Orch : \E n \in Net :
        /\ Includes(CiNetwork[o], [id |-> n, name |-> NetName[n]])
        /\ IF r.kind = "network" THEN r.id = n ELSE r.id \in member[n] /\ up[r.id] = "online"
QueueGetsOwner ==
    \A j \in Job : (queue[j] # None /\ att[j].pc = "idle")
                   ~> (att[j].pc # "idle" \/ queue[j] = None \/ ~Owned(queue[j]))

-----------------------------------------------------------------------------
(* What a comment says of this code, and it does not do.                   *)

(* dispatch.rs, after the release: "A tunnel that dies mid-job fails the   *)
(* job rather than propagating [...] Done here so the *next* job redials   *)
(* instead of inheriting the dead port": no attempt is given the tunnel on *)
(* which the steps of a job that has its verdict died.                     *)
NextJobRedials ==
    [][\A k \in Job : att[k].pc = "dial" /\ att'[k].pc = "use" =>
           \A j \in Job : att[j].pc = "done" => <<att[k].orch, att[k].host, j>> \notin died]_vars
=============================================================================
