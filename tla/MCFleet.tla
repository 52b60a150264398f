------------------------------- MODULE MCFleet -------------------------------
(* Two orchestrators, each on a host of its own, and two networks.         *)
EXTENDS Fleet

CONSTANTS a, b, pinned, roaming, own

MCHosts == {1, 2}
MCNets == {1, 2}
MCHostName == [h \in MCHosts |-> 3 - h]
MCNetName == [n \in MCNets |-> n]
MCCiNetwork ==
    [o \in {a, b} |-> IF o = a THEN [all |-> TRUE, names |-> <<>>]
                      ELSE [all |-> FALSE, names |-> <<ByName(2)>>]]
MCSelf ==
    [o \in {a, b} |->
        IF o = a THEN [config |-> None, disk |-> 1, probe |-> None]
        ELSE [config |-> None, disk |-> None, probe |-> [id |-> None, name |-> MCHostName[2]]]]
MCUps == {[h \in MCHosts |-> "online"], [h \in MCHosts |-> IF h = 1 THEN "stale" ELSE "online"]}
MCMember == [n \in MCNets |-> IF n = 1 THEN {1} ELSE {1, 2}]
MCRepoNet == [j \in Job |-> None]

Target(net, node, local) == [network |-> net, node |-> node, vm |-> None, local |-> local]
MCWritten ==
    [j \in Job |->
        CASE j = pinned -> [target |-> Target(ById(2), ById(1), FALSE), fallback |-> "none"]
          [] j = roaming -> [target |-> Target(None, None, FALSE), fallback |-> "none"]
          [] j = own -> [target |-> Target(None, None, TRUE), fallback |-> "none"]]
Left(cloud, unread, link, dial, cut, row) ==
    [cloud |-> cloud, unread |-> unread, link |-> link, dial |-> dial, cut |-> cut, row |-> row]
Scenario(jobs, faults) == [jobs |-> jobs, left |-> faults]
MCScenarios ==
    {Scenario({pinned, roaming}, Left(1, 0, 0, 0, 0, 0)),
     Scenario({pinned, roaming}, Left(0, 1, 0, 0, 0, 0)),
     Scenario({pinned, roaming}, Left(0, 0, 2, 1, 1, 0)),
     Scenario({own}, Left(1, 0, 1, 0, 0, 1))}
MCOneLink == {Scenario({pinned, own}, Left(0, 0, 1, 0, 0, 0))}
MCNoFaults == {Scenario({own}, Left(0, 0, 0, 0, 0, 0))}
=============================================================================
