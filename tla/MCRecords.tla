------------------------------ MODULE MCRecords ------------------------------
(***************************************************************************)
(* Instances of Records for TLC.  The first run has a command and an upload*)
(* it must have; the second an upload it may do without, under the tag and *)
(* the path of the one that follows.  Their deliveries fail in every way,  *)
(* one by one and two at once, with a viewer at any moment and two runs to *)
(* sweep one at a time.                                                    *)
(***************************************************************************)
EXTENDS Records

CONSTANTS v1, d1, d2, t1, t2

MCUploads == {<<1, 2>>, <<2, 1>>, <<2, 2>>}
MCExcused == {<<2, 1>>}
MCTagOf == [u \in MCUploads |-> IF u[1] = 1 THEN t1 ELSE t2]

With(faults, ages) == [f \in Fault |-> IF f = "age" THEN ages ELSE IF f \in faults THEN 1 ELSE 0]
Scenario(s, active, viewers, faults, ages) ==
    [sink |-> s, active |-> active, viewers |-> viewers, left |-> With(faults, ages)]

(* One run watched; one run uploading to each sink; runs swept, one while  *)
(* it may still be running, and one behind the other.                      *)
MCScenarios ==
    {Scenario("artifacts", {1}, {v1}, f, 0) :
        f \in {{"attempt", "read"}, {"log", "cancel"}, {"crash", "slow"}, {"lapse"}}}
    \union {Scenario("disk", {1}, {v1}, {"slow"}, 1)}
    \union {Scenario(s, {1}, {}, {"crash", "attempt", "upload", "log"}, 0) : s \in {"disk", "artifacts"}}
    \union {Scenario(s, {2}, {}, {"crash", "upload", "lapse"}, 0) : s \in {"disk", "artifacts"}}
    \union {Scenario("disk", {1}, {}, {"crash", "remove", "forget", "slow"}, 1)}
    \union {Scenario("disk", {1, 2}, {}, {"remove", "forget"}, 2)}
=============================================================================
