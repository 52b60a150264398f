------------------------------- MODULE MCSubmit -------------------------------
(* Two submits of one repository while everything around them moves.       *)
EXTENDS Submit

CONSTANTS r1, r2, t1, t2, u1, n1, n2

-----------------------------------------------------------------------------
(* Submitted trees: what a file says, in one of two directories, sorted by *)
(* path as find_workflows lists them.                                      *)

Api == <<<<"a">>, <<"x">>>>
Docs == <<<<"d">>, <<"x">>>>
Under(d) == <<<<d>>, AnyDepth>>
Main == <<<<"m">>>>

Job(id, needs, matrix) ==
    [id |-> id, vmOk |-> TRUE, uses |-> <<>>, needs |-> needs, steps |-> <<"run">>, matrix |-> matrix]
Wf(jobs, filter) == [jobs |-> jobs, filter |-> filter]
One(filter) == Wf(<<Job(<<"a">>, <<>>, NoMatrix)>>, filter)
In(dir, name, on, wf) == [dir |-> dir, name |-> name, on |-> on, wf |-> wf]

Plain == In("p", "plain", TRUE, One(NoFilter))
Elsewhere == In("q", "elsewhere", TRUE, One(NoFilter))
Timed == In("p", "nightly", FALSE, One(NoFilter))
OfApi == In("p", "api", TRUE, One([NoFilter EXCEPT !.paths = {Under("a")}]))
NotDocs == In("p", "code", TRUE, One([NoFilter EXCEPT !.pathsIgnore = {Under("d")}]))
OnMain == In("p", "main", TRUE, One([NoFilter EXCEPT !.branches = {Main}]))
Cyclic == In("p", "zcyclic", TRUE, Wf(<<Job(<<"a">>, <<<<"b">>>>, NoMatrix), Job(<<"b">>, <<<<"a">>>>, NoMatrix)>>, NoFilter))
Hollow == In("p", "zhollow", TRUE,
             Wf(<<Job(<<"a">>, <<>>, [NoMatrix EXCEPT !.axes = <<<<[text |-> "x", token |-> <<"x">>]>>>>,
                                                      !.exclude = {<<[text |-> "x", token |-> <<"x">>]>>}])>>,
                NoFilter))

Carrying(cred, files, diff, history, workflow) ==
    [cred |-> cred, token |-> IF cred = "token" THEN t1 ELSE None, url |-> u1, workflow |-> workflow,
     files |-> files, diff |-> diff, history |-> history, branch |-> Main]

Of(first, second) == [r \in Request |-> IF r = r1 THEN first ELSE second]
Trees == {<<OfApi, Timed, Plain>>, <<NotDocs, OnMain, Cyclic>>, <<Plain, Hollow>>}
Diffs == {{}, {Docs}, {Api, Docs}}
Anonymous == Carrying("none", <<>>, {}, FALSE, None)
ByName == Carrying("shared", <<Plain, Elsewhere>>, {Api}, TRUE, "o1")
Pushed == Carrying("token", <<NotDocs, Plain, Elsewhere>>, {Api}, TRUE, None)
PushedAnew == [Carrying("token", <<Plain>>, {Api}, TRUE, None) EXCEPT !.token = t2]

Object(id, path, network, enabled) ==
    [id |-> id, url |-> u1, path |-> path, network |-> network, enabled |-> enabled]
MCObjectSets == {<<>>, <<Object("o1", "p", n2, TRUE), Object("o2", "q", None, TRUE)>>}

MCRegistry ==
    [repos |-> [u \in Url |-> [id |-> 1, url |-> u, enabled |-> TRUE, network |-> n1, path |-> None]],
     tokens |-> [t \in Token |-> IF t = t1 THEN [repo |-> 1, live |-> TRUE] ELSE None]]

Budget(adm, obj, pool, fault, crash) ==
    [admin |-> adm, objects |-> obj, pool |-> pool, fault |-> fault, crash |-> crash]
Quiet == Budget(0, 0, 0, 0, 0)
MCScenarios ==
    {[payloads |-> Of(Carrying("token", files, diff, history, None), Anonymous), budget |-> b] :
        files \in Trees, diff \in Diffs, history \in BOOLEAN, b \in {Quiet, Budget(0, 0, 0, 1, 0)}}
    \union {[payloads |-> Of(Pushed, Anonymous), budget |-> b] :
        b \in {Budget(2, 0, 0, 0, 0), Budget(0, 1, 1, 0, 0), Budget(1, 0, 0, 1, 1)}}
    \union {[payloads |-> Of(Pushed, ByName), budget |-> b] :
        b \in {Budget(1, 0, 0, 0, 0), Budget(0, 1, 0, 0, 1)}}
    \union {[payloads |-> Of(PushedAnew, Anonymous), budget |-> Budget(3, 0, 0, 0, 0)]}
    \union {[payloads |-> Of(Carrying("token", <<Timed>>, {Api}, TRUE, None), ByName), budget |-> Quiet]}
=============================================================================
