-------------------------------- MODULE MCPlan --------------------------------
(* The pure algorithms behind a submit, over all small inputs.             *)
EXTENDS PlanInputs

MCCharacters == {"a", "b", "*", "?"}
Strings(A, n) == UNION {[1 .. k -> A] : k \in 0 .. n}

-----------------------------------------------------------------------------
(* Globs: every short pattern against every short text, of characters and  *)
(* of whole segments.                                                      *)

MCGlobs ==
    {[kind |-> "segment", pat |-> p, text |-> s] :
        p \in Strings({"a", "b", "*", "?"}, 3), s \in Strings({"a", "b"}, 4)}
    \union {[kind |-> "path", pat |-> p, text |-> s] :
        p \in Strings({AnyDepth, <<"*">>, <<"a">>, <<"b">>}, 3) \ {<<>>},
        s \in Strings({<<"a">>, <<"b">>}, 3) \ {<<>>}}

(* Conditions over four operands.                                          *)
Text(d) == Scalar("string", d, NaN)
MCContext ==
    [scopes |-> [needs |-> Composite("object", [b |-> Text("0")])], status |-> "failure",
     changes |-> Known({<<<<"a">>, <<"x">>>>}), segments |-> [docs |-> <<<<"d">>, AnyDepth>>]]
MCOperands ==
    {Leaf(<<Ident("needs"), Punct("."), Ident("b")>>),
     Leaf(<<Literal(Scalar("number", "0", 0))>>),
     Leaf(<<Ident("failure"), Punct("("), Punct(")")>>),
     Leaf(<<Ident("changed"), Punct("("), Literal(Text("docs")), Punct(")")>>)}

(* Workflows: three jobs whose ids look like each other's keys, with every *)
(* `needs` and with matrices whose values collide once sanitised.          *)
Value(text, token) == [text |-> text, token |-> token]
MatricesOf ==
    {NoMatrix,
     [NoMatrix EXCEPT !.axes = <<<<Value("1", <<"1">>), Value("/1", <<"1">>)>>>>],
     [NoMatrix EXCEPT !.axes = <<<<Value("@", <<>>), Value("0", <<"0">>)>>>>]}
Hollow == [NoMatrix EXCEPT !.axes = <<<<Value("1", <<"1">>)>>>>, !.exclude = {<<Value("1", <<"1">>)>>}]
JobIds == <<<<"a", "1">>, <<"a">>, <<"a", "0">>>>
Orders(S) == {o \in UNION {[1 .. k -> S] : k \in 0 .. 2} : \A i, k \in DOMAIN o : o[i] = o[k] => i = k}
Others(i) == {JobIds[k] : k \in (1 .. 3) \ {i}}
MCWorkflows ==
    {[filter |-> NoFilter,
      jobs |-> [i \in 1 .. 3 |->
                  [id |-> JobIds[i], vmOk |-> TRUE, uses |-> <<>>, steps |-> <<"run">>,
                   matrix |-> <<m1, m2, m3>>[i], needs |-> <<o1, o2, o3>>[i]]]] :
        m1 \in MatricesOf, m2 \in MatricesOf, m3 \in MatricesOf \union {Hollow},
        o1 \in Orders(Others(1)), o2 \in Orders(Others(2)), o3 \in Orders(Others(3))}

(* Matrices: up to two axes of two values, two include entries and one     *)
(* exclude entry, over the axes and one more name.                         *)
Entries(axes) == (UNION {[d -> {"x", "y"}] : d \in SUBSET axes}) \ {<<>>}
MCMatrices ==
    {[axes |-> a, include |-> i, exclude |-> e] :
        a \in {<<>>, <<<<>>>>, <<<<"x", "y">>>>, <<<<"x", "y">>, <<"x", "y">>>>},
        i \in UNION {[1 .. k -> Entries(1 .. 3)] : k \in 0 .. 2},
        e \in {{}} \union {{x} : x \in Entries(1 .. 2)}}

(* Logs: lines of runs of letters between dashes, written by a job whose   *)
(* secrets are parts of each other; of two entries, one may lie outside the*)
(* job's prefix, be public, have the other's name, or be unreadable.       *)
MCPrefix == <<"app">>
Letters == Strings({"a", "b"}, 3) \ {<<>>}
SecretEntries ==
    {[path |-> p, public |-> b, value |-> v, readable |-> r] :
        p \in {MCPrefix, <<"app", "X">>, <<"app", "db", "X">>, <<"app", "Y">>, <<"app2", "X">>},
        b \in BOOLEAN, v \in {<<"a">>, <<"a", "b">>, <<"b", "a">>, <<"a", "b", "a">>}, r \in {TRUE}}
Starry == [path |-> <<"app", "Y">>, public |-> FALSE, value |-> <<"a", "*">>, readable |-> TRUE]
Unreadable == [path |-> <<"app", "Y">>, public |-> TRUE, value |-> <<"b">>, readable |-> FALSE]
MCLogs ==
    {[vault |-> <<e1, e2>>, line |-> <<r1, r2>>] :
        e1 \in SecretEntries, e2 \in SecretEntries \union {Starry, Unreadable},
        r1 \in Letters, r2 \in {<<"a", "b">>, <<"a", "b", "a">>}}
=============================================================================
