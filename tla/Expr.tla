--------------------------------- MODULE Expr ---------------------------------
(***************************************************************************)
(* expr.rs: the `if:` expressions, evaluated while they are parsed.        *)
(*                                                                         *)
(* An expression is the token sequence tokenize() makes of it: punctuation,*)
(* identifiers (v: the name) and literals (v: the value).  A value carries *)
(* what the evaluator reads of it: its type t, the text d it displays as,  *)
(* the number n it reads as (NaN when it does not) and its members by name *)
(* (an array's are "0", "1", ...).  The functions that only work on text   *)
(* (startsWith, endsWith, format, join, toJSON, fromJSON, contains on a    *)
(* string) are left out.                                                   *)
(***************************************************************************)
EXTENDS PathGlob

CONSTANT NaN

Scalar(t, d, n) == [t |-> t, d |-> d, n |-> n, of |-> <<>>]
Composite(t, members) == [t |-> t, d |-> "json", n |-> NaN, of |-> members]

Null == Scalar("null", "", NaN)
Bool(b) == IF b THEN Scalar("bool", "true", 1) ELSE Scalar("bool", "false", 0)

Ident(name) == [k |-> "ident", v |-> name]
Literal(v) == [k |-> "literal", v |-> v]
Punct(p) == [k |-> p, v |-> Null]

Truthy(v) ==
    CASE v.t = "null" -> FALSE
      [] v.t \in {"bool", "number"} -> v.n # 0
      [] v.t = "string" -> v.d \notin {"", "false", "0"}
      [] OTHER -> DOMAIN v.of # {}

LooseEq(a, b) ==
    CASE a.t = "null" \/ b.t = "null" -> a.t = b.t
      [] a.t = "number" /\ b.t = "number" -> a.n = b.n
      [] OTHER -> a.d = b.d

Compare(op, a, b) ==
    CASE op = "==" -> LooseEq(a, b)
      [] op = "!=" -> ~LooseEq(a, b)
      [] OTHER -> /\ a.n # NaN /\ b.n # NaN
                  /\ CASE op = ">" -> a.n > b.n
                       [] op = ">=" -> a.n >= b.n
                       [] op = "<" -> a.n < b.n
                       [] op = "<=" -> a.n <= b.n

Comparisons == {"==", "!=", ">", ">=", "<", "<="}

Member(v, seg) == IF seg \in DOMAIN v.of THEN v.of[seg] ELSE Null

-----------------------------------------------------------------------------
(* A context: its scopes, the status success() and failure() report, and   *)
(* the submit's change set, which dispatch.rs installs as ci.changes_known *)
(* and ci.changed_files.                                                   *)

Lookup(ctx, name) == IF name \in DOMAIN ctx.scopes THEN ctx.scopes[name] ELSE Null

Err == [ok |-> FALSE]
Ok(v, pos) == [ok |-> TRUE, v |-> v, pos |-> pos]

Functions == {"success", "failure", "cancelled", "always", "changed", "contains"}

(* Parser::call.  ctx.segments splits the text of a pattern argument.      *)
Call(ctx, name, args) ==
    CASE name = "always" -> Bool(TRUE)
      [] name \in {"success", "failure", "cancelled"} -> Bool(ctx.status = name)
      [] name = "changed" ->
            Bool(~ctx.changes.known
                 \/ \E i \in 1 .. Len(args), p \in ctx.changes.paths :
                        MatchSegments(ctx.segments[args[i].d], p))
      [] name = "contains" ->
            LET item == IF Len(args) > 1 THEN args[2] ELSE Null
            IN  Bool(\E i \in DOMAIN args[1].of : LooseEq(args[1].of[i], item))

Levels == {"or", "and", "not", "cmp", "primary", "members", "atom", "args"}

(* The operator a chain of each level is made of: && binds tighter.        *)
Chained_swapped(level) == IF level = "or" THEN "&&" ELSE "||"

Chained(level) == IF level = "or" THEN "||" ELSE "&&"

(* Parser: one function, parse, of the grammar level and the position,     *)
(* whose value at x is ParseAt of it.  The loops of parse_or and parse_and *)
(* are right-recursive here, which selects the same operand; every operand *)
(* is evaluated, so an error anywhere is the error of the whole.           *)
At(toks, pos) == IF pos <= Len(toks) THEN toks[pos] ELSE Punct("end")

Tighter(level) == IF level = "or" THEN "and" ELSE "not"

ParseChain(parse, toks, level, pos) ==
    LET l == parse[<<Tighter(level), pos>>]
        r == parse[<<level, l.pos + 1>>]
    IN  IF ~l.ok \/ At(toks, l.pos).k # Chained(level) THEN l
        ELSE IF ~r.ok THEN Err
        ELSE Ok(IF Truthy(l.v) <=> level = "or" THEN l.v ELSE r.v, r.pos)

ParseNot(parse, toks, pos) ==
    LET r == parse[<<"not", pos + 1>>]
    IN  IF At(toks, pos).k # "!" THEN parse[<<"cmp", pos>>]
        ELSE IF r.ok THEN Ok(Bool(~Truthy(r.v)), r.pos) ELSE Err

ParseCmp(parse, toks, pos) ==
    LET l == parse[<<"primary", pos>>]
        r == parse[<<"primary", l.pos + 1>>]
    IN  IF ~l.ok \/ At(toks, l.pos).k \notin Comparisons THEN l
        ELSE IF ~r.ok THEN Err
        ELSE Ok(Bool(Compare(At(toks, l.pos).k, l.v, r.v)), r.pos)

(* A primary: an atom, and the path that is walked from its value.         *)
Walked(base, segments) ==
    LET Walk[i \in 0 .. Len(segments)] ==
            IF i = 0 THEN base ELSE Member(Walk[i - 1], segments[i])
    IN  Walk[Len(segments)]

ParsePrimary(parse, pos) ==
    LET base == parse[<<"atom", pos>>]
        rest == parse[<<"members", base.pos>>]
    IN  IF ~base.ok \/ ~rest.ok THEN Err ELSE Ok(Walked(base.v, rest.v), rest.pos)

IsSegment(tok) == tok.k = "ident" \/ (tok.k = "literal" /\ tok.v.t = "number")
Segment(tok) == IF tok.k = "ident" THEN tok.v ELSE tok.v.d

ParseMembers(parse, toks, pos) ==
    LET rest == parse[<<"members", pos + 2>>]
    IN  IF At(toks, pos).k # "." THEN Ok(<<>>, pos)
        ELSE IF ~IsSegment(At(toks, pos + 1)) \/ ~rest.ok THEN Err
        ELSE Ok(<<Segment(At(toks, pos + 1))>> \o rest.v, rest.pos)

(* What follows "name(": the arguments, up to the closing parenthesis.     *)
ParseArgs(parse, toks, pos) ==
    LET a == parse[<<"or", pos>>]
        rest == parse[<<"args", a.pos + 1>>]
    IN  IF ~a.ok THEN Err
        ELSE IF At(toks, a.pos).k = ")" THEN Ok(<<a.v>>, a.pos + 1)
        ELSE IF At(toks, a.pos).k # "," \/ ~rest.ok THEN Err
        ELSE Ok(<<a.v>> \o rest.v, rest.pos)

(* A bare name: a keyword, or a scope.                                     *)
BareName(ctx, name) ==
    CASE name = "true" -> Bool(TRUE)
      [] name = "false" -> Bool(FALSE)
      [] name = "null" -> Null
      [] OTHER -> Lookup(ctx, name)

ParseCall(ctx, parse, toks, pos) ==
    LET args == IF At(toks, pos + 2).k = ")" THEN Ok(<<>>, pos + 3) ELSE parse[<<"args", pos + 2>>]
    IN  IF ~args.ok \/ At(toks, pos).v \notin Functions THEN Err
        ELSE Ok(Call(ctx, At(toks, pos).v, args.v), args.pos)

ParseAtom(ctx, parse, toks, pos) ==
    LET inner == parse[<<"or", pos + 1>>]
    IN  CASE At(toks, pos).k = "(" ->
                IF inner.ok /\ At(toks, inner.pos).k = ")" THEN Ok(inner.v, inner.pos + 1) ELSE Err
          [] At(toks, pos).k = "literal" -> Ok(At(toks, pos).v, pos + 1)
          [] At(toks, pos).k = "ident" ->
                IF At(toks, pos + 1).k = "(" THEN ParseCall(ctx, parse, toks, pos)
                ELSE Ok(BareName(ctx, At(toks, pos).v), pos + 1)
          [] OTHER -> Err

ParseAt(ctx, parse, toks, x) ==
    CASE x[1] \in {"or", "and"} -> ParseChain(parse, toks, x[1], x[2])
      [] x[1] = "not" -> ParseNot(parse, toks, x[2])
      [] x[1] = "cmp" -> ParseCmp(parse, toks, x[2])
      [] x[1] = "primary" -> ParsePrimary(parse, x[2])
      [] x[1] = "members" -> ParseMembers(parse, toks, x[2])
      [] x[1] = "args" -> ParseArgs(parse, toks, x[2])
      [] x[1] = "atom" -> ParseAtom(ctx, parse, toks, x[2])

Parser(ctx, toks) ==
    LET Parse[x \in Levels \X (1 .. Len(toks) + 1)] == ParseAt(ctx, Parse, toks, x) IN Parse

Eval(ctx, toks) ==
    LET all == Parser(ctx, toks)[<<"or", 1>>]
    IN  IF all.ok /\ all.pos = Len(toks) + 1 THEN all ELSE Err

(* Context::eval_condition: an absent condition holds, one that does not   *)
(* parse is an error, which no caller takes for true.                      *)
EvalCondition(ctx, toks) ==
    IF toks = <<>> THEN "true"
    ELSE LET r == Eval(ctx, toks) IN
         IF ~r.ok THEN "error" ELSE IF Truthy(r.v) THEN "true" ELSE "false"

-----------------------------------------------------------------------------
(* The meaning of a condition as it is written: trees over operands (token *)
(* sequences that evaluate to a value by themselves).                      *)

Leaf(toks) == <<"leaf", toks>>
Trees(T) ==
    T \union {<<"!", a>> : a \in T}
      \union {<<op, a, b>> : op \in {"||", "&&", "=="}, a \in T, b \in T}

Binding(tree) ==
    CASE tree[1] = "||" -> 1 [] tree[1] = "&&" -> 2 [] tree[1] = "!" -> 3
      [] tree[1] = "==" -> 4 [] OTHER -> 5

(* The tokens of a tree, with no more parentheses than || < && < the rest  *)
(* asks for, a comparison kept apart from the ! and the comparisons it     *)
(* stands in: which of them binds tighter, a reader of GitHub's language   *)
(* and the parser do not agree on.  And the value of a tree.               *)
Enclosed(toks) == <<Punct("(")>> \o toks \o <<Punct(")")>>

Inside(written, tree, level) ==
    IF Binding(tree) < level THEN Enclosed(written[tree]) ELSE written[tree]

WrittenAt(written, tree) ==
    CASE tree[1] = "leaf" -> tree[2]
      [] tree[1] = "!" -> <<Punct("!")>> \o Inside(written, tree[2], IF tree[2][1] = "==" THEN 5 ELSE 3)
      [] tree[1] = "==" ->
            Inside(written, tree[2], 5) \o <<Punct("==")>> \o Inside(written, tree[3], 5)
      [] OTHER -> Inside(written, tree[2], Binding(tree)) \o <<Punct(tree[1])>>
                                                     \o Inside(written, tree[3], Binding(tree))

Written(trees) == LET W[t \in trees] == WrittenAt(W, t) IN W

MeaningAt(ctx, V, tree) ==
    CASE tree[1] = "leaf" -> Eval(ctx, tree[2]).v
      [] tree[1] = "!" -> Bool(~Truthy(V[tree[2]]))
      [] tree[1] = "==" -> Bool(LooseEq(V[tree[2]], V[tree[3]]))
      [] tree[1] = "||" -> IF Truthy(V[tree[2]]) THEN V[tree[2]] ELSE V[tree[3]]
      [] tree[1] = "&&" -> IF Truthy(V[tree[2]]) THEN V[tree[3]] ELSE V[tree[2]]

Meaning(ctx, trees) == LET V[t \in trees] == MeaningAt(ctx, V, t) IN V
=============================================================================
