------------------------------ MODULE PlanInputs ------------------------------
(***************************************************************************)
(* The pure algorithms behind a submit, each applied to one input: a glob, *)
(* a condition, a workflow, a matrix, a line of a job's log.  The first    *)
(* state draws an input, the one step computes what the code computes, and *)
(* the properties compare that with a definition that knows no algorithm.  *)
(***************************************************************************)
EXTENDS WorkflowPlan, Expr, Secrets

CONSTANTS
    Characters,                 \* what segments and log lines are made of
    Globs,                      \* [kind, pat, text]: of characters or of segments
    Operands, Context,          \* leaves of Expr's trees, and what they are about
    Workflows, Matrices,
    MaxIndex,                   \* the largest number a cell is numbered with, usize::MAX
    Logs, Prefix                \* [vault, line], and the job's prefix in the store

IsList(s) == s \in Seq(Elements(s))

(* What trim and split('/') leave of patterns and paths.                   *)
ASSUME GlobsAssumption ==
    \A g \in Globs :
        /\ g.kind \in {"segment", "path"}
        /\ g.kind = "segment" => g.pat \in Seq(Characters) /\ g.text \in Seq(Characters)
        /\ g.kind = "path" => g.pat \in Seq(Seq(Characters)) /\ g.text \in Seq(Seq(Characters))

(* An operand is a primary by itself: a literal, a path, a call, or any    *)
(* expression in parentheses.                                              *)
ASSUME OperandsAssumption ==
    \A o \in Operands :
        /\ o = Leaf(o[2]) /\ IsList(o[2])
        /\ LET alone == Parser(Context, o[2])[<<"primary", 1>>]
           IN  alone.ok /\ alone.pos = Len(o[2]) + 1

(* What serde leaves of a matrix: finitely many axes, numbered in the order*)
(* of their names, each a list of values; a list of include entries.       *)
IsMatrix(m) ==
    /\ IsFiniteSet(DOMAIN m.axes) /\ DOMAIN m.axes \subseteq Nat \ {0}
    /\ \A a \in DOMAIN m.axes : IsList(m.axes[a])
    /\ IsList(m.include)

ASSUME MatricesAssumption == \A m \in Matrices : IsMatrix(m)

(* Of a workflow, lists of jobs, of the tokens of their names and of their *)
(* needs; and no more cells than can be numbered apart.                    *)
ASSUME WorkflowsAssumption ==
    \A wf \in Workflows :
        /\ IsList(wf.jobs)
        /\ \A i \in DOMAIN wf.jobs :
               IsList(wf.jobs[i].id) /\ IsList(wf.jobs[i].needs) /\ IsMatrix(wf.jobs[i].matrix)
        /\ 2 * Len(Cells(wf)) <= MaxIndex

ASSUME NumbersAssumption ==
    /\ MaxIndex \in Nat
    /\ \A m, n \in 0 .. MaxIndex : Decimal(m) = Decimal(n) => m = n

(* The store answers a list; MIN_MASK_LEN is 4.                            *)
ASSUME LogsAssumption ==
    /\ MinMaskLen \in Nat \ {0}
    /\ \A l \in Logs :
           /\ IsList(l.vault) /\ \A i \in DOMAIN l.vault : l.vault[i].value \in Seq(Characters)
           /\ l.line \in Seq(Seq(Characters)) /\ Len(l.line) = 2

VARIABLES input, output

vars == <<input, output>>

Pending == [done |-> FALSE]
Done(v) == [done |-> TRUE, v |-> v]

-----------------------------------------------------------------------------

(* Conditions: every tree two operators deep over the operands.            *)
Conditions == Trees(Trees(Operands))

(* A line of a log: two runs of characters and a dash.                     *)
Line(runs) == runs[1] \o <<"-">> \o runs[2]

Init ==
    /\ input \in Globs \union {[kind |-> "condition", tree |-> t] : t \in Conditions}
                       \union {[kind |-> "workflow", wf |-> w] : w \in Workflows}
                       \union {[kind |-> "matrix", m |-> m] : m \in Matrices}
                       \union {[kind |-> "log", vault |-> l.vault, line |-> l.line] : l \in Logs}
    /\ output = Pending

MatchGlob ==
    /\ ~output.done /\ input.kind \in {"segment", "path"}
    /\ output' = Done(IF input.kind = "segment" THEN MatchSegment(input.pat, input.text)
                      ELSE MatchSegments(input.pat, input.text))
    /\ UNCHANGED input

EvalOne ==
    /\ ~output.done /\ input.kind = "condition"
    /\ output' = Done(Eval(Context, Written(Conditions)[input.tree]))
    /\ UNCHANGED input

PlanOne ==
    /\ ~output.done /\ input.kind = "workflow"
    /\ output' = Done(IF Parses(input.wf) THEN Build(input.wf) ELSE Stuck)
    /\ UNCHANGED input

ExpandOne ==
    /\ ~output.done /\ input.kind = "matrix"
    /\ output' = Done(ExpandMatrix(input.m))
    /\ UNCHANGED input

(* run_steps: without its secrets a job runs no step, and logs nothing.    *)
LogOne ==
    LET given == Resolve(input.vault, Prefix) IN
    /\ ~output.done /\ input.kind = "log"
    /\ IF ~given.ok THEN output' = Done(<<>>)
       ELSE \E order \in MaskOrder(Elements(given.secrets)) :
                output' = Done(Mask(Line(input.line), order))
    /\ UNCHANGED input

Next == MatchGlob \/ EvalOne \/ PlanOne \/ ExpandOne \/ LogOne

Spec == Init /\ [][Next]_vars

-----------------------------------------------------------------------------
(* Properties.                                                             *)

Computed(kinds) == output.done /\ input.kind \in kinds

(* The glob matcher, whose loops resume where a wildcard took too little,  *)
(* finds a match exactly when the text can be cut to fit the pattern:      *)
(* match_segment on characters, match_segments on segments.                *)
GlobIsTiling ==
    /\ Computed({"segment"}) => output.v = SegmentTiles(input.pat, input.text)
    /\ Computed({"path"}) => output.v = PathTiles(input.pat, input.text)

(* The evaluator, which computes while it parses, gives every condition of *)
(* up to two operators in depth the value its structure has, written with  *)
(* no parentheses || and && can do without.  A comparison under a ! has its*)
(* own: there this grammar is not GitHub's (see BangBindsTightest).  What  *)
(* == and truth are is the code's, on both sides.                          *)
ConditionsMeanWhatTheySay ==
    Computed({"condition"}) => output.v.ok /\ output.v.v = Meaning(Context, Conditions)[input.tree]

(* Nothing but its needs is wrong with a workflow.                         *)
Sound(wf) ==
    /\ wf.jobs # <<>> /\ FilterOk(wf.filter)
    /\ Cardinality(Ids(wf)) = Len(wf.jobs)
    /\ \A i \in DOMAIN wf.jobs : JobOk(wf, wf.jobs[i]) /\ ExpandMatrix(wf.jobs[i].matrix) # <<>>

Ranked(wf) ==
    \E rank \in [Ids(wf) -> 1 .. Len(wf.jobs)] :
        \A i \in DOMAIN wf.jobs : \A n \in Elements(wf.jobs[i].needs) : rank[n] < rank[wf.jobs[i].id]

(* A workflow is turned away for its needs exactly when they cannot be     *)
(* ranked, whatever order they are listed in: find_cycle misses no cycle   *)
(* and takes no diamond for one, and what it lets through has a plan.      *)
CyclesAreRejected ==
    Computed({"workflow"}) => (output.v # Stuck <=> Sound(input.wf) /\ Ranked(input.wf))

(* A plan can be run: all cells of the workflow, under keys no two share,  *)
(* each after every cell of every job it needs.                            *)
PlansAreRunnable ==
    Computed({"workflow"}) /\ output.v # Stuck =>
        LET plan == output.v
            cells == Cells(input.wf)
        IN  /\ Len(plan) = Len(cells)
            /\ {plan[i] : i \in DOMAIN plan} = {cells[i] : i \in DOMAIN cells}
            /\ \A i, k \in DOMAIN plan :
                   /\ plan[i].key = plan[k].key => i = k
                   /\ plan[k].base \in plan[i].needs => k < i

Within(f, g) == DOMAIN f \subseteq DOMAIN g /\ \A k \in DOMAIN f : f[k] = g[k]

(* One value of every axis, in every way.                                  *)
Combinations(axes) ==
    {c \in [DOMAIN axes -> UNION {Elements(axes[a]) : a \in DOMAIN axes}] :
        \A a \in DOMAIN axes : c[a] \in Elements(axes[a])}

(* A matrix runs every combination that is not excluded and every include  *)
(* entry, in full, and nothing else: an include neither rewrites an axis of*)
(* a combination nor is lost to an exclude.  With an empty axis it is      *)
(* refused.  This is the rule plan.rs 265-268 states; it is not GitHub's,  *)
(* which that comment and plan.rs:6 say it is: there an include may rewrite*)
(* what an earlier one added, and joins no combination one has appended.   *)
MatrixIsExact ==
    Computed({"matrix"}) =>
        LET cells == output.v
            m == input.m
            wanted == {c \in Combinations(m.axes) : ~\E e \in m.exclude : MatchesSubset(c, e)}
        IN  IF \E a \in DOMAIN m.axes : m.axes[a] = <<>> THEN cells = <<>>
            ELSE /\ \A c \in wanted \union Elements(m.include) : \E d \in Elements(cells) : Within(c, d)
                 /\ \A d \in Elements(cells) : \E c \in wanted \union Elements(m.include) : Within(c, d)

Holds(text, v) == \E i \in 1 .. Len(text) : Stands(text, v, i)

(* In a text that was masked, as a step's output is, no secret of          *)
(* MIN_MASK_LEN or more stays, unless it is made of what it is replaced    *)
(* with; and one that stands by itself leaves nothing of itself behind, not*)
(* even the tail that is left when another secret is its beginning ("which *)
(* reveals both the tail and the fact that it was a prefix"), while what is*)
(* no secret stays as it is.  A VM's console and an image's build log are  *)
(* stored as they come (dispatch.rs 1092-1110, 1242-1271).                 *)
MaskedTextHidesSecrets ==
    Computed({"log"}) /\ Resolve(input.vault, Prefix).ok =>
        LET secrets == Maskable(Elements(Resolve(input.vault, Prefix).secrets))
            shown(run) == IF run \in secrets THEN Redacted ELSE run
        IN  /\ \A v \in secrets : "*" \notin Elements(v) => ~Holds(output.v, v)
            /\ (/\ \A v \in secrets : Elements(v) \intersect {"*", "-"} = {}
                /\ \A i \in 1 .. 2 : input.line[i] \in secrets \/ ~\E v \in secrets : Holds(input.line[i], v))
               => output.v = Line([i \in 1 .. 2 |-> shown(input.line[i])])

-----------------------------------------------------------------------------
(* What expr.rs says of itself and the parser does not do: "GitHub Actions'*)
(* expression language" (expr.rs:3), with one deliberate deviation, that of*)
(* truth.  There ! binds tighter than any comparison, so that !a == b is   *)
(* (!a) == b; parse_not takes the whole comparison for its operand.        *)
BangBindsTightest ==
    Computed({"condition"}) /\ input.tree[1] = "==" /\ input.tree[2][1] = "!" =>
        LET written == Written(Conditions)
            bare == written[input.tree[2]] \o <<Punct("==")>> \o Inside(written, input.tree[3], 5)
        IN  Eval(Context, bare).v = Meaning(Context, Conditions)[input.tree]
=============================================================================
