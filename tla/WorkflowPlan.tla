----------------------------- MODULE WorkflowPlan -----------------------------
(***************************************************************************)
(* workflow.rs and plan.rs: from a workflow file to the jobs to dispatch.  *)
(*                                                                         *)
(* A workflow is what serde makes of the YAML: its triggers, its submit    *)
(* filter and its jobs in the author's order.  Names that end up in a NATS *)
(* subject (job ids, keys) are sequences of tokens, the dashes between them*)
(* left out; the token "@" stands for characters outside the alphabet.  A  *)
(* matrix value is [text, token]: the value and what sanitize() makes of   *)
(* its text.  Axis names are numbers, ordered as the strings are.          *)
(***************************************************************************)
EXTENDS PathGlob, ListOps, TLC

CONSTANT MaxKey                 \* the longest key, 64 characters in the code

-----------------------------------------------------------------------------
(* Target::parse on the segments of `uses:`, trimmed.                      *)

NoTarget == [ok |-> TRUE, network |-> "", node |-> "", vm |-> "", local |-> FALSE]
BadTarget == [NoTarget EXCEPT !.ok = FALSE]

ParseTarget(parts) ==
    LET node == IF Len(parts) < 2 \/ parts[2] = "*" THEN "" ELSE parts[2]
        vm == IF Len(parts) < 3 THEN "" ELSE parts[3]
    IN  CASE parts = <<"default">> -> [NoTarget EXCEPT !.local = TRUE]
          [] \/ Len(parts) > 3
             \/ \E i \in DOMAIN parts : parts[i] = ""
             \/ vm = "*"
             \/ vm # "" /\ node = "" -> BadTarget
          [] OTHER -> [NoTarget EXCEPT !.network = parts[1], !.node = node, !.vm = vm]

(* Job::target: without `uses:`, anywhere.                                 *)
TargetOf(job) == IF job.uses = <<>> THEN NoTarget ELSE ParseTarget(job.uses)

-----------------------------------------------------------------------------
(* Workflow::validate.                                                     *)

IsJobId(id) == Len(id) \in 1 .. MaxKey /\ \A i \in DOMAIN id : id[i] # "@"

Ids(wf) == {wf.jobs[i].id : i \in DOMAIN wf.jobs}
NeedsOf(wf, id) == (CHOOSE j \in {wf.jobs[i] : i \in DOMAIN wf.jobs} : j.id = id).needs

(* What may be left of a list find_cycle goes through: of all jobs, or of  *)
(* the needs of one.                                                       *)
Lists(wf) ==
    {todo \in Seq(Ids(wf)) :
        Len(todo) <= Len(wf.jobs) \/ \E i \in DOMAIN wf.jobs : Len(todo) <= Len(wf.jobs[i].needs)}

Marks(wf) == Lists(wf) \X (SUBSET Ids(wf)) \X (SUBSET Ids(wf))

AllIds(wf) == [i \in DOMAIN wf.jobs |-> wf.jobs[i].id]

FindCycle_open_for_ever(wf) ==
    LET Visit[x \in Marks(wf)] ==
            LET todo == x[1]  open == x[2]  done == x[3] IN
            IF todo = <<>> THEN [cycle |-> FALSE, done |-> done]
            ELSE IF Head(todo) \in open \union done THEN [cycle |-> TRUE, done |-> done]
            ELSE LET n == Head(todo)
                     below == Visit[<<NeedsOf(wf, n), open \union {n}, done>>]
                 IN  IF below.cycle THEN below
                     ELSE Visit[<<Tail(todo), open, below.done \union {n}>>]
    IN  \E i \in DOMAIN wf.jobs : Visit[<<<<wf.jobs[i].id>>, {}, {}>>].cycle

(* find_cycle's visit: depth first over the jobs still to visit, with the  *)
(* set of open nodes (the stack) and the set of finished ones.             *)
Visits(wf) ==
    LET Visit[x \in Marks(wf)] ==
            LET todo == x[1]  open == x[2]  done == x[3] IN
            IF todo = <<>> THEN [cycle |-> FALSE, done |-> done]
            ELSE IF Head(todo) \in done THEN Visit[<<Tail(todo), open, done>>]
            ELSE IF Head(todo) \in open THEN [cycle |-> TRUE, done |-> done]
            ELSE LET n == Head(todo)
                     below == Visit[<<NeedsOf(wf, n), open \union {n}, done>>]
                 IN  IF below.cycle THEN below
                     ELSE Visit[<<Tail(todo), open, below.done \union {n}>>]
    IN  Visit

FindCycle(wf) == Visits(wf)[<<AllIds(wf), {}, {}>>].cycle

JobOk(wf, job) ==
    /\ IsJobId(job.id)
    /\ job.vmOk
    /\ TargetOf(job).ok
    /\ \A i \in DOMAIN job.needs : job.needs[i] \in Ids(wf) \ {job.id}
    /\ job.steps # <<>>
    /\ \A i \in DOMAIN job.steps : job.steps[i] \in {"run", "uses"}

(* Workflow::parse: what must hold for the file to be a workflow at all.   *)
Parses(wf) ==
    /\ wf.jobs # <<>>
    /\ FilterOk(wf.filter)
    /\ Cardinality(Ids(wf)) = Len(wf.jobs)
    /\ \A i \in DOMAIN wf.jobs : JobOk(wf, wf.jobs[i])
    /\ ~FindCycle(wf)

-----------------------------------------------------------------------------
(* plan.rs: expand_matrix.  A matrix has axes (a sequence of values each), *)
(* include entries in order and exclude entries; a cell maps axes to values.*)

NoMatrix == [axes |-> <<>>, include |-> <<>>, exclude |-> {}]

(* Every key the entry sets that the cell also has agrees.                 *)
MatchesSubset(cell, entry) ==
    \A k \in DOMAIN entry \intersect DOMAIN cell : entry[k] = cell[k]

LastAxis(axes) ==
    IF DOMAIN axes = {} THEN 0 ELSE CHOOSE m \in DOMAIN axes : \A a \in DOMAIN axes : a <= m

(* Every cell so far with every value of the next axis.                    *)
Widen(cells, a, values) ==
    LET n == Len(values) IN
    [i \in 1 .. n * Len(cells) |->
        Overlay([x \in {a} |-> values[((i - 1) % n) + 1]], cells[((i - 1) \div n) + 1])]

(* The cells over the axes up to a, by a.                                  *)
Products(axes) ==
    LET P[a \in 0 .. LastAxis(axes)] ==
            IF a = 0 THEN <<<<>>>>
            ELSE IF a \in DOMAIN axes THEN Widen(P[a - 1], a, axes[a]) ELSE P[a - 1]
    IN  P

Product(axes) == Products(axes)[LastAxis(axes)]

(* An include entry extends every cell it agrees with, or is one more.     *)
Merge(cells, entry) ==
    LET hit == {i \in DOMAIN cells : MatchesSubset(cells[i], entry)}
    IN  IF hit = {} THEN Append(cells, entry)
        ELSE [i \in DOMAIN cells |-> IF i \in hit THEN Overlay(entry, cells[i]) ELSE cells[i]]

Kept(m, cells) ==
    Selected(cells, {c \in Elements(cells) : ~\E e \in m.exclude : MatchesSubset(c, e)})

(* start with the include entries merged in, by how many of them.          *)
Merged(m, start) ==
    LET M[i \in 0 .. Len(m.include)] == IF i = 0 THEN start ELSE Merge(M[i - 1], m.include[i])
    IN  M

ExpandMatrix_exclude_last(m) == Kept(m, Merged(m, Product(m.axes))[Len(m.include)])

(* No cells: the empty axis or the matrix that excludes everything.        *)
ExpandMatrix(m) ==
    IF \E a \in DOMAIN m.axes : m.axes[a] = <<>> THEN <<>>
    ELSE Merged(m, Kept(m, Product(m.axes)))[Len(m.include)]

-----------------------------------------------------------------------------
(* unique_key: readable while that is short and free, else numbered.       *)

Suffix(cell) ==
    LET last == IF DOMAIN cell = {} THEN 0 ELSE CHOOSE m \in DOMAIN cell : \A a \in DOMAIN cell : a <= m
        S[a \in 0 .. last] ==
            IF a = 0 THEN <<>>
            ELSE IF a \in DOMAIN cell THEN S[a - 1] \o cell[a].token ELSE S[a - 1]
    IN  S[last]

(* format!("{n}").                                                         *)
Decimal(n) == ToString(n)

UniqueKey_once(base, cell, index, used) ==
    LET readable == base \o Suffix(cell)
    IN  IF Len(readable) <= MaxKey /\ readable \notin used THEN readable
        ELSE Append(base, Decimal(index))

UniqueKey(base, cell, index, used) ==
    LET readable == base \o Suffix(cell)
        numbered(n) == Append(base, Decimal(n))
        free == {n \in index .. index + Cardinality(used) : numbered(n) \notin used}
    IN  IF Len(readable) <= MaxKey /\ readable \notin used THEN readable
        ELSE numbered(CHOOSE n \in free : \A m \in free : n <= m)

Keys(cells) == {cells[n].key : n \in DOMAIN cells}

(* Plan::build's inner loop: one job's cells, after those already there.   *)
CellOf(job, cell, k, before) ==
    [key |-> UniqueKey(job.id, cell, k - 1, Keys(before)), base |-> job.id,
     needs |-> Elements(job.needs), target |-> TargetOf(job), matrix |-> cell]

AddCells(job, cells, before) ==
    LET Add[k \in 0 .. Len(cells)] ==
            IF k = 0 THEN before ELSE Append(Add[k - 1], CellOf(job, cells[k], k, Add[k - 1]))
    IN  Add

(* The cells of the first i jobs, in input order.                          *)
CellsUpto(wf) ==
    LET Expand[i \in 0 .. Len(wf.jobs)] ==
            IF i = 0 THEN <<>>
            ELSE LET cells == ExpandMatrix(wf.jobs[i].matrix)
                 IN  AddCells(wf.jobs[i], cells, Expand[i - 1])[Len(cells)]
    IN  Expand

Cells(wf) == CellsUpto(wf)[Len(wf.jobs)]

-----------------------------------------------------------------------------
(* topological_order: whole waves of ready cells, each in input order.     *)
Bases(cells) == {cells[i].base : i \in DOMAIN cells}

(* No plan; a plan has at least one cell.                                  *)
Stuck == <<>>

Wave(before) ==
    LET ready == {c \in Elements(before.rest) : c.needs \subseteq Bases(before.ordered)}
    IN  [ordered |-> before.ordered \o Selected(before.rest, ready),
         rest |-> Selected(before.rest, Elements(before.rest) \ ready)]

(* By the number of rounds.  A round in which no cell is ready changes     *)
(* nothing, so as many rounds as cells show how the loop ends.             *)
Waves(cells) ==
    LET Go[i \in 0 .. Len(cells)] ==
            IF i = 0 THEN [ordered |-> <<>>, rest |-> cells] ELSE Wave(Go[i - 1])
    IN  Go

TopologicalOrder(cells) ==
    LET last == Waves(cells)[Len(cells)] IN IF last.rest = <<>> THEN last.ordered ELSE Stuck

(* Plan::build: Stuck for a matrix without cells too.                      *)
Build(wf) ==
    IF \E i \in DOMAIN wf.jobs : ExpandMatrix(wf.jobs[i].matrix) = <<>> THEN Stuck
    ELSE TopologicalOrder(Cells(wf))
=============================================================================
