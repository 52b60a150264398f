------------------------------- MODULE PathGlob -------------------------------
(***************************************************************************)
(* paths.rs and the `on: submit:` filter of workflow.rs: which paths a     *)
(* pattern covers, what a submit is known to have changed, and whether a   *)
(* filtered workflow builds.                                               *)
(*                                                                         *)
(* A segment is a sequence of characters, a path or a pattern a non-empty  *)
(* sequence of segments: what trim and split('/') leave.  "*" and "?" are  *)
(* the wildcards of a pattern's segment, the segment "**" is AnyDepth.     *)
(***************************************************************************)
EXTENDS Naturals, Sequences, FiniteSets

CONSTANT MaxChangedPaths        \* the largest diff that is still an answer

AnyDepth == <<"*", "*">>

-----------------------------------------------------------------------------
(* paths::match_segment: one loop over the text, resuming after the last   *)
(* "*" when a character does not fit.  A position is <<pi, ti, sp, st>>:   *)
(* in the pattern, in the text, and the code's star, which is where that   *)
(* "*" is in the pattern (0: none yet) and where it resumes in the text.   *)
Positions(p, s) ==
    {x \in (1 .. Len(p) + 1) \X (1 .. Len(s) + 1) \X (0 .. Len(p)) \X (0 .. Len(s) + 1) : x[4] <= x[2]}

MatchSegment_resumes_in_place(p, s) ==
    LET Loop[x \in Positions(p, s)] ==
            LET pi == x[1]  ti == x[2]  sp == x[3]  st == x[4] IN
            IF ti > Len(s) THEN \A k \in pi .. Len(p) : p[k] = "*"
            ELSE IF pi <= Len(p) /\ p[pi] = "*" THEN Loop[<<pi + 1, ti, pi, ti>>]
            ELSE IF pi <= Len(p) /\ p[pi] \in {"?", s[ti]} THEN Loop[<<pi + 1, ti + 1, sp, st>>]
            ELSE sp # 0 /\ Loop[<<sp + 1, ti + 1, sp, ti + 1>>]
    IN  Loop[<<1, 1, 0, 0>>]

SegmentLoop(p, s) ==
    LET Loop[x \in Positions(p, s)] ==
            LET pi == x[1]  ti == x[2]  sp == x[3]  st == x[4] IN
            IF ti > Len(s) THEN \A k \in pi .. Len(p) : p[k] = "*"
            ELSE IF pi <= Len(p) /\ p[pi] = "*" THEN Loop[<<pi + 1, ti, pi, ti>>]
            ELSE IF pi <= Len(p) /\ p[pi] \in {"?", s[ti]} THEN Loop[<<pi + 1, ti + 1, sp, st>>]
            ELSE sp # 0 /\ Loop[<<sp + 1, st + 1, sp, st + 1>>]
    IN  Loop

MatchSegment(p, s) == SegmentLoop(p, s)[<<1, 1, 0, 0>>]

(* paths::match_segments, from pattern segment i and path segment j on.    *)
SegmentsFrom(pat, path) ==
    LET From[x \in (1 .. Len(pat) + 1) \X (1 .. Len(path) + 1)] ==
            LET i == x[1]  j == x[2] IN
            IF i > Len(pat) THEN j > Len(path)
            ELSE IF pat[i] = AnyDepth
                 THEN i = Len(pat) \/ \E k \in j .. Len(path) + 1 : From[<<i + 1, k>>]
                 ELSE j <= Len(path) /\ MatchSegment(pat[i], path[j]) /\ From[<<i + 1, j + 1>>]
    IN  From

MatchSegments(pat, path) == SegmentsFrom(pat, path)[<<1, 1>>]

-----------------------------------------------------------------------------
(* Changes: the paths of a diff, or no answer.                             *)

Unknown == [known |-> FALSE, paths |-> {}]

Known(paths) ==
    IF Cardinality(paths) > MaxChangedPaths THEN Unknown
    ELSE [known |-> TRUE, paths |-> paths]

MatchesAny(changes, patterns) ==
    ~changes.known \/ \E pat \in patterns, p \in changes.paths : MatchSegments(pat, p)

AllMatch(changes, patterns) ==
    /\ changes.known
    /\ changes.paths # {} /\ patterns # {}
    /\ \A p \in changes.paths : \E pat \in patterns : MatchSegments(pat, p)

-----------------------------------------------------------------------------
(* SubmitFilter: four lists of patterns, the two of a kind exclusive.      *)

NoFilter == [branches |-> {}, branchesIgnore |-> {}, paths |-> {}, pathsIgnore |-> {}]

(* paths::validate, as far as segments show it: not empty, no leading "!", *)
(* not absolute (an empty first segment).                                  *)
PatternOk(pat) == pat[1] # <<>> /\ pat[1][1] # "!"

FilterOk(f) ==
    /\ f.paths = {} \/ f.pathsIgnore = {}
    /\ f.branches = {} \/ f.branchesIgnore = {}
    /\ \A pat \in f.branches \union f.branchesIgnore \union f.paths \union f.pathsIgnore :
           PatternOk(pat)

Admits(f, branch, changes) ==
    /\ f.branches = {} \/ \E pat \in f.branches : MatchSegments(pat, branch)
    /\ ~\E pat \in f.branchesIgnore : MatchSegments(pat, branch)
    /\ f.paths = {} \/ MatchesAny(changes, f.paths)
    /\ ~AllMatch(changes, f.pathsIgnore)

-----------------------------------------------------------------------------
(* What the dialect promises, stated without the algorithm: the text can be *)
(* cut into one piece per pattern element, each element covering its piece. *)

Cuts(n, len) == {c \in [0 .. n -> 0 .. len] : c[0] = 0 /\ c[n] = len}

SegmentTiles(p, s) ==
    \E c \in Cuts(Len(p), Len(s)) :
        \A i \in 1 .. Len(p) :
            IF p[i] = "*" THEN c[i - 1] <= c[i]
            ELSE c[i] = c[i - 1] + 1 /\ p[i] \in {"?", s[c[i]]}

PathTiles(pat, path) ==
    \E c \in Cuts(Len(pat), Len(path)) :
        \A i \in 1 .. Len(pat) :
            IF pat[i] = AnyDepth THEN c[i - 1] <= c[i]
            ELSE c[i] = c[i - 1] + 1 /\ SegmentTiles(pat[i], path[c[i]])
=============================================================================
