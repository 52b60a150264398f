------------------------------- MODULE ListOps -------------------------------
(***************************************************************************)
(* Two operations on maps and vectors the algorithms share.  They are what *)
(* @@ and SelectSeq compute, written out so that the proofs can open them. *)
(***************************************************************************)
EXTENDS Naturals, Sequences

(* BTreeMap::extend: g with f's entries put in.                            *)
Overlay(f, g) ==
    [x \in DOMAIN f \union DOMAIN g |-> IF x \in DOMAIN f THEN f[x] ELSE g[x]]

(* Iterator::filter and Vec::retain: those of S, in order; and the picks   *)
(* among the first i.                                                      *)
SelectedUpto(s, S) ==
    LET Upto[i \in 0 .. Len(s)] ==
            IF i = 0 THEN <<>>
            ELSE IF s[i] \in S THEN Append(Upto[i - 1], s[i]) ELSE Upto[i - 1]
    IN  Upto

Selected(s, S) == SelectedUpto(s, S)[Len(s)]

(* The elements of a list.                                                 *)
Elements(s) == {s[i] : i \in DOMAIN s}
=============================================================================
