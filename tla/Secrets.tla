------------------------------- MODULE Secrets -------------------------------
(***************************************************************************)
(* secrets.rs: what a job is given of the secret store, and what is struck *)
(* out of its logs.                                                        *)
(*                                                                         *)
(* The store is the sequence its `list` answers in.  An entry has a path   *)
(* (segments), a tag or not, a value (characters) and may be unreadable.   *)
(***************************************************************************)
EXTENDS ListOps, FiniteSets

CONSTANT MinMaskLen             \* MIN_MASK_LEN

Redacted == <<"*", "*", "*">>

(* heyosecret's prefix match: whole segments.                              *)
Under(e, prefix) == Len(e.path) >= Len(prefix) /\ SubSeq(e.path, 1, Len(prefix)) = prefix

Listed(vault, prefix) == Selected(vault, {e \in Elements(vault) : Under(e, prefix)})

(* leaf_name, and what a read adds.                                        *)
NameOf(e) == e.path[Len(e.path)]
Entry(e) == [x \in {NameOf(e)} |-> e.value]

(* A later entry of the same name replaces an earlier one; an entry at the *)
(* prefix itself has no name.                                              *)
NamedUpto(entries, prefix, public) ==
    LET Insert[i \in 0 .. Len(entries)] ==
            IF i = 0 THEN <<>>
            ELSE IF entries[i].public = public /\ Len(entries[i].path) > Len(prefix)
                 THEN Overlay(Entry(entries[i]), Insert[i - 1])
                 ELSE Insert[i - 1]
    IN  Insert

Named(entries, prefix, public) == NamedUpto(entries, prefix, public)[Len(entries)]

(* Secrets::resolve.  An entry that cannot be read fails all of it.        *)
Resolve(vault, prefix) ==
    LET listed == Listed(vault, prefix)
    IN  IF \E i \in DOMAIN listed : ~listed[i].readable THEN [ok |-> FALSE]
        ELSE [ok |-> TRUE,
              secrets |-> Named(listed, prefix, FALSE), vars |-> Named(listed, prefix, TRUE)]

-----------------------------------------------------------------------------
(* Masker.                                                                 *)

Maskable(values) == {v \in values : Len(v) >= MinMaskLen}

(* The order values are struck out in; values of one length in any order,  *)
(* for they come sorted by a name the text does not show.                  *)
MaskOrder_as_found(values) ==
    {o \in [1 .. Cardinality(Maskable(values)) -> Maskable(values)] :
        \A i, k \in DOMAIN o : i < k => o[i] # o[k]}

MaskOrder(values) ==
    {o \in [1 .. Cardinality(Maskable(values)) -> Maskable(values)] :
        \A i, k \in DOMAIN o : i < k => o[i] # o[k] /\ Len(o[i]) >= Len(o[k])}

Stands(text, v, i) == i + Len(v) - 1 <= Len(text) /\ SubSeq(text, i, i + Len(v) - 1) = v

(* str::replace, from each position of the text on.                        *)
ReplaceFrom(text, v) ==
    LET From[i \in 1 .. Len(text) + 1] ==
            IF i > Len(text) THEN <<>>
            ELSE IF Stands(text, v, i) THEN Redacted \o From[i + Len(v)]
            ELSE <<text[i]>> \o From[i + 1]
    IN  From

Replace(text, v) == ReplaceFrom(text, v)[1]

(* Masker::mask, by how many of the values are struck out.                 *)
Struck(text, order) ==
    LET S[i \in 0 .. Len(order)] == IF i = 0 THEN text ELSE Replace(S[i - 1], order[i])
    IN  S

Mask(text, order) == Struck(text, order)[Len(order)]
=============================================================================
