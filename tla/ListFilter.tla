----------------------------- MODULE ListFilter -----------------------------
(* Array.prototype.filter, with the set of the elements that pass for the     *)
(* test: what lemmas say of it is then first-order.                           *)
EXTENDS Integers, Sequences, SequencesExt

Keep(s, A) == FlattenSeq([i \in 1..Len(s) |-> IF s[i] \in A THEN <<s[i]>> ELSE <<>>])

=============================================================================
