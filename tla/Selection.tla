------------------------------- MODULE Selection -------------------------------
(***************************************************************************)
(* What the code's filters, and its loops with a `continue`, select of a   *)
(* list.                                                                   *)
(***************************************************************************)
EXTENDS Naturals, Sequences, SequencesExt

(* The elements of a sequence that are in S, in their order. *)
SelectIn(seq, S) ==
    FlattenSeq([k \in DOMAIN seq |-> IF seq[k] \in S THEN <<seq[k]>> ELSE <<>>])

=============================================================================
