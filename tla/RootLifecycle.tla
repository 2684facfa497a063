---------------------------- MODULE RootLifecycle ----------------------------
(***************************************************************************)
(* What a SphinxModule promises its users: a signed Merkle root is a       *)
(* transaction log that is performed once, in order and in atomic batches, *)
(* one root at a time, until it is completed, canceled or failed.          *)
(***************************************************************************)
EXTENDS Integers, Sequences

CONSTANTS Roots, NoRoot

VARIABLES
    phase,      \* phase[r]: EMPTY, APPROVED, COMPLETED, CANCELED or FAILED
    size,       \* size[r]: actions that make the root complete, plus one
    performed,  \* performed[r]: the actions of r so far
    current     \* the root being performed, or NoRoot

vars == <<phase, size, performed, current>>

Init ==
    /\ phase = [r \in Roots |-> "EMPTY"]
    /\ size = [r \in Roots |-> 0]
    /\ performed = [r \in Roots |-> <<>>]
    /\ current = NoRoot

(* A root with something to perform becomes current; one without is done. *)
Begin(r) ==
    /\ current = NoRoot
    /\ phase[r] = "EMPTY"
    /\ size'[r] > 0
    /\ size' = [size EXCEPT ![r] = size'[r]]
    /\ phase' = [phase EXCEPT ![r] =
                    IF size'[r] = 1 THEN "COMPLETED" ELSE "APPROVED"]
    /\ current' = IF size'[r] = 1 THEN NoRoot ELSE r
    /\ UNCHANGED performed

(* The current root is given up in favour of a fresh one, which is spent. *)
GiveUp(r) ==
    /\ current # NoRoot
    /\ phase[r] = "EMPTY"
    /\ size' = [size EXCEPT ![r] = 1]
    /\ phase' = [phase EXCEPT ![current] = "CANCELED", ![r] = "COMPLETED"]
    /\ current' = NoRoot
    /\ UNCHANGED performed

(* An action that failed although it had to succeed. *)
Fatal(action) == ~action.success /\ action.leaf.requireSuccess

(* One or more actions of the current root at once, each with the next     *)
(* index, the last one alone possibly fatal.                               *)
PerformBatch ==
    /\ current # NoRoot
    /\ LET old == performed[current]
           new == performed'[current]
       IN /\ Len(old) < Len(new)
          /\ Len(new) < size[current]
          /\ \A i \in 1 .. Len(old) : new[i] = old[i]
          /\ \A i \in Len(old) + 1 .. Len(new) :
                /\ new[i].leaf.index = i
                /\ Fatal(new[i]) => i = Len(new)
          /\ performed' = [performed EXCEPT ![current] = new]
          /\ LET outcome == IF Fatal(new[Len(new)]) THEN "FAILED"
                            ELSE IF Len(new) + 1 = size[current]
                                 THEN "COMPLETED" ELSE "APPROVED"
             IN /\ phase' = [phase EXCEPT ![current] = outcome]
                /\ current' = IF outcome = "APPROVED" THEN current ELSE NoRoot
    /\ UNCHANGED size

Next ==
    \/ \E r \in Roots : Begin(r) \/ GiveUp(r)
    \/ PerformBatch

Spec == Init /\ [][Next]_vars

=============================================================================
