------------------------------ MODULE MCLifecycle -----------------------------
(* An instance of P or of its subclass C, which share their layout.  The       *)
(* address of C is reused.                                                     *)
EXTENDS ClassLifecycle

CONSTANTS P, C

MCParents == [c \in {P, C} |-> IF c = C THEN <<P>> ELSE <<>>]
=============================================================================
