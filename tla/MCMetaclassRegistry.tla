------------------------- MODULE MCMetaclassRegistry -------------------------
(* A metaclass A, its subclass B, and a metaclass X that is an instance of A.  *)
EXTENDS MetaclassRegistry

CONSTANTS A, B, X

MCBases == [m \in {A, B, X} |-> IF m = B THEN <<A>> ELSE <<>>]
MCMetaOf == [m \in {A, B, X} |-> IF m = X THEN A ELSE Type]
=============================================================================
