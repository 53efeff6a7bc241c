-------------------------------- MODULE MCSlots --------------------------------
(* A, B(A) and C(B, M) with private attributes, and a mixin M without, all over  *)
(* a list.  Assignments on A reach C from two levels above unless B has the      *)
(* special method, those on M from beside.                                       *)
EXTENDS Traversal

CONSTANTS A, B, C, M, List

MCBases == [c \in Class |-> CASE c = B -> {A} [] c = C -> {B, M} [] OTHER -> {}]
MCChain == [c \in Class |-> CASE c = B -> <<A>> [] c = C -> <<B, A>> [] OTHER -> <<>>]
MCMro == [c \in Class |-> CASE c = B -> {A, B} [] c = C -> {A, B, C, M} [] OTHER -> {c}]
MCRootSlot == [s \in Slot |-> IF s = "finalize" THEN "NULL" ELSE "c function"]
================================================================================
