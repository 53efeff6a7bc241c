---------------------------- MODULE MCTypeCreation ----------------------------
(* Class statements of the three routes and two threads.  A is an ordinary   *)
(* class; B goes through prepare without with, whose behaviours include      *)
(* those of W, which uses with.  Those in Survivor may be kept alive by a    *)
(* traceback after they fail.  S is a class that was there before its        *)
(* metaclass was registered.                                                 *)
EXTENDS TypeCreation

CONSTANTS A, B, W, S

MCRoute == [c \in Class |-> IF c = A THEN "native" ELSE IF c = B THEN "bare" ELSE "with"]
=============================================================================
