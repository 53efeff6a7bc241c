---------------------------- MODULE MCPrivateStore ----------------------------
(* A parent P and its child C, which may declare the parent's name x again,  *)
(* inherit it with use_parents, or declare a name y of its own that the      *)
(* parent's code uses as an ordinary one.  codeP is P's code, codeC is C's,  *)
(* codePC was found in both bodies and codeZ in none; plain is a plain       *)
(* value, meth a method or a classmethod, prop a property.  Which code is    *)
(* found in a body is what CodeCollection computes: a body is evaluated and  *)
(* analysed before the first class is created, and then let go.              *)
EXTENDS PrivateStore, CodeCollection

CONSTANTS P, C, iC, x, y, codeP, codeC, codePC, codeZ, plain, prop, meth

MCClassOf == [i \in {iC} |-> C]
MCChain == [q \in {P, C} |-> IF q = P THEN <<P>> ELSE <<C, P>>]
MCCodeMap == [q \in {P, C} |-> IF q = P THEN {codeP, codePC} ELSE {codeC, codePC}]
MCKind == [u \in {plain, prop, meth} |-> IF u = plain THEN "plain" ELSE IF u = meth THEN "nondata" ELSE "data"]

Only(a, u) == [b \in {x, y} |-> IF b = a THEN u ELSE Absent]
Statement(declares, use_parents, attrs) ==
  [declares |-> declares, use_parents |-> use_parents, body |-> attrs]

MCDefinition ==
  [q \in {P, C} |->
     IF q = P THEN {Statement({x}, FALSE, Only(x, prop))}
     ELSE {Statement({x}, FALSE, Only(x, plain)),
           Statement({}, TRUE, Only(x, plain)),
           Statement({y}, FALSE, NoAttrs),
           Statement({y}, FALSE, Only(x, plain))}]

MCInit == Init /\ CodeInit

MCNext ==
  \/ Created = {} /\ Evaluate /\ UNCHANGED vars
  \/ Created = {} /\ Next /\ NextName
  \/ Created # {} /\ Next /\ UNCHANGED codeVars

MCSpec == MCInit /\ [][MCNext]_<<vars, codeVars>>

(* The state without the record of the last call: every property below that  *)
(* looks at the record looks at the one a step writes.                       *)
StateView == <<attrSet, typeAttr, shadow, objAttr, public, held, hung, codeVars>>
=============================================================================
