------------------------------ MODULE Traversal ------------------------------
(***************************************************************************)
(* What the cyclic collector sees and clears of an instance, given the     *)
(* slots its classes have (SlotWrapping).  PrivateAttr_tp_traverse and     *)
(* PrivateAttr_tp_clear chain to the saved slot, which is the              *)
(* interpreter's subtype_traverse or subtype_clear; that one reads the     *)
(* live slots again, meets the wrapper, and is stopped by the recursion    *)
(* guard.  The wrappers therefore repeat its work: __slots__, the __dict__ *)
(* and the type, before the private values.                                *)
(***************************************************************************)
EXTENDS SlotWrapping

CONSTANTS
  HasSlots,   \* the classes with __slots__ of their own
  HasDict     \* the classes whose instances have a __dict__

(* tp_base and those above it: from c to the first type not in Class.      *)
Line(c) == <<c>> \o Chain[c]

(* Two classes with __slots__ can be ancestors of one only if one of them  *)
(* descends from the other ("instance lay-out conflict").                  *)
ASSUME LayoutAssumption ==
  /\ HasSlots \subseteq Class /\ HasDict \subseteq Class
  /\ \A c \in Class : Base(c) \in HasDict => c \in HasDict
  /\ \A c \in Class : Mro[c] \cap HasSlots \subseteq {Line(c)[i] : i \in DOMAIN Line(c)}

(* What an instance refers to.                                             *)
SlotsOf(c) == <<"__slots__", c>>
Dict == <<"__dict__">>
Type == <<"type">>
Values(c) == <<"private", c>>
Contents == <<"contents">>    \* the items of a list, the args of an exception

If(b, r) == IF b THEN {r} ELSE {}

(* The walk of tp_base while the live slot is one of F.                    *)
Walked(op, F, c) ==
  {Line(c)[i] : i \in {n \in DOMAIN Line(c) : \A j \in 1..n : live[Line(c)[j]][op] \in F}}

MutantSlotWalk(op, F, c) == If(c \in HasSlots, SlotsOf(c))
SlotWalk(op, F, c) == {SlotsOf(b) : b \in Walked(op, F, c) \cap HasSlots}

(* Where the interpreter's default ends its own walk.                      *)
Stop(op, c) ==
  LET others == {i \in DOMAIN Line(c) : live[Line(c)[i]][op] # "subtype"}
  IN  IF others = {} THEN Root ELSE Line(c)[CHOOSE i \in others : \A j \in others : i <= j]

(* The interpreter's subtype_traverse and subtype_clear, up to the call of *)
(* the slot of the class they stop at.                                     *)
SubtypeOwn(op, c) ==
  LET b == Stop(op, c) IN
  SlotWalk(op, {"subtype"}, c) \cup If(c \in HasDict /\ b \notin HasDict, Dict)
  \cup If(op = "traverse" /\ b = Root, Type)
  \cup If(b = Root /\ RootSlot[op] = "c function", Contents)

(* The saved slot as the wrapper calls it: the guard answers if it comes   *)
(* back to the wrapper.                                                    *)
Original(op, c) ==
  LET chained == IF saved[c][op] # NoEntry THEN saved[c][op] ELSE Need(live, c, op) IN
  CASE chained = "subtype" -> SubtypeOwn(op, c)
    [] chained = "c function" -> {Contents}
    [] OTHER -> {}

(* all_type_parent_id lists the private ancestors of an installed class.   *)
Owners(c) == IF c \in installed THEN Mro[c] \cap Private ELSE {c}

(* A visit is a pair of the function that makes it and the reference: none *)
(* of the three visits one twice by itself.                                *)
Wrapper(op, c) ==
  ({"original"} \X Original(op, c))
  \cup ({"wrapper"} \X (SlotWalk(op, {"subtype", "wrapper"}, c) \cup If(c \in HasDict, Dict)
                        \cup If(op = "traverse", Type) \cup {Values(w) : w \in Owners(c)}))

(* What the collector gets by calling the live slot of an instance.        *)
Visits(op, c) ==
  IF live[c][op] = "wrapper" THEN Wrapper(op, c)
  ELSE ({"default"} \X SubtypeOwn(op, c))
       \cup (IF Stop(op, c) = Root THEN {} ELSE Wrapper(op, c))

(* ------------------------------ properties ----------------------------- *)

Times(visits, r) == Cardinality({v \in visits : v[2] = r})
References(op, c) ==
  {SlotsOf(b) : b \in Mro[c] \cap HasSlots} \cup {Values(w) : w \in Mro[c] \cap Private}
  \cup If(c \in HasDict, Dict) \cup If(op = "traverse", Type)

(* The collector's traverse and clear reach everything an instance of an   *)
(* installed class holds in Python - slots, dict, type, private values of  *)
(* every ancestor - once each, wherever on the way to the root the         *)
(* wrappers and the interpreter's defaults alternate.                      *)
VisitedOnce ==
  \A c \in installed, op \in Collected :
    /\ \A r \in References(op, c) : Times(Visits(op, c), r) = 1
    /\ {v[2] : v \in Visits(op, c)} \subseteq References(op, c) \cup {Contents}

(* An instance of a class that nothing has registered yet, made by         *)
(* object.__new__, is traversed by the interpreter's default up to the     *)
(* first ancestor with a wrapper, and by that wrapper from the start       *)
(* again.  Nothing it holds is missed, and counted twice, never more, are  *)
(* only the slots of classes without a wrapper below one that has it, and  *)
(* the __dict__ that they add to it; the items of a native base, once.     *)
OvercountExplained ==
  \A c \in made, op \in Collected :
    /\ \A r \in References(op, c) \ {Values(w) : w \in Private} :
         LET times == Times(Visits(op, c), r) IN
         \/ times = 1
         \/ /\ times = 2 /\ c \notin installed
            /\ \E w \in Mro[c] \ {c} :
                 /\ live[w][op] = "wrapper"
                 /\ \/ r = Dict /\ w \notin HasDict
                    \/ \E b \in Mro[c] \ {w} : r = SlotsOf(b) /\ live[b][op] # "wrapper"
    /\ Times(Visits(op, c), Contents) <= 1

(* Comment at private_attribute.cpp:1994: "the outermost invocation        *)
(* finishes the whole traversal/clear exactly once", the items of a native *)
(* base included.                                                          *)
WholeTraversal ==
  \A c \in installed, op \in Collected :
    RootSlot[op] = "c function" => Times(Visits(op, c), Contents) = 1
==============================================================================
