----------------------------- MODULE SlotWrapping -----------------------------
(***************************************************************************)
(* How a class with private attributes gets and keeps the library's type   *)
(* slots.  ensure_tp puts the wrappers, PrivateAttr_tp_x, into the type    *)
(* object and saves what was there, to chain to it.  The interpreter knows *)
(* nothing of this: assigning a special method recomputes the slots of the *)
(* class and of every class below it, wrappers included, and the setattr   *)
(* wrappers of the metaclass put back those of the class and of its direct *)
(* subclasses.  tp_setattro goes like tp_getattro and is left out.         *)
(* Operators named Mutant... are wrong versions of a definition that       *)
(* follows them and are not used.                                          *)
(***************************************************************************)
EXTENDS Naturals, Sequences, FiniteSets

CONSTANTS
  Class,      \* Python classes
  Root,       \* the C type under all of them (object, list, ...)
  RootSlot,   \* RootSlot[s]: its slot, "c function" or "NULL"
  Bases,      \* Bases[c]: the direct bases of c in Class
  Chain,      \* Chain[c]: the chain of tp_base from c, up to what is not in Class
  Mro,        \* Mro[c]: the classes of Class in c.__mro__
  Private     \* the classes whose metaclass is PrivateAttrType or registered

Dispatched == {"getattro", "finalize"}   \* what special methods decide
Collected == {"traverse", "clear"}
Slot == Dispatched \cup Collected

(* "dispatcher" is the interpreter's slot_tp_x, which looks the special    *)
(* method up; "subtype" its subtype_traverse or subtype_clear.             *)
Function == {"wrapper", "dispatcher", "subtype", "c function", "NULL"}
NoEntry == "no entry"

ASSUME HierarchyAssumption ==
  /\ Root \notin Class /\ Private \subseteq Class
  /\ RootSlot \in [Slot -> {"c function", "NULL"}]
  /\ Bases \in [Class -> SUBSET Class]
  /\ Chain \in [Class -> Seq(Class)]
  /\ Mro \in [Class -> SUBSET Class]
  /\ \A c \in Class : /\ Mro[c] = {c} \cup UNION {Mro[b] : b \in Bases[c]}
                       /\ \A i \in DOMAIN Chain[c] : Chain[c][i] \in Mro[c]
  /\ \A S \in SUBSET Class : S # {} => \E c \in S : Bases[c] \cap S = {}

VARIABLES
  made,      \* classes type.__new__ has made
  installed, \* those of Private that install has registered
  defines,   \* defines[c]: the slots with a special method in c's __dict__
  live,      \* live[c][s]: the slot of the type object
  saved      \* saved[c][s]: all_type_getattro, _del, _traverse, _clear

vars == <<made, installed, defines, live, saved>>

Init ==
  /\ made = {} /\ installed = {}
  /\ defines = [c \in Class |-> {}]
  /\ live = [c \in Class |-> [s \in Slot |-> "NULL"]]
  /\ saved = [c \in Class |-> [s \in Slot |-> NoEntry]]

(* -------------------- what the interpreter does ------------------------ *)

(* The slot it computes for a class.                                       *)
Pure(d, c, s) ==
  IF s \in Collected THEN "subtype"
  ELSE IF \E b \in Mro[c] : s \in d[b] THEN "dispatcher" ELSE RootSlot[s]

(* update_slot: the classes it recomputes after an assignment on c, down   *)
(* to those that have the special method themselves.                       *)
Updated(c, s) ==
  LET Closed(R) == \A d \in made : s \notin defines[d] /\ Bases[d] \cap R # {} => d \in R
  IN  {x \in made : \A R \in SUBSET made : c \in R /\ Closed(R) => x \in R}

(* ------------------------------ ensure_tp ------------------------------ *)

(* get_need_tp_x: the first slot under a class that is neither a wrapper   *)
(* nor, of the collector's, a delegating default.                          *)
MutantDefault(s) == {"wrapper"}
Default(s) == IF s \in Collected THEN {"wrapper", "subtype"} ELSE {"wrapper"}

Found(L, b, s) ==
  IF L[b][s] \notin Default(s) THEN L[b][s] ELSE IF saved[b][s] # "NULL" THEN saved[b][s] ELSE NoEntry

Need(L, c, s) ==
  LET real == {i \in DOMAIN Chain[c] : Found(L, Chain[c][i], s) \notin {NoEntry} \cup Default(s)}
  IN  IF real = {} THEN RootSlot[s]
      ELSE Found(L, Chain[c][CHOOSE i \in real : \A j \in real : i <= j], s)

(* What a class without an entry, whose slot is already the wrapper, takes *)
(* over from its base.                                                     *)
Base(c) == IF Chain[c] = <<>> THEN Root ELSE Head(Chain[c])

OfBase(L, c, s) ==
  LET b == Base(c) IN
  IF b = Root THEN IF RootSlot[s] = "NULL" THEN NoEntry ELSE RootSlot[s]
  ELSE IF saved[b][s] # NoEntry THEN saved[b][s]
  ELSE IF L[b][s] \in {"NULL", "wrapper"} THEN NoEntry ELSE L[b][s]

MutantEnsured(L, c, s) == L[c][s]
MutantEnsuredOnce(L, c, s) == IF saved[c][s] = NoEntry THEN L[c][s] ELSE saved[c][s]

Ensured(L, c, s) ==
  IF L[c][s] = "wrapper"
  THEN IF saved[c][s] = NoEntry /\ s # "finalize" THEN OfBase(L, c, s) ELSE saved[c][s]
  ELSE IF L[c][s] = "NULL" /\ saved[c][s] = NoEntry THEN Need(L, c, s) ELSE L[c][s]

(* The interpreter has left the slots L; the classes of S are ensured.     *)
EnsureAll(L, S) ==
  /\ live' = [c \in Class |-> [s \in Slot |-> IF c \in S THEN "wrapper" ELSE L[c][s]]]
  /\ saved' = [c \in Class |-> [s \in Slot |-> IF c \in S THEN Ensured(L, c, s) ELSE saved[c][s]]]

(* The class and its direct subclasses (ensure_subclass_tp).               *)
MutantFamily(c) == {c}
Family(c) == {c} \cup {d \in made : c \in Bases[d]}

(* ----------------------------- operations ------------------------------ *)

(* type.__new__, with the special methods of the class body.               *)
Make(c, d) ==
  /\ c \notin made
  /\ Bases[c] \subseteq made /\ Bases[c] \cap Private \subseteq installed
  /\ made' = made \cup {c}
  /\ defines' = [defines EXCEPT ![c] = d]
  /\ live' = [live EXCEPT ![c] = [s \in Slot |-> Pure(defines', c, s)]]
  /\ UNCHANGED <<installed, saved>>

Install(c) ==
  /\ c \in (made \cap Private) \ installed
  /\ installed' = installed \cup {c}
  /\ EnsureAll(live, {c})
  /\ UNCHANGED <<made, defines>>

(* A special method assigned or deleted on a class, with or without        *)
(* private attributes (PrivateAttrType_setattr, new_type_tp_setattro).     *)
SetSpecial(c, s) ==
  /\ c \in made
  /\ \E d \in {defines[c] \cup {s}, defines[c] \ {s}} \ {defines[c]} :
       defines' = [defines EXCEPT ![c] = d]
  /\ LET recomputed == [x \in Class |->
           IF x \in Updated(c, s) THEN [live[x] EXCEPT ![s] = Pure(defines', x, s)] ELSE live[x]]
     IN  EnsureAll(recomputed, Family(c) \cap Private)
  /\ UNCHANGED <<made, installed>>

(* ensure_type.                                                            *)
EnsureType(c) ==
  /\ c \in made \cap Private
  /\ EnsureAll(live, Family(c))
  /\ UNCHANGED <<made, installed, defines>>

(* Reading an attribute of an instance ensures its class afterwards.       *)
Access(c) ==
  /\ c \in made /\ live[c]["getattro"] = "wrapper"
  /\ EnsureAll(live, {c})
  /\ UNCHANGED <<made, installed, defines>>

Next ==
  \E c \in Class :
    \/ \E d \in SUBSET Dispatched : Make(c, d)
    \/ Install(c) \/ EnsureType(c) \/ Access(c)
    \/ \E s \in Dispatched : SetSpecial(c, s)

Spec == Init /\ [][Next]_vars

(* ------------------------------ properties ----------------------------- *)

TypeOK ==
  /\ made \subseteq Class /\ installed \subseteq made \cap Private
  /\ defines \in [Class -> SUBSET Dispatched]
  /\ live \in [Class -> [Slot -> Function]]
  /\ saved \in [Class -> [Slot -> (Function \ {"wrapper"}) \cup {NoEntry}]]

(* What an instance of the class gets, the wrapper's chaining included.    *)
Effective(c, s) ==
  IF live[c][s] # "wrapper" THEN live[c][s]
  ELSE IF saved[c][s] # NoEntry THEN saved[c][s]
  ELSE IF s = "finalize" THEN "NULL" ELSE Need(live, c, s)

(* Wrapping changes no behaviour of ordinary attributes and of __del__:    *)
(* whatever was assigned where and when, the class chains to the slot the  *)
(* interpreter would have given it.                                        *)
Transparent ==
  \A c \in made, s \in Dispatched : Effective(c, s) = Pure(defines, c, s)

(* A class with private attributes loses a wrapper only by an assignment   *)
(* two or more levels above it, of a special method it inherits.           *)
LostOnlyFromAfar ==
  [][\A c \in installed, s \in Slot :
       live[c][s] = "wrapper" /\ live'[c][s] # "wrapper" =>
         /\ s \in Dispatched \ defines[c]
         /\ \E a \in Mro[c] \ ({c} \cup Bases[c]) : defines'[a] # defines[a]]_vars
===============================================================================
