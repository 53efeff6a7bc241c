---------------------------- MODULE ClassLifecycle ----------------------------
(***************************************************************************)
(* The tables of classes when classes die and others are created at their  *)
(* addresses, next to an instance that comes and goes (ObjectLifecycle).   *)
(* A class dies by the cyclic collector - its __mro__ holds it - which     *)
(* calls its metaclass's tp_clear and then deallocates it.  Only the       *)
(* deallocation of PrivateAttrType finalizes the tables; a registered      *)
(* metaclass that does not derive from it has type's.                      *)
(***************************************************************************)
EXTENDS ObjectLifecycle

CONSTANTS
  Mortal,         \* the class addresses that are reused; no class derives from one
  MaxGeneration,  \* bound: classes created at one address
  MaxMade         \* bound: objects at the address, and classes at one address

ASSUME MortalAssumption ==
  /\ Mortal \subseteq Class
  /\ \A c \in Class : \A i \in DOMAIN Parents[c] : Parents[c][i] \notin Mortal
  /\ MaxGeneration \in Nat \ {0} /\ MaxMade \in Nat

None == 0
Generation == 1..MaxGeneration

VARIABLES
  class,         \* class[c]: "free", "creating" (type.__new__ has made it and calls
                 \* __init_subclass__), "live" or "cleared"
  generation,    \* generation[c]: the number of the last class at this address
  meta,          \* history: meta[c][g]: "native" or "registered"
  attrSet,       \* attrSet[c]: whose all_type_attr_set, type_allowed_code_map and
                 \* all_type_parent_id this address has
  installed,     \* the creations whose data have been installed
  own,           \* own[c]: whose values type_attr_dict[c] holds
  shadow,        \* shadow[c]: whose values its parents hold in all_type_subclass_attr
  needCall       \* needCall[c]: whose private_func type_need_call has

classTables == <<attrSet, own, shadow, needCall>>
classVars == <<class, generation, meta, installed, classTables>>
vars == <<objectVars, classVars>>

Init ==
  /\ ObjectInit
  /\ class = [c \in Mortal |-> "free"]
  /\ generation = [c \in Mortal |-> None]
  /\ meta = [c \in Mortal |-> [g \in Generation |-> "native"]]
  /\ attrSet = [c \in Mortal |-> None]
  /\ installed = {}
  /\ own = [c \in Mortal |-> {}]
  /\ shadow = [c \in Mortal |-> {}]
  /\ needCall = [c \in Mortal |-> None]

(* The class exists and may be called.                                     *)
Usable(c) == c \in Mortal => class[c] = "live"

(* type.__new__ allocates the class and calls __init_subclass__.           *)
NewClass(c, m) ==
  /\ class[c] = "free" /\ generation[c] < MaxGeneration /\ birth + generation[c] < MaxMade
  /\ class' = [class EXCEPT ![c] = "creating"]
  /\ generation' = [generation EXCEPT ![c] = @ + 1]
  /\ meta' = [meta EXCEPT ![c][generation[c] + 1] = m]
  /\ installed' = installed \ {c}
  /\ UNCHANGED <<objectVars, classTables>>

(* install: the tables of the class are reset, but not its values, its     *)
(* private_func nor what its parents hold for it.                          *)
Kept(c) == own[c]

Install(c) ==
  LET g == generation[c] IN
  /\ attrSet' = [attrSet EXCEPT ![c] = g]
  /\ own' = [own EXCEPT ![c] = Kept(c) \cup {g}]
  /\ needCall' \in {needCall, [needCall EXCEPT ![c] = g]}
  /\ entry' = [entry EXCEPT ![c] = NoEntry]
  /\ mutex' = mutex \ {c}
  /\ installed' = installed \cup {c}
  /\ UNCHANGED <<objectState, names, wrote, marks, meta, generation, shadow>>

(* An access to the class in the hooks installs it, if the address is not  *)
(* registered yet (try_install_pending_creation).                          *)
Touch(c) ==
  /\ class[c] = "creating" /\ c \notin installed /\ attrSet[c] = None
  /\ Install(c)
  /\ class' = class

Created(c) ==
  /\ class[c] = "creating"
  /\ class' = [class EXCEPT ![c] = "live"]
  /\ IF c \in installed
     THEN UNCHANGED <<objectVars, meta, generation, installed, classTables>>
     ELSE Install(c)

(* A parent's code stores a value for the class; in the hooks too, once    *)
(* the address is registered.                                              *)
StoreShadow(c) ==
  /\ class[c] \in {"creating", "live"} /\ attrSet[c] # None
  /\ shadow' = [shadow EXCEPT ![c] = @ \cup {generation[c]}]
  /\ UNCHANGED <<objectVars, class, generation, meta, installed, attrSet, own, needCall>>

(* PrivateAttrType_tp_clear.  A class whose creation failed dies too; one  *)
(* whose instance left it in its own finalizer dies later (a bound).       *)
MutantCleared(c) == shadow[c]
Cleared(c) == IF attrSet[c] = None THEN shadow[c] ELSE {}

ClearClass(c) ==
  /\ class[c] \in {"creating", "live"}
  /\ phase = "free" \/ type # c
  /\ phase \in {"finalizer", "erasing"} => frame.type # c
  /\ class' = [class EXCEPT ![c] = "cleared"]
  /\ own' = [own EXCEPT ![c] = {}]
  /\ shadow' = [shadow EXCEPT ![c] = Cleared(c)]
  /\ UNCHANGED <<objectVars, generation, meta, installed, attrSet, needCall>>

(* The deallocation: PrivateAttrType_del, or type's alone.                 *)
MutantFinalizes(m) == FALSE
Finalizes(m) == m = "native"

FreeClass(c) ==
  /\ class[c] = "cleared"
  /\ class' = [class EXCEPT ![c] = "free"]
  /\ IF Finalizes(meta[c][generation[c]])
     THEN /\ attrSet' = [attrSet EXCEPT ![c] = None]
          /\ own' = [own EXCEPT ![c] = {}]
          /\ shadow' = [shadow EXCEPT ![c] = Cleared(c)]
          /\ needCall' = [needCall EXCEPT ![c] = None]
          /\ entry' = [entry EXCEPT ![c] = NoEntry]
          /\ mutex' = mutex \ {c}
     ELSE UNCHANGED <<classTables, entry, mutex>>
  /\ wrote' = wrote \ {c}
  /\ UNCHANGED <<objectState, names, marks, generation, meta, installed>>

ClassStep ==
  \E c \in Mortal :
    \/ \E m \in {"native", "registered"} : NewClass(c, m)
    \/ Touch(c) \/ Created(c) \/ StoreShadow(c)
    \/ ClearClass(c) \/ FreeClass(c)

(* An instance is made of, or given, a class that exists.                  *)
Room == \A c \in Mortal : birth + generation[c] < MaxMade

InstanceStep ==
  /\ \/ \E c \in Class : Usable(c) /\ Room /\ New(c)
     \/ ObjectStep /\ (phase # "free" => Usable(type'))
  /\ UNCHANGED classVars

Next == InstanceStep \/ ClassStep

Spec == Init /\ [][Next]_vars

(* ------------------------------ properties ----------------------------- *)

Tables == [Mortal -> 0..MaxGeneration]

TypeOK ==
  /\ ObjectTypeOK
  /\ class \in [Mortal -> {"free", "creating", "live", "cleared"}]
  /\ generation \in Tables /\ attrSet \in Tables /\ needCall \in Tables
  /\ meta \in [Mortal -> [Generation -> {"native", "registered"}]]
  /\ installed \subseteq Mortal
  /\ own \in [Mortal -> SUBSET Generation] /\ shadow \in [Mortal -> SUBSET Generation]

Alive(c) == class[c] \in {"creating", "live"}

(* A class has no private value of an earlier class at its address, under  *)
(* either metaclass: install keeps the values it finds, and relies on what *)
(* tp_clear erased.                                                        *)
ClassStartsClean ==
  \A c \in Mortal : Alive(c) => (own[c] \cup shadow[c]) \subseteq {generation[c]}

(* A class is seen through the declared names, the code and the callback   *)
(* of an earlier class at its address only if a registered metaclass's     *)
(* class died there.                                                       *)
RegistrationIsOwn ==
  \A c \in Mortal : Alive(c) =>
    \/ {attrSet[c], needCall[c]} \subseteq {None, generation[c]}
    \/ \E g \in Generation : g < generation[c] /\ meta[c][g] = "registered"

(* Classes of the native metaclass leave nothing behind: no registration,  *)
(* values, callback, nor the tables of their instances.                    *)
ClassForgotten ==
  \A c \in Mortal :
    (class[c] = "free" /\ \A g \in 1..generation[c] : meta[c][g] = "native") =>
      /\ attrSet[c] = None /\ needCall[c] = None /\ own[c] = {} /\ shadow[c] = {}
      /\ entry[c] = NoEntry /\ c \notin mutex
==============================================================================
