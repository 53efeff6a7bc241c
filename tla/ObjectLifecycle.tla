--------------------------- MODULE ObjectLifecycle ---------------------------
(***************************************************************************)
(* The private data of instances when they die.  The tables are keyed by   *)
(* address, so what PrivateAttr_tp_finalize and PrivateAttr_tp_clear leave *)
(* behind belongs to the next object there.  The module follows one        *)
(* address and the objects that live at it one after the other.  CPython   *)
(* calls tp_finalize at most once per object, from its deallocation or     *)
(* from the cyclic collector, and tp_clear only from the collector;        *)
(* __del__, the destructors of stored values and the finalizers of other   *)
(* garbage run user code in between.  Operators named Mutant... are wrong  *)
(* versions of a definition that follows them and are not used.            *)
(***************************************************************************)
EXTENDS Naturals, Sequences

CONSTANTS
  Class,      \* classes with private attributes
  Parents,    \* Parents[c]: all_type_parent_id[c]
  Layout,     \* sets of classes whose instances may be assigned each other's class
  MaxBirth,   \* bound: objects created at the address
  MaxRoots,   \* bound: references to the object from outside its cycle
  NoEntry,    \* a table has no entry for the address, or
  Empty       \* an entry without values

ASSUME LifecycleAssumption ==
  /\ Class # {} /\ Parents \in [Class -> Seq(Class)]
  /\ Layout \subseteq SUBSET Class
  /\ MaxBirth \in Nat /\ MaxRoots \in Nat \ {0}
  /\ NoEntry # Empty /\ {NoEntry, Empty} \cap Nat = {}

Birth == 1..MaxBirth

VARIABLES
  phase,      \* "free", "live", in its "finalizer", "erasing" its tables, or
              \* "garbage": found unreachable, the collector is at work
  birth,      \* the objects created here so far; the number of the last
  type,       \* Py_TYPE of the last
  roots,      \* references to it from outside its cycle
  cycle,      \* it is referenced from a cycle it is part of
  finalized,  \* CPython's mark that tp_finalize has been called
  frame,      \* of the finalizer or tp_clear under way: who called it, the
              \* reference count and type at its start, the classes left to
              \* erase, and whether a value's destructor is running
  entry,      \* entry[w]: all_object_attr[w][address]: absent, empty, or with
              \* values, the number of the object that wrote the last one
  mutex,      \* the classes w with an all_object_mutex[w][address]
  names,      \* obj_attr_keys has hidden names for the address
  wrote,      \* history: the classes, still there, for which this object wrote a value
  marks       \* history: what user code did to each object, see Mark

objectState == <<phase, birth, type, roots, cycle, finalized, frame>>
objectTables == <<entry, mutex, names>>
objectVars == <<objectState, objectTables, wrote, marks>>

(* "leaves": the object may leave data behind, because its __class__ was   *)
(* assigned, its own finalizer made a reference to it, or it was used      *)
(* after its finalizer.  "loses": it may lose data while it lives, because *)
(* another object's finalizer or the destructor of one of its values made  *)
(* a reference to it, or its own finalizer dropped one.                    *)
Mark == {"leaves", "loses"}

Caller == {"dealloc", "collector", "tp_clear"}
Frame == [caller : Caller, refs : 0..(MaxRoots + 1), type : Class, todo : Seq(Class), value : BOOLEAN]
NoFrame == [caller |-> "dealloc", refs |-> 0, type |-> CHOOSE c \in Class : TRUE, todo |-> <<>>, value |-> FALSE]

Chain(c) == {c} \cup {Parents[c][i] : i \in DOMAIN Parents[c]}
Count(b) == IF b THEN 1 ELSE 0
MutantRefs == 1 + roots + Count(cycle)
Refs == roots + Count(cycle)

ObjectInit ==
  /\ phase = "free" /\ birth = 0 /\ roots = 0 /\ cycle = FALSE /\ finalized = FALSE
  /\ type = NoFrame.type
  /\ frame = NoFrame
  /\ entry = [w \in Class |-> NoEntry]
  /\ mutex = {}
  /\ names = FALSE
  /\ wrote = {}
  /\ marks = [b \in Birth |-> {}]

(* --------------------- the object and user code ------------------------ *)

(* Creating an instance does not touch the tables.                         *)
New(c) ==
  /\ phase = "free" /\ birth < MaxBirth
  /\ phase' = "live" /\ birth' = birth + 1 /\ type' = c
  /\ roots' = 1 /\ cycle' = FALSE /\ finalized' = FALSE /\ wrote' = {}
  /\ UNCHANGED <<frame, objectTables, marks>>

(* User code that can reach the object.  While the collector clears it     *)
(* nothing can: its weak references are gone, and finalizers have run.     *)
UserCode ==
  \/ phase \in {"live", "finalizer", "garbage"}
  \/ phase = "erasing" /\ frame.value

Marked(m) == marks' = [marks EXCEPT ![birth] = @ \cup m]
UseMark == IF finalized /\ phase # "finalizer" THEN {"leaves"} ELSE {}

(* Reading any attribute first creates the missing entries for the type    *)
(* and its parents; a private name also gets its hidden name.              *)
Read ==
  /\ UserCode
  /\ entry' = [w \in Class |-> IF w \in Chain(type) /\ entry[w] = NoEntry THEN Empty ELSE entry[w]]
  /\ mutex' = mutex \cup Chain(type)
  /\ names' \in {names, TRUE}
  /\ Marked(UseMark)
  /\ UNCHANGED <<objectState, wrote>>

Write(w) ==
  /\ UserCode /\ w \in Chain(type)
  /\ entry' = [entry EXCEPT ![w] = birth]
  /\ mutex' = mutex \cup {w}
  /\ names' = TRUE
  /\ wrote' = wrote \cup {w}
  /\ Marked(UseMark)
  /\ UNCHANGED objectState

AssignClass(c) ==
  /\ UserCode /\ c # type /\ \E l \in Layout : {c, type} \subseteq l
  /\ type' = c
  /\ Marked({"leaves"})
  /\ UNCHANGED <<phase, birth, roots, cycle, finalized, frame, objectTables, wrote>>

RefMark == CASE phase = "finalizer" -> {"leaves"}
             [] phase = "live" -> {}
             [] OTHER -> {"loses"}

MakeRef ==
  /\ UserCode
  /\ \/ roots < MaxRoots /\ roots' = roots + 1 /\ cycle' = cycle
     \/ ~cycle /\ cycle' = TRUE /\ roots' = roots
  /\ Marked(RefMark)
  /\ UNCHANGED <<phase, birth, type, finalized, frame, objectTables, wrote>>

DropRef ==
  /\ UserCode
  /\ \/ roots > 0 /\ roots' = roots - 1 /\ cycle' = cycle
     \/ cycle /\ cycle' = FALSE /\ roots' = roots
  /\ Marked(IF phase = "finalizer" THEN {"loses"} ELSE {})
  /\ UNCHANGED <<phase, birth, type, finalized, frame, objectTables, wrote>>

(* ------------------------ finalizing and clearing ---------------------- *)

Enter(caller) ==
  /\ phase' = "finalizer" /\ finalized' = TRUE
  /\ frame' = [NoFrame EXCEPT !.caller = caller, !.refs = Refs, !.type = type]
  /\ UNCHANGED <<birth, type, roots, cycle, objectTables, wrote, marks>>

MutantDealloc ==
  /\ phase \in {"live", "garbage"} /\ Refs = 0
  /\ phase' = "free"
  /\ UNCHANGED <<birth, type, roots, cycle, finalized, frame, objectTables, wrote, marks>>

(* The last reference is gone: subtype_dealloc calls tp_finalize, unless   *)
(* it has been called before.                                              *)
Dealloc ==
  /\ phase \in {"live", "garbage"} /\ Refs = 0
  /\ IF finalized
     THEN phase' = "free" /\ UNCHANGED <<birth, type, roots, cycle, finalized, frame, objectTables, wrote, marks>>
     ELSE Enter("dealloc")

(* Between Enter and EndFinalizer the original finalizer, __del__, runs.   *)
(* What it did to the reference count decides.                             *)
MutantRevived == FALSE
Revived == Refs > frame.refs

MutantTodo(c) == <<c>>
Todo(c) == <<c>> \o Parents[c]

Erase(caller, c) ==
  /\ phase' = "erasing"
  /\ frame' = [caller |-> caller, refs |-> Refs, type |-> c, todo |-> Todo(c), value |-> FALSE]

Resume == IF frame.caller = "collector" THEN "garbage" ELSE IF Refs > 0 THEN "live" ELSE "free"

EndFinalizer ==
  /\ phase = "finalizer"
  /\ IF Revived THEN phase' = Resume /\ frame' = NoFrame
     ELSE Erase(frame.caller, frame.type)
  /\ UNCHANGED <<birth, type, roots, cycle, finalized, objectTables, wrote, marks>>

(* clear_object_related, for the type and then its parents: the entry,     *)
(* whose values' destructors may run, ...                                  *)
EraseEntry ==
  /\ phase = "erasing" /\ frame.todo # <<>> /\ ~frame.value
  /\ LET w == Head(frame.todo) IN
     /\ entry[w] # NoEntry
     /\ entry' = [entry EXCEPT ![w] = NoEntry]
     /\ frame' = [frame EXCEPT !.value = entry[w] # Empty /\ frame.caller # "tp_clear"]
  /\ UNCHANGED <<phase, birth, type, roots, cycle, finalized, mutex, names, wrote, marks>>

(* ... then the mutex, whatever the destructors left in the entry, ...     *)
EraseMutex ==
  /\ phase = "erasing" /\ frame.todo # <<>>
  /\ frame.value \/ entry[Head(frame.todo)] = NoEntry
  /\ mutex' = mutex \ {Head(frame.todo)}
  /\ frame' = [frame EXCEPT !.todo = Tail(@), !.value = FALSE]
  /\ UNCHANGED <<phase, birth, type, roots, cycle, finalized, entry, names, wrote, marks>>

(* ... and at last the hidden names.  tp_clear also cleared the instance's *)
(* dict and slots, which breaks the cycle.                                 *)
EndErase ==
  /\ phase = "erasing" /\ frame.todo = <<>>
  /\ names' = FALSE
  /\ phase' = IF frame.caller = "tp_clear" THEN "free" ELSE Resume
  /\ cycle' = (cycle /\ frame.caller # "tp_clear")
  /\ frame' = NoFrame
  /\ UNCHANGED <<birth, type, roots, finalized, entry, mutex, wrote, marks>>

(* --------------------------- the collector ----------------------------- *)

(* It finds the cycle, calls tp_finalize on all of it, lets go of what is  *)
(* reachable again and calls tp_clear on the rest.                         *)
Find ==
  /\ phase = "live" /\ roots = 0 /\ cycle
  /\ phase' = "garbage"
  /\ UNCHANGED <<birth, type, roots, cycle, finalized, frame, objectTables, wrote, marks>>

Finalize == phase = "garbage" /\ ~finalized /\ Refs > 0 /\ Enter("collector")

Survive ==
  /\ phase = "garbage" /\ finalized /\ roots > 0
  /\ phase' = "live"
  /\ UNCHANGED <<birth, type, roots, cycle, finalized, frame, objectTables, wrote, marks>>

Clear ==
  /\ phase = "garbage" /\ finalized /\ roots = 0 /\ cycle
  /\ Erase("tp_clear", type)
  /\ UNCHANGED <<birth, type, roots, cycle, finalized, objectTables, wrote, marks>>

(* The tp_clear of another member of the cycle freed it before its own.    *)
FreedByAnother ==
  /\ phase = "garbage" /\ finalized /\ roots = 0 /\ cycle
  /\ phase' = "free" /\ cycle' = FALSE
  /\ UNCHANGED <<birth, type, roots, finalized, frame, objectTables, wrote, marks>>

ObjectStep ==
  \/ Read \/ MakeRef \/ DropRef
  \/ \E c \in Class : AssignClass(c) \/ Write(c)
  \/ Dealloc \/ EndFinalizer \/ EraseEntry \/ EraseMutex \/ EndErase
  \/ Find \/ Finalize \/ Survive \/ Clear \/ FreedByAnother

(* ------------------------------ properties ----------------------------- *)

ObjectTypeOK ==
  /\ phase \in {"free", "live", "finalizer", "erasing", "garbage"}
  /\ birth \in 0..MaxBirth /\ type \in Class
  /\ roots \in 0..MaxRoots /\ cycle \in BOOLEAN /\ finalized \in BOOLEAN
  /\ frame \in Frame
  /\ entry \in [Class -> {NoEntry, Empty} \cup Birth]
  /\ mutex \subseteq Class /\ names \in BOOLEAN /\ wrote \subseteq Class
  /\ marks \in [Birth -> SUBSET Mark]

(* A live object finds values another object wrote only if that object     *)
(* was given another class, was revived by its own finalizer or used after *)
(* it (clear_object_related goes by the type at death, and runs once).     *)
StaleExplained ==
  phase # "free" =>
    \A w \in Class :
      entry[w] \in Birth \ {birth} => "leaves" \in marks[entry[w]]

(* A live object still has the private values it wrote, however its        *)
(* finalizers went, unless another's finalizer made it reachable, or its   *)
(* own dropped a reference and hid the one it made.                        *)
ValuesKept ==
  phase = "live" /\ "loses" \notin marks[birth] =>
    \A w \in wrote : entry[w] = birth

(* An object that died without such a history leaves nothing behind.       *)
Forgotten ==
  (phase = "free" /\ \A b \in Birth : "leaves" \notin marks[b]) =>
    mutex = {} /\ ~names /\ \A w \in Class : entry[w] = NoEntry
==============================================================================
