----------------------------- MODULE TypeCreation -----------------------------
(***************************************************************************)
(* Creating classes with private attributes: the creation lock, the data   *)
(* of the creation that holds it (AllData::tmp_creation_data), and when    *)
(* those data are installed into the tables - by the creation itself, or   *)
(* by any access to a class not yet in all_type_attr_set                   *)
(* (try_install_pending_creation).  type.__new__ and a private_func run    *)
(* Python code, so another thread, another creation or an access can come  *)
(* between any two steps of a creation.  What install writes is            *)
(* PrivateStore!CreateClass; here it is the fact that class x was          *)
(* registered with the data of the creation of class d.  Operators named   *)
(* Mutant... are wrong versions of the definition that follows them.       *)
(***************************************************************************)
EXTENDS Naturals, Sequences

CONSTANTS
  Thread,    \* Python threads
  Class,     \* class statements, each run at most once
  NoClass,   \* no creation holds the lock
  Route,     \* Route[c]: "native" (PrivateAttrType_new), "with" (prepare as a
             \* context manager) or "bare" (prepare without with)
  Stranger,  \* classes of a registered metaclass that no creation here has made:
             \* made before it was registered, or without prepare
  HasFunc,   \* the classes with a private_func and a private value in the body
  Survivor,  \* the classes that something else keeps alive when their creation fails
  MaxDepth   \* bound: creations and installs a thread is inside at once

ASSUME CreationAssumption ==
  /\ NoClass \notin Class /\ Stranger \cap Class = {}
  /\ Route \in [Class -> {"native", "with", "bare"}]
  /\ HasFunc \subseteq Class /\ Survivor \subseteq Class
  /\ MaxDepth \in Nat

VARIABLES
  gil,         \* the interpreter has a GIL (it may be a free-threaded build)
  stack,       \* stack[t]: the frames thread t is inside, the innermost last
  phase,       \* phase[c]: how far the creation of c is
  alive,       \* those of Class whose type object exists; strangers always do
  tmp,         \* tmp_creation_data: the creation whose data are pending.  lock(),
               \* unlock() change it together with lock_, locked and
               \* type_creation_locked
  installed,   \* the creations whose data have been installed
  registered,  \* registered[x]: whose data class x got in all_type_attr_set
  crashed      \* an install went on with data that had been destroyed

vars == <<gil, stack, phase, alive, tmp, installed, registered, crashed>>

Phase == {"unmade", "locking", "prepared", "hooks", "returned", "installing",
          "raising", "dangling", "done", "failed"}

(* The phases in which the creation data exist and may hold the lock:      *)
(* "prepared" before type.__new__ made the type, "hooks" while it calls    *)
(* __set_name__ and __init_subclass__, "returned" after it, "raising" when *)
(* its own install raised, "dangling" when a prepare object outlives its   *)
(* failed creation.                                                        *)
Pending == {"prepared", "hooks", "returned", "installing", "raising", "dangling"}

Types == Class \cup Stranger
Frame == [kind: {"create", "install"}, data: Class, type: Types]
Create(c) == [kind |-> "create", data |-> c, type |-> c]
InstallOf(d, x) == [kind |-> "install", data |-> d, type |-> x]

Init ==
  /\ gil \in BOOLEAN
  /\ stack = [t \in Thread |-> <<>>]
  /\ phase = [c \in Class |-> "unmade"]
  /\ alive = {}
  /\ tmp = NoClass
  /\ installed = {}
  /\ registered = [x \in Types |-> NoClass]
  /\ crashed = FALSE

(* ------------------------- threads and the GIL ------------------------- *)

Top(t) == stack[t][Len(stack[t])]
TopIs(t, kind) == stack[t] # <<>> /\ Top(t).kind = kind
Creating(t, c, p) == TopIs(t, "create") /\ Top(t).data = c /\ phase[c] = p

Pop(t) == stack' = [stack EXCEPT ![t] = SubSeq(@, 1, Len(@) - 1)]
Push(t, f) == stack' = [stack EXCEPT ![t] = Append(@, f)]

(* The thread runs Python code, which any other thread may interrupt:      *)
(* outside every creation, in the hooks of type.__new__, in a private_func *)
(* or, after prepare(), in the body of the user's metaclass.               *)
InPython(t) ==
  \/ stack[t] = <<>>
  \/ TopIs(t, "install")
  \/ \E c \in Class :
       \/ Creating(t, c, "hooks")
       \/ Route[c] # "native" /\ (Creating(t, c, "prepared") \/ Creating(t, c, "returned"))

(* With a GIL a thread in C code keeps it, even while it waits for the     *)
(* creation lock.                                                          *)
Runs(t) == ~crashed /\ (gil => \A u \in Thread \ {t} : InPython(u))
RunsPython(t) == Runs(t) /\ InPython(t)

(* ------------------------------ the lock ------------------------------- *)

MutantUnlocked(d) == tmp
Unlocked(d) == IF tmp = d THEN NoClass ELSE tmp

(* preprocess succeeds, or raises before it takes the lock.                *)
Start(t, c) ==
  /\ RunsPython(t) /\ phase[c] = "unmade" /\ Len(stack[t]) < MaxDepth
  /\ Push(t, Create(c))
  /\ phase' = [phase EXCEPT ![c] = "locking"]
  /\ UNCHANGED <<gil, alive, tmp, installed, registered, crashed>>

Refuse(t, c) ==
  /\ RunsPython(t) /\ phase[c] = "unmade"
  /\ phase' = [phase EXCEPT ![c] = "failed"]
  /\ UNCHANGED <<gil, stack, alive, tmp, installed, registered, crashed>>

(* data.lock(), the end of preprocess; it waits with the GIL held.         *)
Lock(t, c) ==
  /\ Runs(t) /\ Creating(t, c, "locking")
  /\ tmp = NoClass
  /\ tmp' = c
  /\ phase' = [phase EXCEPT ![c] = "prepared"]
  /\ UNCHANGED <<gil, stack, alive, installed, registered, crashed>>

(* ------------------------------- install ------------------------------- *)

(* Registering x with the data of d, up to the first call of private_func  *)
(* if there is one, else to the end: unlock() and installed = true.        *)
Install(t, d, x) ==
  /\ registered' = [registered EXCEPT ![x] = d]
  /\ \/ d \in HasFunc /\ Push(t, InstallOf(d, x)) /\ UNCHANGED <<installed, tmp>>
     \/ /\ d \notin HasFunc
        /\ installed' = installed \cup {d}
        /\ tmp' = Unlocked(d)
        /\ stack' = stack

MutantUnregistered(x) == TRUE
Unregistered(x) == registered[x] = NoClass

(* try_install_pending_creation: any access to a class through its         *)
(* metaclass, by any thread.  Any class without a registration is taken    *)
(* for the one under construction, strangers too.  (Those that still have  *)
(* the __static_attributes__ Python 3.13 gives a class statement are       *)
(* refused, and nothing changes.)                                          *)
Touch(t, x) ==
  /\ RunsPython(t) /\ Len(stack[t]) < MaxDepth
  /\ x \in alive \cup Stranger /\ tmp # NoClass /\ Unregistered(x)
  /\ Install(t, tmp, x)
  /\ UNCHANGED <<gil, phase, alive, crashed>>

(* private_func returned and install ends ...                              *)
InstallEnds(t) ==
  LET d == Top(t).data IN
  /\ Runs(t) /\ TopIs(t, "install") /\ phase[d] \in Pending
  /\ installed' = installed \cup {d}
  /\ tmp' = Unlocked(d)
  /\ Pop(t)
  /\ UNCHANGED <<gil, phase, alive, registered, crashed>>

(* The install of thread t is the one its creation made itself.            *)
OwnInstall(t) ==
  LET d == Top(t).data IN
  /\ phase[d] = "installing"
  /\ Len(stack[t]) > 1 /\ stack[t][Len(stack[t]) - 1] = Create(d)

(* ... or it raised, and whoever touched the class, or the creation, gets  *)
(* the exception; what was written stays, and the lock with it.            *)
InstallRaises(t) ==
  /\ Runs(t) /\ TopIs(t, "install") /\ phase[Top(t).data] \in Pending
  /\ phase' = IF OwnInstall(t) THEN [phase EXCEPT ![Top(t).data] = "raising"] ELSE phase
  /\ Pop(t)
  /\ UNCHANGED <<gil, alive, tmp, installed, registered, crashed>>

(* Meanwhile the creation itself ended and destroyed the data: install     *)
(* goes on in freed memory.  Whatever happens next, the model ends here.   *)
InstallLost(t) ==
  /\ Runs(t) /\ TopIs(t, "install") /\ phase[Top(t).data] \notin Pending
  /\ crashed' = TRUE
  /\ UNCHANGED <<gil, stack, phase, alive, tmp, installed, registered>>

(* ----------------------- type.__new__ and after ------------------------ *)

MakeType(t, c) ==
  /\ Runs(t) /\ Creating(t, c, "prepared")
  /\ alive' = alive \cup {c}
  /\ phase' = [phase EXCEPT ![c] = "hooks"]
  /\ UNCHANGED <<gil, stack, tmp, installed, registered, crashed>>

HooksReturn(t, c) ==
  /\ Runs(t) /\ Creating(t, c, "hooks")
  /\ phase' = [phase EXCEPT ![c] = "returned"]
  /\ UNCHANGED <<gil, stack, alive, tmp, installed, registered, crashed>>

(* PrivateAttrType_new, or postprocess, installs unless an access has.     *)
Finish(t, c) ==
  /\ Runs(t) /\ Creating(t, c, "returned") /\ c \notin installed
  /\ Install(t, c, c)
  /\ phase' = [phase EXCEPT ![c] = "installing"]
  /\ UNCHANGED <<gil, alive, crashed>>

(* The creation succeeds; its data are cleared and destroyed.              *)
Complete(t, c) ==
  /\ Runs(t) /\ (Creating(t, c, "returned") \/ Creating(t, c, "installing"))
  /\ c \in installed
  /\ phase' = [phase EXCEPT ![c] = "done"]
  /\ tmp' = Unlocked(c)
  /\ Pop(t)
  /\ UNCHANGED <<gil, alive, installed, registered, crashed>>

(* An exception: from type.__new__ or a hook, from the metaclass's own     *)
(* code, or from the private_func of the creation's own install.  The data *)
(* are cleared by the destructor or by __exit__; a prepare object without  *)
(* with lives on for as long as a traceback or a variable holds it.        *)
Raise(t, c) ==
  /\ Runs(t)
  /\ \/ Creating(t, c, "prepared") \/ Creating(t, c, "hooks")
     \/ Creating(t, c, "returned") /\ Route[c] # "native"
     \/ Creating(t, c, "raising")
  /\ Pop(t)
  /\ \/ alive' = alive \ {c}
     \/ c \in Survivor /\ alive' = alive
  /\ \/ phase' = [phase EXCEPT ![c] = "failed"] /\ tmp' = Unlocked(c)
     \/ Route[c] = "bare" /\ phase' = [phase EXCEPT ![c] = "dangling"] /\ tmp' = tmp
  /\ UNCHANGED <<gil, installed, registered, crashed>>

(* The last reference to a dangling prepare object goes.  (In the mutant a *)
(* reference is missing, and the object goes while postprocess needs it.)  *)
MutantDropTemp(t, c) ==
  /\ RunsPython(t) /\ Route[c] = "bare" /\ phase[c] \in {"returned", "dangling"}
  /\ phase' = [phase EXCEPT ![c] = "failed"]
  /\ tmp' = Unlocked(c)
  /\ UNCHANGED <<gil, stack, alive, installed, registered, crashed>>

DropTemp(t, c) ==
  /\ RunsPython(t) /\ phase[c] = "dangling"
  /\ phase' = [phase EXCEPT ![c] = "failed"]
  /\ tmp' = Unlocked(c)
  /\ UNCHANGED <<gil, stack, alive, installed, registered, crashed>>

(* ----------------------------------------------------------------------- *)

Step(t) ==
  \/ \E c \in Class :
       \/ Lock(t, c) \/ MakeType(t, c) \/ HooksReturn(t, c)
       \/ Finish(t, c) \/ Complete(t, c) \/ Raise(t, c)
  \/ InstallEnds(t) \/ InstallRaises(t) \/ InstallLost(t)

Next ==
  \E t \in Thread :
    \/ Step(t)
    \/ \E c \in Class : Start(t, c) \/ Refuse(t, c) \/ DropTemp(t, c)
    \/ \E x \in Types : Touch(t, x)

(* Hooks and functions of the user return or raise, and a thread that can  *)
(* run is scheduled; nobody is obliged to create, to access or to drop.    *)
Fairness == \A t \in Thread : WF_vars(Step(t))

Spec == Init /\ [][Next]_vars
FairSpec == Spec /\ Fairness

(* ------------------------------ properties ----------------------------- *)

OnStack(t, c) == \E i \in 1 .. Len(stack[t]) : stack[t][i] = Create(c)

(* The shape of the state; the creations in progress are exactly those     *)
(* some thread is inside.                                                  *)
TypeOK ==
  /\ gil \in BOOLEAN /\ crashed \in BOOLEAN
  /\ stack \in [Thread -> Seq(Frame)]
  /\ phase \in [Class -> Phase]
  /\ alive \subseteq Class /\ installed \subseteq Class
  /\ tmp \in Class \cup {NoClass}
  /\ registered \in [Types -> Class \cup {NoClass}]
  /\ \A c \in Class :
       (\E t \in Thread : OnStack(t, c)) <=>
         phase[c] \in {"locking", "prepared", "hooks", "returned", "installing", "raising"}

(* tmp_creation_data never points at destroyed data: every way out of a    *)
(* creation, normal or not, releases the lock, whoever installed the data. *)
LockIsLive == tmp # NoClass => phase[tmp] \in Pending

(* As long as nobody touched a class whose creation failed, or one that no *)
(* creation has made, while other data were pending, and so gave it those, *)
(* every class that was created is registered with its own - whatever      *)
(* accesses, nested creations, failures and early installs came between.   *)
NoTheft ==
  /\ \A z \in Class : phase[z] = "failed" => registered[z] \in {z, NoClass}
  /\ \A z \in Stranger : registered[z] = NoClass
OwnData == NoTheft => \A c \in Class : phase[c] = "done" => registered[c] = c

(* A class once registered is never given other data: all later accesses   *)
(* find it in all_type_attr_set and its own install writes the same again. *)
RegistrationKept ==
  [][\A x \in Types : registered[x] # NoClass => registered'[x] = registered[x]]_vars

(* A thread waits for the creation lock.                                   *)
Waits(t) == \E c \in Class : Creating(t, c, "locking") /\ tmp # NoClass

(* The waits that need not end: with a GIL the holder cannot run; a waiter *)
(* may be inside the creation it waits for, or two inside each other's; a  *)
(* dangling object need not go.                                            *)
Hung ==
  \E t \in Thread :
    Waits(t) /\ (gil \/ phase[tmp] = "dangling" \/ \E u \in Thread : Waits(u) /\ OnStack(u, tmp))

(* Every creation ends, in a class or an exception, unless a thread is     *)
(* hung in one of those ways (or an install lost its data).                *)
CreationsEnd ==
  \A c \in Class :
    (phase[c] = "locking") ~> (phase[c] \in {"done", "failed", "dangling"} \/ Hung \/ crashed)

(* -------- what the documentation says and the code does not do --------- *)

(* "postprocess unlocks it": a creation that waits for the lock gets it    *)
(* once the creation before it ends, so no wait is for ever.               *)
NeverHung == ~Hung

(* "tmp_creation_data points at the in-flight PrivateAttrCreationData ...  *)
(* until postprocess promotes the data into the real AllData tables": into *)
(* the tables of the class that was being created.                         *)
AlwaysOwnData == \A c \in Class : phase[c] = "done" => registered[c] = c
=============================================================================
