-------------------------- MODULE MetaclassRegistry --------------------------
(***************************************************************************)
(* The metaclasses registered beside PrivateAttrType: who is in            *)
(* all_register_type_weak_ref, with which saved slots, while threads       *)
(* register metaclasses, assign attributes of classes and let them die.    *)
(* Every scan of the table asks isinstance with the shared lock held, and  *)
(* isinstance may run Python code; an insertion takes the exclusive lock.  *)
(* A metaclass dies in the cyclic collector, whose weak reference callback *)
(* takes the exclusive lock.  all_type_getattro and all_type_traverse hold *)
(* the saved slots of two kinds: of a registered metaclass, and of a class *)
(* that ensure_tp wraps, which may be a metaclass as well.                 *)
(* tp_setattro goes like tp_getattro, tp_clear like tp_traverse, and       *)
(* tp_call like tp_getattro without the part of ensure_tp.                 *)
(* Operators named Mutant... are wrong versions of a definition that       *)
(* follows them and are not used.                                          *)
(***************************************************************************)
EXTENDS Naturals, Sequences, FiniteSets

CONSTANTS
  Thread,    \* Python threads
  Meta,      \* metaclasses other than type and PrivateAttrType, by address
  Type,      \* the metaclass type
  Bases,     \* Bases[m]: the chain of tp_base from m, up to what is not in Meta
  MetaOf,    \* MetaOf[m]: the class of m
  NoMeta,    \* a thread has no call under way
  Hooks,     \* those that may have Python code for isinstance
  MaxCalls   \* bound: calls of register_metaclass, need_analyse_type, ensure_tp

ASSUME RegistryAssumption ==
  /\ Type \notin Meta /\ NoMeta \notin Meta \cup {Type}
  /\ Bases \in [Meta -> Seq(Meta)]
  /\ \A m \in Meta : \A i \in DOMAIN Bases[m] :
       Bases[Bases[m][i]] = SubSeq(Bases[m], i + 1, Len(Bases[m]))
  /\ MetaOf \in [Meta -> Meta \cup {Type}]
  /\ Hooks \subseteq Meta /\ MaxCalls \in Nat

Slot == {"getattro", "traverse"}

(* What can be in a slot: the wrappers for metaclasses (PrivateAttrType_x) *)
(* and for classes with private attributes (PrivateAttr_tp_x), what the    *)
(* interpreter puts there, and what type has.                              *)
Functions == {"type wrapper", "instance wrapper", "dispatcher", "type", "subtype", "NULL"}
NoEntry == "no entry"

VARIABLES
  gil,       \* the interpreter has a GIL
  eager,     \* it collects when it allocates (before 3.12), not only in Python code
  hooked,    \* the metaclasses with an __instancecheck__ or a property __class__
  alive,     \* the metaclasses that exist
  own,       \* those with a __getattribute__ in their __dict__
  ref,       \* all_register_type_weak_ref, and its inverse weakref_type
  live,      \* live[m][s]: the slot of the type object
  saved,     \* saved[m][s]: all_type_getattro, all_type_traverse
  frame,     \* frame[t]: the call thread t is in: the metaclass it is at, how far,
             \* whether isinstance is in Python, and the subclasses still to do
  ensured,   \* history: where ensure_tp has saved slots that nothing has erased
  interrupted, \* history: a scan of a registration has run Python code
  missed,    \* history: metaclasses made below a registered one, or left out by a
             \* registration that raised
  calls,
  hung       \* a thread waits for a lock whose holder waits for it

config == <<gil, eager, hooked>>
slots == <<live, saved, ensured>>
vars == <<config, alive, own, ref, slots, frame, interrupted, missed, calls, hung>>

(* "need", "class": the scans need_analyse_type and                        *)
(* is_class_of_registed_type of a registration; "lock": about to insert;   *)
(* "insert": with the exclusive lock; "subclasses": listing them;          *)
(* "assign": the scans of new_type_tp_setattro; "other": need_analyse_type *)
(* for an ordinary class of the metaclass, whose slots are not here.       *)
At == {"idle", "need", "class", "lock", "insert", "subclasses", "assign", "other"}
Registering == {"need", "class", "lock", "insert", "subclasses"}
Idle == [at |-> "idle", meta |-> NoMeta, hook |-> FALSE, todo |-> {}]

Init ==
  /\ gil \in BOOLEAN /\ eager \in BOOLEAN /\ (eager => gil) /\ hooked \in SUBSET Hooks
  /\ alive = {} /\ own = {} /\ ref = {}
  /\ live = [m \in Meta |-> [s \in Slot |-> "NULL"]]
  /\ saved = [m \in Meta |-> [s \in Slot |-> NoEntry]]
  /\ frame = [t \in Thread |-> Idle]
  /\ ensured = {} /\ interrupted = FALSE /\ missed = {} /\ calls = 0 /\ hung = FALSE

(* ------------------------------ classes -------------------------------- *)

Base(m) == IF Bases[m] = <<>> THEN Type ELSE Head(Bases[m])
Subclasses(m) == {x \in alive : Base(x) = m}

(* isinstance(x, m) by its type and their bases.                           *)
Above(m) == IF m = Type THEN {} ELSE {m} \cup {Bases[m][i] : i \in DOMAIN Bases[m]}
IsInstance(x, m) == m \in Above(MetaOf[x])

(* isinstance of y, asked of something of class k, may run Python: an      *)
(* __instancecheck__ of y's class, or, if k is not below y, a __class__ or *)
(* a __getattribute__ of k.                                                *)
LooksInPython(k) == Above(k) \cap (hooked \cup own) # {}
AsksPython(k, y) ==
  k # y /\ (Above(MetaOf[y]) \cap hooked # {} \/ (y \notin Above(k) /\ LooksInPython(k)))

(* What need_analyse_type is called for in the call a thread is in, by     *)
(* class, and the pairs a scan asks isinstance of.                         *)
Analysed(t) ==
  CASE frame[t].at = "need" -> {frame[t].meta}
    [] frame[t].at = "assign" -> {frame[t].meta} \cup frame[t].todo
    [] OTHER -> {}

Classes(t) ==
  IF frame[t].at = "other" THEN {frame[t].meta} ELSE {MetaOf[x] : x \in Analysed(t)}

Asked(t) ==
  CASE frame[t].at = "class" -> {<<MetaOf[x], frame[t].meta>> : x \in ref \ {frame[t].meta}}
    [] frame[t].at = "other" -> {<<frame[t].meta, y>> : y \in ref}
    [] OTHER -> UNION {{<<MetaOf[x], y>> : y \in ref \ {x}} : x \in Analysed(t)}

(* --------------------- threads, the GIL and the lock ------------------- *)

(* need_analyse_type asks isinstance of PrivateAttrType first, without the *)
(* lock.                                                                   *)
InPython(t) ==
  \/ frame[t].at = "idle" \/ frame[t].hook
  \/ \E k \in Classes(t) : LooksInPython(k)

Runs(t) == gil => \A u \in Thread \ {t} : InPython(u)
RunsPython(t) == InPython(t) /\ Runs(t)

Readers == {t \in Thread : frame[t].hook}
Writers == {t \in Thread : frame[t].at = "insert"}
Holders == Readers \cup Writers

Move(t, at) == frame' = [frame EXCEPT ![t].at = at]

(* ------------------------------- slots --------------------------------- *)

Pure(o, m, s) ==
  IF s = "traverse" THEN "subtype" ELSE IF Above(m) \cap o # {} THEN "dispatcher" ELSE "type"

(* get_type_need_tp_x: the walk starts at the base and skips the wrapper   *)
(* for metaclasses; for the collector it skips the other wrapper and the   *)
(* delegating default too, in a slot and saved, and ends with type's.      *)
MutantSkipped(s) == {"type wrapper"}
Skipped(s) ==
  IF s = "traverse" THEN {"type wrapper", "instance wrapper", "subtype", "NULL"}
  ELSE {"type wrapper"}

Found(b, s) ==
  IF live[b][s] \notin Skipped(s) THEN live[b][s]
  ELSE IF s = "traverse" /\ saved[b][s] \in Skipped(s) THEN NoEntry ELSE saved[b][s]

Need(m, s) ==
  LET real == {i \in DOMAIN Bases[m] : Found(Bases[m][i], s) # NoEntry}
  IN  IF real = {} THEN "type"
      ELSE Found(Bases[m][CHOOSE i \in real : \A j \in real : i <= j], s)

(* Saving and wrapping, where the interpreter has left the slots as L:     *)
(* ensure_tp for the classes in E, which saves what is in the slot over    *)
(* what it had saved, and ensure_metaclass_tp for those in R, which keeps  *)
(* an entry.  (A slot with the wrapper of ensure_tp has its entry.)        *)
Wrap(L, E, R) ==
  /\ live' = [m \in Meta |-> [s \in Slot |->
       IF m \in R THEN "type wrapper" ELSE IF m \in E THEN "instance wrapper" ELSE L[m][s]]]
  /\ saved' = [m \in Meta |-> [s \in Slot |->
       IF m \in E /\ L[m][s] # "instance wrapper" THEN L[m][s]
       ELSE IF m \in R /\ L[m][s] # "type wrapper" /\ saved[m][s] = NoEntry THEN Need(m, s)
       ELSE saved[m][s]]]
  /\ ensured' = ensured \cup E

(* --------------------- metaclasses come and go ------------------------- *)

Make(t, m) ==
  /\ m \notin alive /\ RunsPython(t)
  /\ {Base(m), MetaOf[m]} \subseteq alive \cup {Type}
  /\ alive' = alive \cup {m}
  /\ \E o \in {own, own \cup {m}} :
       own' = o /\ live' = [live EXCEPT ![m] = [s \in Slot |-> Pure(o, m, s)]]
  /\ missed' = IF Base(m) \in ref THEN missed \cup {m} ELSE missed
  /\ UNCHANGED <<config, ref, saved, ensured, frame, interrupted, calls, hung>>

(* Something still refers to m: a subclass, an instance, a call.           *)
Referenced(m) ==
  \/ \E x \in alive : m \in {Base(x), MetaOf[x]}
  \/ \E t \in Thread : m = frame[t].meta \/ m \in frame[t].todo

(* The collector runs in Python code, or, if eager, in the allocations of  *)
(* an insertion.                                                           *)
MutantCollects(t) == Runs(t) /\ (InPython(t) \/ frame[t].at = "insert")
Collects(t) == Runs(t) /\ (InPython(t) \/ (eager /\ frame[t].at = "insert"))

(* metaclass_weakref_callback.  A metaclass that is not registered has     *)
(* none: what ensure_tp saved for it stays.                                *)
MutantForgotten(m) == [s \in Slot |-> "NULL"]
MutantForgottenNot(m) == saved[m]
Forgotten(m) == [s \in Slot |-> NoEntry]

Die(t, m) ==
  /\ m \in alive /\ ~Referenced(m) /\ Collects(t)
  /\ m \in ref => Holders = {}
  /\ alive' = alive \ {m} /\ own' = own \ {m}
  /\ ref' = ref \ {m}
  /\ saved' = IF m \in ref THEN [saved EXCEPT ![m] = Forgotten(m)] ELSE saved
  /\ ensured' = IF m \in ref THEN ensured \ {m} ELSE ensured
  /\ live' = [live EXCEPT ![m] = [s \in Slot |-> "NULL"]]
  /\ missed' = missed \ {m}
  /\ UNCHANGED <<config, frame, interrupted, calls, hung>>

(* The callback waits for the lock its own thread holds, or, with the GIL, *)
(* one whose holder cannot run.                                            *)
DieStuck(t, m) ==
  /\ m \in alive \cap ref /\ ~Referenced(m)
  /\ Holders # {} /\ (t \in Holders \/ gil)
  /\ Collects(t)
  /\ hung' = TRUE
  /\ UNCHANGED <<config, alive, own, ref, slots, frame, interrupted, missed, calls>>

(* ------------------------------ calls ---------------------------------- *)

(* register_metaclass, setting an attribute of m, which lists the          *)
(* subclasses first, and need_analyse_type of an ordinary class of m.      *)
Start(t, at, m) ==
  /\ frame[t] = Idle /\ m \in alive /\ calls < MaxCalls /\ RunsPython(t)
  /\ frame' = [frame EXCEPT ![t] =
       [at |-> at, meta |-> m, hook |-> FALSE, todo |-> IF at = "assign" THEN Subclasses(m) ELSE {}]]
  /\ calls' = calls + 1
  /\ UNCHANGED <<config, alive, own, ref, slots, interrupted, missed, hung>>

(* ensure_tp of a class with private attributes and of its subclasses:     *)
(* when it gets its data or is passed to ensure_type, at accesses to it,   *)
(* and when an object of it, as a private value, has a __get__.            *)
EnsureTp(t, m) ==
  /\ m \in alive /\ calls < MaxCalls /\ RunsPython(t)
  /\ \E E \in {{m}, {m} \cup Subclasses(m)} : Wrap(live, E, {})
  /\ calls' = calls + 1
  /\ UNCHANGED <<config, alive, own, ref, frame, interrupted, missed, hung>>

(* Python code with the shared lock held.                                  *)
EnterHook(t) ==
  /\ ~frame[t].hook /\ Writers = {} /\ Runs(t)
  /\ \E a \in Asked(t) : AsksPython(a[1], a[2])
  /\ frame' = [frame EXCEPT ![t].hook = TRUE]
  /\ interrupted' = (interrupted \/ frame[t].at \in Registering)
  /\ UNCHANGED <<config, alive, own, ref, slots, missed, calls, hung>>

(* A scan finds the lock taken only in a free-threaded build, and waits.   *)
(* What isinstance answers in Python is up to the program.                 *)
NeedAnalyse(m) == \E x \in ref \ {m} : IsInstance(m, x)
MutantClassOfRegistered(m) == FALSE
ClassOfRegistered(m) == \E x \in ref \ {m} : IsInstance(x, m)

(* The call raises: the metaclasses it did not reach are left out.         *)
Raise(t) ==
  /\ frame' = [frame EXCEPT ![t] = Idle]
  /\ missed' = missed \cup (({frame[t].meta} \cup frame[t].todo) \ ref)

ScanEnds(t) ==
  /\ frame[t].at \in {"need", "class"} /\ Runs(t) /\ Writers = {}
  /\ LET m == frame[t].meta
         answer == IF frame[t].at = "need" THEN NeedAnalyse(m) ELSE ClassOfRegistered(m)
         next == IF frame[t].at = "need" THEN "class" ELSE "lock"
     IN  \/ (answer \/ InPython(t)) /\ Raise(t)
         \/ /\ ~answer \/ frame[t].hook
            /\ frame' = [frame EXCEPT ![t] = [@ EXCEPT !.at = next, !.hook = FALSE]]
            /\ missed' = missed
  /\ UNCHANGED <<config, alive, own, ref, slots, interrupted, calls, hung>>

(* The other calls of need_analyse_type.                                   *)
OtherEnds(t) ==
  /\ frame[t].at = "other" /\ Runs(t) /\ Writers = {}
  /\ frame' = [frame EXCEPT ![t] = Idle]
  /\ UNCHANGED <<config, alive, own, ref, slots, interrupted, missed, calls, hung>>

Lock(t) ==
  /\ frame[t].at = "lock" /\ Runs(t) /\ Holders = {}
  /\ Move(t, "insert")
  /\ UNCHANGED <<config, alive, own, ref, slots, interrupted, missed, calls, hung>>

(* With a GIL the thread waits without giving it up, so a reader that is   *)
(* in a hook never ends; and a hook that registers waits for its own scan. *)
LockStuck(t) ==
  /\ frame[t].at = "lock" \/ frame[t].hook
  /\ Runs(t)
  /\ \/ frame[t].at = "lock" /\ gil /\ Holders # {}
     \/ /\ frame[t].hook
        /\ \E m \in alive : ~NeedAnalyse(m) /\ ~ClassOfRegistered(m)
  /\ hung' = TRUE
  /\ UNCHANGED <<config, alive, own, ref, slots, frame, interrupted, missed, calls>>

Insert(t) ==
  LET m == frame[t].meta IN
  /\ frame[t].at = "insert" /\ Runs(t)
  /\ ref' = ref \cup {m}
  /\ IF m \in ref THEN UNCHANGED slots ELSE Wrap(live, {}, {m})
  /\ missed' = missed \ {m}
  /\ Move(t, "subclasses")
  /\ UNCHANGED <<config, alive, own, interrupted, calls, hung>>

(* register_metaclass goes on to the subclasses, and theirs.               *)
MutantToDo(t) == frame[t].todo
MutantToDoAgain(t) == frame[t].todo \cup {frame[t].meta}
ToDo(t) == frame[t].todo \cup Subclasses(frame[t].meta)

Descend(t) ==
  /\ frame[t].at = "subclasses" /\ Runs(t)
  /\ IF ToDo(t) = {} THEN frame' = [frame EXCEPT ![t] = Idle]
     ELSE \E m \in ToDo(t) :
            frame' = [frame EXCEPT ![t] =
              [at |-> "need", meta |-> m, hook |-> FALSE, todo |-> ToDo(t) \ {m}]]
  /\ UNCHANGED <<config, alive, own, ref, slots, interrupted, missed, calls, hung>>

(* ---------------------- assigning an attribute ------------------------- *)

(* The metaclasses whose slot the interpreter recomputes.                  *)
Updated(m) == {x \in alive : m \in Above(x) /\ own \cap (Above(x) \ Above(m)) = {}}

(* new_type_tp_setattro wraps again the class and its direct subclasses:   *)
(* with ensure_tp those need_analyse_type has found, with                  *)
(* ensure_metaclass_tp the registered among the others.  The scans are one *)
(* step unless others come between them.                                   *)
Assign(t) ==
  LET m == frame[t].meta
      scanned == {m} \cup frame[t].todo
      exact == gil /\ ~InPython(t)
  IN
  /\ frame[t].at = "assign" /\ Runs(t) /\ Writers = {}
  /\ \E need \in SUBSET scanned, registered \in SUBSET (scanned \cap ref) :
       /\ need \cap registered = {}
       /\ exact => /\ need = {x \in scanned : NeedAnalyse(x)}
                   /\ registered = (scanned \cap ref) \ need
       /\ \/ own' = own /\ Wrap(live, need, registered)
          \/ /\ own' = IF m \in own THEN own \ {m} ELSE own \cup {m}
             /\ Wrap([x \in Meta |-> IF x \in Updated(m)
                                     THEN [live[x] EXCEPT !["getattro"] = Pure(own', x, "getattro")]
                                     ELSE live[x]],
                     need, registered)
  /\ frame' = [frame EXCEPT ![t] = Idle]
  /\ UNCHANGED <<config, alive, ref, interrupted, missed, calls, hung>>

(* ----------------------------------------------------------------------- *)

Progress(t) ==
  ScanEnds(t) \/ OtherEnds(t) \/ Lock(t) \/ LockStuck(t) \/ Insert(t) \/ Descend(t) \/ Assign(t)

Next ==
  /\ ~hung
  /\ \E t \in Thread :
       \/ Progress(t) \/ EnterHook(t)
       \/ \E m \in Meta :
            \/ Make(t, m) \/ Die(t, m) \/ DieStuck(t, m) \/ EnsureTp(t, m)
            \/ \E at \in {"need", "assign", "other"} : Start(t, at, m)

Spec == Init /\ [][Next]_vars

(* Threads are scheduled and hooks return.                                 *)
FairSpec == Spec /\ \A t \in Thread : WF_vars(~hung /\ Progress(t))

(* ------------------------------ properties ----------------------------- *)

TypeOK ==
  /\ gil \in BOOLEAN /\ eager \in BOOLEAN /\ hooked \subseteq Meta
  /\ alive \subseteq Meta /\ ref \subseteq Meta /\ own \subseteq alive /\ missed \subseteq alive
  /\ live \in [Meta -> [Slot -> Functions]]
  /\ saved \in [Meta -> [Slot -> (Functions \ {"NULL"}) \cup {NoEntry}]]
  /\ frame \in [Thread -> [at : At, meta : Meta \cup {NoMeta}, hook : BOOLEAN, todo : SUBSET Meta]]
  /\ ensured \subseteq Meta /\ interrupted \in BOOLEAN
  /\ calls \in 0..MaxCalls /\ hung \in BOOLEAN

(* A registered metaclass is alive and has its saved slots; at any other   *)
(* address, of a dead metaclass too, nothing is saved but by ensure_tp,    *)
(* which nothing erases.                                                   *)
SavedExact ==
  \A m \in Meta, s \in Slot :
    /\ m \in ref => m \in alive /\ saved[m][s] # NoEntry
    /\ m \notin ref /\ saved[m][s] # NoEntry => m \in ensured

(* What a wrapper chains to is never a wrapper, nor the interpreter's      *)
(* delegating default, which would lead back into it and leave the class   *)
(* uncollectable, unless ensure_tp was run on the metaclass, or one at its *)
(* address, or, for attributes, on one above it.                           *)
SavedReal ==
  \A m \in ref :
    /\ m \notin ensured => saved[m]["traverse"] = "type"
    /\ Above(m) \cap ensured = {} => saved[m]["getattro"] \in {"dispatcher", "type"}

(* With a GIL no registered metaclass is an instance of another, unless    *)
(* Python code in the scan of a registration let another thread in between *)
(* the checks and the insertion.                                           *)
Flat ==
  gil /\ ~interrupted => \A x, y \in ref : x # y => ~IsInstance(x, y)

(* Registering reaches everything below: a metaclass under a registered    *)
(* one is registered too, unless it was made afterwards, a call raised, or *)
(* one still has it to do.                                                 *)
Downward ==
  \A m \in alive \ ref :
    Base(m) \in ref =>
      \/ m \in missed
      \/ \E t \in Thread :
           \/ frame[t].at \in Registering /\ m \in {frame[t].meta} \cup frame[t].todo
           \/ frame[t].at = "subclasses" /\ frame[t].meta = Base(m)

(* The registry's lock hangs a thread only while a scan is in Python code, *)
(* or in a collection inside an insertion.                                 *)
HangExplained ==
  hung => \E t \in Thread : frame[t].hook \/ (eager /\ frame[t].at = "insert")

(* Every registration and assignment ends, or the interpreter hangs.       *)
CallsEnd == \A t \in Thread : frame[t].at # "idle" ~> (frame[t].at = "idle" \/ hung)
==============================================================================
