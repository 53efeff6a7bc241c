----------------------------- MODULE PrivateStore -----------------------------
(***************************************************************************)
(* Private attributes as stored and reached: which class a running code    *)
(* object belongs to (attr_classify), where a private name of that class   *)
(* lives on an instance, on the class or on a subclass (id_*attr,          *)
(* type_*attr, type_get_final_attr), and what creating a class writes      *)
(* (PrivateAttrType_preprocess and install, run without interruption; the  *)
(* module TypeCreation interleaves them).  A handler runs under the GIL    *)
(* and is one action.                                                      *)
(*                                                                         *)
(* Hidden names are left out: within one object they stand one to one for  *)
(* the attributes (NameCache!NamesDistinct).  Slot wrapping is state of    *)
(* another component: the calls of ensure_tp, on the class accessed and on *)
(* the type of a value whose __get__ is called, are left out.  Operators   *)
(* named Mutant... are wrong versions of the definition that follows them  *)
(* and are not used.                                                       *)
(***************************************************************************)
EXTENDS Naturals, Sequences, FiniteSetsExt

CONSTANTS
  Class,        \* classes whose metaclass is PrivateAttrType or registered
  Obj,          \* instances
  Attr,         \* attribute names, mangled
  Value,        \* attribute values
  InstanceValue, ClassValue,  \* bounds: the values assigned to instances and
                \* ordinary names (plain ones), and those assigned to classes
  Code,         \* code objects
  NoCode,       \* what get_now_code gives outside any Python frame
  Absent,       \* no entry
  ClassOf,      \* ClassOf[o]: the type of instance o
  Chain,        \* Chain[c]: c.__mro__, its members outside Class left out
  CodeMap,      \* CodeMap[c]: the code objects analyse_all_code finds in c's body
  Kind,         \* Kind[v]: "plain", "nondata" (has __get__) or "data" (and __set__)
  Definition    \* Definition[c]: the class statements c may be created by, records
                \* of the names declared, use_parents and the class body

Subject == Class \cup Obj
Nodes == [c \in Class |-> {Chain[c][i] : i \in DOMAIN Chain[c]}]
ClassStatement ==
  [declares: SUBSET Attr, use_parents: BOOLEAN, body: [Attr -> Value \cup {Absent}]]

ASSUME ClassAssumption ==
  /\ Class \cap Obj = {}
  /\ ClassOf \in [Obj -> Class]
  /\ Chain \in [Class -> Seq(Class)]
  /\ \A c \in Class : Chain[c] # <<>> /\ Head(Chain[c]) = c
  /\ CodeMap \in [Class -> SUBSET Code]
  /\ Definition \in [Class -> SUBSET ClassStatement]

\* The interpreter's MRO puts a class before its ancestors.
ASSUME ChainAssumption ==
  \A c \in Class : \A i, j \in DOMAIN Chain[c] :
    Chain[c][i] \in Nodes[Chain[c][j]] => j <= i

ASSUME ValueAssumption ==
  /\ Absent \notin Value
  /\ NoCode \notin Code
  /\ Kind \in [Value -> {"plain", "nondata", "data"}]
  /\ InstanceValue \subseteq Value /\ ClassValue \subseteq Value

VARIABLES
  attrSet,   \* all_type_attr_set: a function on the classes created so far
  typeAttr,  \* typeAttr[w]: type_attr_dict[w]
  shadow,    \* shadow[w][c]: all_type_subclass_attr[w][c]
  objAttr,   \* objAttr[w][o]: all_object_attr[w][o]
  public,    \* public[s]: the ordinary __dict__ of an instance or a class
  held,      \* held[w]: the instances whose all_object_mutex[w] nobody will unlock
  hung,      \* a thread that owns the GIL waits for such a mutex
  last       \* the last call: who called what, and the answer

vars == <<attrSet, typeAttr, shadow, objAttr, public, held, hung, last>>
tables == <<attrSet, typeAttr, shadow, objAttr, public>>
locks == <<held, hung>>

NoAttrs == [a \in Attr |-> Absent]

Answered(op, k, s, a, v, r) ==
  last' = [op |-> op, code |-> k, subject |-> s, attr |-> a, value |-> v, reply |-> r]
AnsweredClass(c, r) == last' = [op |-> "class", subject |-> c, reply |-> r]

(* ------------------------------- replies ------------------------------- *)

Plain(v) == <<"value", v>>              \* the stored object itself
Bound(v, s, type) == <<"bound", v, s, type>>   \* v.__get__(s, type)
Called(method, v, s) == <<method, v, s>>       \* v.__set__(s, ..) or v.__delete__(s)
Done == <<"ok">>
AttributeError == <<"AttributeError">>
TypeError == <<"TypeError">>
ErrorSetButOk == <<"ok, exception set">>       \* returned 0 with an exception set
NoReply == <<"never returns">>
None == "None"
TypeOfValue == "type(value)"

(* ------------------------ who may reach what --------------------------- *)

Created == DOMAIN attrSet

IsTypePrivate(c, a) == c \in Created /\ a \in attrSet[c]
TypePrivateAttr(c, a) == \E w \in Nodes[c] : IsTypePrivate(w, a)

MutantIsClassCode(w, k) == k # NoCode
IsClassCode(w, k) == w \in Created /\ k \in CodeMap[w]

(* The class the running code belongs to: the base-most one on the chain   *)
(* whose body it was found in, at position i.                              *)
CodeClassAt(c, k, i) ==
  /\ IsClassCode(Chain[c][i], k)
  /\ \A j \in DOMAIN Chain[c] : IsClassCode(Chain[c][j], k) => j <= i

(* attr_classify with the caller's test of type_private_attr before it:    *)
(* the access is to w's private attribute, ...                             *)
Owns(w, c, a, k) ==
  /\ k # NoCode
  /\ \E i \in DOMAIN Chain[c] : Chain[c][i] = w /\ CodeClassAt(c, k, i)
  /\ IsTypePrivate(w, a)

(* ... or it is denied: no class of the chain owns the code, or the code   *)
(* is a subclass's and the name an ancestor's, ...                         *)
Denied(c, a, k) ==
  /\ TypePrivateAttr(c, a)
  /\ \/ k = NoCode
     \/ \A w \in Nodes[c] : ~IsClassCode(w, k)
     \/ \E i \in DOMAIN Chain[c] :
          /\ CodeClassAt(c, k, i)
          /\ ~IsTypePrivate(Chain[c][i], a)
          /\ \E j \in DOMAIN Chain[c] : j > i /\ IsTypePrivate(Chain[c][j], a)

(* ... or the name is an ordinary one for this code.                       *)
Normal(c, a, k) == ~Denied(c, a, k) /\ \A w \in Nodes[c] : ~Owns(w, c, a, k)

(* ----------------------------- lookups --------------------------------- *)

(* Everything private that belongs to class w.  The lookups take the world *)
(* they read as an argument, so that a property can say what they would    *)
(* answer in another.                                                      *)
World(w) == [own |-> typeAttr[w], subs |-> shadow[w], objs |-> objAttr[w]]
Worlds == [w \in Class |-> World(w)]

MutantClassEntry(world, w, c) == world.own
ClassEntry(world, w, c) == IF c = w THEN world.own ELSE world.subs[c]

(* type_get_final_attr: the nearest class of the chain, at or below the    *)
(* owner, that has a value of its own for the owner's name.                *)
MutantFinalAttr(world, w, c, a) == ClassEntry(world, w, c)[a]
FinalAttr(world, w, c, a) ==
  LET stops == {i \in DOMAIN Chain[c] :
                  Chain[c][i] = w \/ ClassEntry(world, w, Chain[c][i])[a] # Absent}
  IN  IF stops = {} THEN Absent ELSE ClassEntry(world, w, Chain[c][Min(stops)])[a]

HasGet(v) == v # Absent /\ Kind[v] \in {"nondata", "data"}
HasSet(v) == v # Absent /\ Kind[v] = "data"

(* id_getattr: a data descriptor, the instance's value, the class's.       *)
MutantInstanceAnswer(world, w, o, a) ==
  LET v == FinalAttr(world, w, ClassOf[o], a) IN
  IF public[o][a] # Absent THEN Plain(public[o][a])
  ELSE IF HasGet(v) THEN Bound(v, o, ClassOf[o])
  ELSE IF v # Absent THEN Plain(v) ELSE AttributeError

InstanceAnswer(world, w, o, a) ==
  LET v == FinalAttr(world, w, ClassOf[o], a)
      own == world.objs[o][a]
  IN  IF HasSet(v) \/ (own = Absent /\ HasGet(v)) THEN Bound(v, o, ClassOf[o])
      ELSE IF own # Absent THEN Plain(own)
      ELSE IF v # Absent THEN Plain(v) ELSE AttributeError

(* type_getattr passes None and the value's own type to __get__, and then  *)
(* wraps the slots of that type again (ensure_tp), which no answer depends *)
(* on.                                                                     *)
ClassAnswer(world, w, c, a) ==
  LET v == FinalAttr(world, w, c, a) IN
  IF v = Absent THEN AttributeError
  ELSE IF HasGet(v) THEN Bound(v, None, TypeOfValue) ELSE Plain(v)

(* The generic lookup of an ordinary name, external to the library.        *)
PublicAnswer(s, a) ==
  LET path == IF s \in Obj THEN <<s>> \o Chain[ClassOf[s]] ELSE Chain[s]
      found == {i \in DOMAIN path : public[path[i]][a] # Absent}
  IN  IF found = {} THEN AttributeError ELSE Plain(public[path[Min(found)]][a])

TypeOf(s) == IF s \in Obj THEN ClassOf[s] ELSE s

Owners(c, a, k) == {w \in Nodes[c] : Owns(w, c, a, k)}

(* What reading attribute a of s answers to code k.                        *)
Answer(worlds, k, s, a) ==
  LET c == TypeOf(s)
      owners == Owners(c, a, k)
      owner == CHOOSE w \in owners : TRUE
  IN  IF owners # {}
      THEN IF s \in Obj THEN InstanceAnswer(worlds[owner], owner, s, a)
           ELSE ClassAnswer(worlds[owner], owner, s, a)
      ELSE IF Denied(c, a, k) THEN AttributeError ELSE PublicAnswer(s, a)

(* ------------------------------ locks ---------------------------------- *)

(* Every read of an instance, public names included, first takes the mutex *)
(* of each class of its chain (PrivateAttr_object_init_private_dict).      *)
Unlocked(o) == \A w \in Nodes[ClassOf[o]] : o \notin held[w]

Usable(s) == IF s \in Obj THEN ClassOf[s] \in Created /\ Unlocked(s) ELSE s \in Created

(* ----------------------------- operations ------------------------------ *)

Init ==
  /\ attrSet = [c \in {} |-> {}]
  /\ typeAttr = [w \in Class |-> NoAttrs]
  /\ shadow = [w \in Class |-> [c \in Class |-> NoAttrs]]
  /\ objAttr = [w \in Class |-> [o \in Obj |-> NoAttrs]]
  /\ public = [s \in Subject |-> NoAttrs]
  /\ held = [w \in Class |-> {}]
  /\ hung = FALSE
  /\ last = [op |-> "import", reply |-> Done]

GetAttr(k, s, a) ==
  /\ Usable(s)
  /\ Answered("get", k, s, a, Absent, Answer(Worlds, k, s, a))
  /\ UNCHANGED <<tables, locks>>

(* A private name touched by foreign code is refused before anything.      *)
DenyChange(k, s, a) ==
  /\ TypeOf(s) \in Created
  /\ Denied(TypeOf(s), a, k)
  /\ Answered("set", k, s, a, Absent, AttributeError)
  /\ UNCHANGED <<tables, locks>>

(* Storing or deleting (v = Absent) an ordinary name: the interpreter's    *)
(* own code.  Only names that some class holds private are of interest.    *)
ChangePublic(k, s, a, v) ==
  /\ TypeOf(s) \in Created
  /\ Normal(TypeOf(s), a, k)
  /\ \E w \in Created : IsTypePrivate(w, a)
  /\ LET missing == v = Absent /\ public[s][a] = Absent IN
     /\ Answered("set", k, s, a, v, IF missing THEN AttributeError ELSE Done)
     /\ public' = IF missing THEN public ELSE [public EXCEPT ![s][a] = v]
  /\ UNCHANGED <<attrSet, typeAttr, shadow, objAttr, locks>>

(* id_setattr: __set__ of a class-level descriptor, or the instance.       *)
SetInstance(k, w, o, a, v) ==
  LET cv == FinalAttr(World(w), w, ClassOf[o], a) IN
  /\ ClassOf[o] \in Created
  /\ Owns(w, ClassOf[o], a, k)
  /\ IF HasSet(cv)
     THEN Answered("set", k, o, a, v, Called("__set__", cv, o)) /\ objAttr' = objAttr
     ELSE /\ o \notin held[w]
          /\ Answered("set", k, o, a, v, Done)
          /\ objAttr' = [objAttr EXCEPT ![w][o][a] = v]
  /\ UNCHANGED <<attrSet, typeAttr, shadow, public, locks>>

(* What an entry holds once its value is deleted.                          *)
MutantErased == None
Erased == Absent

(* id_delattr: the descriptor's delete slot gets the descriptor itself; a  *)
(* missing value sets an exception, drops the lock object without          *)
(* unlocking the mutex, and returns 0.                                     *)
DelInstance(k, w, o, a) ==
  LET cv == FinalAttr(World(w), w, ClassOf[o], a) IN
  /\ ClassOf[o] \in Created
  /\ Owns(w, ClassOf[o], a, k)
  /\ \/ /\ HasSet(cv)
        /\ Answered("delete", k, o, a, Absent, Called("__delete__", cv, cv))
        /\ UNCHANGED <<objAttr, held>>
     \/ /\ ~HasSet(cv) /\ o \notin held[w] /\ objAttr[w][o][a] = Absent
        /\ Answered("delete", k, o, a, Absent, ErrorSetButOk)
        /\ held' = [held EXCEPT ![w] = @ \cup {o}]
        /\ objAttr' = objAttr
     \/ /\ ~HasSet(cv) /\ o \notin held[w] /\ objAttr[w][o][a] # Absent
        /\ Answered("delete", k, o, a, Absent, Done)
        /\ objAttr' = [objAttr EXCEPT ![w][o][a] = Erased]
        /\ held' = held
  /\ UNCHANGED <<attrSet, typeAttr, shadow, public, hung>>

(* type_setattr and type_delattr: on the owner its own table, on a         *)
(* subclass the shadow the owner keeps for it.                             *)
MutantPutClass(w, c, a, v) ==
  /\ typeAttr' = [typeAttr EXCEPT ![c][a] = v]
  /\ shadow' = shadow

PutClass(w, c, a, v) ==
  IF c = w
  THEN typeAttr' = [typeAttr EXCEPT ![w][a] = v] /\ shadow' = shadow
  ELSE shadow' = [shadow EXCEPT ![w][c][a] = v] /\ typeAttr' = typeAttr

SetClass(k, w, c, a, v) ==
  /\ c \in Created
  /\ Owns(w, c, a, k)
  /\ PutClass(w, c, a, v)
  /\ Answered("set", k, c, a, v, Done)
  /\ UNCHANGED <<attrSet, objAttr, public, locks>>

DelClass(k, w, c, a) ==
  /\ c \in Created
  /\ Owns(w, c, a, k)
  /\ IF ClassEntry(World(w), w, c)[a] = Absent
     THEN Answered("delete", k, c, a, Absent, AttributeError) /\ UNCHANGED <<typeAttr, shadow>>
     ELSE Answered("delete", k, c, a, Absent, Done) /\ PutClass(w, c, a, Erased)
  /\ UNCHANGED <<attrSet, objAttr, public, locks>>

(* An access that needs a mutex nobody will unlock never returns: the same *)
(* thread's second lock ends the process, another thread waits with the    *)
(* GIL in its hands.                                                       *)
Hang(s) ==
  /\ s \in Obj /\ ClassOf[s] \in Created /\ ~Unlocked(s)
  /\ hung' = TRUE
  /\ last' = [op |-> "hang", subject |-> s, reply |-> NoReply]
  /\ UNCHANGED <<tables, held>>

(* -------------------------- creating a class --------------------------- *)

(* private_attrs_set: what the class declares, a well-formed set (a class  *)
(* statement whose names are no strings, reserved, or __slots__ as well is *)
(* refused before), and, with use_parents, what its ancestors do.          *)
PrivateNames(c, d) ==
  d.declares \cup
  (IF d.use_parents THEN UNION {attrSet[p] : p \in Nodes[c] \ {c}} ELSE {})

(* A body value under a name of an ancestor is refused without use_parents.*)
Inherited(c, d, a) == a \notin d.declares /\ \E p \in Nodes[c] \ {c} : IsTypePrivate(p, a)
MutantRefused(c, d) == FALSE
Refused(c, d) == \E a \in Attr : d.body[a] # Absent /\ Inherited(c, d, a) /\ ~d.use_parents

(* need_remove_itself, and the body that stays visible.                    *)
OwnBody(c, d) ==
  [a \in Attr |-> IF a \in d.declares \/ Inherited(c, d, a) THEN d.body[a] ELSE Absent]
PublicBody(c, d) ==
  [a \in Attr |-> IF a \in d.declares \/ Inherited(c, d, a) THEN Absent ELSE d.body[a]]

RefuseClass(c, d) ==
  /\ c \notin Created
  /\ Nodes[c] \ {c} \subseteq Created
  /\ Refused(c, d)
  /\ AnsweredClass(c, TypeError)
  /\ UNCHANGED <<tables, locks>>

(* install empties every table of the new class but keeps what ancestors   *)
(* already store for it.                                                   *)
CreateClass(c, d) ==
  /\ c \notin Created
  /\ Nodes[c] \ {c} \subseteq Created
  /\ ~Refused(c, d)
  /\ attrSet' = [x \in Created \cup {c} |-> IF x = c THEN PrivateNames(c, d) ELSE attrSet[x]]
  /\ typeAttr' = [typeAttr EXCEPT ![c] = OwnBody(c, d)]
  /\ shadow' = [shadow EXCEPT ![c] = [s \in Class |-> NoAttrs]]
  /\ objAttr' = [objAttr EXCEPT ![c] = [o \in Obj |-> NoAttrs]]
  /\ public' = [public EXCEPT ![c] = PublicBody(c, d)]
  /\ AnsweredClass(c, Done)
  /\ UNCHANGED locks

(* ----------------------------------------------------------------------- *)

(* The steps code object k can cause.                                      *)
CodeStep(k) ==
  \/ \E s \in Subject, a \in Attr :
       \/ GetAttr(k, s, a)
       \/ DenyChange(k, s, a)
       \/ \E v \in InstanceValue \cup {Absent} : ChangePublic(k, s, a, v)
  \/ \E w \in Class, o \in Obj, a \in Attr :
       \/ \E v \in InstanceValue : SetInstance(k, w, o, a, v)
       \/ DelInstance(k, w, o, a)
  \/ \E w \in Class, c \in Class, a \in Attr :
       \/ \E v \in ClassValue : SetClass(k, w, c, a, v)
       \/ DelClass(k, w, c, a)

Next ==
  /\ ~hung
  /\ \/ \E k \in Code \cup {NoCode} : CodeStep(k)
     \/ \E s \in Obj : Hang(s)
     \/ \E c \in Class : \E d \in Definition[c] : CreateClass(c, d) \/ RefuseClass(c, d)

Spec == Init /\ [][Next]_vars

(* ------------------------------ properties ----------------------------- *)

Entries == [Attr -> Value \cup {Absent}]

TypeOK ==
  /\ Created \subseteq Class
  /\ attrSet \in [Created -> SUBSET Attr]
  /\ typeAttr \in [Class -> Entries]
  /\ shadow \in [Class -> [Class -> Entries]]
  /\ objAttr \in [Class -> [Obj -> Entries]]
  /\ public \in [Subject -> Entries]
  /\ held \in [Class -> SUBSET Obj]
  /\ hung \in BOOLEAN

(* No value sits under a name its owner does not hold private, where no    *)
(* code could read or delete it: what a class body, an instance or a       *)
(* subclass stores for w agrees with all_type_attr_set[w], which           *)
(* use_parents widens with the ancestors' names.                           *)
NoOrphans ==
  \A w \in Class, a \in Attr :
    (\/ typeAttr[w][a] # Absent
     \/ \E c \in Class : shadow[w][c][a] # Absent
     \/ \E o \in Obj : objAttr[w][o][a] # Absent)
    => w \in Created /\ a \in attrSet[w]

(* The code that made a step, if some code's access did.                   *)
Ran(call) == IF "code" \in DOMAIN call THEN call.code ELSE NoCode

(* Integrity: what a class keeps private is changed only by code found in  *)
(* its own body, whatever the subject, the name and the hierarchy, and by  *)
(* the creation of no other class ("unreachable from outside the class     *)
(* that declares them - including from subclasses").                       *)
Isolation ==
  [][\A w \in Created : Ran(last') \notin CodeMap[w] => World(w)' = World(w)]_vars

(* Confidentiality: what foreign code is answered does not depend on w's   *)
(* private values.  Emptying all of them changes no answer it gets, on any *)
(* subject and name, not even whether the name exists.                     *)
NoWorld == [own |-> NoAttrs, subs |-> [c \in Class |-> NoAttrs], objs |-> [o \in Obj |-> NoAttrs]]
Without(w) == [Worlds EXCEPT ![w] = NoWorld]

Confidential ==
  \A w \in Created : \A k \in (Code \cup {NoCode}) \ CodeMap[w] :
    \A s \in Subject, a \in Attr :
      TypeOf(s) \in Created => Answer(Worlds, k, s, a) = Answer(Without(w), k, s, a)

(* A class's view of its own names is its own: no step of foreign code, no *)
(* ordinary attribute of the same name and no class created later changes  *)
(* what a read by the owner's code answers.                                *)
StableView ==
  [][\A w \in Created : Ran(last') \notin CodeMap[w] /\ tables' # tables =>
       \A k \in CodeMap[w], s \in Subject, a \in attrSet[w] :
         TypeOf(s) \in Created /\ Owns(w, TypeOf(s), a, k) =>
           Answer(Worlds, k, s, a)' = Answer(Worlds, k, s, a)]_vars

(* What one method of the owner stores, every other method of it reads     *)
(* back, on the subject it was stored on; and a value stored on a class    *)
(* shows on no class or instance that does not descend from it, the owner  *)
(* included when the class is a subclass of the owner.                     *)
ReadBack ==
  [][last'.op = "set" /\ last'.reply = Done =>
     \A s \in {last'.subject}, a \in {last'.attr}, v \in {last'.value} \cap Value :
       \A w \in Owners(TypeOf(s), a, last'.code) :
         \A k2 \in CodeMap[w], s2 \in Subject :
           TypeOf(s2) \in Created /\ Owns(w, TypeOf(s2), a, k2) =>
             /\ s2 = s => Answer(Worlds, k2, s, a)' =
                  IF s \in Class /\ HasGet(v) THEN Bound(v, None, TypeOfValue) ELSE Plain(v)
             /\ s2 # s /\ s \notin Nodes[TypeOf(s2)] =>
                  Answer(Worlds, k2, s2, a)' = Answer(Worlds, k2, s2, a)]_vars

(* "Inside the declaring class, they look and behave like ordinary         *)
(* attributes": the tables implement one ordinary __dict__ per class and   *)
(* subject, in a namespace only the class's own code is let into, with the *)
(* ordinary order of lookup (Namespaces).  What a descriptor is called     *)
(* with is left out of the answers, and a deletion that reports success    *)
(* with an exception set counts as that exception.                         *)
Told(r) == IF r = ErrorSetButOk THEN AttributeError ELSE IF Len(r) > 2 THEN <<r[1], r[2]>> ELSE r
Reported == Told(last.reply)
Asked == [f \in DOMAIN last \ {"reply"} |-> last[f]]

dict == [w \in Class |-> [s \in Subject |->
           IF s \in Obj THEN objAttr[w][s] ELSE IF s = w THEN typeAttr[w] ELSE shadow[w][s]]]

Space == INSTANCE Namespaces WITH
  names <- attrSet, request <- Asked, reply <- Reported
SpaceSpec == Space!Spec

(* -------- what the documentation says and the code does not do --------- *)

(* "Inside the declaring class, they look and behave like ordinary         *)
(* attributes": an access that has returned leaves no mutex locked.        *)
LocksReleased == \A w \in Class : held[w] = {}

(* "property, classmethod, and staticmethod are handled natively": the     *)
(* deleter of a private property is called with the instance.              *)
DeleterGetsInstance ==
  \A v \in Value : last.reply # Called("__delete__", v, v)

(* The same of a class-level read: a private classmethod (Kind "nondata")  *)
(* read through the class is bound to a class.                             *)
ClassReadBindsClass ==
  \A v \in Value : Kind[v] = "nondata" => last.reply # Bound(v, None, TypeOfValue)
=============================================================================
