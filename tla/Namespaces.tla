------------------------------ MODULE Namespaces ------------------------------
(***************************************************************************)
(* What private attributes promise: every class has a namespace of its own *)
(* for the names it holds private, in which each instance and each class   *)
(* has an ordinary __dict__; code works in the namespace of the class it   *)
(* was written in, and there the attributes behave like ordinary ones.     *)
(* PrivateStore implements this with its tables of three kinds.            *)
(*                                                                         *)
(* Left open are the arguments a descriptor is called with, the answers    *)
(* about ordinary names, and whether an access returns at all.             *)
(***************************************************************************)
EXTENDS Naturals, Sequences

CONSTANTS
  Class, Obj, Attr, Value, Code,
  NoCode,       \* outside any code object
  Absent,       \* no value
  ClassOf,      \* ClassOf[o]: the class of an instance
  Chain,        \* Chain[c]: c's MRO
  CodeMap,      \* CodeMap[c]: the code written in the body of c
  Kind,         \* Kind[v]: "plain", "nondata" or "data", of a descriptor
  Definition    \* Definition[c]: the class statements of c

Subject == Class \cup Obj
TypeOf(s) == IF s \in Obj THEN ClassOf[s] ELSE s
Above(c) == {Chain[c][i] : i \in DOMAIN Chain[c]}

VARIABLES
  names,    \* names[c]: what a class holds private, for the classes made so far
  dict,     \* dict[w][s]: the __dict__ of s in the namespace of w
  request,  \* the last call: an access or a class statement
  reply     \* and what it answered

vars == <<names, dict, request, reply>>

Holds(c, a) == c \in DOMAIN names /\ a \in names[c]

(* ------------------------- whose namespace ----------------------------- *)

(* Code was written in the last class of the MRO that has it.              *)
WrittenAt(k, c, i) ==
  /\ Chain[c][i] \in DOMAIN names /\ k \in CodeMap[Chain[c][i]]
  /\ \A j \in DOMAIN Chain[c] :
       Chain[c][j] \in DOMAIN names /\ k \in CodeMap[Chain[c][j]] => j <= i

(* It works in that class's namespace, on the names the class holds; ...   *)
Reaches(r, w) ==
  LET c == TypeOf(r.subject) IN
  /\ \E i \in DOMAIN Chain[c] : Chain[c][i] = w /\ WrittenAt(r.code, c, i)
  /\ Holds(w, r.attr)

(* ... a name held above it, or by any class if it is of none, is refused. *)
Refused(r) ==
  LET c == TypeOf(r.subject) IN
  /\ \A w \in Class : ~Reaches(r, w)
  /\ \E j \in DOMAIN Chain[c] :
       /\ Holds(Chain[c][j], r.attr)
       /\ \A i \in DOMAIN Chain[c] : WrittenAt(r.code, c, i) => i < j

(* --------------------------- ordinary lookup --------------------------- *)

(* The value of the first class of the MRO that has one.                   *)
MroValue(w, c, a) ==
  LET having == {i \in DOMAIN Chain[c] : dict[w][Chain[c][i]][a] # Absent}
  IN  IF having = {} THEN Absent
      ELSE dict[w][Chain[c][CHOOSE i \in having : \A j \in having : i <= j]][a]

IsKind(v, kinds) == v # Absent /\ Kind[v] \in kinds

AttributeError == <<"AttributeError">>
Missing == AttributeError
Done == <<"ok">>

(* A data descriptor of the class goes first, then the instance's value.   *)
Lookup(w, s, a) ==
  LET v == MroValue(w, TypeOf(s), a)
      own == IF s \in Obj THEN dict[w][s][a] ELSE Absent
  IN  IF IsKind(v, {"data"}) THEN <<"bound", v>>
      ELSE IF own # Absent THEN <<"value", own>>
      ELSE IF IsKind(v, {"nondata"}) THEN <<"bound", v>>
      ELSE IF v # Absent THEN <<"value", v>> ELSE Missing

(* Only an instance's class can have a descriptor that takes over a store. *)
Intercepts(w, s, a) == s \in Obj /\ IsKind(MroValue(w, ClassOf[s], a), {"data"})

(* ----------------------------- operations ------------------------------ *)

Init ==
  /\ names = [c \in {} |-> {}]
  /\ dict = [w \in Class |-> [s \in Subject |-> [a \in Attr |-> Absent]]]
  /\ request = [op |-> "import"]
  /\ reply = Done

(* The accesses that code may ask for, of any attribute of any subject.    *)
Request ==
  [op: {"get", "set", "delete"}, code: Code \cup {NoCode}, subject: Subject, attr: Attr,
   value: Value \cup {Absent}]

Read(r, w) ==
  /\ r.op = "get"
  /\ reply' = Lookup(w, r.subject, r.attr)
  /\ dict' = dict

Store(r, w) ==
  /\ r.op = "set" /\ r.value \in Value
  /\ IF Intercepts(w, r.subject, r.attr)
     THEN reply' = <<"__set__", MroValue(w, ClassOf[r.subject], r.attr)>> /\ dict' = dict
     ELSE reply' = Done /\ dict' = [dict EXCEPT ![w][r.subject][r.attr] = r.value]

Delete(r, w) ==
  /\ r.op = "delete"
  /\ IF Intercepts(w, r.subject, r.attr)
     THEN reply' = <<"__delete__", MroValue(w, ClassOf[r.subject], r.attr)>> /\ dict' = dict
     ELSE /\ reply' = IF dict[w][r.subject][r.attr] = Absent THEN Missing ELSE Done
          /\ dict' = [dict EXCEPT ![w][r.subject][r.attr] = Absent]

Refuse(r) == Refused(r) /\ reply' = AttributeError /\ dict' = dict

(* A name that is nobody's, or private only below where the code was       *)
(* written: the namespaces have no part in it.                             *)
Ordinary(r) == ~Refused(r) /\ (\A w \in Class : ~Reaches(r, w)) /\ dict' = dict

Access ==
  /\ request' \in Request
  /\ LET r == request' IN
     \/ \E w \in Class : Reaches(r, w) /\ (Read(r, w) \/ Store(r, w) \/ Delete(r, w))
     \/ Refuse(r)
     \/ Ordinary(r)
  /\ names' = names

(* An access that never returns.                                           *)
Hang(s) ==
  /\ request' = [op |-> "hang", subject |-> s]
  /\ UNCHANGED <<names, dict>>

(* A class statement: the names the class holds and their values go to its *)
(* namespace, those of an ancestor with use_parents, and else are refused. *)
MakeClass(c, d) ==
  LET inherited == UNION {names[p] : p \in Above(c) \ {c}}
      holds == d.declares \cup (IF d.use_parents THEN inherited ELSE {})
      given == {a \in Attr : d.body[a] # Absent}
  IN  /\ c \notin DOMAIN names /\ Above(c) \ {c} \subseteq DOMAIN names
      /\ request' = [op |-> "class", subject |-> c]
      /\ IF given \cap inherited \subseteq holds
         THEN /\ names' = [x \in DOMAIN names \cup {c} |-> IF x = c THEN holds ELSE names[x]]
              /\ dict' = [dict EXCEPT ![c][c] =
                            [a \in Attr |-> IF a \in holds THEN d.body[a] ELSE Absent]]
              /\ reply' = Done
         ELSE UNCHANGED <<names, dict>> /\ reply' = <<"TypeError">>

Next ==
  \/ Access
  \/ \E s \in Obj : Hang(s)
  \/ \E c \in Class : \E d \in Definition[c] : MakeClass(c, d)

Spec == Init /\ [][Next]_vars
===============================================================================
