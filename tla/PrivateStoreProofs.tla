-------------------------- MODULE PrivateStoreProofs --------------------------
(***************************************************************************)
(* Proofs about PrivateStore, for every hierarchy, every set of code       *)
(* objects and every value of the other constants: its type invariant,     *)
(* NoOrphans, the integrity and the confidentiality of private attributes, *)
(* that foreign code does not change what a class reads of its own, that   *)
(* what is stored is read back, and that the tables implement the          *)
(* namespaces of the module Namespaces.                                    *)
(***************************************************************************)
EXTENDS PrivateStore, WellFoundedInduction, TLAPS

(* ------------------------------- typing -------------------------------- *)

LEMMA ChainType ==
  ASSUME NEW c \in Class
  PROVE  /\ Chain[c] \in Seq(Class)
         /\ Nodes[c] \subseteq Class
         /\ c \in Nodes[c]
         /\ \A i \in DOMAIN Chain[c] : Chain[c][i] \in Nodes[c]
<1>1. Chain[c] \in Seq(Class) /\ Chain[c] # <<>> /\ Head(Chain[c]) = c
  BY ClassAssumption
<1>2. 1 \in DOMAIN Chain[c] /\ Chain[c][1] = c
  BY <1>1
<1> QED
  BY <1>1, <1>2 DEF Nodes

LEMMA TypeOfType == \A s \in Subject : TypeOf(s) \in Class
BY ClassAssumption DEF TypeOf, Subject

(* A class statement declares names and gives entries. *)
LEMMA DefinitionType ==
  ASSUME NEW c \in Class, NEW d \in Definition[c]
  PROVE  /\ d.declares \subseteq Attr
         /\ d.use_parents \in BOOLEAN
         /\ d.body \in Entries
BY ClassAssumption DEF ClassStatement, Entries

LEMMA NoAttrsType == NoAttrs \in Entries
BY DEF NoAttrs, Entries

(* Storing or deleting one value keeps a table of entries one.             *)
LEMMA PutEntry ==
  ASSUME NEW e \in Entries, NEW a \in Attr, NEW v \in Value \cup {Absent}
  PROVE  [e EXCEPT ![a] = v] \in Entries
BY DEF Entries

LEMMA InitType == Init => TypeOK
<1> SUFFICES ASSUME Init PROVE TypeOK
  OBVIOUS
<1>1. Created = {} /\ attrSet \in [Created -> SUBSET Attr]
  BY DEF Init, Created
<1>2. /\ typeAttr \in [Class -> Entries]
      /\ shadow \in [Class -> [Class -> Entries]]
      /\ objAttr \in [Class -> [Obj -> Entries]]
      /\ public \in [Subject -> Entries]
  BY NoAttrsType DEF Init
<1> QED
  BY <1>1, <1>2 DEF Init, TypeOK

(* The only step that changes attrSet. *)
LEMMA CreateClassType ==
  ASSUME TypeOK, NEW c \in Class, NEW d \in Definition[c], CreateClass(c, d)
  PROVE  TypeOK'
<1>1. d.declares \subseteq Attr /\ d.body \in Entries
  BY DefinitionType
<1>2. PrivateNames(c, d) \in SUBSET Attr
  <2>1. \A p \in Nodes[c] \ {c} : attrSet[p] \subseteq Attr
    BY DEF CreateClass, TypeOK, Created
  <2> QED
    BY <1>1, <2>1 DEF PrivateNames
<1>3. OwnBody(c, d) \in Entries /\ PublicBody(c, d) \in Entries
  BY <1>1 DEF OwnBody, PublicBody, Entries
<1>4. DOMAIN attrSet' = Created \cup {c} /\ attrSet' \in [Created \cup {c} -> SUBSET Attr]
  BY <1>2 DEF CreateClass, TypeOK, Created
<1>5. Created' \subseteq Class /\ attrSet' \in [Created' -> SUBSET Attr]
  BY <1>4 DEF Created, TypeOK
<1>7. typeAttr' \in [Class -> Entries] /\ public' \in [Subject -> Entries]
  BY <1>3 DEF CreateClass, TypeOK
<1>8. shadow' \in [Class -> [Class -> Entries]] /\ objAttr' \in [Class -> [Obj -> Entries]]
  BY NoAttrsType DEF CreateClass, TypeOK
<1> QED
  BY <1>5, <1>7, <1>8 DEF CreateClass, TypeOK, locks

LEMMA CodeStepType ==
  ASSUME TypeOK, NEW k \in Code \cup {NoCode}, CodeStep(k)
  PROVE  TypeOK'
<1> USE DEF Created
<1>1. ASSUME NEW s \in Subject, NEW a \in Attr, GetAttr(k, s, a) \/ DenyChange(k, s, a)
      PROVE  TypeOK'
  BY <1>1 DEF GetAttr, DenyChange, TypeOK, tables, locks
<1>2. ASSUME NEW s \in Subject, NEW a \in Attr, NEW v \in InstanceValue \cup {Absent},
             ChangePublic(k, s, a, v)
      PROVE  TypeOK'
  <2>0. public[s] \in Entries /\ v \in Value \cup {Absent}
    BY ValueAssumption DEF TypeOK
  <2>1. [public[s] EXCEPT ![a] = v] \in Entries
    BY <2>0, PutEntry
  <2>2. public' \in [Subject -> Entries]
    BY <1>2, <2>1 DEF ChangePublic, TypeOK
  <2> QED
    BY <1>2, <2>2 DEF ChangePublic, TypeOK, locks
<1>3. ASSUME NEW w \in Class, NEW o \in Obj, NEW a \in Attr, NEW v \in InstanceValue,
             SetInstance(k, w, o, a, v)
      PROVE  TypeOK'
  <2>0. objAttr[w][o] \in Entries /\ v \in Value \cup {Absent}
    BY ValueAssumption DEF TypeOK
  <2>1. [objAttr[w][o] EXCEPT ![a] = v] \in Entries
    BY <2>0, PutEntry
  <2>2. [objAttr EXCEPT ![w][o][a] = v] \in [Class -> [Obj -> Entries]]
    BY <2>1 DEF TypeOK
  <2>3. objAttr' \in [Class -> [Obj -> Entries]]
    BY <1>3, <2>2 DEF SetInstance, TypeOK
  <2> QED
    BY <1>3, <2>3 DEF SetInstance, TypeOK, locks
<1>4. ASSUME NEW w \in Class, NEW o \in Obj, NEW a \in Attr, DelInstance(k, w, o, a)
      PROVE  TypeOK'
  <2>0. objAttr[w][o] \in Entries /\ Erased \in Value \cup {Absent}
    BY DEF TypeOK, Erased
  <2>1. [objAttr[w][o] EXCEPT ![a] = Erased] \in Entries
    BY <2>0, PutEntry
  <2>2. [objAttr EXCEPT ![w][o][a] = Erased] \in [Class -> [Obj -> Entries]]
    BY <2>1 DEF TypeOK
  <2>3. [held EXCEPT ![w] = @ \cup {o}] \in [Class -> SUBSET Obj]
    BY DEF TypeOK
  <2>4. objAttr' \in [Class -> [Obj -> Entries]] /\ held' \in [Class -> SUBSET Obj]
    BY <1>4, <2>2, <2>3 DEF DelInstance, TypeOK
  <2> QED
    BY <1>4, <2>4 DEF DelInstance, TypeOK
<1>5. ASSUME NEW w \in Class, NEW c \in Class, NEW a \in Attr, NEW v \in Value \cup {Absent},
             PutClass(w, c, a, v)
      PROVE  typeAttr' \in [Class -> Entries] /\ shadow' \in [Class -> [Class -> Entries]]
  <2>0. typeAttr[w] \in Entries /\ shadow[w][c] \in Entries
    BY DEF TypeOK
  <2>1. [typeAttr[w] EXCEPT ![a] = v] \in Entries /\ [shadow[w][c] EXCEPT ![a] = v] \in Entries
    BY <2>0, PutEntry
  <2>2. /\ [typeAttr EXCEPT ![w][a] = v] \in [Class -> Entries]
        /\ [shadow EXCEPT ![w][c][a] = v] \in [Class -> [Class -> Entries]]
    BY <2>1 DEF TypeOK
  <2> QED
    BY <1>5, <2>2 DEF PutClass, TypeOK
<1>6. ASSUME NEW w \in Class, NEW c \in Class, NEW a \in Attr, NEW v \in ClassValue,
             SetClass(k, w, c, a, v)
      PROVE  TypeOK'
  BY <1>5, <1>6, ValueAssumption DEF SetClass, TypeOK, locks
<1>7. ASSUME NEW w \in Class, NEW c \in Class, NEW a \in Attr, DelClass(k, w, c, a)
      PROVE  TypeOK'
  <2>1. typeAttr' \in [Class -> Entries] /\ shadow' \in [Class -> [Class -> Entries]]
    BY <1>5, <1>7 DEF DelClass, Erased, TypeOK
  <2> QED
    BY <1>7, <2>1 DEF DelClass, TypeOK, locks
<1> QED
  BY <1>1, <1>2, <1>3, <1>4, <1>6, <1>7 DEF CodeStep

LEMMA NextType == TypeOK /\ [Next]_vars => TypeOK'
<1> SUFFICES ASSUME TypeOK, [Next]_vars PROVE TypeOK'
  OBVIOUS
<1>1. CASE UNCHANGED vars
  BY <1>1 DEF vars, TypeOK, Created
<1>2. ASSUME NEW s \in Obj, Hang(s) PROVE TypeOK'
  BY <1>2 DEF Hang, TypeOK, Created, tables
<1>3. ASSUME NEW c \in Class, NEW d \in Definition[c], RefuseClass(c, d) PROVE TypeOK'
  BY <1>3 DEF RefuseClass, TypeOK, Created, tables, locks
<1> QED
  BY <1>1, <1>2, <1>3, CodeStepType, CreateClassType DEF Next

(* The tables keep their shape: every entry is a value or absent, and only *)
(* classes that exist declare names.                                       *)
THEOREM TypeCorrect == Spec => []TypeOK
<1>1. Init => TypeOK
  BY InitType
<1>2. TypeOK /\ [Next]_vars => TypeOK'
  BY NextType
<1> QED
  BY <1>1, <1>2, PTL DEF Spec

(* ------------------------------ ownership ------------------------------ *)

(* The class that owns an access declares the name and had the code in its *)
(* body, ...                                                               *)
LEMMA OwnerKnowsCode ==
  ASSUME NEW w \in Class, NEW c \in Class, NEW a, NEW k, Owns(w, c, a, k)
  PROVE  IsTypePrivate(w, a) /\ k \in CodeMap[w]
BY DEF Owns, CodeClassAt, IsClassCode

(* ... and is the only one that does.                                      *)
LEMMA OwnerUnique ==
  ASSUME NEW c \in Class, NEW a, NEW k, NEW w \in Class, NEW w2 \in Class,
         Owns(w, c, a, k), Owns(w2, c, a, k)
  PROVE  w = w2
<1>1. PICK i \in DOMAIN Chain[c] : Chain[c][i] = w /\ CodeClassAt(c, k, i)
  BY DEF Owns
<1>2. PICK j \in DOMAIN Chain[c] : Chain[c][j] = w2 /\ CodeClassAt(c, k, j)
  BY DEF Owns
<1>3. i <= j /\ j <= i
  BY <1>1, <1>2 DEF CodeClassAt
<1>4. i \in Nat /\ j \in Nat
  BY ChainType
<1> QED
  BY <1>1, <1>2, <1>3, <1>4

(* A step of foreign code, or the creation of another class, leaves        *)
(* everything w keeps private alone.                                       *)
LEMMA WorldUntouched ==
  ASSUME TypeOK, [Next]_vars, NEW w \in Created, Ran(last') \notin CodeMap[w]
  PROVE  World(w)' = World(w)
<1>0. w \in Class
  BY DEF TypeOK
<1>1. SUFFICES /\ typeAttr'[w] = typeAttr[w]
               /\ shadow'[w] = shadow[w]
               /\ objAttr'[w] = objAttr[w]
  BY DEF World
<1>2. CASE UNCHANGED <<typeAttr, shadow, objAttr>>
  BY <1>2
<1>3. ASSUME NEW k, NEW w2 \in Class, NEW o \in Obj, NEW a \in Attr, NEW v \in InstanceValue,
             SetInstance(k, w2, o, a, v)
      PROVE  objAttr'[w] = objAttr[w] /\ UNCHANGED <<typeAttr, shadow>>
  <2>1. Ran(last') = k
    BY <1>3 DEF SetInstance, Answered, Ran
  <2>2. Owns(w2, ClassOf[o], a, k) /\ ClassOf[o] \in Class
    BY <1>3, ClassAssumption DEF SetInstance
  <2>3. w2 # w
    BY <1>0, <2>1, <2>2, OwnerKnowsCode
  <2> QED
    BY <1>0, <1>3, <2>3 DEF SetInstance, TypeOK
<1>4. ASSUME NEW k, NEW w2 \in Class, NEW o \in Obj, NEW a \in Attr, DelInstance(k, w2, o, a)
      PROVE  objAttr'[w] = objAttr[w] /\ UNCHANGED <<typeAttr, shadow>>
  <2>1. Ran(last') = k
    BY <1>4 DEF DelInstance, Answered, Ran
  <2>2. Owns(w2, ClassOf[o], a, k) /\ ClassOf[o] \in Class
    BY <1>4, ClassAssumption DEF DelInstance
  <2>3. w2 # w
    BY <1>0, <2>1, <2>2, OwnerKnowsCode
  <2> QED
    BY <1>0, <1>4, <2>3 DEF DelInstance, TypeOK
<1>5. ASSUME NEW w2 \in Class, NEW c \in Class, NEW a, NEW v, PutClass(w2, c, a, v), w2 # w
      PROVE  typeAttr'[w] = typeAttr[w] /\ shadow'[w] = shadow[w]
  BY <1>0, <1>5 DEF PutClass, TypeOK
<1>6. ASSUME NEW k, NEW w2 \in Class, NEW c \in Class, NEW a \in Attr, NEW v \in ClassValue,
             SetClass(k, w2, c, a, v)
      PROVE  typeAttr'[w] = typeAttr[w] /\ shadow'[w] = shadow[w] /\ objAttr' = objAttr
  <2>1. Ran(last') = k
    BY <1>6 DEF SetClass, Answered, Ran
  <2>2. w2 # w
    BY <1>0, <1>6, <2>1, OwnerKnowsCode DEF SetClass
  <2> QED
    BY <1>5, <1>6, <2>2 DEF SetClass
<1>7. ASSUME NEW k, NEW w2 \in Class, NEW c \in Class, NEW a \in Attr, DelClass(k, w2, c, a)
      PROVE  typeAttr'[w] = typeAttr[w] /\ shadow'[w] = shadow[w] /\ objAttr' = objAttr
  <2>1. Ran(last') = k
    BY <1>7 DEF DelClass, Answered, Ran
  <2>2. w2 # w
    BY <1>0, <1>7, <2>1, OwnerKnowsCode DEF DelClass
  <2> QED
    BY <1>5, <1>7, <2>2 DEF DelClass
<1>8. ASSUME NEW c \in Class, NEW d \in Definition[c], CreateClass(c, d)
      PROVE  /\ typeAttr'[w] = typeAttr[w]
             /\ shadow'[w] = shadow[w]
             /\ objAttr'[w] = objAttr[w]
  BY <1>0, <1>8 DEF CreateClass, TypeOK
<1>9. CASE \E k \in Code \cup {NoCode} : CodeStep(k)
  BY <1>1, <1>2, <1>3, <1>4, <1>6, <1>7, <1>9
     DEF CodeStep, GetAttr, DenyChange, ChangePublic, tables
<1>10. CASE \E s \in Obj : Hang(s)
  BY <1>2, <1>10 DEF Hang, tables
<1>11. CASE \E c \in Class : \E d \in Definition[c] : CreateClass(c, d) \/ RefuseClass(c, d)
  BY <1>1, <1>2, <1>8, <1>11 DEF RefuseClass, tables
<1> QED
  BY <1>2, <1>9, <1>10, <1>11 DEF Next, vars

(* Only code found in the body of a class changes what the class keeps     *)
(* private, in every hierarchy.                                            *)
THEOREM OnlyOwnerWrites == Spec => Isolation
<1>1. TypeOK /\ [Next]_vars =>
        [\A w \in Created : Ran(last') \notin CodeMap[w] => World(w)' = World(w)]_vars
  BY WorldUntouched
<1> QED
  BY <1>1, TypeCorrect, PTL DEF Spec, Isolation

(* Foreign code cannot tell a class's private values from no values at     *)
(* all: its answers are the same, on every subject and name.               *)
THEOREM ForeignCodeLearnsNothing == Spec => []Confidential
<1>1. TypeOK => Confidential
  <2> SUFFICES ASSUME TypeOK,
                      NEW w \in Created, NEW k \in (Code \cup {NoCode}) \ CodeMap[w],
                      NEW s \in Subject, NEW a \in Attr, TypeOf(s) \in Created
               PROVE  Answer(Worlds, k, s, a) = Answer(Without(w), k, s, a)
    BY DEF Confidential
  <2> DEFINE c == TypeOf(s)
             owner == CHOOSE x \in Owners(c, a, k) : TRUE
  <2>1. c \in Class /\ w \in Class
    BY TypeOfType DEF TypeOK
  <2>2. ASSUME Owners(c, a, k) # {}
        PROVE  Worlds[owner] = Without(w)[owner]
    <3>1. owner \in Nodes[c] /\ Owns(owner, c, a, k)
      BY <2>2 DEF Owners
    <3>2. owner \in Class
      BY <2>1, <3>1, ChainType
    <3>3. owner # w
      BY <2>1, <3>1, <3>2, OwnerKnowsCode
    <3> QED
      BY <3>2, <3>3 DEF Worlds, Without
  <2> QED
    BY <2>2 DEF Answer
<1> QED
  BY <1>1, TypeCorrect, PTL

(* ------------------- declared names, created ancestors ----------------- *)

(* A class is created after its ancestors.                                 *)
Ancestry == \A c \in Created : Nodes[c] \subseteq Created

LEMMA AncestryStep == Ancestry /\ [Next]_vars => Ancestry'
<1> SUFFICES ASSUME Ancestry, [Next]_vars PROVE Ancestry'
  OBVIOUS
<1>1. CASE attrSet' = attrSet
  BY <1>1 DEF Ancestry, Created
<1>2. ASSUME NEW c \in Class, NEW d \in Definition[c], CreateClass(c, d)
      PROVE  Ancestry'
  <2>1. Created' = Created \cup {c}
    BY <1>2 DEF CreateClass, Created
  <2>2. Nodes[c] \subseteq Created'
    BY <1>2, <2>1 DEF CreateClass
  <2> QED
    BY <2>1, <2>2 DEF Ancestry
<1>3. CASE \E k \in Code \cup {NoCode} : CodeStep(k)
  BY <1>1, <1>3 DEF CodeStep, GetAttr, DenyChange, ChangePublic, SetInstance, DelInstance,
                    SetClass, DelClass, tables
<1> QED
  BY <1>1, <1>2, <1>3 DEF Next, Hang, RefuseClass, tables, vars

(* NoOrphans, table by table.                                              *)
Declared(w, a) == w \in Created /\ a \in attrSet[w]
OwnDeclared == \A w \in Class, a \in Attr : typeAttr[w][a] # Absent => Declared(w, a)
SubsDeclared ==
  \A w \in Class, c \in Class, a \in Attr : shadow[w][c][a] # Absent => Declared(w, a)
ObjsDeclared ==
  \A w \in Class, o \in Obj, a \in Attr : objAttr[w][o][a] # Absent => Declared(w, a)

LEMMA NoOrphansParts == NoOrphans <=> OwnDeclared /\ SubsDeclared /\ ObjsDeclared
BY DEF NoOrphans, OwnDeclared, SubsDeclared, ObjsDeclared, Declared

(* What a class body leaves private is among the names preprocess gathers. *)
LEMMA BodyDeclared ==
  ASSUME NEW c \in Class, NEW d \in Definition[c], ~Refused(c, d), NEW a \in Attr,
         OwnBody(c, d)[a] # Absent
  PROVE  a \in PrivateNames(c, d)
<1>1. d.body[a] # Absent /\ (a \in d.declares \/ Inherited(c, d, a))
  BY DEF OwnBody
<1>2. CASE a \in d.declares
  BY <1>2 DEF PrivateNames
<1>3. CASE Inherited(c, d, a)
  <2>1. d.use_parents
    BY <1>1, <1>3 DEF Refused
  <2>2. PICK p \in Nodes[c] \ {c} : a \in attrSet[p]
    BY <1>3 DEF Inherited, IsTypePrivate
  <2> QED
    BY <2>1, <2>2 DEF PrivateNames
<1> QED
  BY <1>1, <1>2, <1>3

LEMMA CreateClassDeclares ==
  ASSUME TypeOK, NoOrphans, NEW c \in Class, NEW d \in Definition[c], CreateClass(c, d)
  PROVE  NoOrphans'
<1>1. \A w \in Class, a \in Attr : Declared(w, a) => Declared(w, a)'
  BY DEF Declared, CreateClass, Created
<1>2. \A a \in Attr : a \in PrivateNames(c, d) => Declared(c, a)'
  BY DEF Declared, CreateClass, Created
<1>3. OwnDeclared'
  <2> SUFFICES ASSUME NEW w \in Class, NEW a \in Attr, typeAttr'[w][a] # Absent
               PROVE  Declared(w, a)'
    BY DEF OwnDeclared
  <2>1. CASE w = c
    BY <1>2, <2>1, BodyDeclared DEF CreateClass, TypeOK
  <2>2. CASE w # c
    BY <1>1, <2>2, NoOrphansParts DEF OwnDeclared, CreateClass, TypeOK
  <2> QED
    BY <2>1, <2>2
<1>4. SubsDeclared'
  BY <1>1, NoOrphansParts DEF SubsDeclared, CreateClass, TypeOK, NoAttrs
<1>5. ObjsDeclared'
  BY <1>1, NoOrphansParts DEF ObjsDeclared, CreateClass, TypeOK, NoAttrs
<1>6. NoOrphans' <=> OwnDeclared' /\ SubsDeclared' /\ ObjsDeclared'
  BY NoOrphansParts, PTL
<1> QED
  BY <1>3, <1>4, <1>5, <1>6

(* Storing one value changes one entry.                                    *)
LEMMA PutChangesOne ==
  ASSUME NEW S, NEW f \in [Class -> [S -> Entries]], NEW g,
         NEW w \in Class, NEW s \in S, NEW a \in Attr, NEW v,
         g = [f EXCEPT ![w][s][a] = v]
  PROVE  \A w2 \in Class, s2 \in S, a2 \in Attr :
           g[w2][s2][a2] = f[w2][s2][a2] \/ (w2 = w /\ s2 = s /\ a2 = a)
<1> SUFFICES ASSUME NEW w2 \in Class, NEW s2 \in S, NEW a2 \in Attr,
                    ~(w2 = w /\ s2 = s /\ a2 = a)
             PROVE  g[w2][s2][a2] = f[w2][s2][a2]
  OBVIOUS
<1>1. f[w] \in [S -> Entries] /\ f[w][s] \in [Attr -> Value \cup {Absent}]
  BY DEF Entries
<1>2. g[w] = [f[w] EXCEPT ![s][a] = v] /\ (w2 # w => g[w2] = f[w2])
  OBVIOUS
<1>3. g[w][s] = [f[w][s] EXCEPT ![a] = v] /\ (s2 # s => g[w][s2] = f[w][s2])
  BY <1>1, <1>2
<1>4. a2 # a => g[w][s][a2] = f[w][s][a2]
  BY <1>1, <1>3
<1> QED
  BY <1>2, <1>3, <1>4

LEMMA CodeStepDeclares ==
  ASSUME TypeOK, NoOrphans, NEW k \in Code \cup {NoCode}, CodeStep(k)
  PROVE  NoOrphans'
<1>1. attrSet' = attrSet /\ \A w \in Class, a \in Attr : Declared(w, a)' <=> Declared(w, a)
  BY DEF Declared, Created, CodeStep, GetAttr, DenyChange, ChangePublic, SetInstance,
         DelInstance, SetClass, DelClass, tables
<1>2. OwnDeclared /\ SubsDeclared /\ ObjsDeclared
  BY NoOrphansParts
<1>3. CASE UNCHANGED <<typeAttr, shadow, objAttr>>
  BY <1>1, <1>3 DEF NoOrphans, Created
<1>4. ASSUME NEW w \in Class, NEW o \in Obj, NEW a \in Attr,
             DelInstance(k, w, o, a) \/ \E v \in InstanceValue : SetInstance(k, w, o, a, v)
      PROVE  OwnDeclared' /\ SubsDeclared' /\ ObjsDeclared'
  <2>1. Declared(w, a)
    BY <1>4 DEF SetInstance, DelInstance, Owns, IsTypePrivate, Declared
  <2>2. typeAttr' = typeAttr /\ shadow' = shadow
    BY <1>4 DEF SetInstance, DelInstance
  <2>3. \A w2 \in Class, o2 \in Obj, a2 \in Attr :
          objAttr'[w2][o2][a2] = objAttr[w2][o2][a2] \/ (w2 = w /\ a2 = a)
    <3>1. \/ objAttr' = objAttr
          \/ \E u : objAttr' = [objAttr EXCEPT ![w][o][a] = u]
      BY <1>4 DEF SetInstance, DelInstance
    <3> QED
      <4>1. objAttr \in [Class -> [Obj -> Entries]]
        BY DEF TypeOK
      <4>2. CASE objAttr' = objAttr
        BY <4>2
      <4>3. ASSUME NEW u, objAttr' = [objAttr EXCEPT ![w][o][a] = u]
            PROVE  <2>3
        BY <4>1, <4>3, PutChangesOne
      <4> QED
        BY <3>1, <4>2, <4>3
  <2> QED
    BY <1>1, <1>2, <2>1, <2>2, <2>3 DEF OwnDeclared, SubsDeclared, ObjsDeclared
<1>5. ASSUME NEW w \in Class, NEW c \in Class, NEW a \in Attr, NEW v,
             PutClass(w, c, a, v), Owns(w, c, a, k), objAttr' = objAttr
      PROVE  OwnDeclared' /\ SubsDeclared' /\ ObjsDeclared'
  <2>1. Declared(w, a)
    BY <1>5 DEF Owns, IsTypePrivate, Declared
  <2>2. \A w2 \in Class, c2 \in Class, a2 \in Attr :
          /\ typeAttr'[w2][a2] = typeAttr[w2][a2] \/ (w2 = w /\ a2 = a)
          /\ shadow'[w2][c2][a2] = shadow[w2][c2][a2] \/ (w2 = w /\ a2 = a)
    <3>1. CASE c = w
      BY <1>5, <3>1 DEF PutClass, TypeOK, Entries
    <3>2. CASE c # w
      <4>1. shadow' = [shadow EXCEPT ![w][c][a] = v] /\ typeAttr' = typeAttr
        BY <1>5, <3>2 DEF PutClass
      <4>2. shadow \in [Class -> [Class -> Entries]]
        BY DEF TypeOK
      <4>3. \A w2 \in Class, c2 \in Class, a2 \in Attr :
              shadow'[w2][c2][a2] = shadow[w2][c2][a2] \/ (w2 = w /\ c2 = c /\ a2 = a)
        BY <4>1, <4>2, PutChangesOne
      <4> QED
        BY <4>1, <4>3
    <3> QED
      BY <3>1, <3>2
  <2> QED
    BY <1>1, <1>2, <1>5, <2>1, <2>2 DEF OwnDeclared, SubsDeclared, ObjsDeclared
<1>6. NoOrphans' <=> OwnDeclared' /\ SubsDeclared' /\ ObjsDeclared'
  BY NoOrphansParts, PTL
<1>7. ASSUME NEW w \in Class, NEW c \in Class, NEW a \in Attr,
             DelClass(k, w, c, a) \/ \E v \in ClassValue : SetClass(k, w, c, a, v)
      PROVE  NoOrphans'
  BY <1>3, <1>5, <1>6, <1>7 DEF DelClass, SetClass
<1>8. ASSUME NEW s \in Subject, NEW a \in Attr,
             \/ GetAttr(k, s, a)
             \/ DenyChange(k, s, a)
             \/ \E v \in InstanceValue \cup {Absent} : ChangePublic(k, s, a, v)
      PROVE  NoOrphans'
  BY <1>3, <1>8 DEF GetAttr, DenyChange, ChangePublic, tables
<1>9. ASSUME NEW w \in Class, NEW o \in Obj, NEW a \in Attr,
             DelInstance(k, w, o, a) \/ \E v \in InstanceValue : SetInstance(k, w, o, a, v)
      PROVE  NoOrphans'
  BY <1>4, <1>6, <1>9
<1>10. CASE \E s \in Subject, a \in Attr :
              \/ GetAttr(k, s, a)
              \/ DenyChange(k, s, a)
              \/ \E v \in InstanceValue \cup {Absent} : ChangePublic(k, s, a, v)
  BY <1>8, <1>10
<1>11. CASE \E w \in Class, o \in Obj, a \in Attr :
              \/ \E v \in InstanceValue : SetInstance(k, w, o, a, v)
              \/ DelInstance(k, w, o, a)
  BY <1>9, <1>11
<1>12. CASE \E w \in Class, c \in Class, a \in Attr :
              \/ \E v \in ClassValue : SetClass(k, w, c, a, v)
              \/ DelClass(k, w, c, a)
  BY <1>7, <1>12
<1> QED
  BY <1>10, <1>11, <1>12 DEF CodeStep

(* Every private value sits under a name its owner declares, so that the   *)
(* owner's code can reach and delete it.                                   *)
THEOREM ValuesDeclared == Spec => []NoOrphans
<1>1. Init => NoOrphans
  BY DEF Init, NoOrphans, NoAttrs
<1>2. TypeOK /\ NoOrphans /\ [Next]_vars => NoOrphans'
  <2> SUFFICES ASSUME TypeOK, NoOrphans, [Next]_vars PROVE NoOrphans'
    OBVIOUS
  <2>1. CASE UNCHANGED <<attrSet, typeAttr, shadow, objAttr>>
    BY <2>1 DEF NoOrphans, Created
  <2> QED
    BY <2>1, CreateClassDeclares, CodeStepDeclares DEF Next, Hang, RefuseClass, tables, vars
<1> QED
  BY <1>1, <1>2, TypeCorrect, PTL DEF Spec

(* --------------------- what the owner's code reads --------------------- *)

(* The answer to an access that w owns comes from w's world alone.         *)
OwnAnswer(world, w, s, a) ==
  IF s \in Obj THEN InstanceAnswer(world, w, s, a) ELSE ClassAnswer(world, w, s, a)

OwnedAnswer ==
  \A w \in Class, s \in Subject, k \in Code \cup {NoCode}, a \in Attr : \A world :
    Owns(w, TypeOf(s), a, k) /\ World(w) = world
      => Answer(Worlds, k, s, a) = OwnAnswer(world, w, s, a)

LEMMA OwnedAnswerHolds == OwnedAnswer
<1> SUFFICES ASSUME NEW w \in Class, NEW s \in Subject, NEW k \in Code \cup {NoCode},
                    NEW a \in Attr, Owns(w, TypeOf(s), a, k)
             PROVE  Answer(Worlds, k, s, a) = OwnAnswer(World(w), w, s, a)
  BY DEF OwnedAnswer
<1> DEFINE c == TypeOf(s)
           owner == CHOOSE x \in Owners(c, a, k) : TRUE
<1>1. c \in Class
  BY TypeOfType
<1>2. w \in Owners(c, a, k)
  BY <1>1 DEF Owns, Owners, Nodes
<1>3. owner \in Nodes[c] /\ Owns(owner, c, a, k)
  BY <1>2 DEF Owners
<1>4. owner = w
  BY <1>1, <1>3, OwnerUnique, ChainType
<1> QED
  BY <1>2, <1>4 DEF Answer, OwnAnswer, Worlds

(* A class that exists keeps the names it declares.                        *)
LEMMA DeclarationsLast ==
  ASSUME TypeOK, [Next]_vars, NEW c \in Created
  PROVE  c \in Created' /\ attrSet'[c] = attrSet[c]
<1>1. CASE attrSet' = attrSet
  BY <1>1 DEF Created
<1>2. ASSUME NEW c2 \in Class, NEW d \in Definition[c2], CreateClass(c2, d)
      PROVE  c \in Created' /\ attrSet'[c] = attrSet[c]
  BY <1>2 DEF CreateClass, Created
<1>3. CASE \E k \in Code \cup {NoCode} : CodeStep(k)
  BY <1>1, <1>3 DEF CodeStep, GetAttr, DenyChange, ChangePublic, SetInstance, DelInstance,
                    SetClass, DelClass, tables
<1> QED
  BY <1>1, <1>2, <1>3 DEF Next, Hang, RefuseClass, tables, vars

(* Ownership of the accesses to a class that exists never changes: the     *)
(* classes of its chain are all there.                                     *)
LEMMA OwnershipLasts ==
  ASSUME TypeOK, Ancestry, [Next]_vars, NEW c \in Created, NEW w \in Class, NEW a \in Attr, NEW k
  PROVE  Owns(w, c, a, k)' <=> Owns(w, c, a, k)
<1>1. c \in Class /\ \A i \in DOMAIN Chain[c] : Chain[c][i] \in Created
  BY ChainType DEF TypeOK, Ancestry
<1>2. \A x \in Created : x \in Created' /\ attrSet'[x] = attrSet[x]
  BY DeclarationsLast
<1>3. \A i \in DOMAIN Chain[c] : IsClassCode(Chain[c][i], k)' <=> IsClassCode(Chain[c][i], k)
  BY <1>1, <1>2 DEF IsClassCode
<1>4. \A i \in DOMAIN Chain[c] : IsTypePrivate(Chain[c][i], a)' <=> IsTypePrivate(Chain[c][i], a)
  BY <1>1, <1>2 DEF IsTypePrivate
<1>5. \A i \in DOMAIN Chain[c] : CodeClassAt(c, k, i)' <=> CodeClassAt(c, k, i)
  BY <1>3 DEF CodeClassAt
<1> QED
  BY <1>4, <1>5 DEF Owns

LEMMA AncestryHolds == Spec => []Ancestry
<1>1. Init => Ancestry
  BY DEF Init, Ancestry, Created
<1> QED
  BY <1>1, AncestryStep, PTL DEF Spec

(* The answers before and after a step, from the worlds before and after.  *)
LEMMA AnswersFromWorlds ==
  ASSUME TypeOK, Ancestry, [Next]_vars,
         NEW w \in Class, NEW k \in Code \cup {NoCode}, NEW s \in Subject, NEW a \in Attr,
         TypeOf(s) \in Created, Owns(w, TypeOf(s), a, k),
         NEW old, old = World(w), NEW new, new = World(w)'
  PROVE  /\ Answer(Worlds, k, s, a) = OwnAnswer(old, w, s, a)
         /\ Answer(Worlds, k, s, a)' = OwnAnswer(new, w, s, a)
<1>1. Answer(Worlds, k, s, a) = OwnAnswer(old, w, s, a)
  BY OwnedAnswerHolds DEF OwnedAnswer
<1>2. OwnedAnswer'
  BY OwnedAnswerHolds, PTL
<1>3. Owns(w, TypeOf(s), a, k)'
  BY OwnershipLasts DEF TypeOf
<1>4. Answer(Worlds, k, s, a)' = OwnAnswer(new, w, s, a)
  BY <1>2, <1>3 DEF OwnedAnswer
<1> QED
  BY <1>1, <1>4

LEMMA ViewStep ==
  ASSUME TypeOK, Ancestry, [Next]_vars,
         NEW w \in Created, Ran(last') \notin CodeMap[w],
         NEW k \in CodeMap[w], NEW s \in Subject, NEW a \in attrSet[w],
         TypeOf(s) \in Created, Owns(w, TypeOf(s), a, k)
  PROVE  Answer(Worlds, k, s, a)' = Answer(Worlds, k, s, a)
<1>1. w \in Class /\ a \in Attr /\ k \in Code \cup {NoCode}
  BY ClassAssumption DEF TypeOK
<1>2. PICK world : world = World(w)
  OBVIOUS
<1>3. World(w)' = world
  BY <1>2, WorldUntouched
<1> QED
  BY <1>1, <1>2, <1>3, AnswersFromWorlds

(* What a class's own code reads of its names is not changed by foreign    *)
(* code, by ordinary attributes of the same name, or by later classes.     *)
THEOREM ViewIsOwn == Spec => StableView
<1>1. TypeOK /\ Ancestry /\ [Next]_vars =>
        [\A w \in Created : Ran(last') \notin CodeMap[w] /\ tables' # tables =>
          \A k \in CodeMap[w], s \in Subject, a \in attrSet[w] :
            TypeOf(s) \in Created /\ Owns(w, TypeOf(s), a, k) =>
              Answer(Worlds, k, s, a)' = Answer(Worlds, k, s, a)]_vars
  BY ViewStep
<1> QED
  BY <1>1, TypeCorrect, AncestryHolds, PTL DEF Spec, StableView

(* --------------------- what is stored is read back --------------------- *)

(* Among positions there is a first.                                       *)
LEMMA MinIsMember ==
  ASSUME NEW S, S \subseteq Nat, S # {}
  PROVE  Min(S) \in S /\ \A y \in S : Min(S) <= y
<1> DEFINE R == {ss \in Nat \X Nat : ss[1] < ss[2]}
<1>1. IsWellFoundedOn(R, Nat)
  BY NatLessThanWellFounded, Zenon DEF OpToRel
<1>2. PICK x \in S : \A y \in S : ~(<<y, x>> \in R)
  <2> HIDE DEF R
  <2> QED
    BY <1>1, WFMin
<1>3. \A y \in S : ~(y < x)
  <2> SUFFICES ASSUME NEW y \in S, y < x PROVE <<y, x>> \in R
    BY <1>2
  <2>1. <<y, x>> \in Nat \X Nat /\ <<y, x>>[1] < <<y, x>>[2]
    OBVIOUS
  <2> QED
    BY <2>1
<1>4. \A y \in S : x <= y
  <2> HIDE DEF R
  <2> QED
    BY <1>3
<1> QED
  BY <1>4 DEF Min

(* A class's own entry stops the search at once, ...                       *)
LEMMA OwnEntryFirst ==
  ASSUME NEW world, NEW w \in Class, NEW c \in Class, NEW a,
         ClassEntry(world, w, c)[a] # Absent
  PROVE  FinalAttr(world, w, c, a) = ClassEntry(world, w, c)[a]
<1> DEFINE stops == {i \in DOMAIN Chain[c] :
                       Chain[c][i] = w \/ ClassEntry(world, w, Chain[c][i])[a] # Absent}
<1>1. 1 \in DOMAIN Chain[c] /\ Chain[c][1] = c /\ \A i \in DOMAIN Chain[c] : i \in Nat /\ 1 <= i
  BY ClassAssumption
<1>2. 1 \in stops /\ \A i \in stops : i \in Nat /\ 1 <= i
  BY <1>1
<1> HIDE DEF stops
<1>3. Min(stops) = 1
  BY <1>2 DEF Min
<1> USE DEF stops
<1> QED
  BY <1>1, <1>2, <1>3 DEF FinalAttr

(* ... and the search reads no entry outside the chain.                    *)
LEMMA OnlyChainRead ==
  ASSUME NEW world, NEW world2, NEW w \in Class, NEW c \in Class, NEW a,
         \A n \in Nodes[c] : ClassEntry(world, w, n)[a] = ClassEntry(world2, w, n)[a]
  PROVE  FinalAttr(world, w, c, a) = FinalAttr(world2, w, c, a)
<1> DEFINE stops(wd) == {i \in DOMAIN Chain[c] :
                           Chain[c][i] = w \/ ClassEntry(wd, w, Chain[c][i])[a] # Absent}
<1>1. \A i \in DOMAIN Chain[c] :
        ClassEntry(world, w, Chain[c][i])[a] = ClassEntry(world2, w, Chain[c][i])[a]
  BY ChainType
<1>2. stops(world) = stops(world2)
  BY <1>1
<1>3. stops(world) # {} => Min(stops(world)) \in DOMAIN Chain[c]
  <2>1. stops(world) \subseteq Nat /\ stops(world) \subseteq DOMAIN Chain[c]
    BY ClassAssumption
  <2> HIDE DEF stops
  <2> QED
    BY <2>1, MinIsMember
<1> QED
  BY <1>1, <1>2, <1>3 DEF FinalAttr

(* A value stored on an instance.                                          *)
LEMMA InstanceReadBack ==
  ASSUME TypeOK, Ancestry, [Next]_vars,
         NEW w \in Class, NEW k, NEW o \in Obj, NEW a \in Attr, NEW v \in InstanceValue,
         SetInstance(k, w, o, a, v), last'.reply = Done,
         NEW k2 \in Code, NEW s2 \in Subject, TypeOf(s2) \in Created, Owns(w, TypeOf(s2), a, k2)
  PROVE  /\ s2 = o => Answer(Worlds, k2, s2, a)' = Plain(v)
         /\ s2 # o => Answer(Worlds, k2, s2, a)' = Answer(Worlds, k2, s2, a)
<1>1. PICK old : old = World(w)
  OBVIOUS
<1>2. PICK new : new = World(w)'
  OBVIOUS
<1>3. /\ Answer(Worlds, k2, s2, a) = OwnAnswer(old, w, s2, a)
      /\ Answer(Worlds, k2, s2, a)' = OwnAnswer(new, w, s2, a)
  BY <1>1, <1>2, AnswersFromWorlds
<1>4. ~HasSet(FinalAttr(old, w, ClassOf[o], a)) /\ objAttr' = [objAttr EXCEPT ![w][o][a] = v]
  BY <1>1 DEF SetInstance, Answered, Called, Done
<1>5. new.own = old.own /\ new.subs = old.subs
  BY <1>1, <1>2 DEF SetInstance, World
<1>6. new.objs[o][a] = v /\ \A o2 \in Obj : o2 # o => new.objs[o2] = old.objs[o2]
  <2>1. new.objs = objAttr'[w] /\ old.objs = objAttr[w]
    BY <1>1, <1>2 DEF World
  <2>2. objAttr[w] \in [Obj -> Entries] /\ objAttr[w][o] \in [Attr -> Value \cup {Absent}]
    BY DEF TypeOK, Entries
  <2>3. objAttr'[w] = [objAttr[w] EXCEPT ![o][a] = v]
    BY <1>4 DEF TypeOK
  <2> QED
    BY <2>1, <2>2, <2>3
<1>7. ASSUME NEW c \in Class PROVE FinalAttr(new, w, c, a) = FinalAttr(old, w, c, a)
  BY <1>5, OnlyChainRead DEF ClassEntry
<1>8. CASE s2 = o
  <2>1. InstanceAnswer(new, w, o, a) = Plain(v)
    BY <1>4, <1>6, <1>7, ClassAssumption, ValueAssumption DEF InstanceAnswer
  <2> QED
    BY <1>3, <1>8, <2>1 DEF OwnAnswer
<1>9. CASE s2 # o
  <2>1. s2 \in Obj => InstanceAnswer(new, w, s2, a) = InstanceAnswer(old, w, s2, a)
    BY <1>6, <1>7, <1>9, ClassAssumption DEF InstanceAnswer
  <2>2. s2 \in Class => ClassAnswer(new, w, s2, a) = ClassAnswer(old, w, s2, a)
    BY <1>7 DEF ClassAnswer
  <2> QED
    BY <1>3, <1>9, <2>1, <2>2 DEF OwnAnswer, Subject
<1> QED
  BY <1>8, <1>9

(* A value stored on a class, the owner or one below it.                   *)
LEMMA ClassReadBack ==
  ASSUME TypeOK, Ancestry, [Next]_vars,
         NEW w \in Class, NEW k, NEW c \in Class, NEW a \in Attr, NEW v \in ClassValue,
         SetClass(k, w, c, a, v),
         NEW k2 \in Code, NEW s2 \in Subject, TypeOf(s2) \in Created, Owns(w, TypeOf(s2), a, k2)
  PROVE  /\ s2 = c => Answer(Worlds, k2, s2, a)' =
                        IF HasGet(v) THEN Bound(v, None, TypeOfValue) ELSE Plain(v)
         /\ c \notin Nodes[TypeOf(s2)] =>
              Answer(Worlds, k2, s2, a)' = Answer(Worlds, k2, s2, a)
<1>1. PICK old : old = World(w)
  OBVIOUS
<1>2. PICK new : new = World(w)'
  OBVIOUS
<1>3. /\ Answer(Worlds, k2, s2, a) = OwnAnswer(old, w, s2, a)
      /\ Answer(Worlds, k2, s2, a)' = OwnAnswer(new, w, s2, a)
  BY <1>1, <1>2, AnswersFromWorlds
<1>4. PutClass(w, c, a, v) /\ objAttr' = objAttr
  BY DEF SetClass
<1>5. new.objs = old.objs
  BY <1>1, <1>2, <1>4 DEF World
<1>6. ClassEntry(new, w, c)[a] = v
  <2>1. typeAttr[w] \in [Attr -> Value \cup {Absent}]
    BY DEF TypeOK, Entries
  <2>2. shadow[w] \in [Class -> Entries] /\ shadow[w][c] \in [Attr -> Value \cup {Absent}]
    BY DEF TypeOK, Entries
  <2>3. CASE c = w
    BY <1>2, <1>4, <2>1, <2>3 DEF PutClass, World, ClassEntry, TypeOK
  <2>4. CASE c # w
    <3>1. shadow'[w] = [shadow[w] EXCEPT ![c][a] = v]
      BY <1>4, <2>4 DEF PutClass, TypeOK
    <3>2. shadow'[w][c][a] = v
      BY <2>2, <3>1
    <3> QED
      BY <1>2, <2>4, <3>2 DEF World, ClassEntry
  <2> QED
    BY <2>3, <2>4
<1>7. ASSUME NEW n \in Class, n # c PROVE ClassEntry(new, w, n) = ClassEntry(old, w, n)
  BY <1>1, <1>2, <1>4, <1>7 DEF PutClass, World, ClassEntry, TypeOK
<1>8. CASE s2 = c
  <2>1. v # Absent
    BY ValueAssumption
  <2>2. FinalAttr(new, w, c, a) = v
    BY <1>6, <2>1, OwnEntryFirst
  <2>3. c \notin Obj /\ TypeOf(c) = c
    BY ClassAssumption DEF TypeOf
  <2>4. c \in Nodes[c]
    BY ChainType
  <2> QED
    BY <1>3, <1>8, <2>1, <2>2, <2>3, <2>4 DEF OwnAnswer, ClassAnswer
<1>9. CASE s2 # c /\ c \notin Nodes[TypeOf(s2)]
  <2>1. TypeOf(s2) \in Class /\ Nodes[TypeOf(s2)] \subseteq Class
    BY TypeOfType, ChainType
  <2>2. FinalAttr(new, w, TypeOf(s2), a) = FinalAttr(old, w, TypeOf(s2), a)
    BY <1>7, <1>9, <2>1, OnlyChainRead
  <2>3. s2 \in Obj => InstanceAnswer(new, w, s2, a) = InstanceAnswer(old, w, s2, a)
    BY <1>5, <2>2 DEF InstanceAnswer, TypeOf
  <2>4. s2 \notin Obj => ClassAnswer(new, w, s2, a) = ClassAnswer(old, w, s2, a)
    BY <2>2 DEF ClassAnswer, TypeOf
  <2> QED
    BY <1>3, <1>9, <2>3, <2>4 DEF OwnAnswer
<1>10. s2 = c => c \in Nodes[TypeOf(s2)]
  BY ChainType, ClassAssumption DEF TypeOf
<1> QED
  BY <1>8, <1>9, <1>10

(* The body of ReadBack.                                                   *)
StoredIsRead ==
  last'.op = "set" /\ last'.reply = Done =>
    \A s \in {last'.subject}, a \in {last'.attr}, v \in {last'.value} \cap Value :
      \A w \in Owners(TypeOf(s), a, last'.code) :
        \A k2 \in CodeMap[w], s2 \in Subject :
          TypeOf(s2) \in Created /\ Owns(w, TypeOf(s2), a, k2) =>
            /\ s2 = s => Answer(Worlds, k2, s, a)' =
                 IF s \in Class /\ HasGet(v) THEN Bound(v, None, TypeOfValue) ELSE Plain(v)
            /\ s2 # s /\ s \notin Nodes[TypeOf(s2)] =>
                 Answer(Worlds, k2, s2, a)' = Answer(Worlds, k2, s2, a)

LEMMA SetInstanceStored ==
  ASSUME TypeOK, Ancestry, [Next]_vars,
         NEW k, NEW w \in Class, NEW o \in Obj, NEW a \in Attr, NEW v \in InstanceValue,
         SetInstance(k, w, o, a, v)
  PROVE  StoredIsRead
<1>0. last'.code = k /\ last'.subject = o /\ last'.attr = a /\ last'.value = v
  BY DEF SetInstance, Answered
<1>1. TypeOf(o) = ClassOf[o] /\ o \notin Class
  BY ClassAssumption DEF TypeOf
<1>2. SUFFICES ASSUME last'.reply = Done, NEW w2 \in Owners(ClassOf[o], a, k),
                      NEW k2 \in CodeMap[w2], NEW s2 \in Subject,
                      TypeOf(s2) \in Created, Owns(w2, TypeOf(s2), a, k2)
               PROVE  /\ s2 = o => Answer(Worlds, k2, s2, a)' = Plain(v)
                      /\ s2 # o => Answer(Worlds, k2, s2, a)' = Answer(Worlds, k2, s2, a)
  BY <1>0, <1>1 DEF StoredIsRead
<1>3. w2 = w /\ k2 \in Code
  <2>1. ClassOf[o] \in Class /\ Owns(w, ClassOf[o], a, k) /\ Owns(w2, ClassOf[o], a, k)
    BY ClassAssumption DEF SetInstance, Owners
  <2>2. w2 \in Class
    BY <2>1, ChainType DEF Owners
  <2> QED
    BY <2>1, <2>2, OwnerUnique, ClassAssumption
<1> QED
  BY <1>2, <1>3, InstanceReadBack

LEMMA SetClassStored ==
  ASSUME TypeOK, Ancestry, [Next]_vars,
         NEW k, NEW w \in Class, NEW c \in Class, NEW a \in Attr, NEW v \in ClassValue,
         SetClass(k, w, c, a, v)
  PROVE  StoredIsRead
<1>1. last' = [op |-> "set", code |-> k, subject |-> c, attr |-> a, value |-> v, reply |-> Done]
  BY DEF SetClass, Answered
<1>2. c \notin Obj /\ TypeOf(c) = c
  BY ClassAssumption DEF TypeOf
<1>3. SUFFICES ASSUME NEW w2 \in Owners(c, a, k), NEW k2 \in CodeMap[w2], NEW s2 \in Subject,
                      TypeOf(s2) \in Created, Owns(w2, TypeOf(s2), a, k2)
               PROVE  /\ s2 = c => Answer(Worlds, k2, s2, a)' =
                            IF HasGet(v) THEN Bound(v, None, TypeOfValue) ELSE Plain(v)
                      /\ c \notin Nodes[TypeOf(s2)] =>
                            Answer(Worlds, k2, s2, a)' = Answer(Worlds, k2, s2, a)
  BY <1>1, <1>2 DEF StoredIsRead
<1>4. w2 = w /\ k2 \in Code
  <2>1. Owns(w, c, a, k) /\ Owns(w2, c, a, k)
    BY DEF SetClass, Owners
  <2>2. w2 \in Class
    BY ChainType DEF Owners
  <2> QED
    BY <2>1, <2>2, OwnerUnique, ClassAssumption
<1> QED
  BY <1>3, <1>4, ClassReadBack

LEMMA StoredStep ==
  ASSUME TypeOK, Ancestry, Next
  PROVE  StoredIsRead
<1>1. ASSUME NEW k \in Code \cup {NoCode}, CodeStep(k)
      PROVE  StoredIsRead
  <2>1. ASSUME NEW s \in Subject, NEW a \in Attr,
               GetAttr(k, s, a) \/ DenyChange(k, s, a)
        PROVE  StoredIsRead
    BY <2>1 DEF StoredIsRead, GetAttr, DenyChange, Answered, AttributeError, Done
  <2>2. ASSUME NEW s \in Subject, NEW a \in Attr, NEW v, ChangePublic(k, s, a, v)
        PROVE  StoredIsRead
    <3>1. last'.subject = s /\ last'.attr = a /\ last'.code = k
      BY <2>2 DEF ChangePublic, Answered
    <3>2. Owners(TypeOf(s), a, k) = {}
      BY <2>2 DEF ChangePublic, Normal, Owners
    <3> QED
      BY <3>1, <3>2 DEF StoredIsRead
  <2>3. ASSUME NEW w \in Class, NEW o \in Obj, NEW a \in Attr, DelInstance(k, w, o, a)
        PROVE  StoredIsRead
    BY <2>3 DEF StoredIsRead, DelInstance, Answered
  <2>4. ASSUME NEW w \in Class, NEW c \in Class, NEW a \in Attr, DelClass(k, w, c, a)
        PROVE  StoredIsRead
    BY <2>4 DEF StoredIsRead, DelClass, Answered
  <2> QED
    BY <1>1, <2>1, <2>2, <2>3, <2>4, SetInstanceStored, SetClassStored DEF CodeStep
<1>2. ASSUME NEW s, Hang(s) PROVE StoredIsRead
  BY <1>2 DEF StoredIsRead, Hang
<1>3. ASSUME NEW c, NEW d, CreateClass(c, d) \/ RefuseClass(c, d) PROVE StoredIsRead
  BY <1>3 DEF StoredIsRead, CreateClass, RefuseClass, AnsweredClass
<1> QED
  BY <1>1, <1>2, <1>3 DEF Next

(* What the owner's code stores on an instance or a class is what all its  *)
(* code reads there, and is seen nowhere that does not descend from there. *)
THEOREM StoredValuesAreRead == Spec => ReadBack
<1>1. TypeOK /\ Ancestry /\ [Next]_vars => [StoredIsRead]_vars
  BY StoredStep
<1>2. Spec => [][StoredIsRead]_vars
  BY <1>1, TypeCorrect, AncestryHolds, PTL DEF Spec
<1> QED
  BY <1>2 DEF ReadBack, StoredIsRead

(* ------------------------- one __dict__ each --------------------------- *)

(* A call without its answer, and the answer without its arguments.        *)
LEMMA AskedOf ==
  ASSUME NEW o, NEW k, NEW s, NEW a, NEW v, NEW r,
         last' = [op |-> o, code |-> k, subject |-> s, attr |-> a, value |-> v, reply |-> r]
  PROVE  Asked' = [op |-> o, code |-> k, subject |-> s, attr |-> a, value |-> v]
<1>1. DOMAIN last' \ {"reply"} = {"op", "code", "subject", "attr", "value"}
  OBVIOUS
<1>2. Asked' = [f \in {"op", "code", "subject", "attr", "value"} |-> last'[f]]
  BY <1>1 DEF Asked
<1> QED
  BY <1>2

LEMMA AskedSubject ==
  ASSUME NEW o, NEW s, NEW r, last' = [op |-> o, subject |-> s, reply |-> r]
  PROVE  Asked' = [op |-> o, subject |-> s]
<1>1. DOMAIN last' \ {"reply"} = {"op", "subject"}
  OBVIOUS
<1>2. Asked' = [f \in {"op", "subject"} |-> last'[f]]
  BY <1>1 DEF Asked
<1> QED
  BY <1>2

LEMMA ToldOf ==
  /\ \A v : Told(Plain(v)) = <<"value", v>>
  /\ \A v, s, t : Told(Bound(v, s, t)) = <<"bound", v>>
  /\ \A m, v, s : Told(Called(m, v, s)) = <<m, v>>
  /\ Told(Done) = Space!Done
  /\ Told(AttributeError) = Space!AttributeError
  /\ Told(ErrorSetButOk) = Space!Missing
  /\ Told(TypeError) = <<"TypeError">>
<1> DEFINE e == ErrorSetButOk
<1>0. Len(e) = 1
  BY DEF ErrorSetButOk
<1> HIDE DEF e
<1>1. ASSUME NEW r, Len(r) = 2 PROVE Told(r) = r
  <2>1. r # e
    BY <1>0, <1>1
  <2> QED
    BY <1>1, <2>1 DEF Told, e
<1>2. ASSUME NEW r, Len(r) \in {3, 4} PROVE Told(r) = <<r[1], r[2]>>
  <2>1. r # e
    BY <1>0, <1>2
  <2> QED
    BY <1>2, <2>1 DEF Told, e
<1>3. ASSUME NEW r, Len(r) = 1, r # ErrorSetButOk PROVE Told(r) = r
  BY <1>3 DEF Told
<1>4. ASSUME NEW v PROVE Told(Plain(v)) = <<"value", v>>
  <2>1. Len(Plain(v)) = 2
    BY DEF Plain
  <2> QED
    BY <1>1, <2>1 DEF Plain
<1>5. ASSUME NEW v, NEW s, NEW t PROVE Told(Bound(v, s, t)) = <<"bound", v>>
  <2>1. Len(Bound(v, s, t)) = 4 /\ Bound(v, s, t)[1] = "bound" /\ Bound(v, s, t)[2] = v
    BY DEF Bound
  <2> QED
    BY <1>2, <2>1
<1>6. ASSUME NEW m, NEW v, NEW s PROVE Told(Called(m, v, s)) = <<m, v>>
  <2>1. Len(Called(m, v, s)) = 3 /\ Called(m, v, s)[1] = m /\ Called(m, v, s)[2] = v
    BY DEF Called
  <2> QED
    BY <1>2, <2>1
<1>7. Told(Done) = Done /\ Told(TypeError) = TypeError /\ Told(AttributeError) = AttributeError
  <2>1. Len(Done) = 1 /\ Len(TypeError) = 1 /\ Len(AttributeError) = 1
    BY DEF Done, TypeError, AttributeError
  <2>2. Done # ErrorSetButOk /\ TypeError # ErrorSetButOk /\ AttributeError # ErrorSetButOk
    BY DEF ErrorSetButOk, Done, AttributeError, TypeError
  <2> QED
    BY <1>3, <2>1, <2>2
<1>8. Told(ErrorSetButOk) = AttributeError
  BY DEF Told
<1>9. /\ Space!Done = Done /\ Space!AttributeError = AttributeError
      /\ Space!Missing = AttributeError /\ TypeError = <<"TypeError">>
  BY DEF Space!Done, Space!AttributeError, Space!Missing, Done, AttributeError, TypeError
<1> QED
  BY <1>4, <1>5, <1>6, <1>7, <1>8, <1>9

(* Whose namespace: the owner's, as attr_classify finds it.                *)
LEMMA WrittenIsOwned ==
  ASSUME NEW c \in Class, NEW k, NEW i \in DOMAIN Chain[c]
  PROVE  Space!WrittenAt(k, c, i) <=> CodeClassAt(c, k, i)
BY DEF Space!WrittenAt, CodeClassAt, IsClassCode, Created

LEMMA ReachesIsOwns ==
  ASSUME NEW r \in Space!Request, NEW w \in Class
  PROVE  Space!Reaches(r, w) <=> Owns(w, TypeOf(r.subject), r.attr, r.code)
<1>1. r.subject \in Subject /\ TypeOf(r.subject) = Space!TypeOf(r.subject)
  BY DEF Space!Request, Space!Subject, Subject, Space!TypeOf, TypeOf
<1>2. TypeOf(r.subject) \in Class
  BY <1>1, TypeOfType
<1>3. \A i \in DOMAIN Chain[TypeOf(r.subject)] :
        CodeClassAt(TypeOf(r.subject), r.code, i) => r.code # NoCode
  <2>1. \A x \in Class : NoCode \notin CodeMap[x]
    BY ClassAssumption, ValueAssumption
  <2>2. \A i \in DOMAIN Chain[TypeOf(r.subject)] : Chain[TypeOf(r.subject)][i] \in Class
    BY <1>2, ChainType
  <2> QED
    BY <2>1, <2>2 DEF CodeClassAt, IsClassCode
<1>4. Space!Holds(w, r.attr) <=> IsTypePrivate(w, r.attr)
  BY DEF Space!Holds, IsTypePrivate, Created
<1> QED
  BY <1>1, <1>2, <1>3, <1>4, WrittenIsOwned DEF Space!Reaches, Owns

(* Among the positions of a chain there is a last one of any kind.         *)
LEMMA LastPosition ==
  ASSUME NEW c \in Class, NEW S, S \subseteq DOMAIN Chain[c], S # {}
  PROVE  \E i \in S : \A j \in S : j <= i
<1> DEFINE n == Len(Chain[c])
           T == {n - i : i \in S}
<1>1. n \in Nat /\ \A i \in S : i \in 1 .. n
  BY ClassAssumption
<1>2. T \subseteq Nat /\ T # {}
  BY <1>1
<1>3. Min(T) \in T
  <2> HIDE DEF T
  <2> QED
    BY <1>2, MinIsMember
<1>4. \A t \in T : Min(T) <= t
  <2> HIDE DEF T
  <2> QED
    BY <1>2, MinIsMember
<1>5. PICK i \in S : Min(T) = n - i
  BY <1>3
<1>6. \A j \in S : n - i <= n - j
  BY <1>4, <1>5
<1> HIDE DEF n
<1>7. \A j \in S : j <= i
  BY <1>1, <1>6
<1> QED
  BY <1>7

(* A name is refused exactly to the code attr_classify denies it to: the   *)
(* last class of the chain that has the code is the one it belongs to.     *)
LEMMA RefusedIsDenied ==
  ASSUME NEW r \in Space!Request
  PROVE  Space!Refused(r) <=> Denied(TypeOf(r.subject), r.attr, r.code)
<1> DEFINE c == TypeOf(r.subject)
           a == r.attr
           k == r.code
           coded == {i \in DOMAIN Chain[c] : IsClassCode(Chain[c][i], k)}
<1>1. c \in Class /\ c = Space!TypeOf(r.subject)
  BY TypeOfType DEF Space!Request, Space!Subject, Subject, Space!TypeOf, TypeOf
<1>2. /\ Chain[c] \in Seq(Class) /\ DOMAIN Chain[c] \subseteq Nat
      /\ \A i \in DOMAIN Chain[c] : Chain[c][i] \in Class /\ Chain[c][i] \in Nodes[c]
  BY <1>1, ChainType
<1>3. \A w \in Nodes[c] : \E i \in DOMAIN Chain[c] : Chain[c][i] = w
  BY <1>1 DEF Nodes
<1>4. \A w \in Class : Space!Reaches(r, w) <=> Owns(w, c, a, k)
  BY ReachesIsOwns
<1>5. \A i \in DOMAIN Chain[c] : Space!Holds(Chain[c][i], a) <=> IsTypePrivate(Chain[c][i], a)
  BY DEF Space!Holds, IsTypePrivate, Created
<1>6. Space!Refused(r) <=>
        /\ \A w \in Class : ~Owns(w, c, a, k)
        /\ \E j \in DOMAIN Chain[c] :
             /\ IsTypePrivate(Chain[c][j], a)
             /\ \A i \in DOMAIN Chain[c] : CodeClassAt(c, k, i) => i < j
  BY <1>1, <1>4, <1>5, WrittenIsOwned DEF Space!Refused
<1>7. CASE coded = {}
  <2>1. \A i \in DOMAIN Chain[c] : ~CodeClassAt(c, k, i)
    BY <1>7 DEF CodeClassAt
  <2>2. \A w \in Nodes[c] : ~IsClassCode(w, k)
    BY <1>3, <1>7
  <2>3. \A w \in Class : ~Owns(w, c, a, k)
    BY <2>1 DEF Owns
  <2>4. TypePrivateAttr(c, a) <=> \E j \in DOMAIN Chain[c] : IsTypePrivate(Chain[c][j], a)
    BY <1>2, <1>3 DEF TypePrivateAttr
  <2> QED
    BY <1>6, <2>1, <2>2, <2>3, <2>4 DEF Denied
<1>8. CASE coded # {}
  <2>1. PICK i \in coded : \A j \in coded : j <= i
    <3> HIDE DEF coded
    <3>1. coded \subseteq DOMAIN Chain[c]
      BY DEF coded
    <3> QED
      BY <1>1, <1>8, <3>1, LastPosition
  <2>2. i \in DOMAIN Chain[c] /\ CodeClassAt(c, k, i)
    BY <2>1 DEF CodeClassAt
  <2>3. \A j \in DOMAIN Chain[c] : CodeClassAt(c, k, j) => j = i
    <3>1. \A j \in DOMAIN Chain[c] : CodeClassAt(c, k, j) => j <= i /\ i <= j
      BY <2>1, <2>2 DEF CodeClassAt
    <3> QED
      BY <1>2, <2>2, <3>1
  <2>4. k # NoCode /\ ~(\A w \in Nodes[c] : ~IsClassCode(w, k))
    <3>1. IsClassCode(Chain[c][i], k) /\ Chain[c][i] \in Class /\ Chain[c][i] \in Nodes[c]
      BY <1>2, <2>2 DEF CodeClassAt
    <3>2. \A x \in Class : NoCode \notin CodeMap[x]
      BY ClassAssumption, ValueAssumption
    <3> QED
      BY <3>1, <3>2 DEF IsClassCode
  <2>5. (\A w \in Class : ~Owns(w, c, a, k)) <=> ~IsTypePrivate(Chain[c][i], a)
    BY <1>2, <2>2, <2>3, <2>4 DEF Owns
  <2>6. Space!Refused(r) <=>
          /\ ~IsTypePrivate(Chain[c][i], a)
          /\ \E j \in DOMAIN Chain[c] : IsTypePrivate(Chain[c][j], a) /\ i < j
    BY <1>6, <2>2, <2>3, <2>5
  <2>7. Denied(c, a, k) <=>
          /\ TypePrivateAttr(c, a)
          /\ ~IsTypePrivate(Chain[c][i], a)
          /\ \E j \in DOMAIN Chain[c] : j > i /\ IsTypePrivate(Chain[c][j], a)
    BY <2>2, <2>3, <2>4 DEF Denied
  <2>8. \A j \in DOMAIN Chain[c] : IsTypePrivate(Chain[c][j], a) => TypePrivateAttr(c, a)
    BY <1>2 DEF TypePrivateAttr
  <2>9. \A j \in DOMAIN Chain[c] : j > i <=> i < j
    BY <1>2, <2>2
  <2> QED
    BY <2>6, <2>7, <2>8, <2>9
<1> QED
  BY <1>7, <1>8

(* What a class keeps for another, it keeps for one below it.              *)
Below ==
  \A w \in Class, c \in Class, a \in Attr : shadow[w][c][a] # Absent => w \in Nodes[c]

LEMMA BelowStep == TypeOK /\ Below /\ [Next]_vars => Below'
<1> SUFFICES ASSUME TypeOK, Below, [Next]_vars PROVE Below'
  OBVIOUS
<1>1. CASE shadow' = shadow
  BY <1>1 DEF Below
<1>2. ASSUME NEW w \in Class, NEW c \in Class, NEW a \in Attr, NEW v, NEW k,
             Owns(w, c, a, k), PutClass(w, c, a, v)
      PROVE  Below'
  <2>1. w \in Nodes[c]
    BY <1>2 DEF Owns, Nodes
  <2>2. CASE shadow' = [shadow EXCEPT ![w][c][a] = v]
    <3>1. shadow \in [Class -> [Class -> Entries]]
      BY DEF TypeOK
    <3>2. \A w2 \in Class, c2 \in Class, a2 \in Attr :
            shadow'[w2][c2][a2] = shadow[w2][c2][a2] \/ (w2 = w /\ c2 = c /\ a2 = a)
      BY <2>2, <3>1, PutChangesOne
    <3> QED
      BY <2>1, <3>2 DEF Below
  <2> QED
    BY <1>1, <1>2, <2>2 DEF PutClass
<1>3. ASSUME NEW c \in Class, NEW d \in Definition[c], CreateClass(c, d)
      PROVE  Below'
  <2>1. \A w \in Class, x \in Class, a \in Attr : shadow'[w][x][a] \in {shadow[w][x][a], Absent}
    BY <1>3 DEF CreateClass, TypeOK, NoAttrs
  <2> QED
    BY <2>1 DEF Below
<1>4. ASSUME NEW k \in Code \cup {NoCode}, CodeStep(k) PROVE Below'
  <2>1. ASSUME NEW w \in Class, NEW c \in Class, NEW a \in Attr,
               DelClass(k, w, c, a) \/ \E v \in ClassValue : SetClass(k, w, c, a, v)
        PROVE  Below'
    BY <1>1, <1>2, <2>1 DEF DelClass, SetClass
  <2>2. ASSUME NEW w \in Class, NEW o \in Obj, NEW a \in Attr,
               DelInstance(k, w, o, a) \/ \E v \in InstanceValue : SetInstance(k, w, o, a, v)
        PROVE  Below'
    BY <1>1, <2>2 DEF DelInstance, SetInstance
  <2> QED
    BY <1>1, <1>4, <2>1, <2>2 DEF CodeStep, GetAttr, DenyChange, ChangePublic, tables
<1> QED
  BY <1>1, <1>3, <1>4 DEF Next, Hang, RefuseClass, tables, vars

LEMMA AlwaysBelow == Spec => []Below
<1>1. Init => Below
  BY DEF Init, Below, NoAttrs
<1> QED
  BY <1>1, BelowStep, TypeCorrect, PTL DEF Spec

(* The three tables are one __dict__ per subject.                          *)
LEMMA DictEntries ==
  ASSUME NEW w \in Class
  PROVE  /\ \A c \in Class : dict[w][c] = ClassEntry(World(w), w, c)
         /\ \A o \in Obj : dict[w][o] = objAttr[w][o]
<1>1. \A c \in Class : c \notin Obj /\ c \in Subject
  BY ClassAssumption DEF Subject
<1>2. \A o \in Obj : o \in Subject
  BY DEF Subject
<1> QED
  BY <1>1, <1>2 DEF dict, ClassEntry, World

(* Stopping at the owner, type_get_final_attr finds what a search of the   *)
(* whole chain finds: past the owner there is nothing.                     *)
LEMMA FinalIsMroValue ==
  ASSUME Below, NEW w \in Class, NEW c \in Class, w \in Nodes[c], NEW a \in Attr
  PROVE  FinalAttr(World(w), w, c, a) = Space!MroValue(w, c, a)
<1> DEFINE entry(i) == ClassEntry(World(w), w, Chain[c][i])[a]
           stops == {i \in DOMAIN Chain[c] : Chain[c][i] = w \/ entry(i) # Absent}
           having == {i \in DOMAIN Chain[c] : entry(i) # Absent}
<1>1. /\ DOMAIN Chain[c] \subseteq Nat
      /\ \A i \in DOMAIN Chain[c] : Chain[c][i] \in Class /\ Chain[c][i] \in Nodes[Chain[c][i]]
  BY ChainType
<1>2. \E i \in DOMAIN Chain[c] : Chain[c][i] = w
  BY DEF Nodes
<1>3. \A i, j \in DOMAIN Chain[c] : Chain[c][i] = w /\ j \in having => j <= i
  <2> SUFFICES ASSUME NEW i \in DOMAIN Chain[c], NEW j \in DOMAIN Chain[c],
                      Chain[c][i] = w, entry(j) # Absent
               PROVE  j <= i
    OBVIOUS
  <2>1. w \in Nodes[Chain[c][j]]
    BY <1>1 DEF Below, ClassEntry, World
  <2> QED
    BY <2>1, ChainAssumption
<1>4. Space!MroValue(w, c, a) =
        IF having = {} THEN Absent
        ELSE entry(CHOOSE i \in having : \A j \in having : i <= j)
  <2>1. \A i \in DOMAIN Chain[c] : dict[w][Chain[c][i]][a] = entry(i)
    BY <1>1, DictEntries
  <2>2. having = {i \in DOMAIN Chain[c] : dict[w][Chain[c][i]][a] # Absent}
    BY <2>1
  <2>3. having # {} => (CHOOSE i \in having : \A j \in having : i <= j) \in DOMAIN Chain[c]
    <3>1. having \subseteq Nat /\ having \subseteq DOMAIN Chain[c]
      BY <1>1
    <3> HIDE DEF having
    <3>2. having # {} => Min(having) \in having
      BY <3>1, MinIsMember
    <3> QED
      BY <3>1, <3>2 DEF Min
  <2> HIDE DEF entry, having
  <2> QED
    BY <2>1, <2>2, <2>3 DEF Space!MroValue
<1>5. stops \subseteq Nat /\ stops # {} /\ having \subseteq Nat /\ having \subseteq stops
  BY <1>1, <1>2
<1>6. Min(stops) \in stops /\ \A i \in stops : Min(stops) <= i
  <2> HIDE DEF stops
  <2> QED
    BY <1>5, MinIsMember
<1>7. FinalAttr(World(w), w, c, a) = entry(Min(stops))
  BY <1>5 DEF FinalAttr
<1>8. CASE having = {}
  <2>1. Min(stops) \notin having /\ Min(stops) \in DOMAIN Chain[c]
    BY <1>6, <1>8
  <2> QED
    BY <1>4, <1>7, <1>8, <2>1
<1>9. CASE having # {}
  <2>1. Min(having) \in having /\ \A j \in having : Min(having) <= j
    <3> HIDE DEF having
    <3> QED
      BY <1>5, <1>9, MinIsMember
  <2>2. Min(stops) <= Min(having)
    BY <1>5, <1>6, <2>1
  <2>3. Min(having) <= Min(stops)
    <3>1. CASE Min(stops) \in having
      BY <2>1, <3>1
    <3>2. CASE Min(stops) \notin having
      BY <1>3, <1>6, <2>1, <3>2
    <3> QED
      BY <3>1, <3>2
  <2>4. Min(stops) = Min(having)
    <3>1. Min(stops) \in Nat /\ Min(having) \in Nat
      BY <1>5, <1>6, <2>1
    <3> QED
      BY <2>2, <2>3, <3>1
  <2>5. Min(having) = CHOOSE i \in having : \A j \in having : i <= j
    BY DEF Min
  <2> HIDE DEF entry, stops, having
  <2> QED
    BY <1>4, <1>7, <1>9, <2>4, <2>5
<1> QED
  BY <1>8, <1>9

(* An owned read is ordinary lookup in the owner's namespace.              *)
LEMMA ReadIsLookup ==
  ASSUME TypeOK, Below, NEW w \in Class, NEW s \in Subject, NEW a \in Attr,
         w \in Nodes[TypeOf(s)]
  PROVE  Told(OwnAnswer(World(w), w, s, a)) = Space!Lookup(w, s, a)
<1> DEFINE v == FinalAttr(World(w), w, TypeOf(s), a)
           u == Space!MroValue(w, TypeOf(s), a)
           own == objAttr[w][s][a]
<1>1. TypeOf(s) \in Class /\ Space!TypeOf(s) = TypeOf(s)
  BY TypeOfType DEF Space!TypeOf, TypeOf
<1>2. v = u
  BY <1>1, FinalIsMroValue
<1>3. HasSet(u) <=> Space!IsKind(u, {"data"})
  BY DEF HasSet, Space!IsKind
<1>4. HasGet(u) <=> Space!IsKind(u, {"data"}) \/ Space!IsKind(u, {"nondata"})
  BY DEF HasGet, Space!IsKind
<1>5. Space!IsKind(u, {"nondata"}) => u # Absent
  BY DEF Space!IsKind
<1>6. CASE s \in Obj
  <2>1. dict[w][s][a] = own /\ World(w).objs[s][a] = own /\ TypeOf(s) = ClassOf[s]
    BY <1>6, DictEntries DEF World, TypeOf
  <2>2. Space!Lookup(w, s, a) =
          IF HasSet(u) THEN <<"bound", u>>
          ELSE IF own # Absent THEN <<"value", own>>
          ELSE IF HasGet(u) THEN <<"bound", u>>
          ELSE IF u # Absent THEN <<"value", u>> ELSE Space!Missing
    <3> HIDE DEF own, u
    <3>1. u = Space!MroValue(w, Space!TypeOf(s), a)
      BY <1>1 DEF u
    <3> QED
      BY <1>3, <1>4, <1>6, <2>1, <3>1 DEF Space!Lookup
  <2>3. InstanceAnswer(World(w), w, s, a) =
          IF HasSet(u) \/ (own = Absent /\ HasGet(u)) THEN Bound(u, s, ClassOf[s])
          ELSE IF own # Absent THEN Plain(own)
          ELSE IF u # Absent THEN Plain(u) ELSE AttributeError
    BY <1>2, <2>1 DEF InstanceAnswer
  <2>4. Told(AttributeError) = Space!Missing
    BY ToldOf DEF Space!Missing
  <2> HIDE DEF u, own
  <2> QED
    BY <1>6, <2>2, <2>3, <2>4, ToldOf DEF OwnAnswer
<1>7. CASE s \notin Obj
  <2>1. TypeOf(s) = s
    BY <1>7 DEF TypeOf
  <2>2. Space!Lookup(w, s, a) =
          IF HasGet(u) THEN <<"bound", u>>
          ELSE IF u # Absent THEN <<"value", u>> ELSE Space!Missing
    <3> HIDE DEF u
    <3>1. u = Space!MroValue(w, Space!TypeOf(s), a)
      BY <1>1 DEF u
    <3> QED
      BY <1>3, <1>4, <1>7, <3>1 DEF Space!Lookup
  <2>3. ClassAnswer(World(w), w, s, a) =
          IF u = Absent THEN AttributeError
          ELSE IF HasGet(u) THEN Bound(u, None, TypeOfValue) ELSE Plain(u)
    BY <1>2, <2>1 DEF ClassAnswer
  <2>4. Told(AttributeError) = Space!Missing
    BY ToldOf DEF Space!Missing
  <2>5. HasGet(u) => u # Absent
    BY DEF HasGet
  <2> HIDE DEF u
  <2> QED
    BY <1>7, <2>2, <2>3, <2>4, <2>5, ToldOf DEF OwnAnswer
<1> QED
  BY <1>6, <1>7

(* An access of the code, as one of the namespaces.                        *)
LEMMA AccessStep ==
  ASSUME NEW o \in {"get", "set", "delete"}, NEW k \in Code \cup {NoCode}, NEW s \in Subject,
         NEW a \in Attr, NEW v \in Value \cup {Absent}, NEW answer,
         Answered(o, k, s, a, v, answer),
         NEW r, r = [op |-> o, code |-> k, subject |-> s, attr |-> a, value |-> v],
         attrSet' = attrSet,
         \/ \E w \in Class :
              /\ Owns(w, TypeOf(s), a, k)
              /\ Space!Read(r, w) \/ Space!Store(r, w) \/ Space!Delete(r, w)
         \/ Denied(TypeOf(s), a, k) /\ answer = AttributeError /\ dict' = dict
         \/ Normal(TypeOf(s), a, k) /\ dict' = dict
  PROVE  Space!Access
<1>1. Asked' = r
  BY AskedOf DEF Answered
<1>2. r \in Space!Request
  BY DEF Space!Request, Space!Subject, Subject
<1>3. \A w \in Class : Space!Reaches(r, w) <=> Owns(w, TypeOf(s), a, k)
  BY <1>2, ReachesIsOwns
<1>4. Space!Refused(r) <=> Denied(TypeOf(s), a, k)
  BY <1>2, RefusedIsDenied
<1>5. ASSUME Normal(TypeOf(s), a, k), dict' = dict PROVE Space!Ordinary(r)
  <2>1. \A w \in Class : ~Owns(w, TypeOf(s), a, k)
    BY <1>5, TypeOfType, ChainType DEF Normal, Owns
  <2> QED
    BY <1>3, <1>4, <1>5, <2>1 DEF Space!Ordinary, Normal
<1>6. ASSUME Denied(TypeOf(s), a, k), answer = AttributeError, dict' = dict
      PROVE  Space!Refuse(r)
  <2>1. Reported' = Told(answer)
    BY DEF Reported, Answered, Told, AttributeError, ErrorSetButOk
  <2> QED
    BY <1>4, <1>6, <2>1, ToldOf DEF Space!Refuse
<1> QED
  BY <1>1, <1>2, <1>3, <1>5, <1>6 DEF Space!Access

(* What is reported of an access.                                          *)
LEMMA ReportedOf ==
  ASSUME NEW o, NEW k, NEW s, NEW a, NEW v, NEW answer, Answered(o, k, s, a, v, answer)
  PROVE  Reported' = Told(answer)
BY DEF Reported, Answered, Told, AttributeError, ErrorSetButOk

LEMMA OwnerFound ==
  ASSUME NEW w \in Class, NEW c \in Class, NEW a, NEW k, Owns(w, c, a, k)
  PROVE  w \in Nodes[c]
BY DEF Owns, Nodes

LEMMA GetRefines ==
  ASSUME TypeOK, Below, NEW k \in Code \cup {NoCode}, NEW s \in Subject, NEW a \in Attr,
         GetAttr(k, s, a)
  PROVE  Space!Access
<1> DEFINE answer == Answer(Worlds, k, s, a)
           r == [op |-> "get", code |-> k, subject |-> s, attr |-> a, value |-> Absent]
<1>1. Answered("get", k, s, a, Absent, answer)
  BY DEF GetAttr
<1>2. attrSet' = attrSet /\ dict' = dict
  BY DEF GetAttr, tables, dict
<1>3. ASSUME NEW w \in Class, Owns(w, TypeOf(s), a, k)
      PROVE  Space!Read(r, w)
  <2>1. answer = OwnAnswer(World(w), w, s, a)
    <3>1. PICK world : world = World(w)
      OBVIOUS
    <3> QED
      BY <1>3, <3>1, OwnedAnswerHolds DEF OwnedAnswer
  <2>2. Told(answer) = Space!Lookup(w, s, a)
    BY <1>3, <2>1, ReadIsLookup, OwnerFound, TypeOfType
  <2>3. Reported' = Told(answer)
    BY <1>1, ReportedOf
  <2> QED
    BY <1>2, <2>2, <2>3 DEF Space!Read
<1>4. ASSUME \A w \in Class : ~Owns(w, TypeOf(s), a, k), Denied(TypeOf(s), a, k)
      PROVE  answer = AttributeError
  <2>1. Owners(TypeOf(s), a, k) = {}
    BY <1>4, TypeOfType, ChainType DEF Owners
  <2> QED
    BY <1>4, <2>1 DEF Answer
<1>5. \/ \E w \in Class : Owns(w, TypeOf(s), a, k)
      \/ (\A w \in Class : ~Owns(w, TypeOf(s), a, k)) /\ Denied(TypeOf(s), a, k)
      \/ Normal(TypeOf(s), a, k)
  BY TypeOfType, ChainType DEF Normal
<1> HIDE DEF answer, r
<1>6. r = [op |-> "get", code |-> k, subject |-> s, attr |-> a, value |-> Absent]
  BY DEF r
<1> QED
  BY <1>1, <1>2, <1>3, <1>4, <1>5, <1>6, AccessStep

LEMMA DenyRefines ==
  ASSUME NEW k \in Code \cup {NoCode}, NEW s \in Subject, NEW a \in Attr, DenyChange(k, s, a)
  PROVE  Space!Access
<1>1. attrSet' = attrSet /\ dict' = dict
  BY DEF DenyChange, tables, dict
<1> QED
  BY <1>1, AccessStep DEF DenyChange

LEMMA PublicRefines ==
  ASSUME NEW k \in Code \cup {NoCode}, NEW s \in Subject, NEW a \in Attr,
         NEW v \in InstanceValue \cup {Absent}, ChangePublic(k, s, a, v)
  PROVE  Space!Access
<1>1. attrSet' = attrSet /\ dict' = dict
  BY DEF ChangePublic, dict
<1>2. v \in Value \cup {Absent}
  BY ValueAssumption
<1>3. PICK answer : Answered("set", k, s, a, v, answer)
  BY DEF ChangePublic
<1> QED
  BY <1>1, <1>2, <1>3, AccessStep DEF ChangePublic

LEMMA DictType == TypeOK => dict \in [Class -> [Subject -> Entries]]
<1> SUFFICES ASSUME TypeOK, NEW w \in Class, NEW s \in Subject
             PROVE  (IF s \in Obj THEN objAttr[w][s]
                     ELSE IF s = w THEN typeAttr[w] ELSE shadow[w][s]) \in Entries
  BY DEF dict
<1> QED
  BY DEF TypeOK, Subject

Put(f, w, s, a, v) == [f EXCEPT ![w][s][a] = v]

(* One entry of one table is one attribute of one __dict__.                *)
LEMMA DictPut ==
  ASSUME TypeOK, NEW w \in Class, NEW s \in Subject, NEW a \in Attr,
         NEW v \in Value \cup {Absent},
         \/ /\ s \in Obj /\ objAttr' = Put(objAttr, w, s, a, v)
            /\ typeAttr' = typeAttr /\ shadow' = shadow
         \/ s \in Class /\ PutClass(w, s, a, v) /\ objAttr' = objAttr
  PROVE  dict' = Put(dict, w, s, a, v)
<1>1. dict \in [Class -> [Subject -> Entries]]
  BY DictType
<1>2. ASSUME NEW w2 \in Class, NEW s2 \in Subject, w2 # w \/ s2 # s
      PROVE  dict'[w2][s2] = dict[w2][s2]
  <2>1. CASE s \in Obj
    <3>1. /\ objAttr' = [objAttr EXCEPT ![w][s][a] = v]
          /\ typeAttr' = typeAttr /\ shadow' = shadow
      BY <2>1, ClassAssumption DEF Put
    <3>2. s2 \in Obj => objAttr'[w2][s2] = objAttr[w2][s2]
      BY <1>2, <2>1, <3>1 DEF TypeOK
    <3> QED
      BY <3>1, <3>2 DEF dict
  <2>2. CASE s \notin Obj
    <3>1. PutClass(w, s, a, v) /\ objAttr' = objAttr /\ s \in Class
      BY <2>2 DEF Subject
    <3>2. s2 \in Class /\ s2 = w2 => typeAttr'[w2] = typeAttr[w2]
      BY <1>2, <3>1 DEF PutClass, TypeOK
    <3>3. s2 \in Class /\ s2 # w2 => shadow'[w2][s2] = shadow[w2][s2]
      BY <1>2, <3>1 DEF PutClass, TypeOK
    <3> QED
      BY <3>1, <3>2, <3>3 DEF dict, Subject
  <2> QED
    BY <2>1, <2>2
<1>3. dict'[w][s] = [dict[w][s] EXCEPT ![a] = v]
  <2>1. CASE s \in Obj
    <3>1. objAttr' = [objAttr EXCEPT ![w][s][a] = v]
      BY <2>1, ClassAssumption DEF Put
    <3> QED
      BY <2>1, <3>1 DEF dict, TypeOK
  <2>2. CASE s \notin Obj
    <3>1. PutClass(w, s, a, v) /\ s \in Class
      BY <2>2 DEF Subject
    <3>2. s = w => typeAttr'[w] = [typeAttr[w] EXCEPT ![a] = v]
      BY <3>1 DEF PutClass, TypeOK
    <3>3. s # w => shadow'[w][s] = [shadow[w][s] EXCEPT ![a] = v]
      <4>1. s # w => shadow' = [shadow EXCEPT ![w][s][a] = v]
        BY <3>1 DEF PutClass
      <4>2. shadow \in [Class -> [Class -> Entries]]
        BY DEF TypeOK
      <4> QED
        BY <3>1, <4>1, <4>2
    <3> QED
      BY <2>2, <3>2, <3>3 DEF dict
  <2> QED
    BY <2>1, <2>2
<1>4. dict' = [w2 \in Class |-> [s2 \in Subject |-> dict'[w2][s2]]]
  BY DEF dict
<1>5. [dict EXCEPT ![w][s][a] = v] =
        [w2 \in Class |-> [s2 \in Subject |->
           IF w2 = w /\ s2 = s THEN [dict[w][s] EXCEPT ![a] = v] ELSE dict[w2][s2]]]
  BY <1>1
<1> QED
  BY <1>2, <1>3, <1>4, <1>5 DEF Put

(* Deleting what is not there changes nothing.                             *)
LEMMA DictAbsent ==
  ASSUME TypeOK, NEW w \in Class, NEW s \in Subject, NEW a \in Attr, dict[w][s][a] = Absent
  PROVE  Put(dict, w, s, a, Absent) = dict
<1>1. dict \in [Class -> [Subject -> [Attr -> Value \cup {Absent}]]]
  BY DictType DEF Entries
<1> QED
  BY <1>1 DEF Put

(* A data descriptor of the instance's class takes over a store.           *)
LEMMA InterceptsIsHasSet ==
  ASSUME Below, NEW w \in Class, NEW o \in Obj, NEW a \in Attr, w \in Nodes[ClassOf[o]]
  PROVE  /\ FinalAttr(World(w), w, ClassOf[o], a) = Space!MroValue(w, ClassOf[o], a)
         /\ Space!Intercepts(w, o, a) <=> HasSet(FinalAttr(World(w), w, ClassOf[o], a))
<1>1. FinalAttr(World(w), w, ClassOf[o], a) = Space!MroValue(w, ClassOf[o], a)
  BY ClassAssumption, FinalIsMroValue
<1> QED
  BY <1>1 DEF Space!Intercepts, Space!IsKind, HasSet

LEMMA SetInstanceRefines ==
  ASSUME TypeOK, Below, NEW k \in Code \cup {NoCode}, NEW w \in Class, NEW o \in Obj,
         NEW a \in Attr, NEW v \in InstanceValue, SetInstance(k, w, o, a, v)
  PROVE  Space!Access
<1> DEFINE cv == FinalAttr(World(w), w, ClassOf[o], a)
<1>1. v \in Value /\ o \in Subject /\ TypeOf(o) = ClassOf[o] /\ ClassOf[o] \in Class
  BY ClassAssumption, ValueAssumption DEF Subject, TypeOf
<1>2. Owns(w, TypeOf(o), a, k) /\ attrSet' = attrSet /\ typeAttr' = typeAttr /\ shadow' = shadow
  BY <1>1 DEF SetInstance
<1>3. cv = Space!MroValue(w, ClassOf[o], a) /\ (Space!Intercepts(w, o, a) <=> HasSet(cv))
  BY <1>1, <1>2, OwnerFound, InterceptsIsHasSet
<1> DEFINE r == [op |-> "set", code |-> k, subject |-> o, attr |-> a, value |-> v]
<1>4. r.op = "set" /\ r.subject = o /\ r.attr = a /\ r.value = v
  OBVIOUS
<1> HIDE DEF r
<1>5. CASE HasSet(cv)
  <2>1. Answered("set", k, o, a, v, Called("__set__", cv, o)) /\ objAttr' = objAttr
    BY <1>5 DEF SetInstance
  <2>2. Reported' = <<"__set__", cv>>
    BY <2>1, ReportedOf, ToldOf
  <2>3. dict' = dict
    BY <1>2, <2>1 DEF dict
  <2>4. Space!Store(r, w)
    BY <1>1, <1>3, <1>4, <1>5, <2>2, <2>3 DEF Space!Store, Put
  <2> QED
    BY <1>1, <1>2, <2>1, <2>4, AccessStep DEF r
<1>6. CASE ~HasSet(cv)
  <2>1. Answered("set", k, o, a, v, Done) /\ objAttr' = Put(objAttr, w, o, a, v)
    BY <1>6 DEF SetInstance, Put
  <2>2. Reported' = Space!Done
    BY <2>1, ReportedOf, ToldOf
  <2>3. dict' = Put(dict, w, o, a, v)
    <3>1. v \in Value \cup {Absent} /\ o \in Obj /\ typeAttr' = typeAttr /\ shadow' = shadow
      BY <1>1, <1>2
    <3> QED
      BY <1>1, <2>1, <3>1, DictPut
  <2>4. Space!Store(r, w)
    BY <1>1, <1>3, <1>4, <1>6, <2>2, <2>3 DEF Space!Store, Put
  <2> QED
    BY <1>1, <1>2, <2>1, <2>4, AccessStep DEF r
<1> QED
  BY <1>5, <1>6

LEMMA DelInstanceRefines ==
  ASSUME TypeOK, Below, NEW k \in Code \cup {NoCode}, NEW w \in Class, NEW o \in Obj,
         NEW a \in Attr, DelInstance(k, w, o, a)
  PROVE  Space!Access
<1> DEFINE cv == FinalAttr(World(w), w, ClassOf[o], a)
           r == [op |-> "delete", code |-> k, subject |-> o, attr |-> a, value |-> Absent]
<1>1. o \in Subject /\ TypeOf(o) = ClassOf[o] /\ ClassOf[o] \in Class
  BY ClassAssumption DEF Subject, TypeOf
<1>2. Owns(w, TypeOf(o), a, k) /\ attrSet' = attrSet /\ typeAttr' = typeAttr /\ shadow' = shadow
  BY <1>1 DEF DelInstance
<1>3. cv = Space!MroValue(w, ClassOf[o], a) /\ (Space!Intercepts(w, o, a) <=> HasSet(cv))
  BY <1>1, <1>2, OwnerFound, InterceptsIsHasSet
<1>4. r.op = "delete" /\ r.subject = o /\ r.attr = a
  OBVIOUS
<1>5. dict[w][o][a] = objAttr[w][o][a]
  BY DictEntries
<1> HIDE DEF r
<1>6. CASE HasSet(cv)
  <2>1. Answered("delete", k, o, a, Absent, Called("__delete__", cv, cv)) /\ objAttr' = objAttr
    BY <1>6 DEF DelInstance
  <2>2. Reported' = <<"__delete__", cv>>
    BY <2>1, ReportedOf, ToldOf
  <2>3. dict' = dict
    BY <1>2, <2>1 DEF dict
  <2>4. Space!Delete(r, w)
    BY <1>3, <1>4, <1>6, <2>2, <2>3 DEF Space!Delete, Put
  <2> QED
    BY <1>1, <1>2, <2>1, <2>4, AccessStep DEF r
<1>7. CASE ~HasSet(cv) /\ objAttr[w][o][a] = Absent
  <2>1. Answered("delete", k, o, a, Absent, ErrorSetButOk) /\ objAttr' = objAttr
    BY <1>7 DEF DelInstance
  <2>2. Reported' = Space!Missing
    BY <2>1, ReportedOf, ToldOf
  <2>3. dict' = Put(dict, w, o, a, Absent)
    <3>1. dict' = dict
      BY <1>2, <2>1 DEF dict
    <3> QED
      BY <1>1, <1>5, <1>7, <3>1, DictAbsent
  <2>4. Space!Delete(r, w)
    BY <1>3, <1>4, <1>5, <1>7, <2>2, <2>3 DEF Space!Delete, Put
  <2> QED
    BY <1>1, <1>2, <2>1, <2>4, AccessStep DEF r
<1>8. CASE ~HasSet(cv) /\ objAttr[w][o][a] # Absent
  <2>1. Answered("delete", k, o, a, Absent, Done) /\ objAttr' = Put(objAttr, w, o, a, Absent)
    BY <1>8 DEF DelInstance, Erased, Put
  <2>2. Reported' = Space!Done
    BY <2>1, ReportedOf, ToldOf
  <2>3. dict' = Put(dict, w, o, a, Absent)
    <3>1. Absent \in Value \cup {Absent} /\ o \in Obj /\ typeAttr' = typeAttr /\ shadow' = shadow
      BY <1>1, <1>2
    <3> QED
      BY <1>1, <2>1, <3>1, DictPut
  <2>4. Space!Delete(r, w)
    BY <1>3, <1>4, <1>5, <1>8, <2>2, <2>3 DEF Space!Delete, Put
  <2> QED
    BY <1>1, <1>2, <2>1, <2>4, AccessStep DEF r
<1> QED
  BY <1>6, <1>7, <1>8

LEMMA SetClassRefines ==
  ASSUME TypeOK, NEW k \in Code \cup {NoCode}, NEW w \in Class, NEW c \in Class,
         NEW a \in Attr, NEW v \in ClassValue, SetClass(k, w, c, a, v)
  PROVE  Space!Access
<1> DEFINE r == [op |-> "set", code |-> k, subject |-> c, attr |-> a, value |-> v]
<1>1. v \in Value /\ c \in Subject /\ c \notin Obj /\ TypeOf(c) = c
  BY ClassAssumption, ValueAssumption DEF Subject, TypeOf
<1>2. /\ Owns(w, TypeOf(c), a, k) /\ attrSet' = attrSet /\ objAttr' = objAttr
      /\ PutClass(w, c, a, v) /\ Answered("set", k, c, a, v, Done)
  BY <1>1 DEF SetClass
<1>3. r.op = "set" /\ r.subject = c /\ r.attr = a /\ r.value = v
  OBVIOUS
<1> HIDE DEF r
<1>4. Reported' = Space!Done
  BY <1>2, ReportedOf, ToldOf
<1>5. dict' = Put(dict, w, c, a, v)
  BY <1>1, <1>2, DictPut
<1>6. ~Space!Intercepts(w, c, a)
  BY <1>1 DEF Space!Intercepts
<1>7. Space!Store(r, w)
  BY <1>1, <1>3, <1>4, <1>5, <1>6 DEF Space!Store, Put
<1> QED
  BY <1>1, <1>2, <1>7, AccessStep DEF r

LEMMA DelClassRefines ==
  ASSUME TypeOK, NEW k \in Code \cup {NoCode}, NEW w \in Class, NEW c \in Class,
         NEW a \in Attr, DelClass(k, w, c, a)
  PROVE  Space!Access
<1> DEFINE r == [op |-> "delete", code |-> k, subject |-> c, attr |-> a, value |-> Absent]
<1>1. c \in Subject /\ c \notin Obj /\ TypeOf(c) = c
  BY ClassAssumption DEF Subject, TypeOf
<1>2. Owns(w, TypeOf(c), a, k) /\ attrSet' = attrSet /\ objAttr' = objAttr
  BY <1>1 DEF DelClass
<1>3. r.op = "delete" /\ r.subject = c /\ r.attr = a
  OBVIOUS
<1>4. ~Space!Intercepts(w, c, a)
  BY <1>1 DEF Space!Intercepts
<1>5. dict[w][c][a] = ClassEntry(World(w), w, c)[a]
  BY DictEntries
<1> HIDE DEF r
<1>6. CASE ClassEntry(World(w), w, c)[a] = Absent
  <2>1. Answered("delete", k, c, a, Absent, AttributeError) /\ typeAttr' = typeAttr /\ shadow' = shadow
    BY <1>6 DEF DelClass
  <2>2. Reported' = Space!Missing
    BY <2>1, ReportedOf, ToldOf DEF Space!Missing
  <2>3. dict' = Put(dict, w, c, a, Absent)
    <3>1. dict' = dict
      BY <1>2, <2>1 DEF dict
    <3> QED
      BY <1>1, <1>5, <1>6, <3>1, DictAbsent
  <2>4. Space!Delete(r, w)
    BY <1>3, <1>4, <1>5, <1>6, <2>2, <2>3 DEF Space!Delete, Put
  <2> QED
    BY <1>1, <1>2, <2>1, <2>4, AccessStep DEF r
<1>7. CASE ClassEntry(World(w), w, c)[a] # Absent
  <2>1. Answered("delete", k, c, a, Absent, Done) /\ PutClass(w, c, a, Absent)
    BY <1>7 DEF DelClass, Erased
  <2>2. Reported' = Space!Done
    BY <2>1, ReportedOf, ToldOf
  <2>3. dict' = Put(dict, w, c, a, Absent)
    <3>1. Absent \in Value \cup {Absent}
      OBVIOUS
    <3> QED
      BY <1>1, <1>2, <2>1, <3>1, DictPut
  <2>4. Space!Delete(r, w)
    BY <1>3, <1>4, <1>5, <1>7, <2>2, <2>3 DEF Space!Delete, Put
  <2> QED
    BY <1>1, <1>2, <2>1, <2>4, AccessStep DEF r
<1> QED
  BY <1>6, <1>7

LEMMA HangRefines ==
  ASSUME NEW s \in Obj, Hang(s)
  PROVE  Space!Hang(s)
<1>1. Asked' = [op |-> "hang", subject |-> s]
  BY AskedSubject DEF Hang
<1>2. attrSet' = attrSet /\ dict' = dict
  BY DEF Hang, tables, dict
<1> QED
  BY <1>1, <1>2 DEF Space!Hang

(* A class statement: what it refuses and what it leaves in the namespace  *)
(* of the class it makes.                                                  *)
LEMMA InheritedNames ==
  ASSUME NEW c \in Class, NEW d \in Definition[c], Nodes[c] \ {c} \subseteq Created
  PROVE  /\ Space!Above(c) = Nodes[c]
         /\ \A a : a \in UNION {attrSet[p] : p \in Nodes[c] \ {c}} <=>
                     \E p \in Nodes[c] \ {c} : IsTypePrivate(p, a)
         /\ Refused(c, d) <=>
              ~({a \in Attr : d.body[a] # Absent} \cap UNION {attrSet[p] : p \in Nodes[c] \ {c}}
                  \subseteq PrivateNames(c, d))
<1> DEFINE inherited == UNION {attrSet[p] : p \in Nodes[c] \ {c}}
<1>1. Space!Above(c) = Nodes[c]
  BY DEF Space!Above, Nodes
<1>2. \A a : a \in inherited <=> \E p \in Nodes[c] \ {c} : IsTypePrivate(p, a)
  BY DEF IsTypePrivate
<1>3. PrivateNames(c, d) = d.declares \cup (IF d.use_parents THEN inherited ELSE {})
  BY DEF PrivateNames
<1> HIDE DEF inherited
<1>4. Refused(c, d) <=>
        \E a \in Attr : d.body[a] # Absent /\ a \in inherited /\ a \notin PrivateNames(c, d)
  BY <1>2, <1>3 DEF Refused, Inherited
<1>5. Refused(c, d) <=>
        ~({a \in Attr : d.body[a] # Absent} \cap inherited \subseteq PrivateNames(c, d))
  BY <1>4
<1> QED
  BY <1>1, <1>2, <1>5 DEF inherited

LEMMA ClassNames ==
  ASSUME NEW c \in Class, NEW d \in Definition[c], Nodes[c] \ {c} \subseteq Created, ~Refused(c, d)
  PROVE  OwnBody(c, d) = [a \in Attr |-> IF a \in PrivateNames(c, d) THEN d.body[a] ELSE Absent]
<1> SUFFICES ASSUME NEW a \in Attr
             PROVE  (IF a \in d.declares \/ Inherited(c, d, a) THEN d.body[a] ELSE Absent)
                      = (IF a \in PrivateNames(c, d) THEN d.body[a] ELSE Absent)
  BY DEF OwnBody
<1> DEFINE inherited == UNION {attrSet[p] : p \in Nodes[c] \ {c}}
<1>1. a \in inherited <=> \E p \in Nodes[c] \ {c} : IsTypePrivate(p, a)
  BY InheritedNames
<1>2. a \in PrivateNames(c, d) <=> a \in d.declares \/ (d.use_parents /\ a \in inherited)
  BY DEF PrivateNames
<1> HIDE DEF inherited
<1>3. CASE d.body[a] = Absent
  BY <1>3
<1>4. CASE d.body[a] # Absent
  <2>1. Inherited(c, d, a) => d.use_parents
    BY <1>4 DEF Refused
  <2>2. Inherited(c, d, a) <=> a \notin d.declares /\ a \in inherited
    BY <1>1 DEF Inherited
  <2> QED
    BY <1>2, <2>1, <2>2
<1> QED
  BY <1>3, <1>4

(* install puts the body's values in the class's namespace, which was      *)
(* empty: no table holds a name its class does not declare.                *)
LEMMA NamespaceMade ==
  ASSUME TypeOK, NoOrphans, NEW c \in Class, NEW d \in Definition[c], CreateClass(c, d)
  PROVE  dict' = [dict EXCEPT ![c][c] = OwnBody(c, d)]
<1>1. dict \in [Class -> [Subject -> Entries]]
  BY DictType
<1>2. c \notin Created /\ c \in Subject /\ c \notin Obj
  BY ClassAssumption DEF CreateClass, Subject
<1>3. /\ typeAttr' = [typeAttr EXCEPT ![c] = OwnBody(c, d)]
      /\ shadow' = [shadow EXCEPT ![c] = [s \in Class |-> NoAttrs]]
      /\ objAttr' = [objAttr EXCEPT ![c] = [o \in Obj |-> NoAttrs]]
  BY DEF CreateClass
<1>4. ASSUME NEW w \in Class, NEW s \in Subject, w # c
      PROVE  dict'[w][s] = dict[w][s]
  BY <1>3, <1>4 DEF dict, TypeOK
<1>5. ASSUME NEW e \in Entries, \A a \in Attr : e[a] = Absent
      PROVE  e = NoAttrs
  BY <1>5 DEF Entries, NoAttrs
<1>6. ASSUME NEW s \in Subject, s # c
      PROVE  dict'[c][s] = dict[c][s]
  <2>1. CASE s \in Obj
    <3>1. objAttr[c][s] \in Entries /\ \A a \in Attr : objAttr[c][s][a] = Absent
      BY <1>2, <2>1 DEF NoOrphans, TypeOK
    <3>2. objAttr'[c][s] = NoAttrs
      BY <1>3, <2>1 DEF TypeOK
    <3> QED
      BY <1>5, <2>1, <3>1, <3>2 DEF dict
  <2>2. CASE s \notin Obj
    <3>1. s \in Class
      BY <2>2 DEF Subject
    <3>2. shadow[c][s] \in Entries /\ \A a \in Attr : shadow[c][s][a] = Absent
      BY <1>2, <3>1 DEF NoOrphans, TypeOK
    <3>3. shadow'[c][s] = NoAttrs
      BY <1>3, <3>1 DEF TypeOK
    <3> QED
      BY <1>5, <1>6, <2>2, <3>2, <3>3 DEF dict
  <2> QED
    BY <2>1, <2>2
<1>7. dict'[c][c] = OwnBody(c, d)
  BY <1>2, <1>3 DEF dict, TypeOK
<1>8. dict' = [w \in Class |-> [s \in Subject |-> dict'[w][s]]]
  BY DEF dict
<1>9. [dict EXCEPT ![c][c] = OwnBody(c, d)] =
        [w \in Class |-> [s \in Subject |->
           IF w = c /\ s = c THEN OwnBody(c, d) ELSE dict[w][s]]]
  BY <1>1, <1>2
<1> QED
  BY <1>4, <1>6, <1>7, <1>8, <1>9

LEMMA ClassRefines ==
  ASSUME TypeOK, NoOrphans, NEW c \in Class, NEW d \in Definition[c],
         CreateClass(c, d) \/ RefuseClass(c, d)
  PROVE  Space!MakeClass(c, d)
<1> DEFINE inherited == UNION {attrSet[p] : p \in Nodes[c] \ {c}}
           given == {a \in Attr : d.body[a] # Absent}
           holds == PrivateNames(c, d)
<1>1. /\ c \notin DOMAIN attrSet /\ Nodes[c] \ {c} \subseteq DOMAIN attrSet
      /\ Nodes[c] \ {c} \subseteq Created
  BY DEF CreateClass, RefuseClass, Created
<1>2. Space!Above(c) = Nodes[c] /\ (Refused(c, d) <=> ~(given \cap inherited \subseteq holds))
  BY <1>1, InheritedNames
<1>3. holds = d.declares \cup (IF d.use_parents THEN inherited ELSE {})
  BY DEF PrivateNames
<1>4. Asked' = [op |-> "class", subject |-> c]
  BY AskedSubject DEF CreateClass, RefuseClass, AnsweredClass
<1>5. CASE CreateClass(c, d)
  <2>1. given \cap inherited \subseteq holds
    BY <1>2, <1>5 DEF CreateClass
  <2>2. attrSet' = [x \in DOMAIN attrSet \cup {c} |-> IF x = c THEN holds ELSE attrSet[x]]
    BY <1>5 DEF CreateClass, Created
  <2>3. dict' = [dict EXCEPT ![c][c] = [a \in Attr |-> IF a \in holds THEN d.body[a] ELSE Absent]]
    BY <1>1, <1>5, NamespaceMade, ClassNames DEF CreateClass
  <2>4. Reported' = Space!Done
    <3>1. Reported' = Told(Done)
      BY <1>5 DEF CreateClass, AnsweredClass, Reported, Told, AttributeError, ErrorSetButOk
    <3> QED
      BY <3>1, ToldOf
  <2> HIDE DEF inherited, given, holds
  <2> QED
    BY <1>1, <1>2, <1>3, <1>4, <2>1, <2>2, <2>3, <2>4
    DEF Space!MakeClass, inherited, given
<1>6. CASE RefuseClass(c, d)
  <2>1. ~(given \cap inherited \subseteq holds)
    BY <1>2, <1>6 DEF RefuseClass
  <2>2. attrSet' = attrSet /\ dict' = dict
    BY <1>6 DEF RefuseClass, tables, dict
  <2>3. Reported' = <<"TypeError">>
    <3>1. Reported' = Told(TypeError)
      BY <1>6 DEF RefuseClass, AnsweredClass, Reported, Told, AttributeError, ErrorSetButOk
    <3> QED
      BY <3>1, ToldOf
  <2> HIDE DEF inherited, given, holds
  <2> QED
    BY <1>1, <1>2, <1>3, <1>4, <2>1, <2>2, <2>3
    DEF Space!MakeClass, inherited, given
<1> QED
  BY <1>5, <1>6

LEMMA SpaceInit == Init => Space!Init
<1> SUFFICES ASSUME Init PROVE Space!Init
  OBVIOUS
<1>1. dict = [w \in Class |-> [s \in Subject |-> [a \in Attr |-> Absent]]]
  <2>1. ASSUME NEW w \in Class, NEW s \in Subject
        PROVE  (IF s \in Obj THEN objAttr[w][s] ELSE IF s = w THEN typeAttr[w] ELSE shadow[w][s])
                 = [a \in Attr |-> Absent]
    BY DEF Init, NoAttrs, Subject
  <2> QED
    BY <2>1 DEF dict
<1>2. Asked = [op |-> "import"]
  <2>1. last = [op |-> "import", reply |-> Done]
    BY DEF Init
  <2>2. DOMAIN last \ {"reply"} = {"op"}
    BY <2>1
  <2>3. Asked = [f \in {"op"} |-> last[f]]
    BY <2>2 DEF Asked
  <2> QED
    BY <2>1, <2>3
<1>3. Reported = Space!Done
  <2>1. Reported = Told(Done)
    BY DEF Init, Reported, Told, AttributeError, ErrorSetButOk
  <2> QED
    BY <2>1, ToldOf
<1>4. Space!Subject = Subject
  BY DEF Space!Subject, Subject
<1> QED
  BY <1>1, <1>2, <1>3, <1>4 DEF Init, Space!Init

LEMMA SpaceStep ==
  ASSUME TypeOK, NoOrphans, Below, [Next]_vars
  PROVE  [Space!Next]_(Space!vars)
<1>1. ASSUME NEW k \in Code \cup {NoCode}, CodeStep(k)
      PROVE  Space!Access
  <2>1. ASSUME NEW s \in Subject, NEW a \in Attr,
               \/ GetAttr(k, s, a)
               \/ DenyChange(k, s, a)
               \/ \E v \in InstanceValue \cup {Absent} : ChangePublic(k, s, a, v)
        PROVE  Space!Access
    BY <2>1, GetRefines, DenyRefines, PublicRefines
  <2>2. ASSUME NEW w \in Class, NEW o \in Obj, NEW a \in Attr,
               (\E v \in InstanceValue : SetInstance(k, w, o, a, v)) \/ DelInstance(k, w, o, a)
        PROVE  Space!Access
    BY <2>2, SetInstanceRefines, DelInstanceRefines
  <2>3. ASSUME NEW w \in Class, NEW c \in Class, NEW a \in Attr,
               (\E v \in ClassValue : SetClass(k, w, c, a, v)) \/ DelClass(k, w, c, a)
        PROVE  Space!Access
    BY <2>3, SetClassRefines, DelClassRefines
  <2> QED
    BY <1>1, <2>1, <2>2, <2>3 DEF CodeStep
<1>2. ASSUME NEW s \in Obj, Hang(s) PROVE Space!Next
  BY <1>2, HangRefines DEF Space!Next
<1>3. ASSUME NEW c \in Class, NEW d \in Definition[c], CreateClass(c, d) \/ RefuseClass(c, d)
      PROVE  Space!Next
  BY <1>3, ClassRefines DEF Space!Next
<1>4. ASSUME UNCHANGED vars PROVE UNCHANGED Space!vars
  BY <1>4 DEF vars, Space!vars, dict, Asked, Reported
<1> QED
  BY <1>1, <1>2, <1>3, <1>4 DEF Next, Space!Next

(* However classes, subclasses and instances share names, code and values, *)
(* the tables are one ordinary __dict__ per class and subject, opened only *)
(* to the code of the class: each access and each class statement has the  *)
(* effect and the answer the namespaces give it.                           *)
THEOREM ImplementsNamespaces == Spec => SpaceSpec
<1>1. TypeOK /\ NoOrphans /\ Below /\ [Next]_vars => [Space!Next]_(Space!vars)
  BY SpaceStep
<1> QED
  BY <1>1, TypeCorrect, ValuesDeclared, AlwaysBelow, SpaceInit, PTL
  DEF Spec, SpaceSpec, Space!Spec
=============================================================================
