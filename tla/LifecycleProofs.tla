--------------------------- MODULE LifecycleProofs ---------------------------
(***************************************************************************)
(* Proofs about ObjectLifecycle and ClassLifecycle for any classes and     *)
(* bounds.  The inductive invariant follows an object through its          *)
(* finalizer: what it still has in the tables is under its type and its    *)
(* parents, then under the classes left to erase, and then nowhere, unless *)
(* its history says it left data behind.  For the values of a live object  *)
(* it counts references: without a finalizer that drops one, only a new    *)
(* reference lets an object live on, and then its own finalizer kept the   *)
(* values.                                                                 *)
(***************************************************************************)
EXTENDS ClassLifecycle, TLAPS

Leaver == "leaves" \in marks[birth]
Loser == "loses" \in marks[birth]
SomeLeaver == \E b \in Birth : "leaves" \in marks[b]

ToErase(w) == \E i \in 1..Len(frame.todo) : frame.todo[i] = w

Shape ==
  /\ phase # "free" => birth \in Birth
  /\ phase \in {"finalizer", "erasing"} => finalized
  /\ phase = "finalizer" => frame.caller # "tp_clear"
  /\ phase = "finalizer" /\ ~Leaver => frame.type = type /\ Refs <= frame.refs
  /\ phase = "erasing" /\ frame.value => frame.todo # <<>>

(* Where a table may have an entry for the address, unless some object     *)
(* left data behind.                                                       *)
Some(w) == entry[w] # NoEntry \/ w \in mutex

Swept ==
  ~SomeLeaver =>
    /\ \A w \in Class : Some(w) => phase # "free" /\ w \in Chain(type)
    /\ names => phase # "free"
    /\ phase \in {"live", "garbage"} /\ finalized => ~names /\ \A w \in Class : ~Some(w)
    /\ phase = "erasing" => \A w \in Class : Some(w) => ToErase(w)
    /\ phase = "erasing" /\ frame.value => entry[Head(frame.todo)] = NoEntry

(* Values of an earlier object are there only if it left them, ...         *)
Owned ==
  \A w \in Class : entry[w] \in Birth =>
    /\ entry[w] <= birth
    /\ phase = "free" \/ entry[w] # birth => "leaves" \in marks[entry[w]]

(* ... and those of the object that lives here where the code will look.   *)
Traced ==
  phase # "free" /\ ~Leaver =>
    /\ \A w \in Class : entry[w] = birth => w \in Chain(type)
    /\ phase \in {"live", "garbage"} /\ finalized => \A w \in Class : entry[w] # birth
    /\ phase = "erasing" => \A w \in Class : entry[w] = birth => ToErase(w)
    /\ phase = "erasing" /\ frame.value => entry[Head(frame.todo)] # birth

(* The references without which the values are kept.                       *)
KeepsAll == \A w \in wrote : entry[w] = birth

Counted ==
  phase # "free" /\ ~Loser =>
    /\ phase = "live" => KeepsAll
    /\ phase = "finalizer" =>
         /\ KeepsAll
         /\ frame.caller = "dealloc" => frame.refs = 0
         /\ frame.caller = "collector" => cycle /\ frame.refs = 1
    /\ phase = "garbage" => (roots = 0 \/ (finalized /\ KeepsAll)) /\ (finalized \/ KeepsAll)
    /\ phase = "erasing" =>
         /\ frame.caller = "dealloc" => Refs = 0
         /\ frame.caller = "collector" => roots = 0

ObjInv == ObjectTypeOK /\ Shape /\ Swept /\ Owned /\ Traced /\ Counted

(* The classes that exist.                                                 *)
Standing ==
  /\ phase # "free" => Usable(type)
  /\ \A w \in wrote \cap Mortal : class[w] \in {"live", "cleared"}

(* What the tables of a class address hold, ...                            *)
RegisteredAt(c) ==
  /\ class[c] # "free" => generation[c] \in Generation
  /\ attrSet[c] = None => own[c] = {} /\ shadow[c] = {}
  /\ class[c] \in {"free", "cleared"} => own[c] = {} /\ shadow[c] = {}
  /\ \A x \in {attrSet[c], needCall[c]} :
       \/ x = None \/ (x = generation[c] /\ class[c] # "free")
       \/ \E g \in 1..generation[c] :
            meta[c][g] = "registered" /\ (class[c] # "free" => g < generation[c])

CleanAt(c) == Alive(c) => (own[c] \cup shadow[c]) \subseteq {generation[c]}

(* ... and what is left there after classes of the native metaclass.       *)
ForgottenAt(c) ==
  (class[c] = "free" /\ \A g \in 1..generation[c] : meta[c][g] = "native") =>
    attrSet[c] = None /\ needCall[c] = None /\ own[c] = {} /\ shadow[c] = {} /\ ~Some(c)

ClassAt(c) == RegisteredAt(c) /\ CleanAt(c) /\ ForgottenAt(c)

ClassInv == \A c \in Mortal : ClassAt(c)

IInv == TypeOK /\ ObjInv /\ Standing /\ ClassInv

(* ---------------------------- sequences -------------------------------- *)

LEMMA TodoIsChain ==
  ASSUME NEW c \in Class
  PROVE  /\ Todo(c) \in Seq(Class)
         /\ \A w \in Chain(c) : \E i \in 1..Len(Todo(c)) : Todo(c)[i] = w
<1>1. Parents[c] \in Seq(Class)
  BY LifecycleAssumption
<1>2. Todo(c) \in Seq(Class) /\ Len(Todo(c)) = 1 + Len(Parents[c]) /\ Todo(c)[1] = c
      /\ \A i \in 1..Len(Parents[c]) : Todo(c)[i + 1] = Parents[c][i]
  BY <1>1 DEF Todo
<1>3. ASSUME NEW i \in DOMAIN Parents[c]
      PROVE  \E j \in 1..Len(Todo(c)) : Todo(c)[j] = Parents[c][i]
  <2>1. i \in 1..Len(Parents[c]) /\ i + 1 \in 1..Len(Todo(c)) /\ Todo(c)[i + 1] = Parents[c][i]
    BY <1>1, <1>2
  <2> QED
    BY <2>1
<1>4. 1 \in 1..Len(Todo(c))
  BY <1>1, <1>2
<1> QED
  BY <1>2, <1>3, <1>4 DEF Chain

LEMMA HeadOrTail ==
  ASSUME NEW s \in Seq(Class), s # <<>>
  PROVE  /\ Head(s) \in Class /\ Tail(s) \in Seq(Class)
         /\ \A i \in 1..Len(s) : s[i] = Head(s) \/ \E j \in 1..Len(Tail(s)) : Tail(s)[j] = s[i]
<1>1. Head(s) = s[1] /\ Head(s) \in Class /\ Tail(s) \in Seq(Class) /\ Len(Tail(s)) = Len(s) - 1
      /\ \A j \in 1..Len(Tail(s)) : Tail(s)[j] = s[j + 1]
  OBVIOUS
<1>2. ASSUME NEW i \in 1..Len(s), i # 1
      PROVE  \E j \in 1..Len(Tail(s)) : Tail(s)[j] = s[i]
  <2>1. i - 1 \in 1..Len(Tail(s)) /\ (i - 1) + 1 = i
    BY <1>1, <1>2
  <2> QED
    BY <1>1, <2>1
<1> QED
  BY <1>1, <1>2

LEMMA Distinct ==
  /\ Empty \notin Birth /\ NoEntry \notin Birth /\ Empty # NoEntry
  /\ Birth \subseteq Nat /\ MaxBirth \in Nat /\ MaxRoots \in Nat \ {0}
  /\ NoFrame \in Frame
<1>1. PICK c \in Class : NoFrame = [caller |-> "dealloc", refs |-> 0, type |-> c, todo |-> <<>>, value |-> FALSE]
  BY LifecycleAssumption DEF NoFrame
<1>2. <<>> \in Seq(Class) /\ 0 \in 0..(MaxRoots + 1)
  BY LifecycleAssumption
<1>3. NoFrame \in Frame
  BY <1>1, <1>2 DEF Frame, Caller
<1> QED
  BY <1>3, LifecycleAssumption DEF Birth

(* ------------------- the object and user code -------------------------- *)

LEMMA ObjectStart == ObjectInit => ObjInv
<1> SUFFICES ASSUME ObjectInit PROVE ObjInv
  OBVIOUS
<1> USE DEF ObjectInit
<1>1. ObjectTypeOK
  <2>1. marks \in [Birth -> SUBSET Mark] /\ entry \in [Class -> {NoEntry, Empty} \cup Birth]
    OBVIOUS
  <2>2. birth \in 0..MaxBirth /\ roots \in 0..MaxRoots
    BY LifecycleAssumption
  <2>3. type \in Class
    BY Distinct DEF Frame
  <2> QED
    BY <2>1, <2>2, <2>3, Distinct DEF ObjectTypeOK
<1>2. Shape /\ Swept /\ Owned /\ Traced /\ Counted
  BY Distinct DEF Shape, Swept, Some, Owned, Traced, Counted
<1> QED
  BY <1>1, <1>2 DEF ObjInv

LEMMA NewStep ==
  ASSUME ObjInv, NEW c \in Class, New(c)
  PROVE  ObjInv'
<1> USE DEF ObjInv, New, objectTables
<1>1. birth \in Nat /\ birth + 1 \in Birth /\ birth' = birth + 1 /\ MaxBirth \in Nat /\ MaxRoots \in Nat \ {0}
  BY LifecycleAssumption DEF ObjectTypeOK, Birth
<1>2. ObjectTypeOK'
  <2>1. birth' \in 0..MaxBirth /\ roots' \in 0..MaxRoots
    BY <1>1 DEF Birth
  <2>2. UNCHANGED <<frame, entry, mutex, names, marks>>
    OBVIOUS
  <2> QED
    BY <2>1, <2>2 DEF ObjectTypeOK
<1>3. Shape'
  BY <1>1 DEF Shape
<1>4. Swept'
  BY DEF Swept, Some, SomeLeaver
<1>5. \A w \in Class : entry[w] \in Birth => entry[w] <= birth /\ "leaves" \in marks[entry[w]]
  BY DEF Owned
<1>6. \A w \in Class : entry[w] # birth'
  BY <1>1, <1>5 DEF Birth
<1>7. Owned' /\ Traced'
  <2>1. phase' = "live" /\ finalized' = FALSE /\ entry' = entry /\ marks' = marks
    OBVIOUS
  <2>2. \A w \in Class : entry[w] \in Birth => entry[w] <= birth'
    <3> SUFFICES ASSUME NEW w \in Class, entry[w] \in Birth PROVE entry[w] <= birth'
      OBVIOUS
    <3>1. entry[w] \in Nat /\ entry[w] <= birth
      BY <1>5, Distinct
    <3> QED
      BY <1>1, <3>1
  <2> QED
    BY <1>5, <1>6, <2>1, <2>2 DEF Owned, Traced
<1>8. Counted'
  BY DEF Counted, KeepsAll
<1> QED
  BY <1>2, <1>3, <1>4, <1>7, <1>8

(* Marks only grow, and only those of the object that lives.               *)
LEMMA MarkedGrows ==
  ASSUME ObjInv, phase # "free", NEW m \in SUBSET Mark, Marked(m), birth' = birth
  PROVE  /\ birth \in Birth
         /\ marks' \in [Birth -> SUBSET Mark]
         /\ \A b \in Birth : marks[b] \subseteq marks'[b]
         /\ marks'[birth] = marks[birth] \cup m
         /\ (SomeLeaver => SomeLeaver') /\ (Leaver => Leaver') /\ (Loser => Loser')
<1>1. /\ birth \in Birth
      /\ marks' \in [Birth -> SUBSET Mark]
      /\ \A b \in Birth : marks[b] \subseteq marks'[b]
      /\ marks'[birth] = marks[birth] \cup m
  BY DEF ObjInv, Shape, ObjectTypeOK, Marked
<1> QED
  BY <1>1 DEF SomeLeaver, Leaver, Loser

LEMMA ReadStep ==
  ASSUME ObjInv, Read
  PROVE  ObjInv'
<1> USE DEF ObjInv
<1>1. /\ phase # "free" /\ Marked(UseMark) /\ UseMark \in SUBSET Mark
      /\ entry' = [w \in Class |-> IF w \in Chain(type) /\ entry[w] = NoEntry THEN Empty ELSE entry[w]]
      /\ mutex' = mutex \cup Chain(type)
      /\ names' \in {names, TRUE}
      /\ UNCHANGED <<phase, birth, type, roots, cycle, finalized, frame, wrote>>
  BY DEF Read, UserCode, UseMark, Mark, objectState
<1>2. /\ birth \in Birth /\ marks' \in [Birth -> SUBSET Mark]
      /\ \A b \in Birth : marks[b] \subseteq marks'[b]
      /\ marks'[birth] = marks[birth] \cup UseMark
      /\ (SomeLeaver => SomeLeaver') /\ (Leaver => Leaver') /\ (Loser => Loser')
  BY <1>1, MarkedGrows
<1>3. Chain(type) \subseteq Class
  BY LifecycleAssumption DEF Chain, ObjectTypeOK
<1>4. ObjectTypeOK'
  BY <1>1, <1>2, <1>3 DEF ObjectTypeOK
<1>5. Shape'
  BY <1>1, <1>2 DEF Shape, Refs
<1>6. finalized /\ phase # "finalizer" => Leaver' /\ SomeLeaver'
  BY <1>1, <1>2 DEF UseMark, Leaver, SomeLeaver
<1>7. Swept'
  BY <1>1, <1>2, <1>3, <1>6 DEF Swept, Some, Shape, ToErase
<1>8. \A w \in Class : (entry'[w] \in Birth \/ entry[w] \in Birth) => entry'[w] = entry[w]
  BY <1>1, Distinct DEF ObjectTypeOK
<1>9. Owned'
  BY <1>1, <1>2, <1>8 DEF Owned
<1>10. Traced'
  BY <1>1, <1>2, <1>6, <1>8 DEF Traced, Shape
<1>11. Counted'
  BY <1>1, <1>2, <1>8 DEF Counted, KeepsAll, Refs, ObjectTypeOK
<1> QED
  BY <1>4, <1>5, <1>7, <1>9, <1>10, <1>11

LEMMA WriteStep ==
  ASSUME ObjInv, NEW w \in Class, Write(w)
  PROVE  ObjInv'
<1> USE DEF ObjInv
<1>1. /\ phase # "free" /\ w \in Chain(type) /\ Marked(UseMark) /\ UseMark \in SUBSET Mark
      /\ entry' = [entry EXCEPT ![w] = birth]
      /\ mutex' = mutex \cup {w} /\ names' = TRUE /\ wrote' = wrote \cup {w}
      /\ UNCHANGED <<phase, birth, type, roots, cycle, finalized, frame>>
  BY DEF Write, UserCode, UseMark, Mark, objectState
<1>2. /\ birth \in Birth /\ marks' \in [Birth -> SUBSET Mark]
      /\ \A b \in Birth : marks[b] \subseteq marks'[b]
      /\ marks'[birth] = marks[birth] \cup UseMark
      /\ (SomeLeaver => SomeLeaver') /\ (Leaver => Leaver') /\ (Loser => Loser')
  BY <1>1, MarkedGrows
<1>3. ObjectTypeOK'
  BY <1>1, <1>2 DEF ObjectTypeOK
<1>4. Shape'
  BY <1>1, <1>2 DEF Shape, Refs
<1>5. finalized /\ phase # "finalizer" => Leaver' /\ SomeLeaver'
  BY <1>1, <1>2 DEF UseMark, Leaver, SomeLeaver
<1>6. \A x \in Class : entry'[x] = IF x = w THEN birth ELSE entry[x]
  BY <1>1 DEF ObjectTypeOK
<1>7. Swept'
  BY <1>1, <1>2, <1>5, <1>6 DEF Swept, Some, Shape, ToErase
<1>8. Owned'
  <2>1. birth <= birth
    BY <1>2, Distinct
  <2> QED
    BY <1>1, <1>2, <1>6, <2>1 DEF Owned
<1>9. Traced'
  BY <1>1, <1>2, <1>5, <1>6 DEF Traced, Shape
<1>10. Counted'
  BY <1>1, <1>2, <1>6 DEF Counted, KeepsAll, Refs, ObjectTypeOK
<1> QED
  BY <1>3, <1>4, <1>7, <1>8, <1>9, <1>10

LEMMA AssignClassStep ==
  ASSUME ObjInv, NEW c \in Class, AssignClass(c)
  PROVE  ObjInv'
<1> USE DEF ObjInv
<1>1. /\ phase # "free" /\ Marked({"leaves"}) /\ {"leaves"} \in SUBSET Mark /\ type' = c
      /\ UNCHANGED <<phase, birth, roots, cycle, finalized, frame, entry, mutex, names, wrote>>
  BY DEF AssignClass, UserCode, Mark, objectTables
<1>2. /\ birth \in Birth /\ marks' \in [Birth -> SUBSET Mark]
      /\ \A b \in Birth : marks[b] \subseteq marks'[b]
      /\ marks'[birth] = marks[birth] \cup {"leaves"}
      /\ (Loser => Loser')
  BY <1>1, MarkedGrows
<1>3. Leaver' /\ SomeLeaver'
  BY <1>1, <1>2 DEF Leaver, SomeLeaver
<1>4. ObjectTypeOK'
  BY <1>1, <1>2 DEF ObjectTypeOK
<1>5. Shape' /\ Swept' /\ Traced'
  BY <1>1, <1>3 DEF Shape, Swept, Traced
<1>6. Owned' /\ Counted'
  BY <1>1, <1>2 DEF Owned, Counted, KeepsAll, Refs
<1> QED
  BY <1>4, <1>5, <1>6

LEMMA Counts ==
  ASSUME NEW r \in Nat, NEW b \in BOOLEAN
  PROVE  /\ r + Count(b) \in Nat
         /\ b => r + Count(b) = r + 1
         /\ ~b => r + Count(b) = r
<1>1. CASE b
  BY <1>1 DEF Count
<1>2. CASE ~b
  BY <1>2 DEF Count
<1> QED
  BY <1>1, <1>2

(* References: who makes or drops one decides what it is counted as.       *)
LEMMA RefStep ==
  ASSUME ObjInv, NEW m \in SUBSET Mark, phase # "free", Marked(m),
         UNCHANGED <<phase, birth, type, finalized, frame, entry, mutex, names, wrote>>,
         roots' \in 0..MaxRoots, cycle' \in BOOLEAN,
         Refs' > Refs /\ phase # "live" =>
           IF phase = "finalizer" THEN "leaves" \in m ELSE "loses" \in m,
         roots' > roots => Refs' > Refs,
         cycle /\ ~cycle' /\ phase = "finalizer" => "loses" \in m
  PROVE  ObjInv'
<1> USE DEF ObjInv
<1>2. /\ birth \in Birth /\ marks' \in [Birth -> SUBSET Mark]
      /\ \A b \in Birth : marks[b] \subseteq marks'[b]
      /\ marks'[birth] = marks[birth] \cup m
      /\ (SomeLeaver => SomeLeaver') /\ (Leaver => Leaver') /\ (Loser => Loser')
  BY MarkedGrows
<1>3. ObjectTypeOK'
  BY <1>2 DEF ObjectTypeOK
<1>4. /\ "leaves" \in m => Leaver'
      /\ "loses" \in m => Loser'
  BY <1>2 DEF Leaver, Loser
<1>5. Refs \in Nat /\ Refs' \in Nat /\ roots \in Nat /\ roots' \in Nat /\ frame.refs \in Nat
  <2>1. roots \in Nat /\ roots' \in Nat /\ cycle \in BOOLEAN /\ frame.refs \in Nat
    BY <1>3, Distinct DEF ObjectTypeOK, Frame
  <2>2. roots + Count(cycle) \in Nat /\ roots' + Count(cycle') \in Nat
    BY <2>1, Counts
  <2> QED
    BY <2>1, <2>2 DEF Refs
<1>6. Shape'
  BY <1>2, <1>4, <1>5 DEF Shape
<1>7. Swept' /\ Owned' /\ Traced'
  BY <1>2 DEF Swept, Some, ToErase, Owned, Traced
<1>8. Counted'
  <2> SUFFICES ASSUME phase # "free", ~Loser' PROVE Counted'
    BY DEF Counted
  <2>1. phase \in {"garbage", "erasing"} => Refs' <= Refs /\ roots' <= roots
    BY <1>4, <1>5
  <2>2. phase = "finalizer" /\ cycle => cycle'
    BY <1>4
  <2>3. KeepsAll' = KeepsAll
    BY DEF KeepsAll
  <2> QED
    BY <1>2, <1>5, <2>1, <2>2, <2>3 DEF Counted
<1> QED
  BY <1>3, <1>6, <1>7, <1>8

LEMMA MakeOrDropStep ==
  ASSUME ObjInv, MakeRef \/ DropRef
  PROVE  ObjInv'
<1> USE DEF ObjInv
<1>1. roots \in 0..MaxRoots /\ roots \in Nat /\ cycle \in BOOLEAN /\ MaxRoots \in Nat
  BY Distinct DEF ObjectTypeOK
<1> DEFINE n == Count(cycle)
<1>0. n \in {0, 1} /\ (cycle => n = 1) /\ (~cycle => n = 0) /\ Refs = roots + n
      /\ Count(TRUE) = 1 /\ Count(FALSE) = 0
  BY <1>1 DEF Count, Refs
<1> HIDE DEF n
<1>2. CASE MakeRef
  <2>1. phase # "free" /\ Marked(RefMark) /\ RefMark \in SUBSET Mark
        /\ UNCHANGED <<phase, birth, type, finalized, frame, entry, mutex, names, wrote>>
    BY <1>2 DEF MakeRef, UserCode, RefMark, Mark, objectTables
  <2>2. /\ roots' \in 0..MaxRoots /\ cycle' \in BOOLEAN
        /\ roots' > roots => Refs' > Refs
        /\ cycle => cycle'
    <3>1. CASE roots < MaxRoots /\ roots' = roots + 1 /\ cycle' = cycle
      <4>1. Refs' = (roots + 1) + n
        BY <3>1 DEF Refs, n
      <4> QED
        BY <1>0, <1>1, <3>1, <4>1
    <3>2. CASE ~cycle /\ cycle' = TRUE /\ roots' = roots
      BY <1>1, <3>2
    <3> QED
      BY <1>2, <3>1, <3>2 DEF MakeRef
  <2>3. phase # "live" => IF phase = "finalizer" THEN "leaves" \in RefMark ELSE "loses" \in RefMark
    BY DEF RefMark
  <2> QED
    BY <2>1, <2>2, <2>3, RefStep
<1>3. CASE DropRef
  <2> DEFINE m == IF phase = "finalizer" THEN {"loses"} ELSE {}
  <2>1. phase # "free" /\ Marked(m) /\ m \in SUBSET Mark
        /\ UNCHANGED <<phase, birth, type, finalized, frame, entry, mutex, names, wrote>>
    BY <1>3 DEF DropRef, UserCode, Mark, objectTables
  <2>2. roots' \in 0..MaxRoots /\ cycle' \in BOOLEAN /\ ~(Refs' > Refs) /\ ~(roots' > roots)
    <3>1. CASE roots > 0 /\ roots' = roots - 1 /\ cycle' = cycle
      <4>1. Refs' = (roots - 1) + n
        BY <3>1 DEF Refs, n
      <4>2. roots' \in 0..MaxRoots /\ ~(roots' > roots)
        BY <1>1, <3>1
      <4>3. (roots - 1) + n < roots + n
        BY <1>0, <1>1
      <4>4. ~(Refs' > Refs)
        BY <1>0, <1>1, <4>1, <4>3
      <4>5. cycle' \in BOOLEAN
        BY <1>1, <3>1
      <4> QED
        BY <4>2, <4>4, <4>5
    <3>2. CASE cycle /\ cycle' = FALSE /\ roots' = roots
      <4>1. Refs' = roots + 0
        BY <1>0, <3>2 DEF Refs
      <4>2. Refs = roots + 1 /\ cycle' \in BOOLEAN
        BY <1>0, <3>2
      <4>3. ~(Refs' > Refs)
        BY <1>1, <4>1, <4>2
      <4>4. roots' \in 0..MaxRoots /\ ~(roots' > roots)
        BY <1>1, <3>2
      <4> QED
        BY <4>2, <4>3, <4>4
    <3> QED
      BY <1>3, <3>1, <3>2 DEF DropRef
  <2>3. phase = "finalizer" => "loses" \in m
    OBVIOUS
  <2> HIDE DEF m
  <2> QED
    BY <2>1, <2>2, <2>3, RefStep
<1> QED
  BY <1>2, <1>3

(* ------------------------ finalizing and clearing ---------------------- *)

LEMMA RefsBound ==
  ASSUME ObjInv
  PROVE  /\ Refs \in 0..(MaxRoots + 1) /\ roots \in Nat /\ frame.refs \in Nat
         /\ cycle => Refs = roots + 1
         /\ ~cycle => Refs = roots
<1>1. roots \in 0..MaxRoots /\ cycle \in BOOLEAN /\ MaxRoots \in Nat /\ frame.refs \in 0..(MaxRoots + 1)
  BY Distinct DEF ObjInv, ObjectTypeOK, Frame
<1>2. roots \in Nat /\ frame.refs \in Nat
  BY <1>1
<1>3. /\ Refs \in Nat
      /\ cycle => Refs = roots + 1
      /\ ~cycle => Refs = roots
  BY <1>1, <1>2, Counts DEF Refs
<1>4. CASE cycle
  BY <1>1, <1>2, <1>3, <1>4
<1>5. CASE ~cycle
  BY <1>1, <1>2, <1>3, <1>5
<1> QED
  BY <1>4, <1>5

LEMMA EnterStep ==
  ASSUME ObjInv, NEW caller \in {"dealloc", "collector"}, Enter(caller),
         phase \in {"live", "garbage"}, ~finalized,
         caller = "dealloc" => Refs = 0,
         caller = "collector" => phase = "garbage" /\ Refs > 0
  PROVE  ObjInv'
<1> USE DEF ObjInv
<1>1. /\ phase' = "finalizer" /\ finalized' = TRUE
      /\ UNCHANGED <<birth, type, roots, cycle, entry, mutex, names, wrote, marks>>
  BY DEF Enter, objectTables
<1>2. frame' = [caller |-> caller, refs |-> Refs, type |-> type, todo |-> <<>>, value |-> FALSE]
  <2>1. PICK c : NoFrame = [caller |-> "dealloc", refs |-> 0, type |-> c, todo |-> <<>>, value |-> FALSE]
    BY DEF NoFrame
  <2> QED
    BY <2>1 DEF Enter
<1>3. Refs' = Refs /\ Leaver' = Leaver /\ Loser' = Loser /\ SomeLeaver' = SomeLeaver
  BY <1>1 DEF Refs, Leaver, Loser, SomeLeaver
<1>4. frame' \in Frame
  BY <1>2, RefsBound DEF Frame, Caller, ObjectTypeOK
<1>5. ObjectTypeOK'
  BY <1>1, <1>4 DEF ObjectTypeOK
<1>6. Refs' <= frame'.refs /\ frame'.type = type' /\ frame'.caller = caller
  BY <1>1, <1>2, <1>3, RefsBound
<1>7. Shape'
  BY <1>1, <1>6 DEF Shape
<1>8. Swept' /\ Owned' /\ Traced'
  BY <1>1, <1>3 DEF Swept, Some, Owned, Traced
<1>9. Counted'
  <2> SUFFICES ASSUME ~Loser PROVE Counted'
    BY <1>3 DEF Counted
  <2>1. KeepsAll'
    BY <1>1 DEF Counted, KeepsAll
  <2>2. caller = "collector" => cycle /\ Refs = 1
    <3> SUFFICES ASSUME caller = "collector" PROVE cycle /\ Refs = 1
      OBVIOUS
    <3>1. roots = 0 /\ Refs > 0
      BY DEF Counted
    <3> QED
      BY <3>1, RefsBound
  <2> QED
    BY <1>1, <1>2, <2>1, <2>2 DEF Counted
<1> QED
  BY <1>5, <1>7, <1>8, <1>9

(* An object that dies leaves only what its history explains.              *)
LEMMA FreeStep ==
  ASSUME ObjInv, phase # "free", phase' = "free",
         UNCHANGED <<birth, type, roots, finalized, entry, mutex, wrote, marks>>,
         cycle' \in BOOLEAN, frame' \in Frame, names' \in {names, FALSE},
         ~SomeLeaver => ~names' /\ \A w \in Class : ~Some(w),
         ~Leaver => \A w \in Class : entry[w] # birth
  PROVE  ObjInv'
<1> USE DEF ObjInv
<1>1. ObjectTypeOK'
  BY DEF ObjectTypeOK
<1>2. Shape'
  BY DEF Shape
<1>3. Swept'
  BY DEF Swept, Some, SomeLeaver
<1>4. Owned'
  BY DEF Owned, Leaver
<1>5. Traced' /\ Counted'
  BY DEF Traced, Counted
<1> QED
  BY <1>1, <1>2, <1>3, <1>4, <1>5

LEMMA DeallocStep ==
  ASSUME ObjInv, Dealloc
  PROVE  ObjInv'
<1>1. phase \in {"live", "garbage"} /\ Refs = 0 /\ finalized \in BOOLEAN
  BY DEF Dealloc, ObjInv, ObjectTypeOK
<1>2. CASE finalized
  <2>1. /\ phase' = "free"
        /\ UNCHANGED <<birth, type, roots, cycle, finalized, frame, entry, mutex, names, wrote, marks>>
    BY <1>2 DEF Dealloc, objectTables
  <2>2. cycle' \in BOOLEAN /\ frame' \in Frame
    BY <2>1 DEF ObjInv, ObjectTypeOK
  <2>3. /\ ~SomeLeaver => ~names' /\ \A w \in Class : ~Some(w)
        /\ ~Leaver => \A w \in Class : entry[w] # birth
    BY <1>1, <1>2, <2>1 DEF ObjInv, Swept, Traced
  <2> QED
    BY <1>1, <2>1, <2>2, <2>3, FreeStep
<1>3. CASE ~finalized
  <2>1. Enter("dealloc")
    BY <1>3 DEF Dealloc
  <2> QED
    BY <1>1, <1>3, <2>1, EnterStep
<1> QED
  BY <1>1, <1>2, <1>3

(* Erasing starts with all the classes under which the object has data.    *)
LEMMA EraseStep ==
  ASSUME ObjInv, NEW caller \in Caller, NEW c \in Class, Erase(caller, c),
         UNCHANGED <<birth, type, roots, cycle, finalized, entry, mutex, names, wrote, marks>>,
         phase # "free", finalized,
         ~Leaver => c = type,
         ~Loser => /\ caller = "dealloc" => Refs = 0
                   /\ caller = "collector" => roots = 0
  PROVE  ObjInv'
<1> USE DEF ObjInv
<1>1. phase' = "erasing"
      /\ frame' = [caller |-> caller, refs |-> Refs, type |-> c, todo |-> Todo(c), value |-> FALSE]
  BY DEF Erase
<1>2. Refs' = Refs /\ Leaver' = Leaver /\ Loser' = Loser /\ SomeLeaver' = SomeLeaver
  BY DEF Refs, Leaver, Loser, SomeLeaver
<1>3. frame' \in Frame
  BY <1>1, RefsBound, TodoIsChain DEF Frame
<1>4. ObjectTypeOK'
  BY <1>1, <1>3 DEF ObjectTypeOK
<1>5. Shape'
  BY <1>1 DEF Shape
<1>6. ~Leaver => \A w \in Chain(type) : ToErase(w)'
  BY <1>1, TodoIsChain DEF ToErase
<1>7. ~SomeLeaver => ~Leaver
  BY DEF Shape, SomeLeaver, Leaver
<1>8. Swept'
  BY <1>1, <1>2, <1>6, <1>7 DEF Swept, Some
<1>9. Owned' /\ Traced'
  BY <1>1, <1>2, <1>6 DEF Owned, Traced
<1>10. Counted'
  BY <1>1, <1>2 DEF Counted
<1> QED
  BY <1>4, <1>5, <1>8, <1>9, <1>10

LEMMA EndFinalizerStep ==
  ASSUME ObjInv, EndFinalizer
  PROVE  ObjInv'
<1> USE DEF ObjInv
<1>1. /\ phase = "finalizer" /\ finalized /\ frame.caller \in {"dealloc", "collector"}
      /\ UNCHANGED <<birth, type, roots, cycle, finalized, entry, mutex, names, wrote, marks>>
  BY DEF EndFinalizer, objectTables, Shape, ObjectTypeOK, Frame, Caller
<1>2. Refs' = Refs /\ Leaver' = Leaver /\ Loser' = Loser /\ SomeLeaver' = SomeLeaver
  BY <1>1 DEF Refs, Leaver, Loser, SomeLeaver
<1>3. Refs \in Nat /\ frame.refs \in Nat
  BY RefsBound
<1>4. CASE Revived
  <2>1. phase' = Resume /\ frame' = NoFrame /\ Refs > frame.refs
    BY <1>4 DEF EndFinalizer, Revived
  <2>2. phase' \in {"live", "garbage"}
    BY <1>3, <2>1 DEF Resume
  <2>3. Leaver /\ SomeLeaver
    BY <1>1, <1>3, <2>1 DEF Shape, Leaver, SomeLeaver
  <2>4. ObjectTypeOK' /\ Shape'
    BY <1>1, <2>1, <2>2, Distinct DEF ObjectTypeOK, Shape
  <2>5. Swept' /\ Owned' /\ Traced'
    BY <1>1, <1>2, <2>2, <2>3 DEF Swept, Owned, Traced
  <2>6. Counted'
    BY <1>1, <1>2, <2>2 DEF Counted, KeepsAll
  <2> QED
    BY <2>4, <2>5, <2>6
<1>5. CASE ~Revived
  <2>1. Erase(frame.caller, frame.type) /\ ~(Refs > frame.refs)
    BY <1>5 DEF EndFinalizer, Revived
  <2>2. frame.type \in Class /\ frame.caller \in Caller /\ (~Leaver => frame.type = type)
    BY <1>1 DEF Shape, ObjectTypeOK, Frame
  <2>3. ASSUME ~Loser
        PROVE  /\ frame.caller = "dealloc" => Refs = 0
               /\ frame.caller = "collector" => roots = 0
    <3>1. /\ frame.caller = "dealloc" => frame.refs = 0
          /\ frame.caller = "collector" => cycle /\ frame.refs = 1
      BY <1>1, <2>3 DEF Counted
    <3> QED
      BY <1>3, <2>1, <3>1, RefsBound
  <2> QED
    BY <1>1, <2>1, <2>2, <2>3, EraseStep
<1> QED
  BY <1>4, <1>5

LEMMA EraseEntryStep ==
  ASSUME ObjInv, EraseEntry
  PROVE  ObjInv'
<1> USE DEF ObjInv
<1> DEFINE h == Head(frame.todo)
<1>1. /\ phase = "erasing" /\ frame.todo # <<>> /\ frame \in Frame
      /\ entry' = [entry EXCEPT ![h] = NoEntry]
      /\ \E v \in BOOLEAN : frame' = [frame EXCEPT !.value = v]
      /\ UNCHANGED <<phase, birth, type, roots, cycle, finalized, mutex, names, wrote, marks>>
  BY DEF EraseEntry, ObjectTypeOK
<1>2. h \in Class
  BY <1>1, HeadOrTail DEF Frame
<1>3. /\ frame' \in Frame /\ frame'.todo = frame.todo /\ frame'.caller = frame.caller
      /\ frame'.refs = frame.refs /\ frame'.type = frame.type
  BY <1>1 DEF Frame
<1> HIDE DEF h
<1>4. \A w \in Class : entry'[w] = IF w = h THEN NoEntry ELSE entry[w]
  BY <1>1 DEF ObjectTypeOK
<1>5. ObjectTypeOK'
  BY <1>1, <1>2, <1>3 DEF ObjectTypeOK
<1>6. Refs' = Refs /\ Leaver' = Leaver /\ Loser' = Loser /\ SomeLeaver' = SomeLeaver
      /\ \A w : ToErase(w)' = ToErase(w)
  BY <1>1, <1>3 DEF Refs, Leaver, Loser, SomeLeaver, ToErase
<1>7. Shape'
  BY <1>1, <1>3, <1>6 DEF Shape
<1>8. entry'[Head(frame'.todo)] = NoEntry
  BY <1>2, <1>3, <1>4 DEF h
<1>9. Swept'
  BY <1>1, <1>4, <1>6, <1>8 DEF Swept, Some
<1>10. Owned'
  BY <1>1, <1>4, Distinct DEF Owned
<1>11. birth # NoEntry
  BY <1>1, Distinct DEF Shape
<1>12. Traced'
  BY <1>1, <1>4, <1>6, <1>8, <1>11 DEF Traced
<1>13. Counted'
  BY <1>1, <1>3, <1>6 DEF Counted
<1> QED
  BY <1>5, <1>7, <1>9, <1>10, <1>12, <1>13

LEMMA EraseMutexStep ==
  ASSUME ObjInv, EraseMutex
  PROVE  ObjInv'
<1> USE DEF ObjInv
<1> DEFINE h == Head(frame.todo)
<1>1. /\ phase = "erasing" /\ frame.todo # <<>> /\ frame \in Frame
      /\ frame.value \/ entry[h] = NoEntry
      /\ mutex' = mutex \ {h}
      /\ frame' = [frame EXCEPT !.todo = Tail(@), !.value = FALSE]
      /\ UNCHANGED <<phase, birth, type, roots, cycle, finalized, entry, names, wrote, marks>>
  BY DEF EraseMutex, ObjectTypeOK
<1>2. /\ h \in Class /\ Tail(frame.todo) \in Seq(Class)
      /\ \A i \in 1..Len(frame.todo) : frame.todo[i] = h \/
           \E j \in 1..Len(Tail(frame.todo)) : Tail(frame.todo)[j] = frame.todo[i]
  BY <1>1, HeadOrTail DEF Frame
<1>3. /\ frame'.todo = Tail(frame.todo) /\ frame'.caller = frame.caller
      /\ frame'.refs = frame.refs /\ frame'.type = frame.type /\ frame'.value = FALSE
      /\ frame' = [caller |-> frame.caller, refs |-> frame.refs, type |-> frame.type,
                   todo |-> Tail(frame.todo), value |-> FALSE]
  BY <1>1 DEF Frame
<1>4. frame' \in Frame
  BY <1>1, <1>2, <1>3 DEF Frame
<1> HIDE DEF h
<1>5. ObjectTypeOK'
  BY <1>1, <1>4 DEF ObjectTypeOK
<1>6. Refs' = Refs /\ Leaver' = Leaver /\ Loser' = Loser /\ SomeLeaver' = SomeLeaver
  BY <1>1 DEF Refs, Leaver, Loser, SomeLeaver
<1>7. \A w : ToErase(w) /\ w # h => ToErase(w)'
  BY <1>2, <1>3 DEF ToErase
<1>8. Shape'
  BY <1>1, <1>3, <1>6 DEF Shape
<1>9. Swept'
  <2> SUFFICES ASSUME ~SomeLeaver PROVE Swept'
    BY <1>6 DEF Swept
  <2>1. entry[h] = NoEntry
    BY <1>1 DEF Swept, h
  <2>2. \A w \in Class : Some(w)' => Some(w) /\ w # h
    BY <1>1, <2>1 DEF Some
  <2> QED
    BY <1>1, <1>3, <1>7, <2>2 DEF Swept
<1>10. Owned'
  BY <1>1 DEF Owned
<1>11. birth # NoEntry
  BY <1>1, Distinct DEF Shape
<1>12. Traced'
  <2> SUFFICES ASSUME ~Leaver PROVE Traced'
    BY <1>6 DEF Traced
  <2>1. entry[h] # birth
    BY <1>1, <1>11 DEF Traced, h
  <2> QED
    BY <1>1, <1>3, <1>7, <2>1 DEF Traced
<1>13. Counted'
  BY <1>1, <1>3, <1>6 DEF Counted
<1> QED
  BY <1>5, <1>8, <1>9, <1>10, <1>12, <1>13

LEMMA EndEraseStep ==
  ASSUME ObjInv, EndErase
  PROVE  ObjInv'
<1> USE DEF ObjInv
<1>1. /\ phase = "erasing" /\ frame.todo = <<>> /\ finalized /\ frame \in Frame
      /\ names' = FALSE /\ frame' = NoFrame
      /\ phase' = IF frame.caller = "tp_clear" THEN "free" ELSE Resume
      /\ cycle' = (cycle /\ frame.caller # "tp_clear")
      /\ UNCHANGED <<birth, type, roots, finalized, entry, mutex, wrote, marks>>
  BY DEF EndErase, Shape, ObjectTypeOK
<1>2. Leaver' = Leaver /\ Loser' = Loser /\ SomeLeaver' = SomeLeaver
  BY <1>1 DEF Leaver, Loser, SomeLeaver
<1>3. cycle' \in BOOLEAN /\ frame' \in Frame
  BY <1>1, Distinct
<1>4. \A w : ~ToErase(w)
  BY <1>1 DEF ToErase
<1>5. /\ ~SomeLeaver => \A w \in Class : ~Some(w)
      /\ ~Leaver => \A w \in Class : entry[w] # birth
  BY <1>1, <1>4 DEF Swept, Traced
<1>6. CASE phase' = "free"
  BY <1>1, <1>3, <1>5, <1>6, FreeStep
<1>7. CASE phase' # "free"
  <2>1. phase' = Resume /\ frame.caller # "tp_clear" /\ phase' \in {"live", "garbage"}
    BY <1>1, <1>7 DEF Resume
  <2>2. ObjectTypeOK'
    BY <1>1, <1>3, <2>1 DEF ObjectTypeOK
  <2>3. Shape'
    BY <1>1, <2>1 DEF Shape
  <2>4. Swept'
    BY <1>1, <1>2, <1>5, <2>1 DEF Swept, Some
  <2>5. Owned'
    BY <1>1, <2>1 DEF Owned
  <2>6. Traced'
    BY <1>1, <1>2, <1>5, <2>1 DEF Traced
  <2>7. Counted'
    <3> SUFFICES ASSUME ~Loser PROVE Counted'
      BY <1>2 DEF Counted
    <3>1. frame.caller \in {"dealloc", "collector"}
      BY <1>1, <2>1 DEF Frame, Caller
    <3>2. /\ frame.caller = "dealloc" => Refs = 0
          /\ frame.caller = "collector" => roots = 0
      BY <1>1 DEF Counted
    <3>3. frame.caller = "collector" /\ phase' = "garbage" /\ roots' = 0
      BY <1>1, <1>7, <2>1, <3>1, <3>2 DEF Resume
    <3> QED
      BY <1>1, <3>3 DEF Counted
  <2> QED
    BY <2>2, <2>3, <2>4, <2>5, <2>6, <2>7
<1> QED
  BY <1>6, <1>7

(* --------------------------- the collector ----------------------------- *)

LEMMA FindOrSurviveStep ==
  ASSUME ObjInv, Find \/ Survive
  PROVE  ObjInv'
<1> USE DEF ObjInv
<1>1. /\ phase \in {"live", "garbage"} /\ phase' \in {"live", "garbage"}
      /\ phase' = "garbage" => phase = "live" /\ roots = 0
      /\ phase' = "live" => phase = "garbage" /\ finalized /\ roots > 0
      /\ UNCHANGED <<birth, type, roots, cycle, finalized, frame, entry, mutex, names, wrote, marks>>
  BY DEF Find, Survive, objectTables
<1>2. ObjectTypeOK' /\ Shape'
  BY <1>1 DEF ObjectTypeOK, Shape
<1>3. Swept' /\ Owned' /\ Traced'
  BY <1>1 DEF Swept, Some, Owned, Traced, SomeLeaver, Leaver
<1>4. Counted'
  <2>1. roots \in Nat
    BY RefsBound
  <2>2. KeepsAll' = KeepsAll /\ Loser' = Loser
    BY <1>1 DEF KeepsAll, Loser
  <2> QED
    BY <1>1, <2>1, <2>2 DEF Counted
<1> QED
  BY <1>2, <1>3, <1>4

LEMMA CollectStep ==
  ASSUME ObjInv, Finalize \/ Clear \/ FreedByAnother
  PROVE  ObjInv'
<1>1. CASE Finalize
  BY <1>1, EnterStep DEF Finalize
<1>2. CASE Clear
  <2>1. /\ phase = "garbage" /\ finalized /\ Erase("tp_clear", type)
        /\ UNCHANGED <<birth, type, roots, cycle, finalized, entry, mutex, names, wrote, marks>>
    BY <1>2 DEF Clear, objectTables
  <2>2. type \in Class /\ "tp_clear" \in Caller
    BY DEF ObjInv, ObjectTypeOK, Caller
  <2> QED
    BY <2>1, <2>2, EraseStep
<1>3. CASE FreedByAnother
  <2>1. /\ phase = "garbage" /\ finalized /\ phase' = "free" /\ cycle' = FALSE
        /\ UNCHANGED <<birth, type, roots, finalized, frame, entry, mutex, names, wrote, marks>>
    BY <1>3 DEF FreedByAnother, objectTables
  <2>2. frame' \in Frame
    BY <2>1 DEF ObjInv, ObjectTypeOK
  <2>3. /\ ~SomeLeaver => ~names' /\ \A w \in Class : ~Some(w)
        /\ ~Leaver => \A w \in Class : entry[w] # birth
    BY <2>1 DEF ObjInv, Swept, Traced
  <2> QED
    BY <2>1, <2>2, <2>3, FreeStep
<1> QED
  BY <1>1, <1>2, <1>3

LEMMA ObjectKept ==
  ASSUME ObjInv, ObjectStep \/ (\E c \in Class : New(c))
  PROVE  ObjInv'
<1>1. CASE Read \/ MakeRef \/ DropRef
  BY <1>1, ReadStep, MakeOrDropStep
<1>2. CASE \E c \in Class : AssignClass(c) \/ Write(c) \/ New(c)
  BY <1>2, AssignClassStep, WriteStep, NewStep
<1>3. CASE Dealloc \/ EndFinalizer \/ EraseEntry \/ EraseMutex \/ EndErase
  BY <1>3, DeallocStep, EndFinalizerStep, EraseEntryStep, EraseMutexStep, EndEraseStep
<1>4. CASE Find \/ Finalize \/ Survive \/ Clear \/ FreedByAnother
  BY <1>4, FindOrSurviveStep, CollectStep
<1> QED
  BY <1>1, <1>2, <1>3, <1>4 DEF ObjectStep

(* ------------------ instances and the classes they have ---------------- *)

(* A mortal class is a base of no class but itself.                        *)
LEMMA MortalChain ==
  ASSUME TypeOK, NEW w \in Mortal, w \in Chain(type)
  PROVE  w = type
<1>1. type \in Class
  BY DEF TypeOK, ObjectTypeOK
<1>2. \A i \in DOMAIN Parents[type] : Parents[type][i] # w
  BY <1>1, MortalAssumption
<1> QED
  BY <1>2 DEF Chain

(* A class address whose tables a step leaves alone.                       *)
LEMMA AtUnchanged ==
  ASSUME NEW d \in Mortal, ClassAt(d),
         class'[d] = class[d], generation'[d] = generation[d], meta'[d] = meta[d],
         attrSet'[d] = attrSet[d], needCall'[d] = needCall[d], own'[d] = own[d], shadow'[d] = shadow[d],
         class[d] = "free" /\ Some(d)' => Some(d)
  PROVE  ClassAt(d)'
<1>1. RegisteredAt(d)'
  BY DEF ClassAt, RegisteredAt
<1>2. CleanAt(d)'
  BY DEF ClassAt, CleanAt, Alive
<1>3. ForgottenAt(d)'
  BY DEF ClassAt, ForgottenAt
<1> QED
  BY <1>1, <1>2, <1>3 DEF ClassAt

(* An object adds to the tables of its type and the parents only.          *)
LEMMA ObjectTables ==
  ASSUME TypeOK, ObjectStep
  PROVE  /\ phase # "free"
         /\ \A w \in Class : Some(w)' => Some(w) \/ w \in Chain(type)
         /\ wrote' \subseteq wrote \cup Chain(type)
<1> USE DEF objectTables, objectState, Some
<1>1. CASE Read
  BY <1>1 DEF Read, UserCode
<1>2. CASE MakeRef \/ DropRef \/ (\E c \in Class : AssignClass(c))
  BY <1>2 DEF MakeRef, DropRef, AssignClass, UserCode
<1>3. CASE \E c \in Class : Write(c)
  <2>1. PICK c \in Class : Write(c)
    BY <1>3
  <2> QED
    BY <2>1 DEF Write, UserCode, TypeOK, ObjectTypeOK
<1>4. CASE Dealloc \/ EndFinalizer \/ Find \/ Finalize \/ Survive \/ Clear \/ FreedByAnother
  BY <1>4 DEF Dealloc, Enter, EndFinalizer, Find, Finalize, Survive, Clear, FreedByAnother
<1>5. CASE EraseEntry
  <2>1. /\ phase = "erasing" /\ mutex' = mutex /\ wrote' = wrote
        /\ \A w \in Class : entry'[w] \in {entry[w], NoEntry}
    BY <1>5 DEF EraseEntry, TypeOK, ObjectTypeOK
  <2> QED
    BY <2>1
<1>6. CASE EraseMutex
  BY <1>6 DEF EraseMutex
<1>7. CASE EndErase
  BY <1>7 DEF EndErase
<1> QED
  BY <1>1, <1>2, <1>3, <1>4, <1>5, <1>6, <1>7 DEF ObjectStep

LEMMA InstanceKept ==
  ASSUME IInv, InstanceStep
  PROVE  IInv'
<1> USE DEF IInv
<1>1. UNCHANGED <<class, generation, meta, installed, attrSet, own, shadow, needCall>>
  BY DEF InstanceStep, classVars, classTables
<1>2. ObjInv'
  BY ObjectKept DEF InstanceStep
<1>3. TypeOK'
  BY <1>1, <1>2 DEF TypeOK, ObjInv, Tables
<1>4. CASE \E c \in Class : Usable(c) /\ Room /\ New(c)
  <2>1. PICK c \in Class : Usable(c) /\ New(c)
    BY <1>4
  <2>2. type' = c /\ wrote' = {} /\ entry' = entry /\ mutex' = mutex
    BY <2>1 DEF New, objectTables
  <2>3. Standing'
    BY <1>1, <2>1, <2>2 DEF Standing, Usable
  <2>4. ClassInv'
    BY <1>1, <2>2, AtUnchanged DEF ClassInv, Some
  <2> QED
    BY <1>2, <1>3, <2>3, <2>4
<1>5. CASE ObjectStep /\ (phase # "free" => Usable(type'))
  <2>1. /\ phase # "free" /\ Usable(type')
        /\ \A w \in Class : Some(w)' => Some(w) \/ w \in Chain(type)
        /\ wrote' \subseteq wrote \cup Chain(type)
    BY <1>5, ObjectTables
  <2>2. \A w \in Mortal \cap Chain(type) : class[w] = "live"
    BY <2>1, MortalChain DEF Standing, Usable
  <2>3. Standing'
    BY <1>1, <2>1, <2>2 DEF Standing, Usable
  <2>4. \A d \in Mortal : class[d] = "free" /\ Some(d)' => Some(d)
    BY <2>1, <2>2, MortalAssumption
  <2>5. ClassInv'
    BY <1>1, <2>4, AtUnchanged DEF ClassInv
  <2> QED
    BY <1>2, <1>3, <2>3, <2>5
<1> QED
  BY <1>4, <1>5 DEF InstanceStep

(* --------------------------- classes ------------------------------------ *)

LEMMA StartKept == Init => IInv
<1> SUFFICES ASSUME Init PROVE IInv
  OBVIOUS
<1> USE DEF Init
<1>1. ObjInv
  BY ObjectStart
<1>2. MaxGeneration \in Nat \ {0} /\ None = 0
  BY MortalAssumption DEF None
<1>3. TypeOK
  <2>1. generation \in Tables /\ attrSet \in Tables /\ needCall \in Tables
    BY <1>2 DEF Tables
  <2>2. meta \in [Mortal -> [Generation -> {"native", "registered"}]]
    OBVIOUS
  <2> QED
    BY <1>1, <2>1, <2>2 DEF TypeOK, ObjInv
<1>4. Standing
  BY DEF Standing, ObjectInit
<1>5. ClassInv
  BY MortalAssumption DEF ClassInv, ClassAt, RegisteredAt, CleanAt, Alive, ForgottenAt, ObjectInit, Some
<1> QED
  BY <1>1, <1>3, <1>4, <1>5 DEF IInv

(* The tables of an instance lose what a class address loses.              *)
LEMMA TablesDropped ==
  ASSUME ObjInv, NEW c \in Class,
         entry' \in {entry, [entry EXCEPT ![c] = NoEntry]}, mutex' \in {mutex, mutex \ {c}},
         wrote' \subseteq wrote, entry' # entry => c \notin wrote',
         UNCHANGED <<phase, birth, type, roots, cycle, finalized, frame, names, marks>>
  PROVE  ObjInv'
<1> USE DEF ObjInv
<1>1. \A w \in Class : entry'[w] = entry[w] \/ (w = c /\ entry'[w] = NoEntry)
  BY DEF ObjectTypeOK
<1>2. ObjectTypeOK'
  BY DEF ObjectTypeOK
<1>3. Refs' = Refs /\ Leaver' = Leaver /\ Loser' = Loser /\ SomeLeaver' = SomeLeaver
      /\ \A w : ToErase(w)' = ToErase(w)
  BY DEF Refs, Leaver, Loser, SomeLeaver, ToErase
<1>4. Shape'
  BY <1>3 DEF Shape
<1>5. \A w \in Class : Some(w)' => Some(w)
  BY <1>1 DEF Some
<1>6. Swept'
  <2>1. phase = "erasing" /\ frame.value => Head(frame.todo) \in Class
    BY HeadOrTail DEF Shape, ObjectTypeOK, Frame
  <2> QED
    BY <1>1, <1>3, <1>5, <2>1 DEF Swept
<1>7. Owned'
  BY <1>1, Distinct DEF Owned
<1>8. Traced'
  <2>1. phase = "erasing" /\ frame.value => Head(frame.todo) \in Class
    BY HeadOrTail DEF Shape, ObjectTypeOK, Frame
  <2>2. phase # "free" => birth # NoEntry
    BY Distinct DEF Shape
  <2> QED
    BY <1>1, <1>3, <2>1, <2>2 DEF Traced
<1>9. KeepsAll => KeepsAll'
  BY <1>1, <1>2 DEF KeepsAll, ObjectTypeOK
<1>10. Counted'
  BY <1>3, <1>9 DEF Counted
<1> QED
  BY <1>2, <1>4, <1>6, <1>7, <1>8, <1>10

(* A step of one class leaves what the others' addresses hold.             *)
LEMMA OneClass ==
  ASSUME ClassInv, NEW c \in Mortal, ClassAt(c)',
         \A d \in Mortal \ {c} :
           /\ class'[d] = class[d] /\ generation'[d] = generation[d] /\ meta'[d] = meta[d]
           /\ attrSet'[d] = attrSet[d] /\ needCall'[d] = needCall[d]
           /\ own'[d] = own[d] /\ shadow'[d] = shadow[d]
           /\ Some(d)' => Some(d)
  PROVE  ClassInv'
BY AtUnchanged DEF ClassInv

LEMMA NewClassStep ==
  ASSUME IInv, NEW c \in Mortal, NEW m \in {"native", "registered"}, NewClass(c, m)
  PROVE  IInv'
<1> USE DEF IInv
<1> DEFINE g == generation[c]
<1>1. /\ class[c] = "free" /\ g < MaxGeneration
      /\ class' = [class EXCEPT ![c] = "creating"]
      /\ generation' = [generation EXCEPT ![c] = g + 1]
      /\ meta' = [meta EXCEPT ![c][g + 1] = m]
      /\ installed' = installed \ {c}
      /\ UNCHANGED <<phase, birth, type, roots, cycle, finalized, frame, entry, mutex, names, wrote, marks>>
      /\ UNCHANGED <<attrSet, own, shadow, needCall>>
  BY DEF NewClass, objectVars, objectState, objectTables, classTables
<1>2. /\ g \in Nat /\ g + 1 \in Generation /\ g + 1 \in 0..MaxGeneration /\ MaxGeneration \in Nat
      /\ \A h \in 1..g : h < g + 1 /\ h # g + 1 /\ h \in 1..(g + 1)
  BY <1>1, MortalAssumption DEF TypeOK, Tables, Generation
<1> HIDE DEF g
<1>3. ObjInv'
  BY <1>1, TablesDropped, MortalAssumption
<1>4. TypeOK'
  <2>1. meta' \in [Mortal -> [Generation -> {"native", "registered"}]]
    BY <1>1, <1>2 DEF TypeOK
  <2>2. generation' \in Tables
    BY <1>1, <1>2 DEF TypeOK, Tables
  <2>3. class' \in [Mortal -> {"free", "creating", "live", "cleared"}] /\ installed' \subseteq Mortal
    BY <1>1 DEF TypeOK
  <2> QED
    BY <1>1, <1>3, <2>1, <2>2, <2>3 DEF TypeOK, ObjInv, Tables
<1>5. /\ class'[c] = "creating" /\ generation'[c] = g + 1
      /\ \A h \in 1..g : meta'[c][h] = meta[c][h]
      /\ \A d \in Mortal \ {c} : class'[d] = class[d] /\ generation'[d] = generation[d] /\ meta'[d] = meta[d]
  <2>1. \A h \in Generation : h # g + 1 => meta'[c][h] = meta[c][h]
    BY <1>1, <1>2 DEF TypeOK
  <2>2. \A h \in 1..g : h \in Generation
    BY <1>2 DEF Generation
  <2> QED
    BY <1>1, <1>2, <2>1, <2>2 DEF TypeOK, Tables
<1>6. Standing'
  BY <1>1, <1>5 DEF Standing, Usable
<1>7. ClassAt(c)'
  <2>1. own[c] = {} /\ shadow[c] = {}
    BY <1>1 DEF ClassInv, ClassAt, RegisteredAt
  <2>2. ASSUME NEW x \in {attrSet[c], needCall[c]}, x # None
        PROVE  \E h \in 1..(g + 1) : meta'[c][h] = "registered" /\ h < g + 1
    <3>1. PICK h \in 1..g : meta[c][h] = "registered"
      BY <1>1, <2>2 DEF ClassInv, ClassAt, RegisteredAt, g
    <3> QED
      BY <1>2, <1>5, <3>1
  <2> QED
    BY <1>1, <1>2, <1>5, <2>1, <2>2 DEF ClassAt, RegisteredAt, CleanAt, ForgottenAt
<1>8. ClassInv'
  BY <1>1, <1>5, <1>7, OneClass DEF Some
<1> QED
  BY <1>3, <1>4, <1>6, <1>8

LEMMA InstallStep ==
  ASSUME IInv, NEW c \in Mortal, class[c] = "creating", Install(c),
         class' \in {class, [class EXCEPT ![c] = "live"]}
  PROVE  IInv'
<1> USE DEF IInv
<1> DEFINE g == generation[c]
<1>1. /\ attrSet' = [attrSet EXCEPT ![c] = g]
      /\ own' = [own EXCEPT ![c] = own[c] \cup {g}]
      /\ needCall' \in {needCall, [needCall EXCEPT ![c] = g]}
      /\ entry' = [entry EXCEPT ![c] = NoEntry]
      /\ mutex' = mutex \ {c}
      /\ installed' = installed \cup {c}
      /\ UNCHANGED <<phase, birth, type, roots, cycle, finalized, frame, names, wrote, marks>>
      /\ UNCHANGED <<meta, generation, shadow>>
  BY DEF Install, Kept, objectState
<1>2. g \in Generation /\ g \in 0..MaxGeneration /\ g # None /\ c \in Class
  BY MortalAssumption DEF ClassInv, ClassAt, RegisteredAt, TypeOK, Tables, Generation, None
<1> HIDE DEF g
<1>3. ObjInv'
  <2>1. c \notin wrote
    BY DEF Standing
  <2> QED
    BY <1>1, <1>2, <2>1, TablesDropped
<1>4. TypeOK'
  BY <1>1, <1>2, <1>3 DEF TypeOK, ObjInv, Tables
<1>5. /\ class'[c] \in {"creating", "live"} /\ generation'[c] = g /\ meta' = meta
      /\ attrSet'[c] = g /\ own'[c] = own[c] \cup {g} /\ shadow'[c] = shadow[c]
      /\ needCall'[c] \in {needCall[c], g}
      /\ \A d \in Mortal \ {c} :
           /\ class'[d] = class[d] /\ generation'[d] = generation[d] /\ meta'[d] = meta[d]
           /\ attrSet'[d] = attrSet[d] /\ needCall'[d] = needCall[d]
           /\ own'[d] = own[d] /\ shadow'[d] = shadow[d]
  BY <1>1 DEF TypeOK, Tables, g
<1>6. Standing'
  BY <1>1, <1>5 DEF Standing, Usable
<1>7. ClassAt(c)'
  <2>1. own[c] \cup shadow[c] \subseteq {g}
    BY DEF ClassInv, ClassAt, CleanAt, Alive, g
  <2>2. \/ needCall[c] = None \/ needCall[c] = g
        \/ \E h \in 1..g : meta[c][h] = "registered" /\ h < g
    BY DEF ClassInv, ClassAt, RegisteredAt, g
  <2>3. RegisteredAt(c)'
    BY <1>2, <1>5, <2>2 DEF RegisteredAt
  <2>4. CleanAt(c)' /\ ForgottenAt(c)'
    BY <1>5, <2>1 DEF CleanAt, ForgottenAt
  <2> QED
    BY <2>3, <2>4 DEF ClassAt
<1>8. \A d \in Mortal : Some(d)' => Some(d)
  BY <1>1, MortalAssumption DEF Some, TypeOK, ObjectTypeOK
<1>9. ClassInv'
  BY <1>5, <1>7, <1>8, OneClass
<1> QED
  BY <1>3, <1>4, <1>6, <1>9

LEMMA CreateStep ==
  ASSUME IInv, NEW c \in Mortal, Touch(c) \/ Created(c)
  PROVE  IInv'
<1>1. CASE Touch(c) \/ (Created(c) /\ c \notin installed)
  BY <1>1, InstallStep DEF Touch, Created
<1>2. CASE Created(c) /\ c \in installed
  <2> USE DEF IInv
  <2>1. /\ class[c] = "creating" /\ class' = [class EXCEPT ![c] = "live"]
        /\ UNCHANGED <<phase, birth, type, roots, cycle, finalized, frame, entry, mutex, names, wrote, marks>>
        /\ UNCHANGED <<meta, generation, installed, attrSet, own, shadow, needCall>>
    BY <1>2 DEF Created, objectVars, objectState, objectTables, classTables
  <2>2. ObjInv'
    BY <2>1, TablesDropped, MortalAssumption
  <2>3. TypeOK'
    BY <2>1, <2>2 DEF TypeOK, ObjInv, Tables
  <2>4. class'[c] = "live" /\ \A d \in Mortal \ {c} : class'[d] = class[d]
    BY <2>1 DEF TypeOK
  <2>5. Standing'
    BY <2>1, <2>4 DEF Standing, Usable
  <2>6. ClassAt(c)'
    BY <2>1, <2>4 DEF ClassInv, ClassAt, RegisteredAt, CleanAt, Alive, ForgottenAt
  <2>7. ClassInv'
    BY <2>1, <2>4, <2>6, OneClass DEF Some
  <2> QED
    BY <2>2, <2>3, <2>5, <2>7
<1> QED
  BY <1>1, <1>2

LEMMA StoreShadowStep ==
  ASSUME IInv, NEW c \in Mortal, StoreShadow(c)
  PROVE  IInv'
<1> USE DEF IInv
<1>1. /\ class[c] \in {"creating", "live"} /\ attrSet[c] # None
      /\ shadow' = [shadow EXCEPT ![c] = @ \cup {generation[c]}]
      /\ UNCHANGED <<phase, birth, type, roots, cycle, finalized, frame, entry, mutex, names, wrote, marks>>
      /\ UNCHANGED <<class, meta, generation, installed, attrSet, own, needCall>>
  BY DEF StoreShadow, objectVars, objectState, objectTables
<1>2. ObjInv'
  BY <1>1, TablesDropped, MortalAssumption
<1>3. generation[c] \in Generation
  BY <1>1 DEF ClassInv, ClassAt, RegisteredAt
<1>4. TypeOK'
  BY <1>1, <1>2, <1>3 DEF TypeOK, ObjInv, Tables
<1>5. /\ shadow'[c] = shadow[c] \cup {generation[c]}
      /\ \A d \in Mortal \ {c} : shadow'[d] = shadow[d]
  BY <1>1 DEF TypeOK
<1>6. Standing'
  BY <1>1 DEF Standing, Usable
<1>7. ClassAt(c)'
  BY <1>1, <1>5 DEF ClassInv, ClassAt, RegisteredAt, CleanAt, Alive, ForgottenAt
<1>8. ClassInv'
  BY <1>1, <1>5, <1>7, OneClass DEF Some
<1> QED
  BY <1>2, <1>4, <1>6, <1>8

LEMMA ClearClassStep ==
  ASSUME IInv, NEW c \in Mortal, ClearClass(c)
  PROVE  IInv'
<1> USE DEF IInv
<1>1. /\ class[c] \in {"creating", "live"} /\ (phase = "free" \/ type # c)
      /\ class' = [class EXCEPT ![c] = "cleared"]
      /\ own' = [own EXCEPT ![c] = {}]
      /\ shadow' = [shadow EXCEPT ![c] = Cleared(c)]
      /\ UNCHANGED <<phase, birth, type, roots, cycle, finalized, frame, entry, mutex, names, wrote, marks>>
      /\ UNCHANGED <<meta, generation, installed, attrSet, needCall>>
  BY DEF ClearClass, objectVars, objectState, objectTables
<1>2. Cleared(c) = {}
  BY DEF Cleared, ClassInv, ClassAt, RegisteredAt
<1>3. ObjInv'
  BY <1>1, TablesDropped, MortalAssumption
<1>4. TypeOK'
  BY <1>1, <1>2, <1>3 DEF TypeOK, ObjInv, Tables
<1>5. /\ class'[c] = "cleared" /\ own'[c] = {} /\ shadow'[c] = {}
      /\ \A d \in Mortal \ {c} : class'[d] = class[d] /\ own'[d] = own[d] /\ shadow'[d] = shadow[d]
  BY <1>1, <1>2 DEF TypeOK
<1>6. Standing'
  BY <1>1, <1>5 DEF Standing, Usable
<1>7. ClassAt(c)'
  BY <1>1, <1>5 DEF ClassInv, ClassAt, RegisteredAt, CleanAt, Alive, ForgottenAt
<1>8. ClassInv'
  BY <1>1, <1>5, <1>7, OneClass DEF Some
<1> QED
  BY <1>3, <1>4, <1>6, <1>8

LEMMA FreeClassStep ==
  ASSUME IInv, NEW c \in Mortal, FreeClass(c)
  PROVE  IInv'
<1> USE DEF IInv
<1> DEFINE g == generation[c]
           native == meta[c][g] = "native"
<1>1. /\ class[c] = "cleared" /\ class' = [class EXCEPT ![c] = "free"]
      /\ wrote' = wrote \ {c}
      /\ UNCHANGED <<phase, birth, type, roots, cycle, finalized, frame, names, marks>>
      /\ UNCHANGED <<generation, meta, installed>>
  BY DEF FreeClass, objectState
<1>2. /\ native => /\ attrSet' = [attrSet EXCEPT ![c] = None]
                   /\ own' = [own EXCEPT ![c] = {}]
                   /\ shadow' = [shadow EXCEPT ![c] = Cleared(c)]
                   /\ needCall' = [needCall EXCEPT ![c] = None]
                   /\ entry' = [entry EXCEPT ![c] = NoEntry]
                   /\ mutex' = mutex \ {c}
      /\ ~native => UNCHANGED <<attrSet, own, shadow, needCall, entry, mutex>>
  BY DEF FreeClass, Finalizes, classTables
<1>3. g \in 1..MaxGeneration /\ g \in 1..g /\ None \in 0..MaxGeneration
      /\ meta[c][g] \in {"native", "registered"} /\ own[c] = {} /\ shadow[c] = {} /\ Cleared(c) = {}
  <2>1. g \in Generation /\ own[c] = {} /\ shadow[c] = {} /\ Cleared(c) = {}
    BY <1>1 DEF Cleared, ClassInv, ClassAt, RegisteredAt
  <2> QED
    BY <2>1, MortalAssumption DEF Generation, None, TypeOK
<1> HIDE DEF g
<1>4. ObjInv'
  BY <1>1, <1>2, TablesDropped, MortalAssumption
<1>5. TypeOK'
  <2>1. /\ attrSet' \in Tables /\ needCall' \in Tables
        /\ own' \in [Mortal -> SUBSET Generation] /\ shadow' \in [Mortal -> SUBSET Generation]
    <3>1. CASE native
      <4>1. /\ attrSet' = [attrSet EXCEPT ![c] = None] /\ needCall' = [needCall EXCEPT ![c] = None]
            /\ own' = [own EXCEPT ![c] = {}] /\ shadow' = [shadow EXCEPT ![c] = {}]
        BY <1>2, <1>3, <3>1
      <4>2. attrSet' \in Tables /\ needCall' \in Tables
        BY <1>3, <4>1 DEF TypeOK, Tables
      <4>3. own' \in [Mortal -> SUBSET Generation] /\ shadow' \in [Mortal -> SUBSET Generation]
        BY <4>1 DEF TypeOK
      <4> QED
        BY <4>2, <4>3
    <3>2. CASE ~native
      BY <1>2, <3>2 DEF TypeOK
    <3> QED
      BY <3>1, <3>2
  <2>3. class' \in [Mortal -> {"free", "creating", "live", "cleared"}]
    BY <1>1 DEF TypeOK
  <2> QED
    BY <1>1, <1>4, <2>1, <2>3 DEF TypeOK, ObjInv
<1>6. class'[c] = "free" /\ \A d \in Mortal \ {c} : class'[d] = class[d]
  BY <1>1 DEF TypeOK
<1>7. Standing'
  BY <1>1, <1>6 DEF Standing, Usable
<1>8. CASE native
  <2>1. /\ attrSet'[c] = None /\ needCall'[c] = None /\ own'[c] = {} /\ shadow'[c] = {}
        /\ entry'[c] = NoEntry /\ c \notin mutex'
        /\ \A d \in Mortal \ {c} :
             /\ attrSet'[d] = attrSet[d] /\ needCall'[d] = needCall[d]
             /\ own'[d] = own[d] /\ shadow'[d] = shadow[d] /\ (Some(d)' => Some(d))
    BY <1>2, <1>3, <1>8, MortalAssumption DEF TypeOK, Tables, ObjectTypeOK, Some
  <2>2. ClassAt(c)'
    BY <1>6, <2>1 DEF ClassAt, RegisteredAt, CleanAt, Alive, ForgottenAt, Some
  <2>3. ClassInv'
    BY <1>1, <1>6, <2>1, <2>2, OneClass
  <2> QED
    BY <1>4, <1>5, <1>7, <2>3
<1>9. CASE ~native
  <2>1. meta[c][g] = "registered" /\ meta[c][g] # "native"
    BY <1>3, <1>9
  <2>2. ClassAt(c)'
    BY <1>1, <1>2, <1>3, <1>6, <1>9, <2>1 DEF ClassInv, ClassAt, RegisteredAt, CleanAt, Alive, ForgottenAt, g
  <2>3. ClassInv'
    BY <1>1, <1>2, <1>6, <1>9, <2>2, OneClass DEF Some
  <2> QED
    BY <1>4, <1>5, <1>7, <2>3
<1> QED
  BY <1>8, <1>9

LEMMA StepKept ==
  IInv /\ [Next]_vars => IInv'
<1> SUFFICES ASSUME IInv, [Next]_vars PROVE IInv'
  OBVIOUS
<1>1. CASE InstanceStep
  BY <1>1, InstanceKept
<1>2. CASE ClassStep
  <2>1. PICK c \in Mortal :
          \/ \E m \in {"native", "registered"} : NewClass(c, m)
          \/ Touch(c) \/ Created(c) \/ StoreShadow(c)
          \/ ClearClass(c) \/ FreeClass(c)
    BY <1>2 DEF ClassStep
  <2> QED
    BY <2>1, NewClassStep, CreateStep, StoreShadowStep, ClearClassStep, FreeClassStep
<1>3. CASE UNCHANGED vars
  <2>1. /\ UNCHANGED <<phase, birth, type, roots, cycle, finalized, frame, entry, mutex, names, wrote, marks>>
        /\ UNCHANGED <<class, meta, generation, installed, attrSet, own, shadow, needCall>>
    BY <1>3 DEF vars, objectVars, objectState, objectTables, classVars, classTables
  <2> USE DEF IInv
  <2>2. ObjInv'
    BY <2>1 DEF ObjInv, ObjectTypeOK, Shape, Swept, Some, Owned, Traced, Counted, KeepsAll,
                Refs, Leaver, Loser, SomeLeaver, ToErase
  <2>3. TypeOK' /\ Standing'
    BY <2>1, <2>2 DEF ObjInv, TypeOK, Tables, Standing, Usable
  <2>4. ClassInv'
    BY <2>1, AtUnchanged DEF ClassInv, Some
  <2> QED
    BY <2>2, <2>3, <2>4
<1> QED
  BY <1>1, <1>2, <1>3 DEF Next

(* ------------------------------ theorems ------------------------------- *)

LEMMA Invariant == Spec => []IInv
<1>1. Init => IInv
  BY StartKept
<1>2. IInv /\ [Next]_vars => IInv'
  BY StepKept
<1> QED
  BY <1>1, <1>2, PTL DEF Spec

(* The tables of instances and classes always have the shapes the code     *)
(* gives them.                                                             *)
THEOREM TypeCorrect == Spec => []TypeOK
<1>1. IInv => TypeOK
  BY DEF IInv
<1> QED
  BY <1>1, Invariant, PTL

(* An object never finds the values of an earlier one at its address,      *)
(* unless that one was given another class, was revived by its own         *)
(* finalizer or used after it: PrivateAttr_tp_finalize and clear_object_   *)
(* related erase the rest, whatever the destructors of the values do.      *)
THEOREM StaleIsExplained == Spec => []StaleExplained
<1>1. IInv => StaleExplained
  BY DEF IInv, ObjInv, Owned, StaleExplained
<1> QED
  BY <1>1, Invariant, PTL

(* A live object keeps the private values it wrote: PrivateAttr_tp_        *)
(* finalize erases them only of objects that die, unless another's         *)
(* finalizer revived the object or its own dropped a reference to it.      *)
THEOREM LiveValuesKept == Spec => []ValuesKept
<1>1. IInv => ValuesKept
  BY DEF IInv, ObjInv, Counted, KeepsAll, ValuesKept, Loser
<1> QED
  BY <1>1, Invariant, PTL

(* Objects without such a history leave no entry, no mutex and no hidden   *)
(* names at their address.                                                 *)
THEOREM DeadForgotten == Spec => []Forgotten
<1>1. IInv => Forgotten
  <2> SUFFICES ASSUME IInv, phase = "free", \A b \in Birth : "leaves" \notin marks[b]
               PROVE  mutex = {} /\ ~names /\ \A w \in Class : entry[w] = NoEntry
    BY DEF Forgotten
  <2>1. ~SomeLeaver
    BY DEF SomeLeaver
  <2>2. \A w \in Class : ~Some(w)
    BY <2>1 DEF IInv, ObjInv, Swept
  <2>3. ~names
    BY <2>1 DEF IInv, ObjInv, Swept
  <2>4. mutex \subseteq Class
    BY DEF IInv, TypeOK, ObjectTypeOK
  <2> QED
    BY <2>2, <2>3, <2>4 DEF Some
<1> QED
  BY <1>1, Invariant, PTL

(* A class never finds private values of an earlier class at its address,  *)
(* although install does not clear type_attr_dict.                         *)
THEOREM ClassesStartClean == Spec => []ClassStartsClean
<1>1. IInv => ClassStartsClean
  BY DEF IInv, ClassInv, ClassAt, CleanAt, ClassStartsClean
<1> QED
  BY <1>1, Invariant, PTL

(* A class is seen through the names, code and callback of an earlier      *)
(* class at its address only after a class of a registered metaclass,      *)
(* which PrivateAttrType_finalize never visits.                            *)
THEOREM RegistrationsAreOwn == Spec => []RegistrationIsOwn
<1>1. IInv => RegistrationIsOwn
  <2> SUFFICES ASSUME IInv, NEW c \in Mortal, Alive(c)
               PROVE  \/ {attrSet[c], needCall[c]} \subseteq {None, generation[c]}
                      \/ \E g \in Generation : g < generation[c] /\ meta[c][g] = "registered"
    BY DEF RegistrationIsOwn
  <2>1. class[c] # "free" /\ RegisteredAt(c)
    BY DEF IInv, ClassInv, ClassAt, Alive
  <2>2. generation[c] \in Generation /\ 1..generation[c] \subseteq Generation
    <3>1. generation[c] \in Generation
      BY <2>1 DEF RegisteredAt
    <3> QED
      BY <3>1, MortalAssumption DEF Generation
  <2> QED
    BY <2>1, <2>2 DEF RegisteredAt
<1> QED
  BY <1>1, Invariant, PTL

(* Classes of the native metaclass leave no registration, no values, no    *)
(* callback and no table of their instances at their address.              *)
THEOREM ClassesForgotten == Spec => []ClassForgotten
<1>1. IInv => ClassForgotten
  BY DEF IInv, ClassInv, ClassAt, ForgottenAt, Some, ClassForgotten
<1> QED
  BY <1>1, Invariant, PTL
==============================================================================
