-------------------------- MODULE SlotWrappingProofs --------------------------
(***************************************************************************)
(* Proofs about SlotWrapping for any hierarchy: a wrapper is never saved   *)
(* as an original, so no chain comes back to where it started; a class     *)
(* with private attributes loses a wrapper only by an assignment two or    *)
(* more levels above; and what a wrapper chains to is what the class would *)
(* run without the library.                                                *)
(***************************************************************************)
EXTENDS SlotWrapping, NaturalsInduction, WellFoundedInduction, TLAPS

(* ------------------------- the slot an entry gets ---------------------- *)

LEMMA FirstExists ==
  ASSUME NEW S, S \subseteq Nat, S # {}
  PROVE  (CHOOSE i \in S : \A j \in S : i <= j) \in S
<1> DEFINE R == {ss \in Nat \X Nat : ss[1] < ss[2]}
<1>1. IsWellFoundedOn(R, Nat)
  BY NatLessThanWellFounded, Zenon DEF OpToRel
<1>2. PICK x \in S : \A y \in S : ~(<<y, x>> \in R)
  <2> HIDE DEF R
  <2> QED
    BY <1>1, WFMin
<1>3. \A y \in S : ~(y < x)
  <2> SUFFICES ASSUME NEW y \in S, y < x PROVE <<y, x>> \in R
    BY <1>2
  <2>1. <<y, x>> \in Nat \X Nat /\ <<y, x>>[1] < <<y, x>>[2]
    OBVIOUS
  <2> QED
    BY <2>1
<1>4. \A y \in S : x <= y
  <2> HIDE DEF R
  <2> QED
    BY <1>3
<1> QED
  BY <1>4

Slots == [Class -> [Slot -> Function]]
Originals == (Function \ {"wrapper"}) \cup {NoEntry}

(* The walk of get_need_tp_x ends at a slot that is not a wrapper.         *)
LEMMA NeedOriginal ==
  ASSUME TypeOK, NEW L \in Slots, NEW c \in Class, NEW s \in Slot
  PROVE  Need(L, c, s) \in Originals
<1> DEFINE real == {i \in DOMAIN Chain[c] : Found(L, Chain[c][i], s) \notin {NoEntry} \cup Default(s)}
<1>0. Chain[c] \in Seq(Class)
  BY HierarchyAssumption
<1>1. \A i \in DOMAIN Chain[c] : i \in Nat /\ Chain[c][i] \in Class
  BY <1>0
<1>2. real \subseteq Nat
  BY <1>1
<1>3. \A i \in real : Found(L, Chain[c][i], s) \in Originals
  <2>1. \A b \in Class : saved[b][s] \in Originals /\ L[b][s] \in Function
    BY DEF TypeOK, Slots, Originals
  <2>2. "wrapper" \in Default(s)
    BY DEF Default
  <2>3. \A b \in Class : Found(L, b, s) \in Originals \cup {"wrapper"}
    BY <2>1 DEF Found, Originals
  <2> QED
    BY <1>1, <2>2, <2>3
<1>4. RootSlot[s] \in Originals
  BY HierarchyAssumption DEF Originals, Function
<1>5. Need(L, c, s) = IF real = {} THEN RootSlot[s]
                      ELSE Found(L, Chain[c][CHOOSE i \in real : \A j \in real : i <= j], s)
  BY DEF Need
<1> HIDE DEF real
<1> QED
  BY <1>2, <1>3, <1>4, <1>5, FirstExists

LEMMA BaseOriginal ==
  ASSUME TypeOK, NEW L \in Slots, NEW c \in Class, NEW s \in Slot
  PROVE  OfBase(L, c, s) \in Originals
<1>0. Chain[c] \in Seq(Class)
  BY HierarchyAssumption
<1>1. Base(c) \in Class \cup {Root}
  BY <1>0 DEF Base
<1>2. RootSlot[s] \in Originals
  BY HierarchyAssumption DEF Originals, Function
<1>3. ASSUME Base(c) \in Class
      PROVE  saved[Base(c)][s] \in Originals /\ L[Base(c)][s] \in Function
  BY <1>3 DEF TypeOK, Slots, Originals
<1> QED
  BY <1>1, <1>2, <1>3 DEF OfBase, Originals

(* Whatever the interpreter left in the slots, ensuring classes saves no   *)
(* wrapper.                                                                *)
LEMMA EnsureTyped ==
  ASSUME TypeOK, NEW L \in Slots, NEW S, EnsureAll(L, S)
  PROVE  live' \in Slots /\ saved' \in [Class -> [Slot -> Originals]]
<1>1. \A c \in Class, s \in Slot : Ensured(L, c, s) \in Originals
  BY NeedOriginal, BaseOriginal DEF Ensured, Originals, TypeOK, Slots
<1>2. live' \in Slots
  BY DEF EnsureAll, Slots, Function
<1>3. \A c \in Class, s \in Slot : saved[c][s] \in Originals
  BY DEF TypeOK, Originals
<1>4. saved' = [c \in Class |-> [s \in Slot |-> IF c \in S THEN Ensured(L, c, s) ELSE saved[c][s]]]
  BY DEF EnsureAll
<1> HIDE DEF Originals
<1>5. saved' \in [Class -> [Slot -> Originals]]
  BY <1>1, <1>3, <1>4
<1> QED
  BY <1>2, <1>5

(* --------------------------- the steps --------------------------------- *)

LEMMA PureTyped ==
  ASSUME NEW d, NEW c \in Class, NEW s \in Slot
  PROVE  Pure(d, c, s) \in Function
  BY HierarchyAssumption DEF Pure, Function

LEMMA TypeStep == TypeOK /\ [Next]_vars => TypeOK'
<1> SUFFICES ASSUME TypeOK, [Next]_vars PROVE TypeOK'
  OBVIOUS
<1>0. live \in Slots
  BY DEF TypeOK, Slots
<1>1. ASSUME NEW c \in Class, NEW d \in SUBSET Dispatched, Make(c, d)
      PROVE  TypeOK'
  <2>1. /\ made' = made \cup {c} /\ defines' = [defines EXCEPT ![c] = d]
        /\ live' = [live EXCEPT ![c] = [s \in Slot |-> Pure(defines', c, s)]]
        /\ installed' = installed /\ saved' = saved
    BY <1>1 DEF Make
  <2>2. [s \in Slot |-> Pure(defines', c, s)] \in [Slot -> Function]
    BY PureTyped
  <2> QED
    BY <2>1, <2>2 DEF TypeOK
<1>2. ASSUME NEW c \in Class, Install(c) \/ EnsureType(c) \/ Access(c)
      PROVE  TypeOK'
  <2>1. \E S : EnsureAll(live, S)
    BY <1>2 DEF Install, EnsureType, Access
  <2>2. live' \in Slots /\ saved' \in [Class -> [Slot -> Originals]]
    BY <1>0, <2>1, EnsureTyped
  <2> QED
    BY <1>2, <2>2 DEF TypeOK, Install, EnsureType, Access, Slots, Originals
<1>3. ASSUME NEW c \in Class, NEW s \in Dispatched, SetSpecial(c, s)
      PROVE  TypeOK'
  <2> DEFINE L == [x \in Class |->
                IF x \in Updated(c, s) THEN [live[x] EXCEPT ![s] = Pure(defines', x, s)] ELSE live[x]]
  <2>1. EnsureAll(L, Family(c) \cap Private) /\ made' = made /\ installed' = installed
    BY <1>3 DEF SetSpecial
  <2>2. L \in Slots
    BY PureTyped DEF TypeOK, Slots, Slot
  <2>3. live' \in Slots /\ saved' \in [Class -> [Slot -> Originals]]
    <3> HIDE DEF L
    <3> QED
      BY <2>1, <2>2, EnsureTyped
  <2>4. defines' \in [Class -> SUBSET Dispatched]
    BY <1>3 DEF SetSpecial, TypeOK
  <2> QED
    BY <2>1, <2>3, <2>4 DEF TypeOK, Slots, Originals
<1>4. CASE UNCHANGED vars
  BY <1>4 DEF vars, TypeOK
<1> QED
  BY <1>1, <1>2, <1>3, <1>4 DEF Next

LEMMA TypeInit == Init => TypeOK
<1> SUFFICES ASSUME Init PROVE TypeOK
  OBVIOUS
<1>1. made = {} /\ installed = {} /\ defines \in [Class -> SUBSET Dispatched]
  BY DEF Init
<1>2. live \in [Class -> [Slot -> Function]]
  BY DEF Init, Function
<1>3. saved \in [Class -> [Slot -> (Function \ {"wrapper"}) \cup {NoEntry}]]
  BY DEF Init
<1> QED
  BY <1>1, <1>2, <1>3 DEF TypeOK

LEMMA AncestorsOf ==
  ASSUME NEW c \in Class
  PROVE  /\ c \in Mro[c] /\ Mro[c] \subseteq Class
         /\ \A b \in Bases[c] : b \in Class /\ Mro[b] \subseteq Mro[c]
         /\ \A x \in Mro[c] : x = c \/ \E b \in Bases[c] : x \in Mro[b]
<1>1. Mro[c] = {c} \cup UNION {Mro[b] : b \in Bases[c]}
  BY HierarchyAssumption
<1>2. Bases[c] \subseteq Class /\ Mro[c] \subseteq Class
  BY HierarchyAssumption
<1> QED
  BY <1>1, <1>2

(* The interpreter recomputes a slot only below the assignment, in classes *)
(* that do not have the special method themselves.                         *)
LEMMA UpdatedBelow ==
  ASSUME TypeOK, NEW x \in made, NEW s, NEW c \in Updated(x, s), c # x
  PROVE  s \notin defines[c] /\ x \in Mro[c]
<1> DEFINE R == {x} \cup {d \in made : s \notin defines[d] /\ x \in Mro[d]}
<1>1. \A d \in made : s \notin defines[d] /\ Bases[d] \cap R # {} => d \in R
  BY AncestorsOf DEF TypeOK
<1>2. R \in SUBSET made /\ x \in R
  OBVIOUS
<1>3. c \in R
  <2> HIDE DEF R
  <2> QED
    BY <1>1, <1>2 DEF Updated
<1> QED
  BY <1>3

LEMMA LossStep ==
  ASSUME TypeOK, [Next]_vars, NEW c \in installed, NEW s \in Slot,
         live[c][s] = "wrapper", live'[c][s] # "wrapper"
  PROVE  /\ s \in Dispatched \ defines[c]
         /\ \E a \in Mro[c] \ ({c} \cup Bases[c]) : defines'[a] # defines[a]
<1>0. c \in made /\ c \in Class /\ c \in Private
  BY DEF TypeOK
<1>1. ASSUME NEW x \in Class, NEW d \in SUBSET Dispatched, Make(x, d)
      PROVE  FALSE
  BY <1>0, <1>1 DEF Make, TypeOK
<1>2. ASSUME NEW x \in Class, Install(x) \/ EnsureType(x) \/ Access(x)
      PROVE  FALSE
  BY <1>0, <1>2 DEF Install, EnsureType, Access, EnsureAll
<1>3. ASSUME NEW x \in Class, NEW r \in Dispatched, SetSpecial(x, r)
      PROVE  /\ s \in Dispatched \ defines[c]
             /\ \E a \in Mro[c] \ ({c} \cup Bases[c]) : defines'[a] # defines[a]
  <2> DEFINE L == [y \in Class |->
                IF y \in Updated(x, r) THEN [live[y] EXCEPT ![r] = Pure(defines', y, r)] ELSE live[y]]
  <2>1. x \in made /\ defines' # defines /\ (\E d : defines' = [defines EXCEPT ![x] = d])
        /\ EnsureAll(L, Family(x) \cap Private)
    BY <1>3 DEF SetSpecial, TypeOK
  <2>2. c \notin Family(x) /\ L[c][s] # "wrapper"
    BY <1>0, <2>1 DEF EnsureAll
  <2>3. c \in Updated(x, r) /\ s = r
    BY <1>0, <2>2 DEF TypeOK
  <2>4. c # x /\ x \notin Bases[c]
    BY <1>0, <2>2 DEF Family
  <2>5. s \notin defines[c] /\ x \in Mro[c]
    BY <2>1, <2>3, <2>4, UpdatedBelow
  <2>6. defines'[x] # defines[x]
    BY <2>1 DEF TypeOK
  <2> QED
    BY <2>3, <2>4, <2>5, <2>6
<1>4. CASE UNCHANGED vars
  BY <1>4 DEF vars
<1> QED
  BY <1>1, <1>2, <1>3, <1>4 DEF Next

(* ------------------- wrapping changes no behaviour --------------------- *)

LEMMA TypeAlways == Spec => []TypeOK
  BY TypeInit, TypeStep, PTL DEF Spec

(* What keeps it so: a class is made after its bases, and the slot of a    *)
(* made class, or what its wrapper has saved, is the one the interpreter   *)
(* computes, for the special methods d.                                    *)
Faithful(d, L, S) ==
  \A c \in made, s \in Slot :
    (IF L[c][s] = "wrapper" THEN S[c][s] ELSE L[c][s]) = Pure(d, c, s)

Matches == (\A c \in made : Mro[c] \subseteq made) /\ Faithful(defines, live, saved)

(* An ancestor's ancestors are the class's: the minimal counterexample     *)
(* would have a base without it.                                           *)
LEMMA AncestorsNest ==
  ASSUME NEW c \in Class, NEW x \in Mro[c]
  PROVE  Mro[x] \subseteq Mro[c]
<1> DEFINE Bad == {y \in Class : x \in Mro[y] /\ ~(Mro[x] \subseteq Mro[y])}
<1>1. SUFFICES ASSUME Bad # {} PROVE FALSE
  OBVIOUS
<1>2. PICK y \in Bad : Bases[y] \cap Bad = {}
  <2>1. Bad \in SUBSET Class
    OBVIOUS
  <2> HIDE DEF Bad
  <2> QED
    BY <1>1, <2>1, HierarchyAssumption
<1>3. PICK b \in Bases[y] : x \in Mro[b]
  BY AncestorsOf
<1>4. b \in Class /\ Mro[b] \subseteq Mro[y]
  BY AncestorsOf
<1> QED
  BY <1>2, <1>3, <1>4

(* update_slot skips a class below the assignment only if some other       *)
(* ancestor of it has the special method.                                  *)
LEMMA SkippedHasMethod ==
  ASSUME TypeOK, \A y \in made : Mro[y] \subseteq made,
         NEW c \in made, NEW s, NEW x \in made \ Updated(c, s), c \in Mro[x]
  PROVE  \E b \in Mro[x] \ {c} : s \in defines[b]
<1>1. PICK R \in SUBSET made :
        /\ c \in R /\ x \notin R
        /\ \A d \in made : s \notin defines[d] /\ Bases[d] \cap R # {} => d \in R
  BY DEF Updated
<1> DEFINE Bad == {y \in made \ R : c \in Mro[y] /\ \A b \in Mro[y] \ {c} : s \notin defines[b]}
<1>2. SUFFICES ASSUME x \in Bad PROVE FALSE
  BY <1>1
<1>3. PICK y \in Bad : Bases[y] \cap Bad = {}
  <2>1. Bad \in SUBSET Class /\ Bad # {}
    BY <1>2 DEF TypeOK
  <2> HIDE DEF Bad
  <2> QED
    BY <2>1, HierarchyAssumption
<1>4. y \in Class /\ y # c /\ y \in Mro[y] /\ s \notin defines[y]
  BY <1>1, AncestorsOf DEF TypeOK
<1>5. PICK b \in Bases[y] : c \in Mro[b]
  BY <1>4, AncestorsOf
<1>6. b \in Class /\ b \in Mro[b] /\ Mro[b] \subseteq Mro[y] /\ b \in made
  BY <1>4, AncestorsOf
<1>7. b \notin R
  BY <1>1, <1>4
<1> QED
  BY <1>3, <1>5, <1>6, <1>7

(* The interpreter's slot depends on the special methods of the ancestors, *)
(* and of the one assigned only if no other ancestor has it.               *)
LEMMA PureKept ==
  ASSUME NEW c \in Class, NEW s \in Slot, NEW d, NEW e,
         \/ \A b \in Mro[c] : s \in d[b] <=> s \in e[b]
         \/ \E b \in Mro[c] : s \in d[b] /\ s \in e[b]
  PROVE  Pure(d, c, s) = Pure(e, c, s)
  BY DEF Pure

(* The entry a class gets when it is ensured is the interpreter's slot.    *)
LEMMA EnsuredFaithful ==
  ASSUME TypeOK, \A y \in made : Mro[y] \subseteq made,
         NEW d, NEW L \in Slots, Faithful(d, L, saved), NEW c \in made, NEW s \in Slot
  PROVE  Ensured(L, c, s) = Pure(d, c, s)
<1>0. c \in Class /\ L[c][s] \in Function /\ Pure(d, c, s) \in Function
  BY PureTyped DEF TypeOK, Slots
<1>1. CASE L[c][s] = "wrapper"
  <2>1. saved[c][s] = Pure(d, c, s)
    BY <1>1 DEF Faithful
  <2> QED
    BY <1>0, <1>1, <2>1 DEF Ensured, NoEntry, Function
<1>2. CASE L[c][s] = "NULL"
  <2>1. Pure(d, c, s) = "NULL"
    BY <1>2 DEF Faithful
  <2>2. s \notin Collected /\ RootSlot[s] = "NULL" /\ ~(\E b \in Mro[c] : s \in d[b])
    BY <2>1 DEF Pure
  <2>3. ASSUME NEW b \in Mro[c] PROVE Found(L, b, s) \in {"NULL", NoEntry}
    <3>1. Mro[b] \subseteq Mro[c] /\ b \in made
      BY <1>0, AncestorsNest
    <3>2. Pure(d, b, s) = "NULL"
      BY <2>2, <3>1 DEF Pure
    <3>3. IF L[b][s] = "wrapper" THEN saved[b][s] = "NULL" ELSE L[b][s] = "NULL"
      BY <3>1, <3>2 DEF Faithful
    <3> QED
      BY <2>2, <3>3 DEF Found, Default
  <2>4. Need(L, c, s) = "NULL"
    <3> DEFINE real == {i \in DOMAIN Chain[c] : Found(L, Chain[c][i], s) \notin {NoEntry} \cup Default(s)}
    <3>1. Chain[c] \in Seq(Class) /\ \A i \in DOMAIN Chain[c] : Chain[c][i] \in Mro[c]
      BY <1>0, HierarchyAssumption
    <3>2. real \subseteq Nat
      BY <3>1
    <3>3. \A i \in real : Found(L, Chain[c][i], s) = "NULL"
      BY <2>3, <3>1
    <3>4. Need(L, c, s) = IF real = {} THEN RootSlot[s]
                          ELSE Found(L, Chain[c][CHOOSE i \in real : \A j \in real : i <= j], s)
      BY DEF Need
    <3> HIDE DEF real
    <3> QED
      BY <2>2, <3>2, <3>3, <3>4, FirstExists
  <2> QED
    BY <1>2, <2>1, <2>4 DEF Ensured
<1>3. CASE L[c][s] \notin {"wrapper", "NULL"}
  BY <1>3 DEF Ensured, Faithful
<1> QED
  BY <1>1, <1>2, <1>3

LEMMA EnsureFaithful ==
  ASSUME TypeOK, \A y \in made : Mro[y] \subseteq made,
         NEW d, NEW L \in Slots, Faithful(d, L, saved), NEW S, EnsureAll(L, S)
  PROVE  Faithful(d, live', saved')
<1> SUFFICES ASSUME NEW c \in made, NEW s \in Slot
             PROVE  (IF live'[c][s] = "wrapper" THEN saved'[c][s] ELSE live'[c][s]) = Pure(d, c, s)
  BY DEF Faithful
<1>0. c \in Class
  BY DEF TypeOK
<1>1. Ensured(L, c, s) = Pure(d, c, s)
  BY EnsuredFaithful
<1>2. live'[c][s] = (IF c \in S THEN "wrapper" ELSE L[c][s])
      /\ saved'[c][s] = (IF c \in S THEN Ensured(L, c, s) ELSE saved[c][s])
  BY <1>0 DEF EnsureAll
<1>3. (IF L[c][s] = "wrapper" THEN saved[c][s] ELSE L[c][s]) = Pure(d, c, s)
  BY DEF Faithful
<1> QED
  BY <1>1, <1>2, <1>3

(* What the interpreter leaves after an assignment is faithful again.      *)
LEMMA RecomputedFaithful ==
  ASSUME TypeOK, Matches, NEW c \in made, NEW s \in Slot, NEW d,
         \A b \in Class \ {c} : d[b] = defines[b],
         \A r \in Slot \ {s} : r \in d[c] <=> r \in defines[c],
         NEW L, L = [x \in Class |->
                 IF x \in Updated(c, s) THEN [live[x] EXCEPT ![s] = Pure(d, x, s)] ELSE live[x]]
  PROVE  Faithful(d, L, saved)
<1> SUFFICES ASSUME NEW x \in made, NEW r \in Slot
             PROVE  (IF L[x][r] = "wrapper" THEN saved[x][r] ELSE L[x][r]) = Pure(d, x, r)
  BY DEF Faithful
<1>0. x \in Class /\ Mro[x] \subseteq Class /\ live[x] \in [Slot -> Function]
  BY AncestorsOf DEF TypeOK
<1>1. CASE x \in Updated(c, s) /\ r = s
  <2>1. L[x][r] = Pure(d, x, s)
    BY <1>0, <1>1
  <2>2. Pure(d, x, s) # "wrapper"
    BY HierarchyAssumption DEF Pure
  <2> QED
    BY <1>1, <2>1, <2>2
<1>2. CASE x \notin Updated(c, s) \/ r # s
  <2>1. L[x][r] = live[x][r]
    BY <1>0, <1>2
  <2>2. Pure(d, x, r) = Pure(defines, x, r)
    <3>1. CASE r # s
      <4>1. \A b \in Mro[x] : r \in d[b] <=> r \in defines[b]
        BY <1>0, <3>1
      <4> QED
        BY <1>0, <4>1, PureKept
    <3>2. CASE r = s /\ c \notin Mro[x]
      <4>1. \A b \in Mro[x] : r \in d[b] <=> r \in defines[b]
        BY <1>0, <3>2
      <4> QED
        BY <1>0, <4>1, PureKept
    <3>3. CASE r = s /\ c \in Mro[x]
      <4>1. PICK b \in Mro[x] \ {c} : s \in defines[b]
        BY <1>2, <3>3, SkippedHasMethod DEF Matches
      <4>2. s \in d[b]
        BY <1>0, <4>1
      <4> QED
        BY <1>0, <3>3, <4>1, <4>2, PureKept
    <3> QED
      BY <3>1, <3>2, <3>3
  <2> QED
    BY <2>1, <2>2 DEF Matches, Faithful
<1> QED
  BY <1>1, <1>2

LEMMA MatchesStep == TypeOK /\ Matches /\ [Next]_vars => Matches'
<1> SUFFICES ASSUME TypeOK, Matches, [Next]_vars PROVE Matches'
  OBVIOUS
<1>0. live \in Slots /\ \A y \in made : Mro[y] \subseteq made
  BY DEF TypeOK, Slots, Matches
<1>1. ASSUME NEW c \in Class, NEW d \in SUBSET Dispatched, Make(c, d)
      PROVE  Matches'
  <2>1. /\ c \notin made /\ Bases[c] \subseteq made /\ made' = made \cup {c}
        /\ defines' = [defines EXCEPT ![c] = d]
        /\ live' = [live EXCEPT ![c] = [s \in Slot |-> Pure(defines', c, s)]]
        /\ saved' = saved
    BY <1>1 DEF Make
  <2>2. \A y \in made' : Mro[y] \subseteq made'
    BY <1>0, <2>1, AncestorsOf
  <2>3. ASSUME NEW y \in made', NEW s \in Slot
        PROVE  (IF live'[y][s] = "wrapper" THEN saved'[y][s] ELSE live'[y][s]) = Pure(defines', y, s)
    <3>1. CASE y = c
      <4>1. live'[y][s] = Pure(defines', y, s)
        BY <2>1, <3>1 DEF TypeOK
      <4>2. Pure(defines', y, s) # "wrapper"
        BY HierarchyAssumption DEF Pure
      <4> QED
        BY <4>1, <4>2
    <3>2. CASE y # c
      <4>1. y \in made /\ y \in Class /\ c \notin Mro[y] /\ Mro[y] \subseteq Class
        BY <1>0, <2>1, <3>2, AncestorsOf DEF TypeOK
      <4>2. \A b \in Mro[y] : defines'[b] = defines[b]
        BY <2>1, <4>1 DEF TypeOK
      <4>3. Pure(defines', y, s) = Pure(defines, y, s)
        BY <4>1, <4>2, PureKept
      <4>4. live'[y] = live[y]
        BY <2>1, <3>2, <4>1 DEF TypeOK
      <4> QED
        BY <2>1, <4>1, <4>3, <4>4 DEF Matches, Faithful
    <3> QED
      BY <3>1, <3>2
  <2> QED
    BY <2>2, <2>3 DEF Matches, Faithful
<1>2. ASSUME NEW c \in Class, Install(c) \/ EnsureType(c) \/ Access(c)
      PROVE  Matches'
  <2>1. (\E S : EnsureAll(live, S)) /\ made' = made /\ defines' = defines
    BY <1>2 DEF Install, EnsureType, Access
  <2>2. Faithful(defines, live', saved')
    BY <1>0, <2>1, EnsureFaithful DEF Matches
  <2> QED
    BY <1>0, <2>1, <2>2 DEF Matches, Faithful
<1>3. ASSUME NEW c \in Class, NEW s \in Dispatched, SetSpecial(c, s)
      PROVE  Matches'
  <2> DEFINE L == [x \in Class |->
                IF x \in Updated(c, s) THEN [live[x] EXCEPT ![s] = Pure(defines', x, s)] ELSE live[x]]
  <2>1. c \in made /\ EnsureAll(L, Family(c) \cap Private) /\ made' = made
    BY <1>3 DEF SetSpecial
  <2>2. PICK d \in {defines[c] \cup {s}, defines[c] \ {s}} : defines' = [defines EXCEPT ![c] = d]
    BY <1>3 DEF SetSpecial
  <2>3. /\ \A b \in Class \ {c} : defines'[b] = defines[b]
        /\ \A r \in Slot \ {s} : r \in defines'[c] <=> r \in defines[c]
    BY <2>2 DEF TypeOK
  <2>4. Faithful(defines', L, saved)
    BY <2>1, <2>3, RecomputedFaithful DEF Slot
  <2>5. L \in Slots
    BY PureTyped DEF TypeOK, Slots, Slot
  <2>6. Faithful(defines', live', saved')
    <3> HIDE DEF L
    <3> QED
      BY <1>0, <2>1, <2>4, <2>5, EnsureFaithful
  <2> QED
    BY <1>0, <2>1, <2>6 DEF Matches, Faithful
<1>4. CASE UNCHANGED vars
  BY <1>4 DEF vars, Matches, Faithful
<1> QED
  BY <1>1, <1>2, <1>3, <1>4 DEF Next

LEMMA AlwaysMatches == Spec => []Matches
<1>1. Init => Matches
  BY DEF Init, Matches, Faithful
<1> QED
  BY <1>1, MatchesStep, TypeAlways, PTL DEF Spec

LEMMA MatchesTransparent == TypeOK /\ Matches => Transparent
<1> SUFFICES ASSUME TypeOK, Matches, NEW c \in made, NEW s \in Dispatched
             PROVE  Effective(c, s) = Pure(defines, c, s)
  BY DEF Transparent
<1>1. (IF live[c][s] = "wrapper" THEN saved[c][s] ELSE live[c][s]) = Pure(defines, c, s)
  BY DEF Matches, Faithful, Slot
<1>2. c \in Class /\ Pure(defines, c, s) # NoEntry
  BY PureTyped DEF TypeOK, Slot, Function, NoEntry
<1> QED
  BY <1>1, <1>2 DEF Effective

(* ------------------------------ theorems ------------------------------- *)

(* The slots keep their kinds, and no wrapper is ever saved as the slot a  *)
(* wrapper chains to (ensure_tp and the walks it falls back on).           *)
THEOREM TypeCorrect == Spec => []TypeOK
  BY TypeAlways

(* What the setattr wrappers do not put back is two or more levels below   *)
(* the assignment, and inherits the special method assigned.               *)
THEOREM LossesExplained == Spec => LostOnlyFromAfar
<1>1. TypeOK /\ [Next]_vars =>
        [\A c \in installed, s \in Slot :
           live[c][s] = "wrapper" /\ live'[c][s] # "wrapper" =>
             /\ s \in Dispatched \ defines[c]
             /\ \E a \in Mro[c] \ ({c} \cup Bases[c]) : defines'[a] # defines[a]]_vars
  BY LossStep
<1> QED
  BY <1>1, TypeCorrect, PTL DEF Spec, LostOnlyFromAfar

(* However special methods are assigned to and deleted from the classes of *)
(* a hierarchy, before and after they get their wrappers, an instance of   *)
(* any class reads attributes and is finalized as if there were none: the  *)
(* slot its class chains to is the one the interpreter would have.         *)
THEOREM WrappingTransparent == Spec => []Transparent
  BY AlwaysMatches, TypeCorrect, MatchesTransparent, PTL
===============================================================================
