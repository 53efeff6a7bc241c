--------------------------- MODULE TraversalProofs ---------------------------
(***************************************************************************)
(* Proofs about Traversal for any hierarchy: the collector visits what an  *)
(* instance of an installed class refers to exactly once, all of it by the *)
(* wrapper, and never gets to the items of a native base; of an instance   *)
(* of a class not installed it misses nothing, and counts twice only what  *)
(* the class adds below a wrapper.                                         *)
(***************************************************************************)
EXTENDS Traversal, SlotWrappingProofs, FiniteSetTheorems

(* An installed class keeps its wrappers of the collector's slots, with    *)
(* the interpreter's default as the original, and the classes above it     *)
(* have the one or the other.                                              *)
Wrapped ==
  \A c \in installed, op \in Collected :
    /\ live[c][op] = "wrapper" /\ saved[c][op] = "subtype"
    /\ \A b \in Mro[c] : live[b][op] \in {"wrapper", "subtype"}

(* An installed class never loses the wrappers of the collector's slots.   *)
Kept == \A c \in installed, op \in Collected : live[c][op] = "wrapper"

LEMMA KeptStep == TypeOK /\ Kept /\ [Next]_vars => Kept'
<1> SUFFICES ASSUME TypeOK, Kept, [Next]_vars,
                    NEW c \in installed', NEW op \in Collected
             PROVE  live'[c][op] = "wrapper"
  BY DEF Kept
<1>1. CASE c \in installed
  <2>1. live[c][op] = "wrapper" /\ op \in Slot /\ op \notin Dispatched
    BY <1>1 DEF Kept, Slot, Collected, Dispatched
  <2> QED
    BY <1>1, <2>1, LossStep
<1>2. CASE c \notin installed
  <2>1. PICK x \in Class : Install(x)
    BY <1>2 DEF Next, Make, EnsureType, Access, SetSpecial, vars
  <2>2. x = c /\ EnsureAll(live, {c}) /\ c \in Class
    BY <1>2, <2>1 DEF Install
  <2> QED
    BY <2>2 DEF EnsureAll, Slot
<1> QED
  BY <1>1, <1>2

LEMMA KeptWrapped == TypeOK /\ Matches /\ Kept => Wrapped
<1> SUFFICES ASSUME TypeOK, Matches, Kept, NEW c \in installed, NEW op \in Collected
             PROVE  /\ live[c][op] = "wrapper" /\ saved[c][op] = "subtype"
                    /\ \A b \in Mro[c] : live[b][op] \in {"wrapper", "subtype"}
  BY DEF Wrapped
<1>1. c \in made /\ Mro[c] \subseteq made /\ live[c][op] = "wrapper" /\ op \in Slot
  BY DEF TypeOK, Kept, Matches, Slot
<1>2. \A b \in made : (IF live[b][op] = "wrapper" THEN saved[b][op] ELSE live[b][op]) = "subtype"
  BY <1>1 DEF Matches, Faithful, Pure
<1> QED
  BY <1>1, <1>2

(* ------------------------------- the walks ----------------------------- *)

LEMMA LineOf ==
  ASSUME NEW c \in Class
  PROVE  /\ 1 \in DOMAIN Line(c) /\ Line(c)[1] = c /\ DOMAIN Line(c) \subseteq Nat \ {0}
         /\ \A i \in DOMAIN Line(c) : Line(c)[i] \in Mro[c] /\ \A j \in 1..i : j \in DOMAIN Line(c)
<1>1. Chain[c] \in Seq(Class) /\ \A i \in DOMAIN Chain[c] : Chain[c][i] \in Mro[c]
  BY HierarchyAssumption
<1>2. Line(c) \in Seq(Class) /\ Len(Line(c)) = 1 + Len(Chain[c]) /\ Line(c)[1] = c
      /\ \A i \in 2..Len(Line(c)) : Line(c)[i] = Chain[c][i - 1]
  BY <1>1 DEF Line
<1>3. DOMAIN Line(c) = 1..Len(Line(c)) /\ Len(Line(c)) \in Nat /\ Len(Chain[c]) \in Nat
      /\ DOMAIN Chain[c] = 1..Len(Chain[c])
  BY <1>1, <1>2
<1>4. c \in Mro[c]
  BY AncestorsOf
<1>5. ASSUME NEW i \in DOMAIN Line(c) PROVE Line(c)[i] \in Mro[c]
  <2>1. CASE i = 1
    BY <1>2, <1>4, <2>1
  <2>2. CASE i # 1
    <3>1. i \in 2..Len(Line(c)) /\ i - 1 \in DOMAIN Chain[c]
      BY <1>2, <1>3, <2>2
    <3> QED
      BY <1>1, <1>2, <3>1
  <2> QED
    BY <2>1, <2>2
<1> QED
  BY <1>2, <1>3, <1>5

(* The interpreter's default, called under the wrapper of the class, stops *)
(* at the class and visits nothing.                                        *)
LEMMA OriginalVisitsNothing ==
  ASSUME NEW c \in Class, NEW op \in Collected,
         live[c][op] = "wrapper", saved[c][op] = "subtype"
  PROVE  Original(op, c) = {}
<1>1. c \in Class /\ live[c][op] = "wrapper" /\ saved[c][op] = "subtype"
  OBVIOUS
<1>0. c # Root
  BY <1>1, HierarchyAssumption
<1>2. Walked(op, {"subtype"}, c) = {}
  <2>1. \A i \in DOMAIN Line(c) : 1 \in 1..i
    BY <1>1, LineOf
  <2> QED
    BY <1>1, <2>1, LineOf DEF Walked
<1>3. Stop(op, c) = c
  <2> DEFINE others == {i \in DOMAIN Line(c) : live[Line(c)[i]][op] # "subtype"}
  <2>1. 1 \in others /\ others \subseteq Nat \ {0}
    BY <1>1, LineOf
  <2>2. (CHOOSE i \in others : \A j \in others : i <= j) = 1
    <3> DEFINE least == CHOOSE i \in others : \A j \in others : i <= j
    <3> HIDE DEF others
    <3>1. \E i \in others : \A j \in others : i <= j
      BY <2>1
    <3>2. least \in others /\ \A j \in others : least <= j
      BY <3>1
    <3> HIDE DEF least
    <3>3. least = 1
      BY <2>1, <3>2
    <3> QED
      BY <3>3 DEF least
  <2>3. Stop(op, c) = IF others = {} THEN Root
                      ELSE Line(c)[CHOOSE i \in others : \A j \in others : i <= j]
    BY DEF Stop
  <2> HIDE DEF others
  <2> QED
    BY <1>1, <2>1, <2>2, <2>3, LineOf
<1>4. SubtypeOwn(op, c) = {}
  BY <1>0, <1>1, <1>2, <1>3 DEF SubtypeOwn, SlotWalk, If
<1> QED
  BY <1>1, <1>4 DEF Original, NoEntry

LEMMA WholeLineWalked ==
  ASSUME NEW c \in Class, NEW op \in Collected, NEW F,
         \A i \in DOMAIN Line(c) : live[Line(c)[i]][op] \in F
  PROVE  SlotWalk(op, F, c) = {SlotsOf(b) : b \in Mro[c] \cap HasSlots}
<1>2. Walked(op, F, c) = {Line(c)[i] : i \in DOMAIN Line(c)}
  BY LineOf DEF Walked
<1>3. {Line(c)[i] : i \in DOMAIN Line(c)} \cap HasSlots = Mro[c] \cap HasSlots
  BY LineOf, LayoutAssumption
<1> QED
  BY <1>2, <1>3 DEF SlotWalk

LEMMA VisitsOfInstalled ==
  ASSUME TypeOK, Wrapped, NEW c \in installed, NEW op \in Collected
  PROVE  Visits(op, c) = {"wrapper"} \X References(op, c)
<1>0. /\ c \in Class /\ live[c][op] = "wrapper" /\ saved[c][op] = "subtype"
      /\ \A i \in DOMAIN Line(c) : live[Line(c)[i]][op] \in {"subtype", "wrapper"}
  BY LineOf DEF TypeOK, Wrapped
<1>1. Visits(op, c) = Wrapper(op, c)
  BY <1>0 DEF Visits
<1>2. Wrapper(op, c) =
        {"wrapper"} \X (SlotWalk(op, {"subtype", "wrapper"}, c) \cup If(c \in HasDict, Dict)
                        \cup If(op = "traverse", Type) \cup {Values(w) : w \in Mro[c] \cap Private})
  BY <1>0, OriginalVisitsNothing DEF Wrapper, Owners
<1>3. SlotWalk(op, {"subtype", "wrapper"}, c) \cup If(c \in HasDict, Dict)
        \cup If(op = "traverse", Type) \cup {Values(w) : w \in Mro[c] \cap Private}
      = References(op, c)
  BY <1>0, WholeLineWalked DEF References
<1> QED
  BY <1>1, <1>2, <1>3

LEMMA WrappedVisitsOnce == TypeOK /\ Wrapped => VisitedOnce
<1> SUFFICES ASSUME TypeOK, Wrapped, NEW c \in installed, NEW op \in Collected
             PROVE  /\ \A r \in References(op, c) : Times(Visits(op, c), r) = 1
                    /\ {v[2] : v \in Visits(op, c)} \subseteq References(op, c)
  BY DEF VisitedOnce
<1>1. Visits(op, c) = {"wrapper"} \X References(op, c)
  BY VisitsOfInstalled
<1>2. ASSUME NEW r \in References(op, c) PROVE Times(Visits(op, c), r) = 1
  <2>1. {v \in Visits(op, c) : v[2] = r} = {<<"wrapper", r>>}
    BY <1>1
  <2> QED
    BY <2>1, FS_Singleton DEF Times
<1> QED
  BY <1>1, <1>2

LEMMA NoContents ==
  ASSUME NEW c, NEW op
  PROVE  Contents \notin References(op, c)
  BY DEF References, Contents, SlotsOf, Values, Dict, Type, If

(* ------------------------ unregistered classes ------------------------- *)

(* The collector's slots change only by wrapping: a made class without a   *)
(* wrapper has the interpreter's default, and nothing is saved for it.     *)
Bare ==
  \A c \in Class, op \in Collected :
    /\ live[c][op] = "wrapper" => c \in made
    /\ live[c][op] # "wrapper" => saved[c][op] = NoEntry

LEMMA EnsureBare ==
  ASSUME Bare, NEW L, NEW S, S \subseteq made, EnsureAll(L, S), made' = made,
         \A c \in Class, op \in Collected : L[c][op] = live[c][op]
  PROVE  Bare'
<1> SUFFICES ASSUME NEW c \in Class, NEW op \in Collected
             PROVE  /\ live'[c][op] = "wrapper" => c \in made
                    /\ live'[c][op] # "wrapper" => saved'[c][op] = NoEntry
  BY DEF Bare
<1>1. CASE c \in S
  BY <1>1 DEF EnsureAll, Slot
<1>2. CASE c \notin S
  BY <1>2 DEF EnsureAll, Slot, Bare
<1> QED
  BY <1>1, <1>2

LEMMA BareStep == TypeOK /\ Bare /\ [Next]_vars => Bare'
<1> SUFFICES ASSUME TypeOK, Bare, [Next]_vars PROVE Bare'
  OBVIOUS
<1>1. ASSUME NEW c \in Class, NEW d \in SUBSET Dispatched, Make(c, d)
      PROVE  Bare'
  <2>1. /\ made' = made \cup {c} /\ saved' = saved
        /\ c \notin made
        /\ live' = [live EXCEPT ![c] = [s \in Slot |-> Pure(defines', c, s)]]
    BY <1>1 DEF Make
  <2>2. ASSUME NEW x \in Class, NEW op \in Collected
        PROVE  /\ live'[x][op] = "wrapper" => x \in made'
               /\ live'[x][op] # "wrapper" => saved'[x][op] = NoEntry
    <3>1. CASE x = c
      BY <2>1, <3>1 DEF Bare
    <3>2. CASE x # c
      BY <2>1, <3>2 DEF Bare, TypeOK
    <3> QED
      BY <3>1, <3>2
  <2> QED
    BY <2>2 DEF Bare
<1>2. ASSUME NEW c \in Class, Install(c) \/ EnsureType(c) \/ Access(c)
      PROVE  Bare'
  <2>1. \E S : S \subseteq made /\ EnsureAll(live, S) /\ made' = made
    BY <1>2 DEF Install, EnsureType, Access, Family
  <2> QED
    BY <2>1, EnsureBare
<1>3. ASSUME NEW c \in Class, NEW s \in Dispatched, SetSpecial(c, s)
      PROVE  Bare'
  <2> DEFINE L == [x \in Class |->
                IF x \in Updated(c, s) THEN [live[x] EXCEPT ![s] = Pure(defines', x, s)] ELSE live[x]]
  <2>1. EnsureAll(L, Family(c) \cap Private) /\ made' = made /\ Family(c) \cap Private \subseteq made
    BY <1>3 DEF SetSpecial, Family
  <2>2. \A x \in Class, op \in Collected : L[x][op] = live[x][op]
    BY DEF TypeOK, Collected, Dispatched
  <2> HIDE DEF L
  <2> QED
    BY <2>1, <2>2, EnsureBare
<1>4. CASE UNCHANGED vars
  BY <1>4 DEF vars, Bare
<1> QED
  BY <1>1, <1>2, <1>3, <1>4 DEF Next

LEMMA MadeSlots ==
  ASSUME TypeOK, Matches, Bare, NEW c \in made, NEW op \in Collected, NEW b \in Mro[c]
  PROVE  \/ live[b][op] = "wrapper" /\ saved[b][op] = "subtype"
         \/ live[b][op] = "subtype" /\ saved[b][op] = NoEntry
<1>1. b \in made /\ b \in Class /\ op \in Slot
  BY DEF Matches, TypeOK, Slot
<1>2. (IF live[b][op] = "wrapper" THEN saved[b][op] ELSE live[b][op]) = "subtype"
  BY <1>1 DEF Matches, Faithful, Pure
<1> QED
  BY <1>1, <1>2 DEF Bare

(* The walk of a class without an entry passes wrappers and defaults alike *)
(* and ends at the C type.                                                 *)
LEMMA NeedPassesAll ==
  ASSUME TypeOK, Matches, Bare, NEW c \in made, NEW op \in Collected
  PROVE  Need(live, c, op) = RootSlot[op]
<1> DEFINE real == {i \in DOMAIN Chain[c] : Found(live, Chain[c][i], op) \notin {NoEntry} \cup Default(op)}
<1>1. \A i \in DOMAIN Chain[c] : Chain[c][i] \in Mro[c]
  BY HierarchyAssumption DEF TypeOK
<1>2. Default(op) = {"wrapper", "subtype"}
  BY DEF Default
<1>3. \A i \in DOMAIN Chain[c] : Found(live, Chain[c][i], op) \in {NoEntry, "subtype"}
  BY <1>1, <1>2, MadeSlots DEF Found, NoEntry
<1>4. real = {}
  BY <1>2, <1>3
<1> QED
  BY <1>4 DEF Need

(* Where the default stops: at no class, or at one with a wrapper.         *)
LEMMA StopsAtWrapper ==
  ASSUME TypeOK, Matches, Bare, NEW c \in made, NEW op \in Collected
  PROVE  \/ /\ Stop(op, c) = Root
            /\ \A i \in DOMAIN Line(c) : live[Line(c)[i]][op] \in {"subtype"}
         \/ Stop(op, c) \in Mro[c] /\ Stop(op, c) # Root /\ live[Stop(op, c)][op] = "wrapper"
<1> DEFINE others == {i \in DOMAIN Line(c) : live[Line(c)[i]][op] # "subtype"}
<1>0. c \in Class
  BY DEF TypeOK
<1>1. others \subseteq Nat /\ \A i \in others : Line(c)[i] \in Mro[c]
  BY <1>0, LineOf
<1>2. Stop(op, c) = IF others = {} THEN Root
                    ELSE Line(c)[CHOOSE i \in others : \A j \in others : i <= j]
  BY DEF Stop
<1>3. CASE others = {}
  BY <1>2, <1>3
<1>4. CASE others # {}
  <2>1. PICK i \in others : Stop(op, c) = Line(c)[i]
    <3> HIDE DEF others
    <3> QED
      BY <1>1, <1>2, <1>4, FirstExists
  <2>2. Line(c)[i] \in Mro[c] /\ live[Line(c)[i]][op] = "wrapper"
    BY <1>1, MadeSlots
  <2>3. Line(c)[i] # Root
    <3>1. Line(c)[i] \in Class
      BY <1>0, <2>2, AncestorsOf
    <3> QED
      BY <3>1, HierarchyAssumption
  <2> QED
    BY <2>1, <2>2, <2>3
<1> QED
  BY <1>3, <1>4

(* What an instance holds but for the private values, which one of a class *)
(* that is not registered has none of.                                     *)
Held(op, c) == References(op, c) \ {Values(w) : w \in Private}

LEMMA HeldOf ==
  ASSUME NEW c, NEW op
  PROVE  /\ Held(op, c) = {SlotsOf(b) : b \in Mro[c] \cap HasSlots}
                          \cup If(c \in HasDict, Dict) \cup If(op = "traverse", Type)
         /\ Contents \notin Held(op, c)
  BY DEF Held, References, Contents, SlotsOf, Values, Dict, Type, If

LEMMA Counts ==
  ASSUME NEW visits, NEW r, NEW f, NEW g, f # g
  PROVE  /\ {v \in visits : v[2] = r} = {} => Times(visits, r) = 0
         /\ {v \in visits : v[2] = r} = {<<f, r>>} => Times(visits, r) = 1
         /\ {v \in visits : v[2] = r} = {<<f, r>>, <<g, r>>} => Times(visits, r) = 2
<1>1. IsFiniteSet({<<f, r>>}) /\ Cardinality({<<f, r>>}) = 1
  BY FS_Singleton
<1>2. Cardinality({<<f, r>>, <<g, r>>}) = 2
  <2>1. <<g, r>> \notin {<<f, r>>} /\ {<<f, r>>, <<g, r>>} = {<<f, r>>} \cup {<<g, r>>}
    OBVIOUS
  <2>2. Cardinality({<<f, r>>} \cup {<<g, r>>}) = 1 + 1
    BY <1>1, <2>1, FS_AddElement
  <2> QED
    BY <2>1, <2>2
<1>3. Times(visits, r) = Cardinality({v \in visits : v[2] = r})
  BY DEF Times
<1> QED
  BY <1>1, <1>2, <1>3, FS_EmptySet

(* A wrapper's own walk visits what the instance holds, once.              *)
LEMMA WrapperVisits ==
  ASSUME TypeOK, Matches, Bare, NEW c \in made, NEW op \in Collected
  PROVE  \E own : /\ Wrapper(op, c) = ({"original"} \X Original(op, c)) \cup ({"wrapper"} \X own)
                  /\ Held(op, c) \subseteq own /\ Contents \notin own
<1> DEFINE own == SlotWalk(op, {"subtype", "wrapper"}, c) \cup If(c \in HasDict, Dict)
                  \cup If(op = "traverse", Type) \cup {Values(w) : w \in Owners(c)}
<1>1. c \in Class /\ \A i \in DOMAIN Line(c) : live[Line(c)[i]][op] \in {"subtype", "wrapper"}
  BY LineOf, MadeSlots DEF TypeOK
<1>2. SlotWalk(op, {"subtype", "wrapper"}, c) = {SlotsOf(b) : b \in Mro[c] \cap HasSlots}
  BY <1>1, WholeLineWalked
<1>3. Held(op, c) \subseteq own
  BY <1>2, HeldOf
<1>4. Contents \notin own
  BY <1>2 DEF Contents, SlotsOf, Values, Dict, Type, If
<1>5. Wrapper(op, c) = ({"original"} \X Original(op, c)) \cup ({"wrapper"} \X own)
  BY DEF Wrapper
<1> QED
  BY <1>3, <1>4, <1>5

LEMMA WrappedClass ==
  ASSUME TypeOK, Matches, Bare, NEW c \in made, NEW op \in Collected, live[c][op] = "wrapper"
  PROVE  /\ \A r \in Held(op, c) : Times(Visits(op, c), r) = 1
         /\ Times(Visits(op, c), Contents) <= 1
<1>1. c \in Class /\ saved[c][op] = "subtype"
  BY MadeSlots, AncestorsOf DEF TypeOK
<1>2. PICK own : /\ Wrapper(op, c) = ({"original"} \X Original(op, c)) \cup ({"wrapper"} \X own)
                 /\ Held(op, c) \subseteq own /\ Contents \notin own
  BY WrapperVisits
<1>3. Visits(op, c) = {"wrapper"} \X own
  BY <1>1, <1>2, OriginalVisitsNothing DEF Visits
<1>4. ASSUME NEW r \in own PROVE {v \in Visits(op, c) : v[2] = r} = {<<"wrapper", r>>}
  BY <1>3
<1>5. {v \in Visits(op, c) : v[2] = Contents} = {}
  BY <1>2, <1>3
<1>6. Times(Visits(op, c), Contents) = 0
  BY <1>5, Counts, "wrapper" # "default"
<1>7. ASSUME NEW r \in Held(op, c) PROVE Times(Visits(op, c), r) = 1
  <2>1. {v \in Visits(op, c) : v[2] = r} = {<<"wrapper", r>>}
    BY <1>2, <1>4
  <2> QED
    BY <2>1, Counts, "wrapper" # "default"
<1> QED
  BY <1>6, <1>7

(* Without a wrapper up to the C type the default does it all.             *)
LEMMA PlainClass ==
  ASSUME TypeOK, NEW c \in made, NEW op \in Collected,
         live[c][op] = "subtype", Stop(op, c) = Root,
         \A i \in DOMAIN Line(c) : live[Line(c)[i]][op] \in {"subtype"}
  PROVE  /\ \A r \in Held(op, c) : Times(Visits(op, c), r) = 1
         /\ Times(Visits(op, c), Contents) <= 1
<1>1. c \in Class /\ Root \notin HasDict
  BY HierarchyAssumption, LayoutAssumption DEF TypeOK
<1>2. Visits(op, c) = {"default"} \X SubtypeOwn(op, c)
  BY DEF Visits
<1>3. SlotWalk(op, {"subtype"}, c) = {SlotsOf(b) : b \in Mro[c] \cap HasSlots}
  BY <1>1, WholeLineWalked
<1>4. Held(op, c) \subseteq SubtypeOwn(op, c)
  BY <1>1, <1>3, HeldOf DEF SubtypeOwn, If
<1>5. ASSUME NEW r \in SubtypeOwn(op, c) PROVE Times(Visits(op, c), r) = 1
  <2>1. {v \in Visits(op, c) : v[2] = r} = {<<"default", r>>}
    BY <1>2
  <2> QED
    BY <2>1, Counts, "default" # "wrapper"
<1>6. ASSUME NEW r, r \notin SubtypeOwn(op, c) PROVE Times(Visits(op, c), r) = 0
  <2>1. {v \in Visits(op, c) : v[2] = r} = {}
    BY <1>2, <1>6
  <2> QED
    BY <2>1, Counts, "default" # "wrapper"
<1> QED
  BY <1>4, <1>5, <1>6

(* Below a wrapper the default has visited what the class added.           *)
LEMMA AddedClass ==
  ASSUME TypeOK, Matches, Bare, NEW c \in made, NEW op \in Collected,
         live[c][op] = "subtype", NEW w \in Mro[c], w = Stop(op, c), w # Root,
         live[w][op] = "wrapper"
  PROVE  /\ \A r \in Held(op, c) :
              LET times == Times(Visits(op, c), r) IN
              \/ times = 1
              \/ /\ times = 2
                 /\ \/ r = Dict /\ w \notin HasDict
                    \/ \E b \in Mro[c] \ {w} : r = SlotsOf(b) /\ live[b][op] # "wrapper"
         /\ Times(Visits(op, c), Contents) <= 1
<1> DEFINE below == SubtypeOwn(op, c)
<1>1. c \in Class /\ saved[c][op] = NoEntry
  BY MadeSlots, AncestorsOf DEF TypeOK
<1>2. PICK own : /\ Wrapper(op, c) = ({"original"} \X Original(op, c)) \cup ({"wrapper"} \X own)
                 /\ Held(op, c) \subseteq own /\ Contents \notin own
  BY WrapperVisits
<1>3. Original(op, c) \subseteq {Contents}
  <2>1. Need(live, c, op) \in {"c function", "NULL"}
    BY NeedPassesAll, HierarchyAssumption DEF Slot
  <2> QED
    BY <1>1, <2>1 DEF Original
<1>4. Visits(op, c) = ({"default"} \X below) \cup ({"original"} \X Original(op, c)) \cup ({"wrapper"} \X own)
  BY <1>2 DEF Visits
<1>5. /\ \A r \in below : \/ r = Dict /\ w \notin HasDict
                          \/ \E b \in Mro[c] \ {w} : r = SlotsOf(b) /\ live[b][op] # "wrapper"
      /\ Contents \notin below
  <2>1. below = SlotWalk(op, {"subtype"}, c) \cup If(c \in HasDict /\ w \notin HasDict, Dict)
    BY DEF SubtypeOwn, If
  <2>2. \A b \in Walked(op, {"subtype"}, c) : b \in Mro[c] /\ live[b][op] = "subtype"
    <3>1. ASSUME NEW i \in DOMAIN Line(c) PROVE i \in 1..i /\ Line(c)[i] \in Mro[c]
      BY <1>1, LineOf
    <3> QED
      BY <3>1 DEF Walked
  <2>3. ASSUME NEW r \in SlotWalk(op, {"subtype"}, c)
        PROVE  \E b \in Mro[c] \ {w} : r = SlotsOf(b) /\ live[b][op] # "wrapper"
    BY <2>2 DEF SlotWalk
  <2>4. Contents # Dict /\ \A b : SlotsOf(b) # Contents
    BY DEF Contents, Dict, SlotsOf
  <2> QED
    BY <2>1, <2>3, <2>4 DEF If
<1> HIDE DEF below
<1>6. ASSUME NEW r \in Held(op, c)
      PROVE  LET times == Times(Visits(op, c), r) IN times = 1 \/ (times = 2 /\ r \in below)
  <2>1. r \in own /\ r # Contents
    BY <1>2, HeldOf
  <2>2. CASE r \in below
    <3>1. {v \in Visits(op, c) : v[2] = r} = {<<"default", r>>, <<"wrapper", r>>}
      BY <1>3, <1>4, <2>1, <2>2
    <3> QED
      BY <2>2, <3>1, Counts, "default" # "wrapper"
  <2>3. CASE r \notin below
    <3>1. {v \in Visits(op, c) : v[2] = r} = {<<"wrapper", r>>}
      BY <1>3, <1>4, <2>1, <2>3
    <3> QED
      BY <3>1, Counts, "wrapper" # "default"
  <2> QED
    BY <2>2, <2>3
<1>7. Times(Visits(op, c), Contents) <= 1
  <2>1. \/ {v \in Visits(op, c) : v[2] = Contents} = {}
        \/ {v \in Visits(op, c) : v[2] = Contents} = {<<"original", Contents>>}
    <3>1. \A v \in Visits(op, c) : v[2] = Contents => v = <<"original", Contents>>
      BY <1>2, <1>3, <1>4, <1>5
    <3> QED
      BY <3>1
  <2>2. CASE {v \in Visits(op, c) : v[2] = Contents} = {}
    <3>1. Times(Visits(op, c), Contents) = 0
      BY <2>2, Counts, "original" # "wrapper"
    <3> QED
      BY <3>1
  <2>3. CASE {v \in Visits(op, c) : v[2] = Contents} = {<<"original", Contents>>}
    <3>1. Times(Visits(op, c), Contents) = 1
      BY <2>3, Counts, "original" # "wrapper"
    <3> QED
      BY <3>1
  <2> QED
    BY <2>1, <2>2, <2>3
<1> QED
  BY <1>5, <1>6, <1>7

LEMMA Overcount == TypeOK /\ Matches /\ Bare /\ Kept => OvercountExplained
<1> SUFFICES ASSUME TypeOK, Matches, Bare, Kept, NEW c \in made, NEW op \in Collected
    PROVE /\ \A r \in Held(op, c) :
               LET times == Times(Visits(op, c), r) IN
               \/ times = 1
               \/ /\ times = 2 /\ c \notin installed
                  /\ \E w \in Mro[c] \ {c} :
                       /\ live[w][op] = "wrapper"
                       /\ \/ r = Dict /\ w \notin HasDict
                          \/ \E b \in Mro[c] \ {w} : r = SlotsOf(b) /\ live[b][op] # "wrapper"
          /\ Times(Visits(op, c), Contents) <= 1
  BY DEF OvercountExplained, Held
<1>1. CASE live[c][op] = "wrapper"
  BY <1>1, WrappedClass
<1>2. CASE live[c][op] # "wrapper"
  <2>1. live[c][op] = "subtype" /\ c \notin installed
    BY <1>2, MadeSlots, AncestorsOf DEF Kept, TypeOK
  <2>2. CASE /\ Stop(op, c) = Root
             /\ \A i \in DOMAIN Line(c) : live[Line(c)[i]][op] \in {"subtype"}
    BY <2>1, <2>2, PlainClass
  <2>3. CASE Stop(op, c) \in Mro[c] /\ Stop(op, c) # Root /\ live[Stop(op, c)][op] = "wrapper"
    <3>1. Stop(op, c) \in Mro[c] \ {c}
      BY <2>1, <2>3
    <3> QED
      BY <2>1, <2>3, <3>1, AddedClass
  <2> QED
    BY <2>2, <2>3, StopsAtWrapper
<1> QED
  BY <1>1, <1>2

(* ------------------------------ theorems ------------------------------- *)

LEMMA AlwaysWrapped == Spec => [](TypeOK /\ Wrapped)
<1>1. Init => Kept
  BY DEF Init, Kept
<1> QED
  BY <1>1, KeptStep, AlwaysMatches, KeptWrapped, TypeCorrect, PTL DEF Spec

(* Whatever special methods were assigned where, the collector's traverse  *)
(* and clear of an instance of an installed class reach its slots, dict,   *)
(* type and the private values of every ancestor, once each                *)
(* (PrivateAttr_tp_traverse, PrivateAttr_tp_clear).                        *)
THEOREM InstancesTraversedOnce == Spec => []VisitedOnce
  BY AlwaysWrapped, WrappedVisitsOnce, PTL

(* And they never reach the items of a native base, in any hierarchy over  *)
(* any C type: the default that would is called under the wrapper, sees    *)
(* the wrapper in the class's own slot and stops there.                    *)
THEOREM ContentsNeverSeen ==
  Spec => [](\A c \in installed, op \in Collected : Times(Visits(op, c), Contents) = 0)
<1>1. ASSUME TypeOK, Wrapped, NEW c \in installed, NEW op \in Collected
      PROVE  Times(Visits(op, c), Contents) = 0
  <2>1. {v \in Visits(op, c) : v[2] = Contents} = {}
    <3>1. Visits(op, c) = {"wrapper"} \X References(op, c)
      BY <1>1, VisitsOfInstalled
    <3>2. Contents \notin References(op, c)
      BY NoContents
    <3> QED
      BY <3>1, <3>2
  <2> QED
    BY <2>1, FS_EmptySet DEF Times
<1>2. TypeOK /\ Wrapped => \A c \in installed, op \in Collected : Times(Visits(op, c), Contents) = 0
  BY <1>1
<1> QED
  BY <1>2, AlwaysWrapped, PTL

(* Nor does it miss or overcount what an instance of a class not yet       *)
(* registered holds, but for what the class adds below a wrapper: that is  *)
(* counted twice, once by the interpreter's default and once by the        *)
(* wrapper, and never three times, since the walk for the original passes  *)
(* the defaults (get_need_tp_traverse, get_need_tp_clear).                 *)
THEOREM OvercountsExplained == Spec => []OvercountExplained
<1>1. Init => Kept /\ Bare
  BY DEF Init, Kept, Bare, Slot
<1> QED
  BY <1>1, KeptStep, BareStep, AlwaysMatches, TypeCorrect, Overcount, PTL DEF Spec
==============================================================================
