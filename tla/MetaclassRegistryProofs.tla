----------------------- MODULE MetaclassRegistryProofs -----------------------
(***************************************************************************)
(* Proofs about MetaclassRegistry for any threads, metaclasses and bounds. *)
(* The inductive invariant adds to the properties how a call depends on    *)
(* what others may do meanwhile: what a call is at stays alive, because it *)
(* refers to it; which functions the slots can be; and what the scans of a *)
(* registration have found stays true until it inserts, as long as only    *)
(* the GIL's holder runs.                                                  *)
(***************************************************************************)
EXTENDS MetaclassRegistry, NaturalsInduction, WellFoundedInduction, TLAPS

(* A metaclass keeps those above it alive.                                 *)
Rooted == \A m \in alive : \A i \in DOMAIN Bases[m] : Bases[m][i] \in alive

Framed ==
  \A t \in Thread :
    /\ frame[t].at = "idle" => frame[t] = Idle
    /\ frame[t].at # "idle" => frame[t].meta \in alive
    /\ frame[t].todo \subseteq alive
    /\ frame[t].at = "subclasses" => frame[t].meta \in ref
    /\ frame[t].hook => frame[t].at \in {"need", "class", "assign", "other"}
    /\ frame[t].hook /\ frame[t].at \in Registering => interrupted

(* Which functions the slots can be.                                       *)
Wrapped ==
  \A m \in Meta :
    /\ \A s \in Slot : live[m][s] = "type wrapper" => m \in ref
    /\ \A s \in Slot : live[m][s] = "instance wrapper" => m \in ensured /\ saved[m][s] # NoEntry
    /\ m \in alive =>
         /\ live[m]["traverse"] \in {"type wrapper", "instance wrapper", "subtype"}
         /\ live[m]["getattro"] \in {"type wrapper", "instance wrapper", "dispatcher", "type"}
    /\ saved[m]["traverse"] \in {"type wrapper", "subtype", "type", NoEntry}
    /\ saved[m]["getattro"] \in {"type wrapper", "instance wrapper", "dispatcher", "type", NoEntry}

(* What the scans of a registration have shown.                            *)
Shown ==
  gil /\ ~interrupted =>
    \A t \in Thread :
      /\ frame[t].at \in {"class", "lock", "insert"} =>
           \A x \in ref \ {frame[t].meta} : ~IsInstance(frame[t].meta, x)
      /\ frame[t].at \in {"lock", "insert"} =>
           \A x \in ref \ {frame[t].meta} : ~IsInstance(x, frame[t].meta)

IInv ==
  /\ TypeOK /\ Rooted /\ Framed /\ Wrapped /\ SavedExact /\ SavedReal
  /\ Shown /\ Flat /\ Downward /\ HangExplained

(* ------------------------- what a wrapper saves ------------------------ *)

(* A nonempty set of naturals has a least element.                         *)
LEMMA FirstExists ==
  ASSUME NEW S, S \subseteq Nat, S # {}
  PROVE  (CHOOSE i \in S : \A j \in S : i <= j) \in S
<1> DEFINE R == {ss \in Nat \X Nat : ss[1] < ss[2]}
<1>1. IsWellFoundedOn(R, Nat)
  BY NatLessThanWellFounded, Zenon DEF OpToRel
<1>2. PICK x \in S : \A y \in S : ~(<<y, x>> \in R)
  <2> HIDE DEF R
  <2> QED
    BY <1>1, WFMin
<1>3. \A y \in S : ~(y < x)
  <2> SUFFICES ASSUME NEW y \in S, y < x PROVE <<y, x>> \in R
    BY <1>2
  <2>1. <<y, x>> \in Nat \X Nat /\ <<y, x>>[1] < <<y, x>>[2]
    OBVIOUS
  <2> QED
    BY <2>1
<1>4. \A y \in S : x <= y
  <2> HIDE DEF R
  <2> QED
    BY <1>3
<1> QED
  BY <1>4

(* The type of a table of tables, from its entries.                        *)
LEMMA TableType ==
  ASSUME NEW A, NEW B, NEW F, NEW g, g = [a \in A |-> [b \in B |-> g[a][b]]],
         \A a \in A, b \in B : g[a][b] \in F
  PROVE  g \in [A -> [B -> F]]
<1> SUFFICES ASSUME NEW a \in A PROVE [b \in B |-> g[a][b]] \in [B -> F]
  OBVIOUS
<1> QED
  OBVIOUS

(* What is above a base is above the metaclass.                            *)
LEMMA AboveBase ==
  ASSUME NEW m \in Meta, NEW i \in DOMAIN Bases[m]
  PROVE  Bases[m][i] \in Above(m) /\ Above(Bases[m][i]) \subseteq Above(m)
<1> DEFINE b == Bases[m][i]
<1>1. /\ Bases[m] \in Seq(Meta) /\ i \in 1..Len(Bases[m]) /\ b \in Meta /\ m # Type /\ b # Type
      /\ Bases[b] = SubSeq(Bases[m], i + 1, Len(Bases[m]))
  BY RegistryAssumption
<1>2. \A j \in DOMAIN Bases[b] : i + j \in DOMAIN Bases[m] /\ Bases[b][j] = Bases[m][i + j]
  <2>1. /\ Len(Bases[m]) \in Nat /\ DOMAIN Bases[m] = 1..Len(Bases[m]) /\ i \in Nat
        /\ DOMAIN Bases[b] = 1..(Len(Bases[m]) - i)
        /\ \A j \in 1..(Len(Bases[m]) - i) : Bases[b][j] = Bases[m][i + j]
    <3>1. Len(Bases[m]) \in Nat /\ DOMAIN Bases[m] = 1..Len(Bases[m]) /\ i \in 1..Len(Bases[m])
      BY <1>1
    <3>2. /\ Len(Bases[b]) = Len(Bases[m]) - i
          /\ \A j \in 1..(Len(Bases[m]) - i) : Bases[b][j] = Bases[m][i + 1 + j - 1]
      <4> HIDE DEF b
      <4> QED
        BY <1>1, <3>1
    <3>3. Bases[b] \in Seq(Meta)
      BY <1>1, RegistryAssumption
    <3>4. \A j \in 1..(Len(Bases[m]) - i) : i + 1 + j - 1 = i + j
      BY <3>1
    <3> QED
      BY <3>1, <3>2, <3>3, <3>4
  <2> QED
    BY <2>1
<1>3. m \in Above(m) /\ b \in Above(m)
  BY <1>1 DEF Above
<1>4. Above(b) \subseteq Above(m)
  BY <1>1, <1>2 DEF Above
<1> QED
  BY <1>3, <1>4

(* What the walk of get_type_need_tp_x finds above a metaclass whose       *)
(* ancestors exist: a real slot, or what ensure_tp has left there.         *)
LEMMA NeedReal ==
  ASSUME IInv, NEW m \in alive
  PROVE  /\ Need(m, "traverse") = "type"
         /\ Need(m, "getattro") \in {"type wrapper", "instance wrapper", "dispatcher", "type"}
         /\ Above(m) \cap ensured = {} => Need(m, "getattro") \in {"dispatcher", "type"}
<1>0. m \in Meta /\ alive \subseteq Meta
  BY DEF IInv, TypeOK
<1>1. \A i \in DOMAIN Bases[m] : Bases[m][i] \in alive /\ DOMAIN Bases[m] \subseteq Nat
  BY <1>0, RegistryAssumption DEF Rooted, IInv
<1>2. ASSUME NEW s \in Slot
      PROVE  \/ Need(m, s) = "type"
             \/ \E i \in DOMAIN Bases[m] : Need(m, s) = Found(Bases[m][i], s) /\ Need(m, s) # NoEntry
  <2> DEFINE real == {i \in DOMAIN Bases[m] : Found(Bases[m][i], s) # NoEntry}
  <2>1. real \subseteq Nat
    BY <1>1
  <2>2. Need(m, s) = IF real = {} THEN "type"
                     ELSE Found(Bases[m][CHOOSE i \in real : \A j \in real : i <= j], s)
    BY DEF Need
  <2> HIDE DEF real
  <2>3. Need(m, s) = "type" \/ \E i \in real : Need(m, s) = Found(Bases[m][i], s)
    BY <2>1, <2>2, FirstExists
  <2> QED
    BY <2>3 DEF real
<1>3. \A b \in alive : /\ Found(b, "traverse") \in {"type", NoEntry}
                       /\ Found(b, "getattro") \in {"type wrapper", "instance wrapper", "dispatcher", "type", NoEntry}
  BY <1>0 DEF Found, Skipped, Wrapped, Slot, IInv
<1>4. ASSUME Above(m) \cap ensured = {}, NEW i \in DOMAIN Bases[m]
      PROVE  Found(Bases[m][i], "getattro") \in {"dispatcher", "type"}
  <2> DEFINE b == Bases[m][i]
  <2>1. b \in alive /\ b \in Meta /\ b \notin ensured /\ Above(b) \cap ensured = {}
    BY <1>0, <1>1, <1>4, AboveBase
  <2>2. live[b]["getattro"] \in {"type wrapper", "dispatcher", "type"}
        /\ (live[b]["getattro"] = "type wrapper" => b \in ref)
    BY <2>1 DEF IInv, Wrapped, Slot
  <2>3. b \in ref => saved[b]["getattro"] \in {"dispatcher", "type"}
    BY <2>1 DEF IInv, SavedReal
  <2> QED
    BY <2>2, <2>3 DEF Found, Skipped
<1> QED
  BY <1>1, <1>2, <1>3, <1>4 DEF Slot, NoEntry

(* What saving and wrapping keeps, where it registers those in R.          *)
LEMMA WrapKeeps ==
  ASSUME IInv, NEW L \in [Meta -> [Slot -> Functions]],
         NEW E, E \subseteq alive, NEW R, R \subseteq alive, E \cap R = {},
         \A m \in Meta, s \in Slot :
           L[m][s] \in {"type wrapper", "instance wrapper"} => live[m][s] = L[m][s],
         \A m \in alive :
           /\ L[m]["traverse"] \in {"type wrapper", "instance wrapper", "subtype"}
           /\ L[m]["getattro"] \in {"type wrapper", "instance wrapper", "dispatcher", "type"},
         Wrap(L, E, R), alive' = alive, ref' = ref \cup R
  PROVE  /\ live' \in [Meta -> [Slot -> Functions]]
         /\ saved' \in [Meta -> [Slot -> (Functions \ {"NULL"}) \cup {NoEntry}]]
         /\ ensured' \subseteq Meta
         /\ Wrapped' /\ SavedExact' /\ SavedReal'
<1> USE DEF Slot
<1>1. live' = [m \in Meta |-> [s \in Slot |->
         IF m \in R THEN "type wrapper" ELSE IF m \in E THEN "instance wrapper" ELSE L[m][s]]]
  BY DEF Wrap
<1>2. saved' = [m \in Meta |-> [s \in Slot |->
         IF m \in E /\ L[m][s] # "instance wrapper" THEN L[m][s]
         ELSE IF m \in R /\ L[m][s] # "type wrapper" /\ saved[m][s] = NoEntry THEN Need(m, s)
         ELSE saved[m][s]]]
  BY DEF Wrap
<1>3. ensured' = ensured \cup E /\ alive \subseteq Meta /\ ensured \subseteq Meta /\ ref \subseteq alive
  BY DEF Wrap, IInv, TypeOK, SavedExact
<1>4. \A m \in R :
        /\ Need(m, "traverse") = "type"
        /\ Need(m, "getattro") \in {"type wrapper", "instance wrapper", "dispatcher", "type"}
        /\ Above(m) \cap ensured = {} => Need(m, "getattro") \in {"dispatcher", "type"}
  BY NeedReal
<1>5. \A m \in Meta :
        /\ saved[m]["traverse"] \in {"type wrapper", "subtype", "type", NoEntry}
        /\ saved[m]["getattro"] \in {"type wrapper", "instance wrapper", "dispatcher", "type", NoEntry}
        /\ \A s \in Slot :
             /\ L[m][s] = "type wrapper" => m \in ref
             /\ L[m][s] = "instance wrapper" => m \in ensured /\ saved[m][s] # NoEntry
             /\ m \in ref => saved[m][s] # NoEntry
             /\ m \notin ref /\ saved[m][s] # NoEntry => m \in ensured
  BY DEF IInv, Wrapped, SavedExact
<1>6. \A m \in Meta :
        /\ saved'[m]["traverse"] \in {"type wrapper", "subtype", "type", NoEntry}
        /\ saved'[m]["getattro"] \in {"type wrapper", "instance wrapper", "dispatcher", "type", NoEntry}
  BY <1>2, <1>3, <1>4, <1>5
<1>7. live' \in [Meta -> [Slot -> Functions]]
  <2> HIDE DEF Slot
  <2>1. "type wrapper" \in Functions /\ "instance wrapper" \in Functions
    BY DEF Functions
  <2> QED
    BY <1>1, <2>1
<1>8. saved' \in [Meta -> [Slot -> (Functions \ {"NULL"}) \cup {NoEntry}]]
  <2> DEFINE F == (Functions \ {"NULL"}) \cup {NoEntry}
  <2>1. {"type wrapper", "subtype", "type", NoEntry} \subseteq F
        /\ {"type wrapper", "instance wrapper", "dispatcher", "type", NoEntry} \subseteq F
    BY DEF Functions
  <2>2. \A m \in Meta, s \in Slot : saved'[m][s] \in F
    <3> HIDE DEF F
    <3> QED
      BY <1>6, <2>1
  <2> HIDE DEF F, Slot
  <2>3. saved' = [m \in Meta |-> [s \in Slot |-> saved'[m][s]]]
    BY <1>2
  <2>4. saved' \in [Meta -> [Slot -> F]]
    BY <2>2, <2>3, TableType, Zenon
  <2> QED
    BY <2>4 DEF F
<1>9. \A m \in Meta, s \in Slot :
        /\ m \in E => saved'[m][s] # NoEntry
        /\ m \in R => saved'[m][s] # NoEntry
        /\ saved[m][s] # NoEntry => saved'[m][s] # NoEntry
        /\ m \notin E \cup R => saved'[m][s] = saved[m][s]
  BY <1>2, <1>3, <1>4, <1>5 DEF NoEntry, Functions
<1>10. SavedExact'
  BY <1>3, <1>5, <1>9 DEF SavedExact
<1>11. Wrapped'
  <2> SUFFICES ASSUME NEW m \in Meta
      PROVE /\ \A s \in Slot : live'[m][s] = "type wrapper" => m \in ref'
            /\ \A s \in Slot : live'[m][s] = "instance wrapper" => m \in ensured' /\ saved'[m][s] # NoEntry
            /\ m \in alive =>
                 /\ live'[m]["traverse"] \in {"type wrapper", "instance wrapper", "subtype"}
                 /\ live'[m]["getattro"] \in {"type wrapper", "instance wrapper", "dispatcher", "type"}
    BY <1>6 DEF Wrapped
  <2>1. \A s \in Slot : live'[m][s] = "type wrapper" => m \in ref'
    BY <1>1, <1>5
  <2>2. \A s \in Slot : live'[m][s] = "instance wrapper" => m \in ensured' /\ saved'[m][s] # NoEntry
    BY <1>1, <1>3, <1>5, <1>9
  <2>3. m \in alive =>
          /\ live'[m]["traverse"] \in {"type wrapper", "instance wrapper", "subtype"}
          /\ live'[m]["getattro"] \in {"type wrapper", "instance wrapper", "dispatcher", "type"}
    BY <1>1
  <2> QED
    BY <2>1, <2>2, <2>3
<1>12. SavedReal'
  <2> SUFFICES ASSUME NEW m \in ref', m \notin ensured'
      PROVE /\ saved'[m]["traverse"] = "type"
            /\ Above(m) \cap ensured' = {} => saved'[m]["getattro"] \in {"dispatcher", "type"}
    <3>1. \A m \in ref' : m \in Above(m)
      BY <1>3, RegistryAssumption DEF Above
    <3> QED
      BY <3>1 DEF SavedReal
  <2>1. m \in Meta /\ m \notin E /\ m \notin ensured /\ (Above(m) \cap ensured' = {} => Above(m) \cap ensured = {})
    BY <1>3
  <2>2. CASE m \in ref
    <3>1. saved'[m]["traverse"] = saved[m]["traverse"] /\ saved'[m]["getattro"] = saved[m]["getattro"]
      BY <1>2, <1>5, <2>1, <2>2
    <3> QED
      BY <2>1, <2>2, <3>1 DEF IInv, SavedReal
  <2>3. CASE m \notin ref
    <3>1. m \in R /\ \A s \in Slot : saved'[m][s] = Need(m, s)
      BY <1>2, <1>5, <2>1, <2>3
    <3> QED
      BY <1>4, <2>1, <3>1
  <2> QED
    BY <2>2, <2>3
<1> QED
  BY <1>3, <1>7, <1>8, <1>10, <1>11, <1>12

(* --------------------------- the steps --------------------------------- *)

(* With the GIL and no interrupted scan, a thread that runs is the only    *)
(* one between the first scan of a registration and its insertion.         *)
LEMMA AloneBetween ==
  ASSUME IInv, gil, ~interrupted, NEW t \in Thread, Runs(t), NEW u \in Thread \ {t}
  PROVE  frame[u].at \notin {"class", "lock", "insert"}
  BY DEF Runs, InPython, Classes, Analysed, IInv, Framed, Registering

LEMMA InitIInv == Init => IInv
<1> SUFFICES ASSUME Init PROVE IInv
  OBVIOUS
<1> USE DEF Init, Slot
<1>1. TypeOK
  <2>1. gil \in BOOLEAN /\ eager \in BOOLEAN /\ hooked \subseteq Meta
    BY RegistryAssumption
  <2>2. frame \in [Thread -> [at : At, meta : Meta \cup {NoMeta}, hook : BOOLEAN, todo : SUBSET Meta]]
    BY DEF Idle, At
  <2>3. live \in [Meta -> [Slot -> Functions]]
        /\ saved \in [Meta -> [Slot -> (Functions \ {"NULL"}) \cup {NoEntry}]]
    BY DEF Functions
  <2>4. calls \in 0..MaxCalls
    BY RegistryAssumption
  <2> QED
    BY <2>1, <2>2, <2>3, <2>4 DEF TypeOK
<1>2. Rooted /\ Framed /\ Wrapped /\ SavedExact /\ SavedReal
  BY DEF Rooted, Framed, Wrapped, SavedExact, SavedReal, Idle, NoEntry
<1>3. Shown /\ Flat /\ Downward /\ HangExplained
  BY DEF Shown, Flat, Downward, HangExplained, Idle
<1> QED
  BY <1>1, <1>2, <1>3 DEF IInv

LEMMA MakeStep ==
  ASSUME IInv, ~hung, NEW t \in Thread, NEW m \in Meta, Make(t, m)
  PROVE  IInv'
<1> USE DEF IInv, Slot
<1>0. /\ m \notin alive /\ alive' = alive \cup {m} /\ Base(m) \in alive \cup {Type}
      /\ ref' = ref /\ saved' = saved /\ ensured' = ensured /\ frame' = frame /\ hung' = hung /\ config' = config /\ calls' = calls
      /\ interrupted' = interrupted
      /\ missed' = IF Base(m) \in ref THEN missed \cup {m} ELSE missed
  BY DEF Make
<1>1. PICK o \in {own, own \cup {m}} :
        own' = o /\ live' = [live EXCEPT ![m] = [s \in Slot |-> Pure(o, m, s)]]
  BY DEF Make
<1>2. TypeOK'
  BY <1>0, <1>1 DEF TypeOK, Functions, Pure, config
<1>3. Rooted'
  <2>1. \A i \in DOMAIN Bases[m] : Bases[m][i] \in alive
    <3> SUFFICES ASSUME NEW i \in DOMAIN Bases[m] PROVE Bases[m][i] \in alive
      OBVIOUS
    <3>1. Bases[m] \in Seq(Meta) /\ Bases[m] # <<>> /\ i \in 1..Len(Bases[m])
      BY RegistryAssumption
    <3>2. Bases[m][1] \in alive
      BY <1>0, <3>1, RegistryAssumption DEF Base
    <3>3. CASE i = 1
      BY <3>2, <3>3
    <3>4. CASE i # 1
      <4>0. DOMAIN Bases[m] = 1..Len(Bases[m]) /\ 1 \in 1..Len(Bases[m])
        BY <3>1
      <4>1. Bases[Bases[m][1]] = SubSeq(Bases[m], 1 + 1, Len(Bases[m]))
        BY <4>0, RegistryAssumption
      <4>2. i - 1 \in DOMAIN Bases[Bases[m][1]] /\ Bases[Bases[m][1]][i - 1] = Bases[m][i]
        BY <3>1, <3>4, <4>0, <4>1
      <4> QED
        BY <3>2, <4>2 DEF Rooted
    <3> QED
      BY <3>3, <3>4
  <2> QED
    BY <1>0, <2>1 DEF Rooted
<1>4. Framed'
  BY <1>0 DEF Framed, config
<1>5. Wrapped' /\ SavedExact' /\ SavedReal'
  <2>1. Wrapped'
    BY <1>0, <1>1 DEF Wrapped, Pure, TypeOK
  <2>2. SavedExact' /\ SavedReal'
    BY <1>0 DEF SavedExact, SavedReal
  <2> QED
    BY <2>1, <2>2
<1>6. Shown' /\ Flat' /\ HangExplained'
  BY <1>0 DEF Shown, Flat, HangExplained, config
<1>7. Downward'
  BY <1>0 DEF Downward
<1> QED
  BY <1>2, <1>3, <1>4, <1>5, <1>6, <1>7

(* What another refers to does not die.                                    *)
LEMMA DieStep ==
  ASSUME IInv, ~hung, NEW t \in Thread, NEW m \in Meta, Die(t, m)
  PROVE  IInv'
<1> USE DEF IInv, Slot
<1>0. /\ m \in alive /\ alive' = alive \ {m} /\ own' = own \ {m} /\ ref' = ref \ {m}
      /\ saved' = IF m \in ref THEN [saved EXCEPT ![m] = Forgotten(m)] ELSE saved
      /\ live' = [live EXCEPT ![m] = [s \in Slot |-> "NULL"]]
      /\ missed' = missed \ {m}
      /\ ensured' = (IF m \in ref THEN ensured \ {m} ELSE ensured) /\ interrupted' = interrupted
      /\ frame' = frame /\ hung' = hung /\ config' = config /\ calls' = calls
      /\ ~Referenced(m)
  BY DEF Die
<1>1. \A x \in alive : \A i \in DOMAIN Bases[x] : Bases[x][i] # m
  <2> SUFFICES ASSUME NEW x \in alive, NEW i \in DOMAIN Bases[x], Bases[x][i] = m PROVE FALSE
    OBVIOUS
  <2>1. Bases[x] \in Seq(Meta) /\ i \in 1..Len(Bases[x]) /\ x \in Meta
    BY RegistryAssumption DEF TypeOK
  <2>2. CASE i = 1
    BY <1>0, <2>1, <2>2 DEF Referenced, Base
  <2>3. CASE i # 1
    <3> DEFINE y == Bases[x][i - 1]
    <3>1. i - 1 \in DOMAIN Bases[x] /\ y \in alive
      BY <2>1, <2>3 DEF Rooted
    <3>2. Bases[y] = SubSeq(Bases[x], i, Len(Bases[x]))
      <4>1. Bases[y] = SubSeq(Bases[x], (i - 1) + 1, Len(Bases[x]))
        BY <2>1, <3>1, RegistryAssumption
      <4>2. (i - 1) + 1 = i
        BY <2>1
      <4> QED
        BY <4>1, <4>2
    <3>3. Bases[y] # <<>> /\ Head(Bases[y]) = m
      BY <2>1, <3>2
    <3> QED
      BY <1>0, <3>1, <3>3 DEF Referenced, Base
  <2> QED
    BY <2>2, <2>3
<1>2. \A u \in Thread : m # frame[u].meta /\ m \notin frame[u].todo
  BY <1>0 DEF Referenced
<1>3. TypeOK'
  BY <1>0 DEF TypeOK, Functions, Forgotten, config
<1>4. Rooted'
  BY <1>0, <1>1 DEF Rooted
<1>5. Framed'
  BY <1>0, <1>2 DEF Framed, config
<1>6. Wrapped' /\ SavedExact' /\ SavedReal'
  <2>0. /\ live'[m] = [s \in Slot |-> "NULL"]
        /\ m \in ref => saved'[m] = [s \in Slot |-> NoEntry]
        /\ \A x \in Meta \ {m} : live'[x] = live[x] /\ saved'[x] = saved[x]
        /\ m \notin ref => saved'[m] = saved[m]
    BY <1>0 DEF TypeOK, Forgotten
  <2>1. Wrapped'
    <3>1. ASSUME NEW x \in Meta, x # m
          PROVE  live'[x] = live[x] /\ saved'[x] = saved[x] /\ (x \in ref' <=> x \in ref)
                 /\ (x \in alive' <=> x \in alive) /\ (x \in ensured' <=> x \in ensured)
      BY <1>0, <2>0, <3>1
    <3>2. /\ m \notin alive' /\ \A s \in Slot : live'[m][s] = "NULL"
          /\ saved'[m]["traverse"] \in {"type wrapper", "subtype", "type", NoEntry}
          /\ saved'[m]["getattro"] \in {"type wrapper", "instance wrapper", "dispatcher", "type", NoEntry}
      <4>1. m \in Meta /\ m \notin alive' /\ \A s \in Slot : live'[m][s] = "NULL"
        BY <1>0, <2>0
      <4>2. saved'[m] = saved[m] \/ saved'[m] = [s \in Slot |-> NoEntry]
        BY <2>0
      <4> QED
        BY <4>1, <4>2 DEF Wrapped
    <3> QED
      BY <3>1, <3>2 DEF Wrapped
  <2>2. SavedExact'
    BY <1>0, <2>0 DEF SavedExact
  <2>3. SavedReal'
    <3> SUFFICES ASSUME NEW x \in ref, x # m
        PROVE /\ x \notin ensured' => saved'[x]["traverse"] = "type"
              /\ Above(x) \cap ensured' = {} => saved'[x]["getattro"] \in {"dispatcher", "type"}
      BY <1>0 DEF SavedReal
    <3>1. x \in alive /\ x \in Meta /\ saved'[x] = saved[x]
      BY <2>0 DEF SavedExact, TypeOK
    <3>2. m \notin Above(x)
      BY <1>1, <3>1 DEF Above
    <3> QED
      BY <1>0, <3>1, <3>2 DEF SavedReal
  <2> QED
    BY <2>1, <2>2, <2>3
<1>7. Shown' /\ Flat' /\ HangExplained'
  BY <1>0 DEF Shown, Flat, HangExplained, config
<1>8. Downward'
  BY <1>0, <1>2 DEF Downward
<1> QED
  BY <1>3, <1>4, <1>5, <1>6, <1>7, <1>8

(* Steps that only move a call along.                                      *)
LEMMA FrameStep ==
  ASSUME IInv, ~hung, UNCHANGED <<config, alive, own, ref, slots, hung>>, interrupted => interrupted',
         TypeOK', Framed', Shown', Downward'
  PROVE  IInv'
  BY DEF IInv, Rooted, Wrapped, SavedExact, SavedReal, Flat, HangExplained, IsInstance, config, slots

LEMMA StartStep ==
  ASSUME IInv, ~hung, NEW t \in Thread, NEW m \in Meta,
         NEW at \in {"need", "assign", "other"}, Start(t, at, m)
  PROVE  IInv'
<1> USE DEF IInv
<1> DEFINE todo == IF at = "assign" THEN Subclasses(m) ELSE {}
<1>0. todo \subseteq alive
  BY DEF Subclasses
<1>1. /\ frame[t] = Idle /\ m \in alive
      /\ frame' = [frame EXCEPT ![t] = [at |-> at, meta |-> m, hook |-> FALSE, todo |-> todo]]
      /\ UNCHANGED <<config, alive, own, ref, slots, interrupted, missed, hung>>
  BY DEF Start
<1> HIDE DEF todo
<1>2. TypeOK'
  <2>1. frame' \in [Thread -> [at : At, meta : Meta \cup {NoMeta}, hook : BOOLEAN, todo : SUBSET Meta]]
    BY <1>0, <1>1 DEF TypeOK, At, Idle
  <2>2. calls' \in 0..MaxCalls
    BY RegistryAssumption DEF Start, TypeOK
  <2> QED
    BY <1>1, <2>1, <2>2 DEF TypeOK, config, slots
<1>3. Framed'
  BY <1>0, <1>1 DEF Framed, Idle, TypeOK, config
<1>4. Shown'
  BY <1>1 DEF Shown, Idle, TypeOK, config
<1>5. Downward'
  <2>1. \A u \in Thread : u # t => frame'[u] = frame[u]
    BY <1>1 DEF TypeOK
  <2>2. frame[t].meta \notin Meta /\ frame[t].todo = {} /\ frame[t].at = "idle"
    BY <1>1, RegistryAssumption DEF Idle
  <2> QED
    BY <1>1, <2>1, <2>2 DEF Downward, TypeOK, Registering
<1> QED
  BY <1>1, <1>2, <1>3, <1>4, <1>5, FrameStep

LEMMA HookStep ==
  ASSUME IInv, ~hung, NEW t \in Thread, EnterHook(t)
  PROVE  IInv'
<1> USE DEF IInv
<1>1. /\ frame[t].at \in {"need", "assign", "class", "other"}
      /\ frame' = [frame EXCEPT ![t].hook = TRUE]
      /\ interrupted' = (interrupted \/ frame[t].at \in Registering)
      /\ UNCHANGED <<config, alive, own, ref, slots, missed, calls, hung>>
  BY DEF EnterHook, Asked, Analysed
<1>2. TypeOK'
  BY <1>1 DEF TypeOK, At, config, slots
<1>3. Framed'
  <2>1. /\ frame'[t].at = frame[t].at /\ frame'[t].meta = frame[t].meta
        /\ frame'[t].todo = frame[t].todo /\ frame'[t].at # "idle"
        /\ frame'[t].at \in Registering => interrupted'
        /\ frame'[t].at \in {"need", "class", "assign", "other"}
    BY <1>1 DEF TypeOK
  <2>2. \A u \in Thread \ {t} : frame'[u] = frame[u]
    BY <1>1 DEF TypeOK
  <2>3. interrupted => interrupted'
    BY <1>1
  <2> QED
    BY <1>1, <2>1, <2>2, <2>3 DEF Framed
<1>4. Shown'
  BY <1>1 DEF Shown, TypeOK, config
<1>5. Downward'
  BY <1>1 DEF Downward, TypeOK, Registering
<1> QED
  BY <1>1, <1>2, <1>3, <1>4, <1>5, FrameStep

(* A scan that ends leaves the call with what it has shown.                *)
LEMMA ScanStep ==
  ASSUME IInv, ~hung, NEW t \in Thread, ScanEnds(t)
  PROVE  IInv'
<1> USE DEF IInv
<1>1. /\ Runs(t) /\ frame[t].at \in {"need", "class"}
      /\ UNCHANGED <<config, alive, own, ref, slots, interrupted, calls, hung>>
  BY DEF ScanEnds
<1>2. /\ frame[t].meta \in alive /\ frame[t].todo \subseteq alive
      /\ \A u \in Thread : u # t => UNCHANGED frame[u]
  BY <1>1 DEF ScanEnds, Raise, Framed, TypeOK
<1>3. CASE Raise(t)
  <2>0. /\ frame' = [frame EXCEPT ![t] = Idle]
        /\ missed' = missed \cup (({frame[t].meta} \cup frame[t].todo) \ ref)
    BY <1>3 DEF Raise
  <2>1. TypeOK'
    <3>1. frame' \in [Thread -> [at : At, meta : Meta \cup {NoMeta}, hook : BOOLEAN, todo : SUBSET Meta]]
      BY <2>0 DEF TypeOK, At, Idle
    <3>2. missed' \subseteq alive
      BY <1>2, <2>0 DEF TypeOK
    <3> QED
      BY <1>1, <3>1, <3>2 DEF TypeOK, config, slots
  <2>2. Framed'
    BY <1>1, <2>0 DEF Framed, TypeOK, Idle, config
  <2>3. Shown'
    BY <1>1, <2>0 DEF Shown, TypeOK, Idle, config
  <2>4. Downward'
    BY <1>1, <2>0 DEF Downward, TypeOK, Registering
  <2> QED
    BY <1>1, <2>1, <2>2, <2>3, <2>4, FrameStep
<1>4. ASSUME ~Raise(t)
      PROVE  IInv'
  <2>1. PICK next \in {"class", "lock"} :
          /\ frame' = [frame EXCEPT ![t] = [@ EXCEPT !.at = next, !.hook = FALSE]] /\ missed' = missed
          /\ next = "class" => frame[t].at = "need" /\ (frame[t].hook \/ ~NeedAnalyse(frame[t].meta))
          /\ next = "lock" => frame[t].at = "class" /\ (frame[t].hook \/ ~ClassOfRegistered(frame[t].meta))
    BY <1>1, <1>4 DEF ScanEnds
  <2>a. LET f == frame'[t]
        IN  /\ f \in [at : At, meta : Meta \cup {NoMeta}, hook : BOOLEAN, todo : SUBSET Meta]
            /\ f.at = next /\ f.meta = frame[t].meta /\ f.hook = FALSE /\ f.todo = frame[t].todo
            /\ frame' = [frame EXCEPT ![t] = f]
    <3> DEFINE R == [at : At, meta : Meta \cup {NoMeta}, hook : BOOLEAN, todo : SUBSET Meta]
               f == [frame[t] EXCEPT !.at = next, !.hook = FALSE]
    <3>1. frame \in [Thread -> R] /\ next \in At
      BY DEF TypeOK, At
    <3>2. f \in R /\ f.at = next /\ f.meta = frame[t].meta /\ f.hook = FALSE /\ f.todo = frame[t].todo
      <4>1. \A r \in R : [r EXCEPT !.at = next, !.hook = FALSE] \in R
                       /\ [r EXCEPT !.at = next, !.hook = FALSE].at = next
        BY <3>1
      <4> QED
        BY <3>1, <4>1
    <3>3. frame' = [frame EXCEPT ![t] = f]
      BY <2>1
    <3> QED
      BY <3>1, <3>2, <3>3
  <2>2. TypeOK'
    <3>1. frame' \in [Thread -> [at : At, meta : Meta \cup {NoMeta}, hook : BOOLEAN, todo : SUBSET Meta]]
      BY <2>a DEF TypeOK, At
    <3> QED
      BY <1>1, <2>1, <3>1 DEF TypeOK, config, slots
  <2>3. Framed'
    BY <1>1, <1>2, <2>a DEF Framed, TypeOK, config
  <2>4. Shown'
    <3> SUFFICES ASSUME gil', ~interrupted' PROVE Shown'
      BY DEF Shown
    <3>1. gil /\ ~interrupted /\ ref' = ref
      BY <1>1 DEF config
    <3>2. frame[t].hook = FALSE
      BY <1>1, <3>1 DEF Framed, TypeOK, Registering
    <3>3. \A u \in Thread \ {t} : frame'[u].at \notin {"class", "lock", "insert"}
      BY <1>1, <2>1, <3>1, AloneBetween DEF TypeOK
    <3>4. /\ frame'[t].meta = frame[t].meta /\ frame'[t].at = next
      BY <2>1 DEF TypeOK
    <3>5. \A x \in ref \ {frame[t].meta} : ~IsInstance(frame[t].meta, x)
      BY <2>1, <3>1, <3>2 DEF NeedAnalyse, Shown
    <3>6. next = "lock" => \A x \in ref \ {frame[t].meta} : ~IsInstance(x, frame[t].meta)
      BY <2>1, <3>2 DEF ClassOfRegistered
    <3> QED
      BY <3>1, <3>3, <3>4, <3>5, <3>6 DEF Shown, IsInstance
  <2>5. Downward'
    BY <1>1, <2>1 DEF Downward, TypeOK, Registering
  <2> QED
    BY <1>1, <2>2, <2>3, <2>4, <2>5, FrameStep
<1> QED
  BY <1>3, <1>4

LEMMA OtherStep ==
  ASSUME IInv, ~hung, NEW t \in Thread, OtherEnds(t)
  PROVE  IInv'
<1> USE DEF IInv
<1>1. /\ frame[t].at = "other" /\ frame' = [frame EXCEPT ![t] = Idle]
      /\ UNCHANGED <<config, alive, own, ref, slots, interrupted, missed, calls, hung>>
  BY DEF OtherEnds
<1>2. TypeOK'
  BY <1>1 DEF TypeOK, At, Idle, config, slots
<1>3. Framed' /\ Shown'
  BY <1>1 DEF Framed, Shown, TypeOK, Idle, config
<1>4. Downward'
  BY <1>1 DEF Downward, TypeOK, Registering
<1> QED
  BY <1>1, <1>2, <1>3, <1>4, FrameStep

LEMMA LockStep ==
  ASSUME IInv, ~hung, NEW t \in Thread, Lock(t)
  PROVE  IInv'
<1> USE DEF IInv
<1>1. /\ frame[t].at = "lock" /\ frame' = [frame EXCEPT ![t].at = "insert"]
      /\ UNCHANGED <<config, alive, own, ref, slots, interrupted, missed, calls, hung>>
  BY DEF Lock, Move
<1>2. TypeOK'
  BY <1>1 DEF TypeOK, At, config, slots
<1>3. Framed'
  BY <1>1 DEF Framed, TypeOK, config, Idle
<1>4. Shown'
  BY <1>1 DEF Shown, TypeOK, config, IsInstance
<1>5. Downward'
  BY <1>1 DEF Downward, TypeOK, Registering
<1> QED
  BY <1>1, <1>2, <1>3, <1>4, <1>5, FrameStep

LEMMA DescendStep ==
  ASSUME IInv, ~hung, NEW t \in Thread, Descend(t)
  PROVE  IInv'
<1> USE DEF IInv
<1>1. /\ frame[t].at = "subclasses" /\ frame[t].meta \in ref /\ frame[t].meta \in alive
      /\ UNCHANGED <<config, alive, own, ref, slots, interrupted, missed, calls, hung>>
  BY DEF Descend, Framed
<1>2. ToDo(t) \subseteq alive /\ ToDo(t) = frame[t].todo \cup {x \in alive : Base(x) = frame[t].meta}
  BY DEF ToDo, Subclasses, Framed
<1>3. CASE ToDo(t) = {}
  <2>1. frame' = [frame EXCEPT ![t] = Idle]
    BY <1>3 DEF Descend
  <2>2. TypeOK' /\ Framed' /\ Shown'
    BY <1>1, <2>1 DEF TypeOK, At, Idle, Framed, Shown, config, slots
  <2>3. Downward'
    BY <1>1, <1>2, <1>3, <2>1 DEF Downward, TypeOK, Registering
  <2> QED
    BY <1>1, <2>2, <2>3, FrameStep
<1>4. CASE ToDo(t) # {}
  <2>1. PICK m \in ToDo(t) :
          frame' = [frame EXCEPT ![t] =
            [at |-> "need", meta |-> m, hook |-> FALSE, todo |-> ToDo(t) \ {m}]]
    BY <1>4 DEF Descend
  <2>2. TypeOK'
    BY <1>1, <1>2, <2>1 DEF TypeOK, At, config, slots
  <2>3. Framed' /\ Shown'
    BY <1>1, <1>2, <2>1 DEF TypeOK, Framed, Shown, config
  <2>4. Downward'
    BY <1>1, <1>2, <2>1 DEF Downward, TypeOK, Registering
  <2> QED
    BY <1>1, <2>2, <2>3, <2>4, FrameStep
<1> QED
  BY <1>3, <1>4

(* The insertion: what the scans showed still holds, so no two registered  *)
(* metaclasses are in the relation isinstance.                             *)
LEMMA InsertStep ==
  ASSUME IInv, ~hung, NEW t \in Thread, Insert(t)
  PROVE  IInv'
<1> USE DEF IInv
<1> DEFINE m == frame[t].meta
<1>1. /\ frame[t].at = "insert" /\ m \in alive /\ m \in Meta /\ frame[t].hook = FALSE
      /\ ref' = ref \cup {m} /\ missed' = missed \ {m}
      /\ frame' = [frame EXCEPT ![t].at = "subclasses"]
      /\ UNCHANGED <<config, alive, own, interrupted, calls, hung>>
      /\ IF m \in ref THEN UNCHANGED slots ELSE Wrap(live, {}, {m})
  BY DEF Insert, Move, Framed, TypeOK
<1>2. /\ live' \in [Meta -> [Slot -> Functions]]
      /\ saved' \in [Meta -> [Slot -> (Functions \ {"NULL"}) \cup {NoEntry}]]
      /\ ensured' \subseteq Meta
      /\ Wrapped' /\ SavedExact' /\ SavedReal'
  <2>1. CASE m \in ref
    <3>1. ref' = ref /\ UNCHANGED slots /\ alive' = alive
      BY <1>1, <2>1
    <3> HIDE DEF m
    <3> QED
      BY <3>1 DEF slots, TypeOK, Wrapped, SavedExact, SavedReal
  <2>2. CASE m \notin ref
    <3>1. Wrap(live, {}, {m}) /\ {m} \subseteq alive /\ live \in [Meta -> [Slot -> Functions]]
          /\ \A x \in alive :
               /\ live[x]["traverse"] \in {"type wrapper", "instance wrapper", "subtype"}
               /\ live[x]["getattro"] \in {"type wrapper", "instance wrapper", "dispatcher", "type"}
      BY <1>1, <2>2 DEF TypeOK, Wrapped
    <3>2. /\ {} \subseteq alive /\ {} \cap {m} = {} /\ ref' = ref \cup {m} /\ alive' = alive
          /\ \A x \in Meta, s \in Slot :
               live[x][s] \in {"type wrapper", "instance wrapper"} => live[x][s] = live[x][s]
      BY <1>1
    <3> HIDE DEF m, IInv
    <3> QED
      BY <3>1, <3>2, WrapKeeps, Zenon
  <2> QED
    BY <2>1, <2>2
<1>3. TypeOK'
  <2>1. frame' \in [Thread -> [at : At, meta : Meta \cup {NoMeta}, hook : BOOLEAN, todo : SUBSET Meta]]
    BY <1>1 DEF TypeOK, At
  <2> QED
    BY <1>1, <1>2, <2>1 DEF TypeOK, config
<1>4. Rooted' /\ Framed'
  BY <1>1 DEF Rooted, Framed, TypeOK, config, Idle
<1>5. Shown' /\ Flat'
  <2> SUFFICES ASSUME gil', ~interrupted' PROVE Shown' /\ Flat'
    BY DEF Shown, Flat
  <2>1. gil /\ ~interrupted /\ Runs(t)
    BY <1>1 DEF config, Insert
  <2>2. \A u \in Thread \ {t} : frame'[u].at \notin {"class", "lock", "insert"}
    BY <1>1, <2>1, AloneBetween DEF TypeOK
  <2>3. frame'[t].at = "subclasses"
    BY <1>1 DEF TypeOK
  <2>4. \A x \in ref \ {m} : ~IsInstance(m, x) /\ ~IsInstance(x, m)
    BY <1>1, <2>1 DEF Shown
  <2>5. Shown'
    BY <2>2, <2>3 DEF Shown
  <2>6. Flat'
    BY <1>1, <2>1, <2>4 DEF Flat, IsInstance
  <2> QED
    BY <2>5, <2>6
<1>6. Downward'
  <2>1. \A u \in Thread : /\ frame'[u].meta = frame[u].meta /\ frame'[u].todo = frame[u].todo
                          /\ u # t => frame'[u].at = frame[u].at
    BY <1>1 DEF TypeOK
  <2>2. frame'[t].at = "subclasses"
    BY <1>1 DEF TypeOK
  <2> QED
    BY <1>1, <2>1, <2>2 DEF Downward, Registering
<1>7. HangExplained'
  BY <1>1 DEF HangExplained, config
<1> QED
  BY <1>2, <1>3, <1>4, <1>5, <1>6, <1>7

(* An assignment wraps what its scans have found.                          *)
LEMMA AssignStep ==
  ASSUME IInv, ~hung, NEW t \in Thread, Assign(t)
  PROVE  IInv'
<1> USE DEF IInv
<1> DEFINE m == frame[t].meta
           scanned == {m} \cup frame[t].todo
           L == [x \in Meta |-> IF x \in Updated(m)
                   THEN [live[x] EXCEPT !["getattro"] = Pure(own', x, "getattro")] ELSE live[x]]
<1>1. /\ frame[t].at = "assign" /\ m \in alive /\ m \in Meta /\ scanned \subseteq alive
      /\ frame' = [frame EXCEPT ![t] = Idle]
      /\ UNCHANGED <<config, alive, ref, interrupted, missed, calls, hung>>
  BY DEF Assign, Framed, TypeOK
<1>2. PICK need \in SUBSET scanned, registered \in SUBSET (scanned \cap ref) :
        /\ need \cap registered = {}
        /\ \/ own' = own /\ Wrap(live, need, registered)
           \/ own' = (IF m \in own THEN own \ {m} ELSE own \cup {m}) /\ Wrap(L, need, registered)
  BY DEF Assign
<1>3. need \subseteq alive /\ registered \subseteq alive /\ ref' = ref \cup registered
  BY <1>1, <1>2
<1>4. /\ live \in [Meta -> [Slot -> Functions]]
      /\ \A x \in alive :
           /\ live[x]["traverse"] \in {"type wrapper", "instance wrapper", "subtype"}
           /\ live[x]["getattro"] \in {"type wrapper", "instance wrapper", "dispatcher", "type"}
  BY DEF TypeOK, Wrapped
<1>5. /\ L \in [Meta -> [Slot -> Functions]]
      /\ \A x \in Meta, s \in Slot :
           L[x][s] \in {"type wrapper", "instance wrapper"} => live[x][s] = L[x][s]
      /\ \A x \in alive :
           /\ L[x]["traverse"] \in {"type wrapper", "instance wrapper", "subtype"}
           /\ L[x]["getattro"] \in {"type wrapper", "instance wrapper", "dispatcher", "type"}
  <2>1. \A x \in Meta : Pure(own', x, "getattro") \in {"dispatcher", "type"}
    BY DEF Pure
  <2>2. L \in [Meta -> [Slot -> Functions]]
    BY <2>1 DEF TypeOK, Slot, Functions
  <2>3. \A x \in Meta :
          /\ L[x]["traverse"] = live[x]["traverse"]
          /\ L[x]["getattro"] \in {"dispatcher", "type", live[x]["getattro"]}
    BY <2>1 DEF TypeOK, Slot
  <2> QED
    BY <1>4, <2>2, <2>3 DEF Slot, TypeOK
<1>6. /\ live' \in [Meta -> [Slot -> Functions]]
      /\ saved' \in [Meta -> [Slot -> (Functions \ {"NULL"}) \cup {NoEntry}]]
      /\ ensured' \subseteq Meta
      /\ Wrapped' /\ SavedExact' /\ SavedReal'
  <2> HIDE DEF m, scanned, L, IInv
  <2>1. CASE Wrap(live, need, registered)
    BY <1>1, <1>2, <1>3, <1>4, <2>1, WrapKeeps
  <2>2. CASE Wrap(L, need, registered)
    BY <1>1, <1>2, <1>3, <1>5, <2>2, WrapKeeps
  <2> QED
    BY <1>2, <2>1, <2>2
<1>7. TypeOK'
  <2>1. frame' \in [Thread -> [at : At, meta : Meta \cup {NoMeta}, hook : BOOLEAN, todo : SUBSET Meta]]
    BY <1>1 DEF TypeOK, At, Idle
  <2>2. own' \subseteq alive
    BY <1>1, <1>2 DEF TypeOK
  <2> QED
    BY <1>1, <1>6, <2>1, <2>2 DEF TypeOK, config
<1>8. Rooted' /\ Framed'
  BY <1>1 DEF Rooted, Framed, TypeOK, config, Idle
<1>9. Shown' /\ Flat' /\ HangExplained'
  BY <1>1 DEF Shown, Flat, IsInstance, HangExplained, config, TypeOK, Idle
<1>10. Downward'
  <2>1. \A u \in Thread : u # t => frame'[u] = frame[u]
    BY <1>1 DEF TypeOK
  <2> QED
    BY <1>1, <2>1 DEF Downward, Registering
<1> QED
  BY <1>6, <1>7, <1>8, <1>9, <1>10

LEMMA EnsureStep ==
  ASSUME IInv, ~hung, NEW t \in Thread, NEW m \in Meta, EnsureTp(t, m)
  PROVE  IInv'
<1> USE DEF IInv
<1>1. PICK E \in {{m}, {m} \cup Subclasses(m)} : Wrap(live, E, {})
  BY DEF EnsureTp
<1>2. /\ E \subseteq alive /\ ref' = ref \cup {} /\ calls < MaxCalls /\ calls' = calls + 1
      /\ UNCHANGED <<config, alive, own, ref, frame, interrupted, missed, hung>>
  BY DEF EnsureTp, Subclasses
<1>3. /\ live \in [Meta -> [Slot -> Functions]]
      /\ \A x \in alive :
           /\ live[x]["traverse"] \in {"type wrapper", "instance wrapper", "subtype"}
           /\ live[x]["getattro"] \in {"type wrapper", "instance wrapper", "dispatcher", "type"}
  BY DEF TypeOK, Wrapped
<1>4. /\ live' \in [Meta -> [Slot -> Functions]]
      /\ saved' \in [Meta -> [Slot -> (Functions \ {"NULL"}) \cup {NoEntry}]]
      /\ ensured' \subseteq Meta
      /\ Wrapped' /\ SavedExact' /\ SavedReal'
  <2>1. /\ {} \subseteq alive /\ E \cap {} = {} /\ alive' = alive
        /\ \A x \in Meta, s \in Slot :
             live[x][s] \in {"type wrapper", "instance wrapper"} => live[x][s] = live[x][s]
    BY <1>2
  <2> HIDE DEF IInv
  <2> QED
    BY <1>1, <1>2, <1>3, <2>1, WrapKeeps, Zenon
<1>5. TypeOK'
  <2>1. calls' \in 0..MaxCalls
    BY <1>2, RegistryAssumption DEF TypeOK
  <2> QED
    BY <1>2, <1>4, <2>1 DEF TypeOK, config
<1>6. Rooted' /\ Framed' /\ Shown' /\ Flat' /\ Downward' /\ HangExplained'
  BY <1>2 DEF Rooted, Framed, Shown, Flat, Downward, HangExplained, IsInstance, config
<1> QED
  BY <1>4, <1>5, <1>6

(* A writer allocates only in an eager interpreter, and whoever else holds *)
(* the lock while another runs is in Python code.                          *)
LEMMA StuckStep ==
  ASSUME IInv, ~hung, NEW t \in Thread,
         LockStuck(t) \/ \E m \in Meta : DieStuck(t, m)
  PROVE  IInv'
<1> USE DEF IInv
<1>1. UNCHANGED <<config, alive, own, ref, slots, frame, interrupted, missed, calls>> /\ hung' = TRUE
  BY DEF LockStuck, DieStuck
<1>2. \E u \in Thread : frame[u].hook \/ (eager /\ frame[u].at = "insert")
  <2> SUFFICES ASSUME \A u \in Thread : ~frame[u].hook PROVE eager /\ frame[t].at = "insert"
    OBVIOUS
  <2>1. Holders = {u \in Thread : frame[u].at = "insert"}
    BY DEF Holders, Readers, Writers
  <2>2. \A u \in Thread : frame[u].at = "insert" => ~InPython(u)
    BY DEF InPython, Classes, Analysed
  <2>3. Runs(t) /\ Holders # {} /\ (t \in Holders \/ gil)
    BY DEF LockStuck, DieStuck, Collects
  <2>4. t \in Holders
    BY <2>1, <2>2, <2>3 DEF Runs
  <2>5. frame[t].at = "insert" /\ Collects(t)
    BY <2>1, <2>4 DEF LockStuck, DieStuck
  <2> QED
    BY <2>2, <2>5 DEF Collects
<1>3. TypeOK'
  BY <1>1 DEF TypeOK, config, slots
<1>4. Rooted' /\ Framed' /\ Wrapped' /\ SavedExact' /\ SavedReal' /\ Shown' /\ Flat' /\ Downward'
  BY <1>1 DEF Rooted, Framed, Wrapped, SavedExact, SavedReal, Shown, Flat, Downward, IsInstance, config, slots
<1>5. HangExplained'
  BY <1>1, <1>2 DEF HangExplained, config
<1> QED
  BY <1>3, <1>4, <1>5

LEMMA NextStep == IInv /\ [Next]_vars => IInv'
<1> SUFFICES ASSUME IInv, [Next]_vars PROVE IInv'
  OBVIOUS
<1>1. CASE UNCHANGED vars
  BY <1>1 DEF vars, config, slots, IInv, TypeOK, Rooted, Framed, Wrapped, SavedExact, SavedReal, Shown, Flat,
     Downward, HangExplained, IsInstance
<1>2. ASSUME ~hung, NEW t \in Thread, NEW m \in Meta,
             \/ Make(t, m) \/ Die(t, m) \/ DieStuck(t, m) \/ EnsureTp(t, m)
             \/ \E at \in {"need", "assign", "other"} : Start(t, at, m)
      PROVE  IInv'
  BY <1>2, MakeStep, DieStep, StuckStep, EnsureStep, StartStep
<1>3. ASSUME ~hung, NEW t \in Thread, Progress(t) \/ EnterHook(t)
      PROVE  IInv'
  BY <1>3, HookStep, ScanStep, OtherStep, LockStep, StuckStep, InsertStep, DescendStep, AssignStep
     DEF Progress
<1> QED
  BY <1>1, <1>2, <1>3 DEF Next

LEMMA Inductive == Spec => []IInv
  BY InitIInv, NextStep, PTL DEF Spec

(* ------------------------------ theorems ------------------------------- *)

(* The registry's state keeps its shape.                                   *)
THEOREM TypeCorrect == Spec => []TypeOK
<1>1. IInv => TypeOK
  BY DEF IInv
<1> QED
  BY <1>1, Inductive, PTL

(* A registered metaclass is alive and has its saved slots, which the weak *)
(* reference's callback erases; what else is saved, ensure_tp has saved.   *)
THEOREM SavedExactly == Spec => []SavedExact
<1>1. IInv => SavedExact
  BY DEF IInv
<1> QED
  BY <1>1, Inductive, PTL

(* No wrapper of a metaclass chains to a wrapper or to a default that      *)
(* would come back, where ensure_tp has not been.                          *)
THEOREM SavedSlotsReal == Spec => []SavedReal
<1>1. IInv => SavedReal
  BY DEF IInv
<1> QED
  BY <1>1, Inductive, PTL

(* With a GIL, and no Python code in their isinstance, the two scans and   *)
(* the insertion of a registration are one step to the others: no          *)
(* registered metaclass is an instance of another.                         *)
THEOREM RegistryIsFlat == Spec => []Flat
<1>1. IInv => Flat
  BY DEF IInv
<1> QED
  BY <1>1, Inductive, PTL

(* Whatever is below a registered metaclass is registered, or about to be, *)
(* or was left out by a call that raised, or made later.                   *)
THEOREM RegistrationGoesDown == Spec => []Downward
<1>1. IInv => Downward
  BY DEF IInv
<1> QED
  BY <1>1, Inductive, PTL

(* The lock hangs a thread only while isinstance is in Python code under   *)
(* it, or in a collection inside an insertion.                             *)
THEOREM HangsExplained == Spec => []HangExplained
<1>1. IInv => HangExplained
  BY DEF IInv
<1> QED
  BY <1>1, Inductive, PTL
==============================================================================
