--------------------------- MODULE NameCacheProofs ---------------------------
(***************************************************************************)
(* Proofs about NameCache for any set of threads, keys and strings: the    *)
(* three tables stay consistent, names are distinct and stable, and the    *)
(* cache implements the one-step allocator.                                *)
(***************************************************************************)
EXTENDS NameCache, FiniteSetTheorems, TLAPS

tables == <<cache, allExistName, objAttrKeys>>

LEMMA NoNameType == NoName \in Name
  BY DEF NoName, Name

LEMMA AnyKeyType == AnyKey \in Key
  BY KeyAssumption DEF AnyKey

(* A suffixed name is a name.                                              *)
LEMMA CandidateType ==
  ASSUME NEW s \in Name, NEW i \in Nat
  PROVE  Candidate(s, i) \in Name
  BY DEF Candidate, Name

(* ---------------------------- type correctness ------------------------- *)

LEMMA TypeInit == Init => TypeOK
  BY NoNameType, AnyKeyType, FS_EmptySet DEF Init, TypeOK, PC, Name

LEMMA TypeInsert ==
  ASSUME TypeOK, NEW t \in Thread, Insert(t)
  PROVE  TypeOK'
  <1> USE DEF TypeOK
  <1> DEFINE k == key[t]
  <1>1. k \in Key /\ k[1] \in Id /\ result[t] \in Name
    BY KeyAssumption
  <1>2. Cardinality(allExistName) \in Nat
    BY FS_CardinalityType
  <1>3. PICK i \in 0 .. Cardinality(allExistName) :
          LET n == Candidate(result[t], i) IN
          /\ cache' = [k2 \in DOMAIN cache \cup {k} |-> IF k2 = k THEN n ELSE cache[k2]]
          /\ objAttrKeys' = [id \in DOMAIN objAttrKeys \cup {k[1]} |->
                              IF id = k[1] THEN Append(KeysOf(id), k) ELSE objAttrKeys[id]]
          /\ allExistName' = allExistName \cup {n}
          /\ result' = [result EXCEPT ![t] = n]
    BY DEF Insert
  <1>4. Candidate(result[t], i) \in Name
    BY <1>1, <1>2, CandidateType
  <1>5. IsFiniteSet(allExistName')
    BY <1>3, FS_AddElement
  <1>6. KeysOf(k[1]) \in Seq(Key)
    BY DEF KeysOf
  <1>7. /\ DOMAIN cache' \subseteq Key
        /\ \A k2 \in DOMAIN cache' : cache'[k2] \in Name
        /\ cache' = [k2 \in DOMAIN cache' |-> cache'[k2]]
        /\ allExistName' \subseteq Name
    BY <1>1, <1>3, <1>4
  <1>8. /\ DOMAIN objAttrKeys' \subseteq Id
        /\ objAttrKeys' = [id \in DOMAIN objAttrKeys' |-> objAttrKeys'[id]]
        /\ \A id \in DOMAIN objAttrKeys' : objAttrKeys'[id] \in Seq(Key)
    BY <1>1, <1>3, <1>6
  <1>9. pc' \in [Thread -> PC] /\ key' \in [Thread -> Key] /\ result' \in [Thread -> Name]
    BY <1>3, <1>4 DEF Insert, Goto, PC
  <1>10. QED
    BY <1>5, <1>7, <1>8, <1>9

LEMMA TypeClearObj ==
  ASSUME TypeOK, NEW id \in Id, ClearObj(id)
  PROVE  TypeOK'
  <1> USE DEF TypeOK
  <1>1. IsFiniteSet(allExistName') /\ allExistName' \subseteq Name
    BY FS_Subset DEF ClearObj
  <1>2. QED
    BY <1>1 DEF ClearObj, locals

LEMMA TypeStep == TypeOK /\ [Next]_vars => TypeOK'
  <1> SUFFICES ASSUME TypeOK, [Next]_vars
               PROVE  TypeOK'
    OBVIOUS
  <1>1. ASSUME NEW t \in Thread, NEW k \in Key, LookupHit(t, k)
        PROVE  TypeOK'
    BY <1>1 DEF TypeOK, LookupHit, Goto, PC
  <1>2. ASSUME NEW t \in Thread, NEW k \in Key, MissDefault(t, k)
        PROVE  TypeOK'
    BY <1>2, GeneratorAssumption DEF TypeOK, MissDefault, Goto, PC
  <1>3. ASSUME NEW t \in Thread, NEW k \in Key, MissCustom(t, k)
        PROVE  TypeOK'
    BY <1>3 DEF TypeOK, MissCustom, Goto, PC
  <1>4. ASSUME NEW t \in Thread, NEW s \in CustomString, CallbackReturns(t, s)
        PROVE  TypeOK'
    BY <1>4, GeneratorAssumption DEF TypeOK, CallbackReturns, Goto, PC
  <1>5. ASSUME NEW t \in Thread, CallbackFails(t)
        PROVE  TypeOK'
    BY <1>5 DEF TypeOK, CallbackFails, Goto, PC
  <1>6. ASSUME NEW t \in Thread, SecondCheckHit(t)
        PROVE  TypeOK'
    BY <1>6 DEF TypeOK, SecondCheckHit, SecondCheck, Goto, PC
  <1>7. ASSUME NEW t \in Thread, Insert(t)
        PROVE  TypeOK'
    BY <1>7, TypeInsert
  <1>8. ASSUME NEW t \in Thread, Return(t)
        PROVE  TypeOK'
    BY <1>8, NoNameType, AnyKeyType DEF TypeOK, Return, Goto, PC
  <1>9. ASSUME NEW id \in Id, ClearObj(id)
        PROVE  TypeOK'
    BY <1>9, TypeClearObj
  <1>10. CASE UNCHANGED vars
    BY <1>10 DEF TypeOK, vars
  <1>11. QED
    BY <1>1, <1>2, <1>3, <1>4, <1>5, <1>6, <1>7, <1>8, <1>9, <1>10
    DEF Next, Call, Step

(* In every reachable state the tables are functions over declared keys and *)
(* known ids, and every thread's locals hold a key and a name.              *)
THEOREM TypeCorrect == Spec => []TypeOK
  <1>1. QED
    BY TypeInit, TypeStep, PTL DEF Spec

(* --------------------------- the three tables -------------------------- *)

TableInv == NamesDistinct /\ NameSetExact /\ IndexExact

LEMMA TableInit == Init => TableInv
  BY DEF Init, TableInv, NamesDistinct, NameSetExact, IndexExact

(* A step that leaves the tables alone leaves what relates them alone.     *)
LEMMA TableStutter == TableInv /\ UNCHANGED tables => TableInv'
  BY DEF tables, TableInv, NamesDistinct, NameSetExact, IndexExact

LEMMA TableInsert ==
  ASSUME TypeOK, TableInv, NEW t \in Thread, Insert(t)
  PROVE  TableInv'
  <1> DEFINE k == key[t]
             id0 == k[1]
             old == KeysOf(id0)
  <1>1. k \in Key /\ id0 \in Id
    BY KeyAssumption DEF TypeOK
  <1>2. k \notin DOMAIN cache
    BY DEF Insert, SecondCheck
  <1>3. PICK n :
          /\ n \notin allExistName
          /\ cache' = [k2 \in DOMAIN cache \cup {k} |-> IF k2 = k THEN n ELSE cache[k2]]
          /\ objAttrKeys' = [id \in DOMAIN objAttrKeys \cup {id0} |->
                              IF id = id0 THEN Append(KeysOf(id), k) ELSE objAttrKeys[id]]
          /\ allExistName' = allExistName \cup {n}
    BY DEF Insert, FirstFree
  <1>4. old \in Seq(Key)
    BY DEF KeysOf, TypeOK
  <1>5. NamesDistinct'
    BY <1>2, <1>3 DEF TableInv, NamesDistinct, NameSetExact
  <1>6. NameSetExact'
    BY <1>2, <1>3 DEF TableInv, NameSetExact
  <1>7. IndexExact'
    <2>1. /\ Len(Append(old, k)) = Len(old) + 1
          /\ Append(old, k)[Len(old) + 1] = k
          /\ \A i \in 1 .. Len(old) : Append(old, k)[i] = old[i]
          /\ Len(old) \in Nat
      BY <1>1, <1>4
    <2>2. /\ \A i \in 1 .. Len(old) :
               /\ old[i] \in DOMAIN cache
               /\ old[i][1] = id0
               /\ \A j \in 1 .. Len(old) : old[i] = old[j] => i = j
          /\ \A k2 \in DOMAIN cache : k2[1] = id0 => \E i \in 1 .. Len(old) : old[i] = k2
      BY DEF TableInv, IndexExact, KeysOf
    <2>3. objAttrKeys'[id0] = Append(old, k) /\ id0 \in DOMAIN objAttrKeys'
      BY <1>3
    <2>4. ASSUME NEW id \in DOMAIN objAttrKeys', id # id0
          PROVE  id \in DOMAIN objAttrKeys /\ objAttrKeys'[id] = objAttrKeys[id]
      BY <1>3, <2>4
    <2>5. DOMAIN cache' = DOMAIN cache \cup {k}
      BY <1>3
    <2>6. ASSUME NEW id \in DOMAIN objAttrKeys', NEW i \in 1 .. Len(objAttrKeys'[id])
          PROVE  /\ objAttrKeys'[id][i] \in DOMAIN cache'
                 /\ objAttrKeys'[id][i][1] = id
                 /\ \A j \in 1 .. Len(objAttrKeys'[id]) :
                      objAttrKeys'[id][i] = objAttrKeys'[id][j] => i = j
      <3>1. CASE id = id0
        <4>1. objAttrKeys'[id] = Append(old, k) /\ i \in 1 .. (Len(old) + 1)
          BY <2>1, <2>3, <3>1
        <4>2. \A j \in 1 .. Len(old) : old[j] # k
          BY <1>2, <2>2
        <4>3. CASE i \in 1 .. Len(old)
          BY <2>1, <2>2, <2>5, <3>1, <4>1, <4>2, <4>3
        <4>4. CASE i = Len(old) + 1
          BY <2>1, <2>2, <2>5, <3>1, <4>1, <4>2, <4>4
        <4>5. QED
          BY <2>1, <4>1, <4>3, <4>4
      <3>2. CASE id # id0
        BY <2>4, <2>5, <3>2 DEF TableInv, IndexExact
      <3>3. QED
        BY <3>1, <3>2
    <2>7. ASSUME NEW k2 \in DOMAIN cache'
          PROVE  /\ k2[1] \in DOMAIN objAttrKeys'
                 /\ \E i \in 1 .. Len(objAttrKeys'[k2[1]]) : objAttrKeys'[k2[1]][i] = k2
      <3>1. CASE k2 = k
        BY <2>1, <2>3, <3>1
      <3>2. CASE k2 # k /\ k2[1] = id0
        <4>1. PICK i \in 1 .. Len(old) : old[i] = k2
          BY <2>2, <2>5, <3>2
        <4>2. i \in 1 .. Len(Append(old, k)) /\ Append(old, k)[i] = k2
          BY <2>1, <4>1
        <4>3. QED
          BY <2>3, <3>2, <4>2
      <3>3. CASE k2[1] # id0
        <4>1. /\ k2 \in DOMAIN cache
              /\ k2[1] \in DOMAIN objAttrKeys
              /\ \E i \in 1 .. Len(objAttrKeys[k2[1]]) : objAttrKeys[k2[1]][i] = k2
          BY <2>5, <3>3 DEF TableInv, IndexExact
        <4>2. k2[1] \in DOMAIN objAttrKeys' /\ objAttrKeys'[k2[1]] = objAttrKeys[k2[1]]
          BY <1>3, <3>3, <4>1
        <4>3. QED
          BY <4>1, <4>2
      <3>4. QED
        BY <3>1, <3>2, <3>3
    <2>8. QED
      BY <2>6, <2>7 DEF IndexExact
  <1>8. QED
    BY <1>5, <1>6, <1>7 DEF TableInv

LEMMA TableClearObj ==
  ASSUME TypeOK, TableInv, NEW id0 \in Id, ClearObj(id0)
  PROVE  TableInv'
  <1> DEFINE gone == {objAttrKeys[id0][i] : i \in 1 .. Len(objAttrKeys[id0])}
  <1>1. /\ id0 \in DOMAIN objAttrKeys
        /\ cache' = [k \in DOMAIN cache \ gone |-> cache[k]]
        /\ allExistName' = allExistName \ {cache[k] : k \in gone}
        /\ objAttrKeys' = [i \in DOMAIN objAttrKeys \ {id0} |-> objAttrKeys[i]]
    BY DEF ClearObj
  <1>2. \A k : k \in gone <=> k \in DOMAIN cache /\ k[1] = id0
    <2>1. ASSUME NEW k \in gone PROVE k \in DOMAIN cache /\ k[1] = id0
      BY <1>1 DEF TableInv, IndexExact
    <2>2. ASSUME NEW k \in DOMAIN cache, k[1] = id0 PROVE k \in gone
      BY <2>2 DEF TableInv, IndexExact
    <2>3. QED
      BY <2>1, <2>2
  <1>3. NamesDistinct'
    BY <1>1 DEF TableInv, NamesDistinct
  <1>4. NameSetExact'
    <2>1. ASSUME NEW n \in allExistName' PROVE n \in {cache'[k] : k \in DOMAIN cache'}
      BY <1>1 DEF TableInv, NameSetExact
    <2>2. ASSUME NEW k \in DOMAIN cache' PROVE cache'[k] \in allExistName'
      BY <1>1, <1>2 DEF TableInv, NameSetExact, NamesDistinct
    <2>3. QED
      BY <2>1, <2>2 DEF NameSetExact
  <1>5. IndexExact'
    <2>1. ASSUME NEW id \in DOMAIN objAttrKeys', NEW i \in 1 .. Len(objAttrKeys'[id])
          PROVE  /\ objAttrKeys'[id][i] \in DOMAIN cache'
                 /\ objAttrKeys'[id][i][1] = id
                 /\ \A j \in 1 .. Len(objAttrKeys'[id]) :
                      objAttrKeys'[id][i] = objAttrKeys'[id][j] => i = j
      <3>1. id # id0 /\ id \in DOMAIN objAttrKeys /\ objAttrKeys'[id] = objAttrKeys[id]
        BY <1>1
      <3>2. QED
        BY <1>1, <1>2, <3>1 DEF TableInv, IndexExact
    <2>2. ASSUME NEW k \in DOMAIN cache'
          PROVE  /\ k[1] \in DOMAIN objAttrKeys'
                 /\ \E i \in 1 .. Len(objAttrKeys'[k[1]]) : objAttrKeys'[k[1]][i] = k
      <3>1. k \in DOMAIN cache /\ k[1] # id0
        BY <1>1, <1>2
      <3>2. k[1] \in DOMAIN objAttrKeys' /\ objAttrKeys'[k[1]] = objAttrKeys[k[1]]
        BY <1>1, <3>1 DEF TableInv, IndexExact
      <3>3. QED
        BY <3>1, <3>2 DEF TableInv, IndexExact
    <2>3. QED
      BY <2>1, <2>2 DEF IndexExact
  <1>6. QED
    BY <1>3, <1>4, <1>5 DEF TableInv

LEMMA TableStep == TypeOK /\ TableInv /\ [Next]_vars => TableInv'
  <1> SUFFICES ASSUME TypeOK, TableInv, [Next]_vars
               PROVE  TableInv'
    OBVIOUS
  <1>1. ASSUME NEW t \in Thread, Insert(t)
        PROVE  TableInv'
    BY <1>1, TableInsert
  <1>2. ASSUME NEW id \in Id, ClearObj(id)
        PROVE  TableInv'
    BY <1>2, TableClearObj
  <1>3. ASSUME NEW t \in Thread, Call(t)
        PROVE  UNCHANGED tables
    BY <1>3 DEF Call, LookupHit, MissDefault, MissCustom, tables
  <1>4. ASSUME NEW t \in Thread, Step(t)
        PROVE  Insert(t) \/ UNCHANGED tables
    BY <1>4 DEF Step, CallbackReturns, CallbackFails, SecondCheckHit, tables
  <1>5. ASSUME NEW t \in Thread, Return(t)
        PROVE  UNCHANGED tables
    BY <1>5 DEF Return, tables
  <1>6. CASE UNCHANGED vars
    BY <1>6, TableStutter DEF vars, tables
  <1>7. QED
    BY <1>1, <1>2, <1>3, <1>4, <1>5, <1>6, TableStutter DEF Next

(* The three tables agree in every reachable state.                        *)
LEMMA TablesConsistent == Spec => [](TypeOK /\ TableInv)
  <1>1. Init => TypeOK /\ TableInv
    BY TypeInit, TableInit
  <1>2. TypeOK /\ TableInv /\ [Next]_vars => TypeOK' /\ TableInv'
    BY TypeStep, TableStep
  <1>3. QED
    BY <1>1, <1>2, PTL DEF Spec

(* Distinct keys have distinct hidden names, whatever the hashes and       *)
(* however many threads are inside the cache's functions.                  *)
THEOREM NamesNeverShared == Spec => []NamesDistinct
  <1>1. TableInv => NamesDistinct
    BY DEF TableInv
  <1>2. QED
    BY <1>1, TablesConsistent, PTL

(* all_exist_name is the set of names in use: clear_obj frees every name   *)
(* it drops and no other.                                                  *)
THEOREM NamesInUse == Spec => []NameSetExact
  <1>1. TableInv => NameSetExact
    BY DEF TableInv
  <1>2. QED
    BY <1>1, TablesConsistent, PTL

(* obj_attr_keys lists each cached key of an object exactly once, so that  *)
(* clear_obj, which walks it, misses none.                                 *)
THEOREM KeysIndexed == Spec => []IndexExact
  <1>1. TableInv => IndexExact
    BY DEF TableInv
  <1>2. QED
    BY <1>1, TablesConsistent, PTL

LEMMA StableStep ==
  ASSUME TypeOK, [Next]_vars
  PROVE  \A k \in DOMAIN cache \cap DOMAIN cache' : cache'[k] = cache[k]
  <1>1. ASSUME NEW t \in Thread, Insert(t)
        PROVE  \A k \in DOMAIN cache \cap DOMAIN cache' : cache'[k] = cache[k]
    BY <1>1 DEF Insert, SecondCheck
  <1>2. ASSUME NEW id \in Id, ClearObj(id)
        PROVE  \A k \in DOMAIN cache \cap DOMAIN cache' : cache'[k] = cache[k]
    BY <1>2 DEF ClearObj
  <1>3. ASSUME NEW t \in Thread, Call(t) \/ Step(t) \/ Return(t)
        PROVE  Insert(t) \/ cache' = cache
    BY <1>3 DEF Call, LookupHit, MissDefault, MissCustom, Step, CallbackReturns,
                CallbackFails, SecondCheckHit, Return
  <1>4. CASE UNCHANGED vars
    BY <1>4 DEF vars
  <1>5. QED
    BY <1>1, <1>2, <1>3, <1>4 DEF Next

(* No step of any thread changes the name of a key that keeps a name: the  *)
(* loser of the race to insert takes the winner's name.                    *)
THEOREM NamesStable == Spec => NameStable
  <1>1. TypeOK /\ [Next]_vars =>
          [\A k \in DOMAIN cache \cap DOMAIN cache' : cache'[k] = cache[k]]_vars
    BY StableStep
  <1>2. QED
    BY TypeCorrect, <1>1, PTL DEF Spec, NameStable

(* ------------------- the cache implements NameAlloc -------------------- *)

(* Moving one thread between two labels without an answer does not show.   *)
LEMMA OutcomeIdle ==
  ASSUME TypeOK, NEW t \in Thread, NEW label \in {"callback", "insert", "idle"},
         Goto(t, label), pc[t] \notin {"answered", "failed"},
         \A u \in Thread \ {t} : key'[u] = key[u] /\ result'[u] = result[u]
  PROVE  outcome' = outcome
  BY DEF TypeOK, Goto, outcome

(* Moving thread t to "answered" shows as the answer its locals hold.      *)
LEMMA OutcomeAnswered ==
  ASSUME TypeOK, NEW t \in Thread, Goto(t, "answered"),
         \A u \in Thread \ {t} : key'[u] = key[u] /\ result'[u] = result[u]
  PROVE  outcome' = [outcome EXCEPT ![t] = <<"ok", key'[t], result'[t]>>]
  <1>1. pc' = [pc EXCEPT ![t] = "answered"] /\ pc \in [Thread -> PC]
    BY DEF TypeOK, Goto
  <1>2. \A u \in Thread \ {t} : outcome'[u] = outcome[u]
    BY <1>1 DEF outcome
  <1>3. outcome'[t] = <<"ok", key'[t], result'[t]>>
    BY <1>1 DEF outcome
  <1>4. QED
    BY <1>2, <1>3 DEF outcome

LEMMA RefineInit == Init => Alloc!Init
  BY DEF Init, Alloc!Init, Alloc!Pending, outcome, NoName

LEMMA RefineInsert ==
  ASSUME TypeOK, TypeOK', TableInv, NEW t \in Thread, Insert(t)
  PROVE  Alloc!AnswerNew(t, key[t])
  <1> DEFINE k == key[t]
  <1>1. PICK n :
          /\ n \notin allExistName
          /\ cache' = [k2 \in DOMAIN cache \cup {k} |-> IF k2 = k THEN n ELSE cache[k2]]
          /\ result' = [result EXCEPT ![t] = n]
    BY DEF Insert, FirstFree
  <1>2. outcome' = [outcome EXCEPT ![t] = <<"ok", key'[t], result'[t]>>]
    BY <1>1, OutcomeAnswered DEF Insert
  <1>3. key'[t] = k /\ result'[t] = n
    BY <1>1 DEF Insert, TypeOK
  <1>4. outcome[t] = <<>>
    BY DEF Insert, outcome
  <1>5. k \notin DOMAIN cache
    BY DEF Insert, SecondCheck
  <1>6. DOMAIN cache' = DOMAIN cache \cup {k} /\ cache'[k] = n
    BY <1>1
  <1>7. n \in Name
    BY <1>6 DEF TypeOK
  <1>8. \A k2 \in DOMAIN cache : cache[k2] # n /\ cache'[k2] = cache[k2]
    BY <1>1, <1>5 DEF TableInv, NameSetExact
  <1>9. QED
    BY <1>2, <1>3, <1>4, <1>5, <1>6, <1>7, <1>8
    DEF Alloc!AnswerNew, Alloc!Pending, Alloc!Answer

LEMMA RefineHit ==
  ASSUME TypeOK, NEW t \in Thread, NEW k \in Key,
         LookupHit(t, k) \/ (SecondCheckHit(t) /\ k = key[t])
  PROVE  Alloc!AnswerOld(t, k)
  <1>1. /\ k \in DOMAIN cache /\ cache' = cache
        /\ key'[t] = k /\ result'[t] = cache[k]
        /\ Goto(t, "answered")
        /\ \A u \in Thread \ {t} : key'[u] = key[u] /\ result'[u] = result[u]
    BY DEF LookupHit, SecondCheckHit, SecondCheck, TypeOK
  <1>2. outcome[t] = <<>>
    BY DEF LookupHit, SecondCheckHit, outcome
  <1>3. outcome' = [outcome EXCEPT ![t] = <<"ok", k, cache[k]>>]
    BY <1>1, OutcomeAnswered
  <1>4. QED
    BY <1>1, <1>2, <1>3 DEF Alloc!AnswerOld, Alloc!Pending, Alloc!Answer

LEMMA RefineClearObj ==
  ASSUME TypeOK, TableInv, NEW id \in Id, ClearObj(id)
  PROVE  Alloc!Forget(id)
  <1>1. outcome' = outcome
    BY DEF ClearObj, locals, outcome
  <1>2. {objAttrKeys[id][i] : i \in 1 .. Len(objAttrKeys[id])} = {k \in DOMAIN cache : k[1] = id}
    <2>1. ASSUME NEW i \in 1 .. Len(objAttrKeys[id])
          PROVE  objAttrKeys[id][i] \in DOMAIN cache /\ objAttrKeys[id][i][1] = id
      BY DEF ClearObj, TableInv, IndexExact
    <2>2. ASSUME NEW k \in DOMAIN cache, k[1] = id
          PROVE  \E i \in 1 .. Len(objAttrKeys[id]) : objAttrKeys[id][i] = k
      BY <2>2 DEF TableInv, IndexExact
    <2>3. QED
      BY <2>1, <2>2
  <1>3. cache' = [k \in {k \in DOMAIN cache : k[1] # id} |-> cache[k]]
    <2>1. DOMAIN cache \ {k \in DOMAIN cache : k[1] = id} = {k \in DOMAIN cache : k[1] # id}
      OBVIOUS
    <2>2. QED
      BY <1>2, <2>1 DEF ClearObj
  <1>4. QED
    BY <1>1, <1>3 DEF Alloc!Forget

LEMMA RefineStep ==
  ASSUME TypeOK, TypeOK', TableInv, [Next]_vars
  PROVE  [Alloc!Next]_(Alloc!vars)
  <1> USE DEF Alloc!Next
  <1>1. ASSUME NEW t \in Thread, NEW k \in Key, LookupHit(t, k)
        PROVE  Alloc!Next
    BY <1>1, RefineHit
  <1>2. ASSUME NEW t \in Thread, NEW k \in Key, MissDefault(t, k) \/ MissCustom(t, k)
        PROVE  UNCHANGED <<cache, outcome>>
    <2>1. CASE MissDefault(t, k)
      <3>1. \A u \in Thread \ {t} : key'[u] = key[u] /\ result'[u] = result[u]
        BY <2>1 DEF MissDefault, TypeOK
      <3>2. QED
        BY <2>1, <3>1, OutcomeIdle DEF MissDefault
    <2>2. CASE MissCustom(t, k)
      <3>1. \A u \in Thread \ {t} : key'[u] = key[u] /\ result'[u] = result[u]
        BY <2>2 DEF MissCustom, TypeOK
      <3>2. QED
        BY <2>2, <3>1, OutcomeIdle DEF MissCustom
    <2>3. QED
      BY <1>2, <2>1, <2>2
  <1>3. ASSUME NEW t \in Thread, NEW s \in CustomString, CallbackReturns(t, s)
        PROVE  UNCHANGED <<cache, outcome>>
    BY <1>3, OutcomeIdle DEF CallbackReturns
  <1>4. ASSUME NEW t \in Thread, CallbackFails(t)
        PROVE  Alloc!Fail(t)
    <2>1. outcome[t] = <<>>
      BY <1>4 DEF CallbackFails, outcome
    <2>2. outcome' = [outcome EXCEPT ![t] = <<"failed">>]
      BY <1>4 DEF CallbackFails, Goto, TypeOK, outcome
    <2>3. QED
      BY <1>4, <2>1, <2>2 DEF CallbackFails, Alloc!Fail, Alloc!Pending, Alloc!Failure
  <1>5. ASSUME NEW t \in Thread, SecondCheckHit(t)
        PROVE  Alloc!Next
    BY <1>5, RefineHit DEF TypeOK
  <1>6. ASSUME NEW t \in Thread, Insert(t)
        PROVE  Alloc!Next
    BY <1>6, RefineInsert DEF TypeOK
  <1>7. ASSUME NEW t \in Thread, Return(t)
        PROVE  Alloc!Take(t)
    <2>1. outcome[t] # <<>>
      BY <1>7 DEF Return, outcome
    <2>2. outcome' = [outcome EXCEPT ![t] = <<>>]
      BY <1>7 DEF Return, Goto, TypeOK, outcome
    <2>3. QED
      BY <1>7, <2>1, <2>2 DEF Return, Alloc!Take, Alloc!Pending
  <1>8. ASSUME NEW id \in Id, ClearObj(id)
        PROVE  Alloc!Next
    BY <1>8, RefineClearObj
  <1>9. CASE UNCHANGED vars
    BY <1>9 DEF vars, outcome, Alloc!vars
  <1>10. QED
    BY <1>1, <1>2, <1>3, <1>4, <1>5, <1>6, <1>7, <1>8, <1>9
    DEF Next, Call, Step, Alloc!vars

(* Callers cannot tell the double-checked cache from a table that answers  *)
(* each request in one step: every behaviour of NameCache, with its hidden *)
(* candidates, retries and index, is a behaviour of NameAlloc.             *)
THEOREM ImplementsAlloc == Spec => AllocSpec
  <1>1. TypeOK /\ TableInv /\ [Next]_vars => TypeOK' /\ TableInv'
    BY TypeStep, TableStep
  <1>2. TypeOK /\ TypeOK' /\ TableInv /\ [Next]_vars => [Alloc!Next]_(Alloc!vars)
    BY RefineStep
  <1>3. QED
    BY TypeInit, TableInit, RefineInit, <1>1, <1>2, PTL DEF Spec, AllocSpec, Alloc!Spec
=============================================================================
