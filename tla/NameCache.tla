------------------------------ MODULE NameCache ------------------------------
(***************************************************************************)
(* The cache of hidden names: AllData::cache, all_exist_name and           *)
(* obj_attr_keys, guarded by cache_mutex, with default_random_string,      *)
(* custom_random_string and clear_obj.  A lookup holds the mutex shared; a *)
(* miss drops it, computes a candidate (by hashing, or by calling the      *)
(* user's private_func, which runs arbitrary Python) and takes the mutex   *)
(* exclusively to look again and insert.  Each critical section is one     *)
(* action, since nothing inside one waits; everything else interleaves.    *)
(* The callback may itself come back here: nothing is held while it runs,  *)
(* so its nested calls are the calls of one more thread.  Operators named   *)
(* Mutant... are wrong versions of the definition that follows them; the   *)
(* specification does not use them.                                        *)
(***************************************************************************)
EXTENDS Naturals, Sequences, FiniteSets

CONSTANTS
  Id,             \* addresses of objects and types (uintptr_t obj_id)
  Key,            \* the pairs <<id, attribute>> some class declares private
  Base,           \* the strings the generators produce
  Thread,         \* threads, and the nested calls of a private_func
  DefaultString,  \* DefaultString[k]: what generate_private_attr_name gives key k
  CustomString    \* what a private_func may return

(* A name is the sequence of its parts: "x" is <<"x">> and "x_1" is        *)
(* <<"x", 1>>, so that a private_func can return what a suffix would make. *)
Name == Seq(Base \cup Nat)

ASSUME GeneratorAssumption ==
  /\ DefaultString \in [Key -> Name]
  /\ CustomString \subseteq Name

ASSUME KeyAssumption == Key # {} /\ \A k \in Key : k = <<k[1], k[2]>> /\ k[1] \in Id

VARIABLES
  cache,         \* AllData::cache: a function from some keys to names
  allExistName,  \* AllData::all_exist_name
  objAttrKeys,   \* AllData::obj_attr_keys: a function from some ids to vectors of keys
  pc,            \* pc[t]: where thread t stands in its call
  key,           \* key[t]: the local variable `key` of the call
  result         \* result[t]: the local variable `result` of the call

vars == <<cache, allExistName, objAttrKeys, pc, key, result>>
locals == <<pc, key, result>>

PC == {"idle", "callback", "insert", "answered", "failed"}
NoName == <<>>
AnyKey == CHOOSE k \in Key : TRUE

Init ==
  /\ cache = [k \in {} |-> NoName]
  /\ allExistName = {}
  /\ objAttrKeys = [id \in {} |-> <<>>]
  /\ pc = [t \in Thread |-> "idle"]
  /\ key = [t \in Thread |-> AnyKey]
  /\ result = [t \in Thread |-> NoName]

Goto(t, label) == pc' = [pc EXCEPT ![t] = label]

(* ------------------------------ one call ------------------------------- *)

(* The first lookup, under the shared lock, finds the key.                 *)
LookupHit(t, k) ==
  /\ pc[t] = "idle"
  /\ k \in DOMAIN cache
  /\ key' = [key EXCEPT ![t] = k]
  /\ result' = [result EXCEPT ![t] = cache[k]]
  /\ Goto(t, "answered")
  /\ UNCHANGED <<cache, allExistName, objAttrKeys>>

(* default_random_string: a miss drops the lock and hashes the key.        *)
MissDefault(t, k) ==
  /\ pc[t] = "idle"
  /\ k \notin DOMAIN cache
  /\ key' = [key EXCEPT ![t] = k]
  /\ result' = [result EXCEPT ![t] = DefaultString[k]]
  /\ Goto(t, "insert")
  /\ UNCHANGED <<cache, allExistName, objAttrKeys>>

(* custom_random_string: a miss drops the lock and calls private_func.     *)
MissCustom(t, k) ==
  /\ pc[t] = "idle"
  /\ k \notin DOMAIN cache
  /\ key' = [key EXCEPT ![t] = k]
  /\ Goto(t, "callback")
  /\ UNCHANGED <<cache, allExistName, objAttrKeys, result>>

MutantCallbackReturns(t, s) ==
  /\ pc[t] = "callback"
  /\ result' = [result EXCEPT ![t] = <<key[t][2]>>]
  /\ Goto(t, "insert")
  /\ UNCHANGED <<cache, allExistName, objAttrKeys, key>>

CallbackReturns(t, s) ==
  /\ pc[t] = "callback"
  /\ result' = [result EXCEPT ![t] = s]
  /\ Goto(t, "insert")
  /\ UNCHANGED <<cache, allExistName, objAttrKeys, key>>

(* It raised, or it returned something that is not a string.               *)
CallbackFails(t) ==
  /\ pc[t] = "callback"
  /\ Goto(t, "failed")
  /\ UNCHANGED <<cache, allExistName, objAttrKeys, key, result>>

MutantCandidate(original, i) == original
Candidate(original, i) == IF i = 0 THEN original ELSE Append(original, i)

(* The while loop tries original, original_1, original_2, ... in order.    *)
MutantFirstFree(original, i) == i = 0
FirstFree(original, i) ==
  /\ Candidate(original, i) \notin allExistName
  /\ \A j \in 0 .. (i - 1) : Candidate(original, j) \in allExistName

MutantKeysOf(id) == <<>>
KeysOf(id) == IF id \in DOMAIN objAttrKeys THEN objAttrKeys[id] ELSE <<>>

(* The critical section under the exclusive lock: "twice check" ...        *)
MutantSecondCheck(k) == FALSE
SecondCheck(k) == k \in DOMAIN cache

SecondCheckHit(t) ==
  /\ pc[t] = "insert"
  /\ SecondCheck(key[t])
  /\ result' = [result EXCEPT ![t] = cache[key[t]]]
  /\ Goto(t, "answered")
  /\ UNCHANGED <<cache, allExistName, objAttrKeys, key>>

(* ... and the insertion, in the three tables.  The loop stops before it   *)
(* has tried more candidates than there are names.                         *)
Insert(t) ==
  LET k == key[t] IN
  /\ pc[t] = "insert"
  /\ ~SecondCheck(k)
  /\ \E i \in 0 .. Cardinality(allExistName) :
       LET n == Candidate(result[t], i) IN
       /\ FirstFree(result[t], i)
       /\ cache' = [k2 \in DOMAIN cache \cup {k} |-> IF k2 = k THEN n ELSE cache[k2]]
       /\ objAttrKeys' = [id \in DOMAIN objAttrKeys \cup {k[1]} |->
                           IF id = k[1] THEN Append(KeysOf(id), k) ELSE objAttrKeys[id]]
       /\ allExistName' = allExistName \cup {n}
       /\ result' = [result EXCEPT ![t] = n]
  /\ Goto(t, "answered")
  /\ key' = key

(* The caller takes the answer (or the exception); the locals are gone.    *)
Return(t) ==
  /\ pc[t] \in {"answered", "failed"}
  /\ key' = [key EXCEPT ![t] = AnyKey]
  /\ result' = [result EXCEPT ![t] = NoName]
  /\ Goto(t, "idle")
  /\ UNCHANGED <<cache, allExistName, objAttrKeys>>

(* ------------------------------ clear_obj ------------------------------ *)

(* One critical section of the finalizer of an object or a type.  Another  *)
(* thread may be inside a call for the same id: an object whose finalizer  *)
(* has run can be reached again from another finalizer of its cycle.       *)
ClearObj(id) ==
  LET gone == {objAttrKeys[id][i] : i \in 1 .. Len(objAttrKeys[id])} IN
  /\ id \in DOMAIN objAttrKeys
  /\ cache' = [k \in DOMAIN cache \ gone |-> cache[k]]
  /\ allExistName' = allExistName \ {cache[k] : k \in gone}
  /\ objAttrKeys' = [i \in DOMAIN objAttrKeys \ {id} |-> objAttrKeys[i]]
  /\ UNCHANGED locals

(* ----------------------------------------------------------------------- *)

Step(t) ==
  \/ \E s \in CustomString : CallbackReturns(t, s)
  \/ CallbackFails(t)
  \/ SecondCheckHit(t)
  \/ Insert(t)

Call(t) == \E k \in Key : LookupHit(t, k) \/ MissDefault(t, k) \/ MissCustom(t, k)

Next ==
  \/ \E t \in Thread : Call(t) \/ Step(t) \/ Return(t)
  \/ \E id \in Id : ClearObj(id)

(* A thread inside a call keeps running (a private_func returns or raises);*)
(* nobody is obliged to call or to clear.                                  *)
Fairness == \A t \in Thread : WF_vars(Step(t))

Spec == Init /\ [][Next]_vars
FairSpec == Spec /\ Fairness

(* ------------------------------ properties ----------------------------- *)

TypeOK ==
  /\ DOMAIN cache \subseteq Key
  /\ \A k \in DOMAIN cache : cache[k] \in Name
  /\ cache = [k \in DOMAIN cache |-> cache[k]]
  /\ allExistName \subseteq Name
  /\ IsFiniteSet(allExistName)
  /\ DOMAIN objAttrKeys \subseteq Id
  /\ \A id \in DOMAIN objAttrKeys : objAttrKeys[id] \in Seq(Key)
  /\ objAttrKeys = [id \in DOMAIN objAttrKeys |-> objAttrKeys[id]]
  /\ pc \in [Thread -> PC]
  /\ key \in [Thread -> Key]
  /\ result \in [Thread -> Name]

(* Two private attributes never share a hidden name, whatever the hash and *)
(* the user's private_func collide on: two attributes of one object are    *)
(* stored in one unordered_map under these names, so sharing one would     *)
(* make them one variable.                                                 *)
NamesDistinct ==
  \A k1, k2 \in DOMAIN cache : cache[k1] = cache[k2] => k1 = k2

(* all_exist_name is exactly the set of names in use.  A name missing from *)
(* it could be given twice; one that stays after its key is gone is lost   *)
(* for ever and makes later names of the same hash drift by a suffix.      *)
NameSetExact == allExistName = {cache[k] : k \in DOMAIN cache}

(* obj_attr_keys lists every cached key of an id exactly once and nothing  *)
(* else: clear_obj walks it, so a key it misses outlives its object and is *)
(* handed to the next object at that address, and a key listed for an id   *)
(* that has no name would be erased from under another allocation.         *)
IndexExact ==
  /\ \A id \in DOMAIN objAttrKeys : \A i \in 1 .. Len(objAttrKeys[id]) :
       /\ objAttrKeys[id][i] \in DOMAIN cache
       /\ objAttrKeys[id][i][1] = id
       /\ \A j \in 1 .. Len(objAttrKeys[id]) :
            objAttrKeys[id][i] = objAttrKeys[id][j] => i = j
  /\ \A k \in DOMAIN cache :
       /\ k[1] \in DOMAIN objAttrKeys
       /\ \E i \in 1 .. Len(objAttrKeys[k[1]]) : objAttrKeys[k[1]][i] = k

(* A key that has a name keeps that name as long as it has one: the value  *)
(* a thread stored under the first answer is found by every later one,     *)
(* although two threads may compute candidates for the key at once.        *)
NameStable ==
  [][\A k \in DOMAIN cache \cap DOMAIN cache' : cache'[k] = cache[k]]_vars

(* The cache implements the one-step allocator.                            *)
outcome ==
  [t \in Thread |->
     CASE pc[t] = "answered" -> <<"ok", key[t], result[t]>>
       [] pc[t] = "failed" -> <<"failed">>
       [] OTHER -> <<>>]

Alloc == INSTANCE NameAlloc WITH names <- cache
AllocSpec == Alloc!Spec

(* Every call ends: the suffix loop and the retry both stop, whatever the  *)
(* other threads insert or clear meanwhile.                                *)
CallsEnd ==
  \A t \in Thread : (pc[t] \in {"callback", "insert"}) ~> (pc[t] \in {"answered", "failed"})
=============================================================================
