------------------------------ MODULE NameAlloc ------------------------------
(***************************************************************************)
(* What the hidden-name cache promises its callers, with no cache in       *)
(* sight: a table from (object, attribute) to a hidden name, in which no   *)
(* name serves two keys, and requests that are answered in one step with   *)
(* the name the table holds for their key.  NameCache implements this.     *)
(***************************************************************************)

CONSTANTS
  Id,       \* addresses of the objects and types that have private attributes
  Key,      \* the pairs <<id, attribute>> that can be named
  Name,     \* the hidden names
  Thread    \* the callers

VARIABLES
  names,    \* the table: a function from some keys to names
  outcome   \* outcome[t]: the answer caller t has not taken yet, <<>> for none

vars == <<names, outcome>>

Pending == <<>>
Failure == <<"failed">>
Answer(k, n) == <<"ok", k, n>>

Init ==
  /\ names = [k \in {} |-> k]
  /\ outcome = [t \in Thread |-> Pending]

(* A request for a named key gets that name.                               *)
AnswerOld(t, k) ==
  /\ outcome[t] = Pending
  /\ k \in DOMAIN names
  /\ outcome' = [outcome EXCEPT ![t] = Answer(k, names[k])]
  /\ names' = names

(* A request for a key without a name gives it one that no key has.  The   *)
(* new name is read off the next state, since Name may be infinite.        *)
AnswerNew(t, k) ==
  LET n == names'[k] IN
  /\ outcome[t] = Pending
  /\ k \notin DOMAIN names
  /\ DOMAIN names' = DOMAIN names \cup {k}
  /\ n \in Name
  /\ \A k2 \in DOMAIN names : names[k2] # n /\ names'[k2] = names[k2]
  /\ outcome' = [outcome EXCEPT ![t] = Answer(k, n)]

(* A request may fail (the user's naming function raised) and changes      *)
(* nothing.                                                                *)
Fail(t) ==
  /\ outcome[t] = Pending
  /\ outcome' = [outcome EXCEPT ![t] = Failure]
  /\ names' = names

Take(t) ==
  /\ outcome[t] # Pending
  /\ outcome' = [outcome EXCEPT ![t] = Pending]
  /\ names' = names

(* An object goes away and every name it had with it.                      *)
Forget(id) ==
  /\ names' = [k \in {k \in DOMAIN names : k[1] # id} |-> names[k]]
  /\ outcome' = outcome

Next ==
  \/ \E t \in Thread, k \in Key : AnswerOld(t, k) \/ AnswerNew(t, k)
  \/ \E t \in Thread : Fail(t) \/ Take(t)
  \/ \E id \in Id : Forget(id)

Spec == Init /\ [][Next]_vars
=============================================================================
