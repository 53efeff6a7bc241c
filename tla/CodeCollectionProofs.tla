------------------------- MODULE CodeCollectionProofs -------------------------
(***************************************************************************)
(* Proofs about CodeCollection, for any number of decorators: the analysis *)
(* of a class body collects the code written in it and no other.  Written  *)
(* code is compared with the sets closed under Successors: the code is in  *)
(* every closed set the object on top belongs to, and one of these has no  *)
(* other code.                                                             *)
(***************************************************************************)
EXTENDS CodeCollection, TLAPS

Items(s) == {s[i] : i \in DOMAIN s}
Thing == [kind : Kinds, parts : Seq(Nat), link : Nat]

(* An object of a heap of n objects.                                       *)
Sound(x, n) ==
  /\ x \in Thing /\ Items(x.parts) \subseteq 1..n /\ x.link \in 0..n
  /\ x.kind = "PrivateWrap" => x.link # Missing

Heap(H) == H \in Seq(Thing) /\ \A o \in 1..Len(H) : Sound(H[o], Len(H))

Extends(H, G) ==
  /\ Heap(H) /\ Heap(G) /\ Len(H) <= Len(G)
  /\ \A o \in 1..Len(H) : G[o] = H[o]

Below(H, o) == Items(Successors(H, o))
Closed(H, R) == \A o \in R : Below(H, o) \subseteq R
Codes(H, R) == {o \in R : H[o].kind = "code"}

(* The code the analysis finds from o is W.                                *)
AtLeast(H, o, W) == \A R \in SUBSET (1..Len(H)) : o \in R /\ Closed(H, R) => W \subseteq R
AtMost(H, o, W) ==
  \E R \in SUBSET (1..Len(H)) : o \in R /\ Closed(H, R) /\ Codes(H, R) \subseteq W
Finds(H, o, W) == W \subseteq Codes(H, 1..Len(H)) /\ AtLeast(H, o, W) /\ AtMost(H, o, W)

(* ------------------------------ the invariant -------------------------- *)

BodyOK ==
  LET H == body.heap IN
  /\ Heap(H) /\ Len(H) > 0 /\ H[Len(H)].kind # "code"
  /\ ~body.lost => Finds(H, Len(H), body.written)

(* What was seen and is still to do: all that is found from the top, and   *)
(* nothing that is not.                                                    *)
WalkOK ==
  LET H == body.heap
      todo == Items(walk.todo)
  IN  /\ walk \in [todo : Seq(1..Len(H)), seen : SUBSET (1..Len(H)), map : SUBSET (1..Len(H))]
      /\ walk # Idle => Len(H) \in walk.seen \cup todo
      /\ \A o \in walk.seen : Below(H, o) \subseteq walk.seen \cup todo
      /\ walk.map = Codes(H, walk.seen)
      /\ \A R \in SUBSET (1..Len(H)) : Len(H) \in R /\ Closed(H, R) => walk.seen \cup todo \subseteq R

CodeInv == BodyOK /\ WalkOK

(* ------------------------------ sequences ------------------------------ *)

LEMMA ItemsConcat ==
  ASSUME NEW S, NEW s \in Seq(S), NEW t \in Seq(S)
  PROVE  s \o t \in Seq(S) /\ Items(s \o t) = Items(s) \cup Items(t)
<1>1. s \o t \in Seq(S) /\ Len(s \o t) = Len(s) + Len(t)
      /\ \A i \in 1..Len(s) + Len(t) :
           (s \o t)[i] = IF i <= Len(s) THEN s[i] ELSE t[i - Len(s)]
  OBVIOUS
<1>2. /\ DOMAIN s = 1..Len(s) /\ DOMAIN t = 1..Len(t)
      /\ DOMAIN (s \o t) = 1..Len(s) + Len(t) /\ Len(s) \in Nat /\ Len(t) \in Nat
  BY <1>1
<1>3. ASSUME NEW i \in DOMAIN (s \o t) PROVE (s \o t)[i] \in Items(s) \cup Items(t)
  <2>1. CASE i <= Len(s)
    BY <1>1, <1>2, <2>1 DEF Items
  <2>2. CASE ~(i <= Len(s))
    <3>1. i - Len(s) \in DOMAIN t
      BY <1>2, <2>2
    <3> QED
      BY <1>1, <1>2, <2>2, <3>1 DEF Items
  <2> QED
    BY <2>1, <2>2
<1>4. ASSUME NEW i \in DOMAIN s PROVE s[i] \in Items(s \o t)
  <2>1. i \in DOMAIN (s \o t) /\ (s \o t)[i] = s[i]
    BY <1>1, <1>2
  <2> QED
    BY <2>1 DEF Items
<1>5. ASSUME NEW i \in DOMAIN t PROVE t[i] \in Items(s \o t)
  <2>1. i + Len(s) \in DOMAIN (s \o t) /\ (s \o t)[i + Len(s)] = t[i]
    BY <1>1, <1>2
  <2> QED
    BY <2>1 DEF Items
<1> QED
  BY <1>1, <1>3, <1>4, <1>5 DEF Items

LEMMA ItemsOfOne == \A x : Items(<<x>>) = {x}
  BY DEF Items

LEMMA ItemsOfNone == Items(<<>>) = {}
  BY DEF Items

LEMMA ItemsHead ==
  ASSUME NEW S, NEW s \in Seq(S), s # <<>>
  PROVE  /\ Head(s) \in S /\ Tail(s) \in Seq(S)
         /\ Items(s) = {Head(s)} \cup Items(Tail(s))
<1>1. /\ Len(s) \in Nat \ {0} /\ Head(s) = s[1] /\ Tail(s) \in Seq(S)
      /\ Len(Tail(s)) = Len(s) - 1
      /\ \A i \in 1..Len(s) - 1 : Tail(s)[i] = s[i + 1]
  OBVIOUS
<1>2. DOMAIN s = 1..Len(s) /\ DOMAIN Tail(s) = 1..Len(s) - 1
  BY <1>1
<1>3. ASSUME NEW i \in DOMAIN s PROVE s[i] \in {Head(s)} \cup Items(Tail(s))
  <2>1. CASE i = 1
    BY <1>1, <2>1
  <2>2. CASE i # 1
    <3>1. i - 1 \in DOMAIN Tail(s) /\ Tail(s)[i - 1] = s[i]
      BY <1>1, <1>2, <2>2
    <3> QED
      BY <3>1 DEF Items
  <2> QED
    BY <2>1, <2>2
<1>4. ASSUME NEW i \in DOMAIN Tail(s) PROVE Tail(s)[i] \in Items(s)
  <2>1. i + 1 \in DOMAIN s /\ s[i + 1] = Tail(s)[i]
    BY <1>1, <1>2
  <2> QED
    BY <2>1 DEF Items
<1>5. 1 \in DOMAIN s
  BY <1>1, <1>2
<1> QED
  BY <1>1, <1>3, <1>4, <1>5 DEF Items

LEMMA SeqOfItems ==
  ASSUME NEW S, NEW T, NEW s \in Seq(S), Items(s) \subseteq T
  PROVE  s \in Seq(T)
<1>1. Len(s) \in Nat /\ DOMAIN s = 1..Len(s) /\ s = [i \in 1..Len(s) |-> s[i]]
  OBVIOUS
<1>2. \A i \in 1..Len(s) : s[i] \in T
  BY <1>1 DEF Items
<1>3. s \in [1..Len(s) -> T]
  BY <1>1, <1>2
<1> QED
  BY <1>1, <1>3

(* --------------------------- growing the heap -------------------------- *)

LEMMA SoundInMore ==
  ASSUME NEW x, NEW n \in Nat, NEW m \in Nat, n <= m, Sound(x, n)
  PROVE  Sound(x, m)
<1>1. 1..n \subseteq 1..m /\ 0..n \subseteq 0..m
  OBVIOUS
<1> QED
  BY <1>1 DEF Sound

LEMMA Added ==
  ASSUME NEW H, Heap(H), NEW x, Sound(x, Len(H) + 1)
  PROVE  /\ Extends(H, Append(H, x))
         /\ Len(Append(H, x)) = Len(H) + 1 /\ Append(H, x)[Len(H) + 1] = x
<1> DEFINE G == Append(H, x)
<1>1. H \in Seq(Thing) /\ x \in Thing /\ Len(H) \in Nat
  BY DEF Heap, Sound
<1>2. /\ G \in Seq(Thing) /\ Len(G) = Len(H) + 1 /\ G[Len(H) + 1] = x
      /\ \A o \in 1..Len(H) : G[o] = H[o]
  BY <1>1
<1>3. \A o \in 1..Len(H) : Sound(H[o], Len(H) + 1)
  BY <1>1, SoundInMore DEF Heap
<1>4. \A o \in 1..Len(G) : Sound(G[o], Len(G))
  <2>1. \A o \in 1..Len(G) : o \in 1..Len(H) \/ o = Len(H) + 1
    BY <1>1, <1>2
  <2> QED
    BY <1>2, <1>3, <2>1
<1> QED
  BY <1>1, <1>2, <1>4 DEF Extends, Heap

LEMMA ExtendsTransitive ==
  ASSUME NEW F, NEW G, NEW H, Extends(F, G), Extends(G, H)
  PROVE  Extends(F, H)
<1>1. Len(F) \in Nat /\ Len(G) \in Nat /\ Len(H) \in Nat
  BY DEF Extends, Heap
<1> QED
  BY <1>1 DEF Extends

(* What the constructors make.                                             *)
LEMMA Constructed ==
  ASSUME NEW n \in Nat
  PROVE  /\ Sound(CodeObject(<<>>), n)
         /\ \A o \in 1..n : /\ Sound(CodeObject(<<o>>), n)
                            /\ Sound(Property(<<o>>), n) /\ Sound(Method(o), n)
                            /\ \A w \in 0..n : Sound(Fun(o, w), n)
         /\ \A r \in 1..n : \A funcs \in Seq(Nat) :
              Items(funcs) \subseteq 1..n => Sound(PrivateWrap(r, funcs), n)
<1>1. <<>> \in Seq(Nat) /\ \A o \in 1..n : <<o>> \in Seq(Nat)
  OBVIOUS
<1>2. \A k \in Kinds, p \in Seq(Nat), l \in 0..n : Object(k, p, l) \in Thing
  BY DEF Object, Thing
<1>3. \A k \in Kinds, p \in Seq(Nat), l \in 0..n :
        Items(p) \subseteq 1..n /\ (k = "PrivateWrap" => l # Missing) => Sound(Object(k, p, l), n)
  BY <1>2 DEF Object, Sound
<1>4. Missing \in 0..n
  BY DEF Missing
<1>5. \A k \in Kinds \ {"PrivateWrap"}, l \in 0..n :
        Sound(Object(k, <<>>, l), n) /\ \A o \in 1..n : Sound(Object(k, <<o>>, l), n)
  BY <1>1, <1>3, ItemsOfOne, ItemsOfNone
<1>6. \A r \in 1..n : r \in 0..n /\ r # Missing
  BY DEF Missing
<1> QED
  BY <1>3, <1>4, <1>5, <1>6 DEF CodeObject, Property, Method, Fun, PrivateWrap, Kinds

(* Where the analysis goes from what was on the heap stays.                *)
LEMMA BelowOnHeap ==
  ASSUME NEW H, Heap(H), NEW o \in 1..Len(H)
  PROVE  /\ Successors(H, o) \in Seq(1..Len(H)) /\ Below(H, o) \subseteq 1..Len(H)
         /\ H[o].parts \in Seq(Nat) /\ Items(H[o].parts) \subseteq 1..Len(H)
         /\ H[o].link \in 0..Len(H)
<1>1. H[o].parts \in Seq(Nat) /\ Items(H[o].parts) \subseteq 1..Len(H)
      /\ H[o].link \in 0..Len(H) /\ Len(H) \in Nat
  BY DEF Heap, Sound, Thing
<1>2. H[o].parts \in Seq(1..Len(H))
  BY <1>1, SeqOfItems
<1>3. CASE H[o].kind = "function" /\ H[o].link \notin {Missing, o}
  <2>1. Successors(H, o) = <<H[o].link>> /\ H[o].link \in 1..Len(H)
    BY <1>1, <1>3 DEF Successors, Missing
  <2> QED
    BY <1>1, <2>1, ItemsOfOne DEF Below
<1>4. CASE ~(H[o].kind = "function" /\ H[o].link \notin {Missing, o})
  BY <1>1, <1>2, <1>4 DEF Successors, Below
<1> QED
  BY <1>3, <1>4

LEMMA BelowKept ==
  ASSUME NEW H, NEW G, Extends(H, G), NEW o \in 1..Len(H)
  PROVE  o \in 1..Len(G) /\ Below(G, o) = Below(H, o) /\ G[o] = H[o]
<1>1. Len(H) \in Nat /\ Len(G) \in Nat /\ Len(H) <= Len(G) /\ G[o] = H[o]
  BY DEF Extends, Heap
<1> QED
  BY <1>1 DEF Below, Successors

(* ------------------------ what the analysis finds ---------------------- *)

(* An object that is no code and leads to o, or where o leads, is worth o. *)
LEMMA Carried ==
  ASSUME NEW H, NEW G, Extends(H, G), NEW o \in 1..Len(H), NEW W, Finds(H, o, W),
         NEW t \in 1..Len(G), t \notin 1..Len(H), G[t].kind # "code",
         Below(G, t) = {o} \/ (Below(G, t) = Below(H, o) /\ H[o].kind # "code")
  PROVE  Finds(G, t, W)
<1>0. 1..Len(H) \subseteq 1..Len(G)
  BY BelowKept
<1>1. W \subseteq Codes(G, 1..Len(G)) /\ W \subseteq 1..Len(H)
  BY BelowKept DEF Finds, Codes
<1>2. ASSUME NEW R \in SUBSET (1..Len(G)), t \in R, Closed(G, R)
      PROVE  W \subseteq R
  <2> DEFINE Q == (R \cap 1..Len(H)) \cup {o}
  <2>1. \A x \in R \cap 1..Len(H) : Below(H, x) \subseteq R \cap 1..Len(H)
    BY <1>2, BelowKept, BelowOnHeap DEF Closed, Extends
  <2>2. Below(H, o) \subseteq R \cap 1..Len(H) \/ o \in R
    BY <1>2, BelowOnHeap DEF Closed, Extends
  <2>3. Closed(H, Q)
    BY <2>1, <2>2 DEF Closed
  <2>4. W \subseteq Q
    BY <2>3 DEF Finds, AtLeast
  <2>5. o \in R \/ o \notin W
    BY <1>2 DEF Closed, Finds, Codes
  <2> QED
    BY <2>4, <2>5
<1>3. AtMost(G, t, W)
  <2>1. PICK R \in SUBSET (1..Len(H)) : o \in R /\ Closed(H, R) /\ Codes(H, R) \subseteq W
    BY DEF Finds, AtMost
  <2> DEFINE Q == R \cup {t}
  <2>2. Q \in SUBSET (1..Len(G)) /\ t \in Q
    BY <1>0
  <2>3. Closed(G, Q)
    BY <2>1, BelowKept DEF Closed
  <2>4. Codes(G, Q) \subseteq W
    BY <2>1, BelowKept DEF Codes
  <2> QED
    BY <2>2, <2>3, <2>4 DEF AtMost
<1> QED
  BY <1>1, <1>2, <1>3 DEF Finds, AtLeast

(* A wrapper made of an object leads to it, or where it leads, unless it   *)
(* says nothing of it.                                                     *)
LEMMA Decorated ==
  ASSUME NEW H, Heap(H), NEW o \in 1..Len(H), NEW d \in Decorators
  PROVE  LET G == Decorate(d, H, o) IN
         /\ Extends(H, G) /\ Len(G) > Len(H) /\ G[Len(G)].kind # "code"
         /\ d # "plain" => \/ Below(G, Len(G)) = {o}
                           \/ Below(G, Len(G)) = Below(H, o) /\ H[o].kind # "code"
<1> DEFINE n == Len(H)
           code == Append(H, CodeObject(<<>>))
<1>0. /\ n \in Nat /\ n + 1 \in Nat /\ n + 2 \in Nat /\ o \in 1..n + 1
      /\ n + 1 \in 1..n + 2 /\ o \in 0..n + 2 /\ Missing \in 0..n + 2
  BY DEF Heap, Missing
<1>1. Extends(H, code) /\ Len(code) = n + 1 /\ Heap(code)
  BY <1>0, Added, Constructed DEF Extends
<1>2. ASSUME NEW x, Sound(x, n + 1), x.kind # "code",
             x.parts = <<o>>, x.kind = "function" => x.link = Missing
      PROVE  LET G == Append(H, x) IN
             /\ Extends(H, G) /\ Len(G) > Len(H) /\ G[Len(G)].kind # "code"
             /\ Below(G, Len(G)) = {o}
  BY <1>0, <1>2, Added, ItemsOfOne DEF Below, Successors
<1>3. CASE d = "property"
  <2>1. Sound(Property(<<o>>), n + 1)
    BY <1>0, Constructed
  <2>2. Decorate(d, H, o) = Append(H, Property(<<o>>))
    BY <1>3 DEF Decorate
  <2> QED
    BY <1>2, <2>1, <2>2 DEF Property, Object
<1>4. ASSUME d = "method" \/ (d = "self" /\ ~(H[o].kind = "function" /\ H[o].link = Missing))
      PROVE  LET G == Decorate(d, H, o) IN
             /\ Extends(H, G) /\ Len(G) > Len(H) /\ G[Len(G)].kind # "code"
             /\ Below(G, Len(G)) = {o}
  <2>1. Sound(Method(o), n + 1)
    BY <1>0, Constructed
  <2>2. Decorate(d, H, o) = Append(H, Method(o))
    BY <1>4 DEF Decorate
  <2> QED
    BY <1>2, <2>1, <2>2 DEF Method, Object
<1>5. CASE d = "wraps"
  <2> DEFINE f == Fun(n + 1, o)
             G == Append(code, f)
  <2>1. Sound(f, n + 2)
    BY <1>0, Constructed
  <2>2. Extends(code, G) /\ Len(G) = n + 2 /\ G[n + 2] = f
    <3>1. Sound(f, Len(code) + 1)
      BY <1>0, <1>1, <2>1
    <3> HIDE DEF f, code
    <3> QED
      BY <1>0, <1>1, <3>1, Added
  <2>3. Extends(H, G)
    BY <1>1, <2>2, ExtendsTransitive
  <2>4. Below(G, n + 2) = {o}
    <3>1. G[n + 2].kind = "function" /\ G[n + 2].link = o /\ o \notin {Missing, n + 2}
      BY <1>0, <2>2 DEF Fun, Object, Missing
    <3>2. Successors(G, n + 2) = <<o>>
      BY <3>1 DEF Successors
    <3> QED
      BY <3>2, ItemsOfOne DEF Below
  <2>5. G[n + 2].kind # "code" /\ Decorate(d, H, o) = G
    BY <1>1, <1>5, <2>2 DEF Decorate, Fun, Object, Top
  <2> HIDE DEF G
  <2> QED
    BY <1>0, <2>2, <2>3, <2>4, <2>5
<1>6. CASE d = "plain"
  <2> DEFINE f == Fun(n + 1, Missing)
             G == Append(code, f)
  <2>1. Sound(f, n + 2)
    BY <1>0, Constructed
  <2>2. Extends(code, G) /\ Len(G) = n + 2 /\ G[n + 2] = f
    <3>1. Sound(f, Len(code) + 1)
      BY <1>0, <1>1, <2>1
    <3> HIDE DEF f, code
    <3> QED
      BY <1>0, <1>1, <3>1, Added
  <2>3. Extends(H, G)
    BY <1>1, <2>2, ExtendsTransitive
  <2>4. G[n + 2].kind # "code" /\ Decorate(d, H, o) = G
    BY <1>1, <1>6, <2>2 DEF Decorate, Fun, Object, Top
  <2> HIDE DEF G
  <2> QED
    BY <1>0, <1>6, <2>2, <2>3, <2>4
<1>7. CASE d = "self" /\ H[o].kind = "function" /\ H[o].link = Missing
  <2> DEFINE f == Object("function", H[o].parts, n + 1)
             G == Append(H, f)
  <2>1. Sound(f, n + 1)
    <3>1. H[o].parts \in Seq(Nat) /\ Items(H[o].parts) \subseteq 1..n
      BY BelowOnHeap
    <3> QED
      BY <1>0, <3>1 DEF Sound, Thing, Object, Kinds
  <2>2. Extends(H, G) /\ Len(G) = n + 1 /\ G[n + 1] = f
    <3> HIDE DEF f
    <3> QED
      BY <1>0, <2>1, Added
  <2>3. Below(G, n + 1) = Below(H, o)
    BY <1>7, <2>2 DEF Below, Successors, Object
  <2>4. G[n + 1].kind # "code" /\ Decorate(d, H, o) = G
    BY <1>7, <2>2 DEF Decorate, Object, Top
  <2> HIDE DEF G
  <2> QED
    BY <1>0, <1>7, <2>2, <2>3, <2>4
<1> QED
  BY <1>3, <1>4, <1>5, <1>6, <1>7 DEF Decorators

(* A PrivateWrap leads to what it remembers.                               *)
LEMMA RememberedItems ==
  ASSUME NEW H, Heap(H), NEW o \in 1..Len(H), NEW orig \in 0..Len(H)
  PROVE  /\ Remembered(H, o, orig) \in Seq(Nat)
         /\ Items(Remembered(H, o, orig)) =
              (IF IsWrap(H, o) THEN Below(H, o) ELSE {o})
              \cup (IF orig # Missing /\ IsWrap(H, orig) THEN Below(H, orig) ELSE {})
         /\ Items(Remembered(H, o, orig)) \subseteq 1..Len(H)
<1> DEFINE own == IF IsWrap(H, o) THEN H[o].parts ELSE <<o>>
           joined == IF orig # Missing /\ IsWrap(H, orig) THEN H[orig].parts ELSE <<>>
<1>1. \A x \in 1..Len(H) : IsWrap(H, x) => Below(H, x) = Items(H[x].parts)
  BY DEF IsWrap, Below, Successors
<1>2. orig # Missing => orig \in 1..Len(H)
  BY DEF Missing, Heap
<1>3. own \in Seq(Nat) /\ Items(own) = (IF IsWrap(H, o) THEN Below(H, o) ELSE {o})
      /\ Items(own) \subseteq 1..Len(H)
  <2>1. CASE IsWrap(H, o)
    BY <1>1, <2>1, BelowOnHeap
  <2>2. CASE ~IsWrap(H, o)
    <3>1. own = <<o>> /\ o \in Nat
      BY <2>2
    <3>2. <<o>> \in Seq(Nat) /\ Items(<<o>>) = {o}
      BY <3>1, ItemsOfOne
    <3> QED
      BY <2>2, <3>1, <3>2
  <2> QED
    BY <2>1, <2>2
<1>4. /\ joined \in Seq(Nat)
      /\ Items(joined) = (IF orig # Missing /\ IsWrap(H, orig) THEN Below(H, orig) ELSE {})
      /\ Items(joined) \subseteq 1..Len(H)
  <2>1. CASE orig # Missing /\ IsWrap(H, orig)
    BY <1>1, <1>2, <2>1, BelowOnHeap
  <2>2. CASE ~(orig # Missing /\ IsWrap(H, orig))
    <3>1. joined = <<>> /\ <<>> \in Seq(Nat) /\ Items(<<>>) = {}
      BY <2>2, ItemsOfNone
    <3> QED
      BY <2>2, <3>1
  <2> QED
    BY <2>1, <2>2
<1>5. Remembered(H, o, orig) = own \o joined
  BY DEF Remembered
<1> HIDE DEF own, joined
<1> QED
  BY <1>3, <1>4, <1>5, ItemsConcat

LEMMA Proxied ==
  ASSUME NEW H, Heap(H), NEW o \in 1..Len(H), NEW d \in Decorators, NEW orig \in {Missing, o}
  PROVE  LET G == Proxy(d, H, o, orig) IN
         /\ Extends(H, G) /\ Len(G) > Len(H) /\ G[Len(G)].kind # "code"
         /\ \/ Below(G, Len(G)) = {o}
            \/ Below(G, Len(G)) = Below(H, o) /\ H[o].kind # "code"
<1> DEFINE inner == IF IsWrap(H, o) THEN H[o].link ELSE o
           made == Decorate(d, H, inner)
           wrap == PrivateWrap(Len(made), Remembered(H, o, orig))
           G == Append(made, wrap)
<1>1. inner \in 1..Len(H)
  <2>1. IsWrap(H, o) => H[o].link \in 0..Len(H) /\ H[o].link # Missing
    BY BelowOnHeap DEF Heap, Sound, IsWrap
  <2>2. Len(H) \in Nat
    BY DEF Heap
  <2> QED
    BY <2>1, <2>2 DEF Missing
<1>2. Extends(H, made) /\ Len(made) > Len(H)
  <2> HIDE DEF inner
  <2> QED
    BY <1>1, Decorated
<1>3. Heap(made) /\ Len(made) \in Nat /\ Len(H) \in Nat
  BY <1>2 DEF Extends, Heap
<1>4. orig \in 0..Len(H)
  BY <1>3 DEF Missing
<1>5. /\ Remembered(H, o, orig) \in Seq(Nat)
      /\ Items(Remembered(H, o, orig)) = (IF IsWrap(H, o) THEN Below(H, o) ELSE {o})
      /\ Items(Remembered(H, o, orig)) \subseteq 1..Len(H)
  <2>1. orig = Missing \/ orig = o
    OBVIOUS
  <2>2. /\ Remembered(H, o, orig) \in Seq(Nat)
        /\ Items(Remembered(H, o, orig)) =
             (IF IsWrap(H, o) THEN Below(H, o) ELSE {o})
             \cup (IF orig # Missing /\ IsWrap(H, orig) THEN Below(H, orig) ELSE {})
        /\ Items(Remembered(H, o, orig)) \subseteq 1..Len(H)
    BY <1>4, RememberedItems
  <2> QED
    BY <2>1, <2>2
<1>6. Sound(wrap, Len(made) + 1)
  <2>1. Len(made) \in 1..Len(made) + 1 /\ 1..Len(H) \subseteq 1..Len(made) + 1
    BY <1>2, <1>3
  <2> HIDE DEF made
  <2> QED
    BY <1>3, <1>5, <2>1, Constructed
<1>7. Extends(made, G) /\ Len(G) = Len(made) + 1 /\ G[Len(made) + 1] = wrap
  <2> HIDE DEF made, wrap
  <2> QED
    BY <1>3, <1>6, Added
<1>8. Proxy(d, H, o, orig) = G
  BY DEF Proxy, Top
<1>9. Below(G, Len(G)) = Items(Remembered(H, o, orig)) /\ G[Len(G)].kind # "code"
  BY <1>7 DEF Below, Successors, PrivateWrap, Object
<1>10. Extends(H, G)
  <2> HIDE DEF made, G
  <2> QED
    BY <1>2, <1>7, ExtendsTransitive
<1>11. IsWrap(H, o) => H[o].kind # "code"
  BY DEF IsWrap
<1> HIDE DEF made, G
<1> QED
  BY <1>2, <1>3, <1>5, <1>7, <1>8, <1>9, <1>10, <1>11

(* Code objects written in the body join what is found from the new top.   *)
LEMMA Defined ==
  ASSUME NEW H, Heap(H)
  PROVE  LET G == Def(H)
             n == Len(H)
         IN  /\ Extends(H, G) /\ Len(G) = n + 3
             /\ G[n + 1].kind = "code" /\ Below(G, n + 1) = {}
             /\ G[n + 2].kind = "code" /\ Below(G, n + 2) = {n + 1}
             /\ G[n + 3].kind = "function" /\ Below(G, n + 3) = {n + 2}
<1> DEFINE n == Len(H)
           nested == Append(H, CodeObject(<<>>))
           c == CodeObject(<<n + 1>>)
           code == Append(nested, c)
           f == Fun(n + 2, Missing)
           G == Append(code, f)
<1>0. /\ n \in Nat /\ n + 1 \in Nat /\ n + 2 \in Nat /\ n + 3 \in Nat
      /\ n + 1 \in 1..n + 2 /\ n + 2 \in 1..n + 3 /\ Missing \in 0..n + 3
  BY DEF Heap, Missing
<1>1. /\ Extends(H, nested) /\ Len(nested) = n + 1 /\ Heap(nested)
      /\ nested[n + 1] = CodeObject(<<>>)
  BY <1>0, Added, Constructed DEF Extends
<1>2. Extends(nested, code) /\ Len(code) = n + 2 /\ Heap(code) /\ code[n + 2] = c
  <2>1. Sound(c, n + 2)
    BY <1>0, Constructed
  <2>2. Sound(c, Len(nested) + 1)
    BY <1>0, <1>1, <2>1
  <2> HIDE DEF nested, c
  <2>3. Extends(nested, code) /\ Len(code) = Len(nested) + 1 /\ code[Len(nested) + 1] = c
    BY <1>1, <2>2, Added
  <2> QED
    BY <1>0, <1>1, <2>3 DEF Extends
<1>3. Extends(code, G) /\ Len(G) = n + 3 /\ Heap(G) /\ G[n + 3] = f
  <2>1. Sound(f, n + 3)
    BY <1>0, Constructed
  <2>2. Sound(f, Len(code) + 1)
    BY <1>0, <1>2, <2>1
  <2> HIDE DEF code, f
  <2>3. Extends(code, G) /\ Len(G) = Len(code) + 1 /\ G[Len(code) + 1] = f
    BY <1>2, <2>2, Added
  <2> QED
    BY <1>0, <1>2, <2>3 DEF Extends
<1>4. Def(H) = G
  BY <1>1, <1>2 DEF Def, Top
<1> HIDE DEF nested, code, G
<1>5. G[n + 1] = CodeObject(<<>>) /\ G[n + 2] = c
  BY <1>0, <1>1, <1>2, <1>3 DEF Extends
<1>6. Extends(H, G)
  BY <1>1, <1>2, <1>3, ExtendsTransitive
<1>7. Below(G, n + 1) = {} /\ Below(G, n + 2) = {n + 1} /\ Below(G, n + 3) = {n + 2}
  <2>1. Successors(G, n + 1) = <<>> /\ Successors(G, n + 2) = <<n + 1>>
        /\ Successors(G, n + 3) = <<n + 2>>
    BY <1>3, <1>5 DEF Successors, CodeObject, Fun, Object
  <2> QED
    BY <2>1, ItemsOfOne, ItemsOfNone DEF Below
<1> QED
  BY <1>3, <1>4, <1>5, <1>6, <1>7 DEF CodeObject, Fun, Object

LEMMA Joined ==
  ASSUME NEW H, Heap(H), Len(H) > 0
  PROVE  LET G == Setter(H)
             n == Len(H)
         IN  /\ Extends(Def(H), G) /\ Len(G) = n + 5 /\ G[n + 5].kind = "PrivateWrap"
             /\ IsWrap(H, n) => Below(G, n + 5) = {n + 3} \cup Below(H, n)
<1> DEFINE n == Len(H)
           def == Def(H)
           prop == Property(<<n + 3>>)
           made == Append(def, prop)
           funcs == Remembered(def, n + 3, n)
           wrap == PrivateWrap(n + 4, funcs)
           G == Append(made, wrap)
<1>0. n \in Nat /\ n + 4 \in Nat /\ n + 5 \in Nat /\ n + 3 \in 1..n + 4 /\ n + 4 \in 1..n + 5
      /\ n \in 1..n + 3 /\ n \in 0..n + 3 /\ n + 3 \in 1..n + 3 /\ n \in 1..n /\ n # Missing
  BY DEF Heap, Missing
<1>1. /\ Extends(H, def) /\ Heap(def) /\ Len(def) = n + 3 /\ def[n + 3].kind = "function"
  BY Defined DEF Extends
<1>2. Extends(def, made) /\ Heap(made) /\ Len(made) = n + 4
  <2>1. Sound(prop, n + 4)
    BY <1>0, Constructed
  <2>2. Sound(prop, Len(def) + 1)
    BY <1>0, <1>1, <2>1
  <2> HIDE DEF def, prop
  <2>3. Extends(def, made) /\ Len(made) = Len(def) + 1
    BY <1>1, <2>2, Added
  <2> QED
    BY <1>0, <1>1, <2>3 DEF Extends
<1>3. /\ funcs \in Seq(Nat) /\ Items(funcs) \subseteq 1..n + 3
      /\ IsWrap(H, n) => Items(funcs) = {n + 3} \cup Below(H, n)
  <2>1. n \in 0..Len(def) /\ n + 3 \in 1..Len(def)
    BY <1>0, <1>1
  <2>2. ~IsWrap(def, n + 3)
    BY <1>1 DEF IsWrap
  <2>3. (IsWrap(H, n) <=> IsWrap(def, n)) /\ Below(def, n) = Below(H, n)
    BY <1>0, <1>1, BelowKept DEF IsWrap
  <2> HIDE DEF def
  <2>4. /\ funcs \in Seq(Nat) /\ Items(funcs) \subseteq 1..Len(def)
        /\ Items(funcs) =
             (IF IsWrap(def, n + 3) THEN Below(def, n + 3) ELSE {n + 3})
             \cup (IF n # Missing /\ IsWrap(def, n) THEN Below(def, n) ELSE {})
    BY <1>1, <2>1, RememberedItems
  <2> QED
    BY <1>0, <1>1, <2>2, <2>3, <2>4
<1>4. Extends(made, G) /\ Len(G) = n + 5 /\ G[n + 5] = wrap
  <2>1. Sound(wrap, n + 5)
    <3>1. 1..n + 3 \subseteq 1..n + 5
      BY <1>0
    <3> HIDE DEF funcs
    <3> QED
      BY <1>0, <1>3, <3>1, Constructed
  <2>2. Sound(wrap, Len(made) + 1)
    BY <1>0, <1>2, <2>1
  <2> HIDE DEF made, wrap
  <2>3. Extends(made, G) /\ Len(G) = Len(made) + 1 /\ G[Len(made) + 1] = wrap
    BY <1>2, <2>2, Added
  <2> QED
    BY <1>0, <1>2, <2>3
<1>5. Setter(H) = G
  BY <1>1, <1>2 DEF Setter, Top
<1>6. G[n + 5].kind = "PrivateWrap" /\ Below(G, n + 5) = Items(funcs)
  BY <1>4 DEF Below, Successors, PrivateWrap, Object
<1>7. Extends(def, G)
  <2> HIDE DEF def, made, G
  <2> QED
    BY <1>2, <1>4, ExtendsTransitive
<1> HIDE DEF G, funcs
<1> QED
  BY <1>3, <1>4, <1>5, <1>6, <1>7

(* What is found from the top after a setter: the new code as well.        *)
LEMMA JoinedFinds ==
  ASSUME NEW H, Heap(H), Len(H) > 0, IsWrap(H, Len(H)), NEW W, Finds(H, Len(H), W)
  PROVE  Finds(Setter(H), Len(H) + 5, W \cup {Len(H) + 1, Len(H) + 2})
<1> DEFINE n == Len(H)
           D == Def(H)
           G == Setter(H)
           V == W \cup {n + 1, n + 2}
<1>0. n \in Nat /\ n \in 1..n /\ n + 1 \in 1..n + 3 /\ n + 2 \in 1..n + 3 /\ n + 3 \in 1..n + 3
      /\ n + 5 \in 1..n + 5
  BY DEF Heap
<1>1. /\ Extends(H, D) /\ Len(D) = n + 3
      /\ D[n + 1].kind = "code" /\ Below(D, n + 1) = {}
      /\ D[n + 2].kind = "code" /\ Below(D, n + 2) = {n + 1}
      /\ D[n + 3].kind = "function" /\ Below(D, n + 3) = {n + 2}
  BY Defined
<1>2. /\ Extends(D, G) /\ Len(G) = n + 5 /\ G[n + 5].kind = "PrivateWrap"
      /\ Below(G, n + 5) = {n + 3} \cup Below(H, n)
  BY Joined
<1> HIDE DEF D, G
<1>3. Extends(H, G)
  BY <1>1, <1>2, ExtendsTransitive
<1>4. \A x \in 1..n + 3 : x \in 1..n + 5 /\ Below(G, x) = Below(D, x) /\ G[x] = D[x]
  BY <1>1, <1>2, BelowKept
<1>5. \A x \in 1..n : x \in 1..n + 5 /\ Below(G, x) = Below(H, x) /\ G[x] = H[x]
  BY <1>2, <1>3, BelowKept
<1>6. /\ Below(G, n + 1) = {} /\ Below(G, n + 2) = {n + 1} /\ Below(G, n + 3) = {n + 2}
      /\ G[n + 1].kind = "code" /\ G[n + 2].kind = "code" /\ G[n + 3].kind = "function"
  BY <1>0, <1>1, <1>4
<1>7. W \subseteq Codes(H, 1..n) /\ n \notin W
  BY DEF Finds, Codes, IsWrap
<1>8. V \subseteq Codes(G, 1..n + 5)
  BY <1>0, <1>4, <1>5, <1>6, <1>7 DEF Codes
<1>9. ASSUME NEW R \in SUBSET (1..n + 5), n + 5 \in R, Closed(G, R) PROVE V \subseteq R
  <2>1. n + 3 \in R /\ n + 2 \in R /\ n + 1 \in R /\ Below(H, n) \subseteq R
    BY <1>2, <1>6, <1>9 DEF Closed
  <2> DEFINE Q == (R \cap 1..n) \cup {n}
  <2>2. \A x \in R \cap 1..n : Below(H, x) \subseteq R \cap 1..n
    BY <1>5, <1>9, BelowOnHeap DEF Closed
  <2>3. Below(H, n) \subseteq R \cap 1..n
    BY <1>0, <2>1, BelowOnHeap
  <2>4. Closed(H, Q) /\ Q \in SUBSET (1..n)
    BY <1>0, <2>2, <2>3 DEF Closed
  <2>5. W \subseteq Q
    BY <2>4 DEF Finds, AtLeast
  <2> QED
    BY <1>7, <2>1, <2>5
<1>10. AtMost(G, n + 5, V)
  <2>1. PICK R \in SUBSET (1..n) : n \in R /\ Closed(H, R) /\ Codes(H, R) \subseteq W
    BY DEF Finds, AtMost
  <2> DEFINE Q == R \cup {n + 1, n + 2, n + 3, n + 5}
  <2>2. Q \in SUBSET (1..n + 5) /\ n + 5 \in Q
    BY <1>0, <1>4, <1>5
  <2>3. Closed(G, Q)
    <3>1. \A x \in R : Below(G, x) \subseteq R
      BY <1>5, <2>1 DEF Closed
    <3>2. Below(H, n) \subseteq R
      BY <2>1 DEF Closed
    <3> QED
      BY <1>2, <1>6, <3>1, <3>2 DEF Closed
  <2>4. Codes(G, Q) \subseteq V
    BY <1>2, <1>5, <1>6, <2>1 DEF Codes
  <2> QED
    BY <1>2, <2>2, <2>3, <2>4 DEF AtMost
<1> QED
  BY <1>2, <1>8, <1>9, <1>10 DEF Finds, AtLeast, G

(* ------------------------------- the steps ----------------------------- *)

LEMMA NewBodyOK ==
  LET H == NewBody.heap IN
  Heap(H) /\ Len(H) = 3 /\ H[3].kind # "code" /\ Finds(H, 3, {1, 2})
<1> DEFINE H == NewBody.heap
<1>1. Heap(<<>>) /\ Len(<<>>) = 0
  BY DEF Heap
<1>2. H = Def(<<>>)
  BY DEF NewBody
<1> HIDE DEF H
<1>3. /\ Heap(H) /\ Len(H) = 3
      /\ H[1].kind = "code" /\ Below(H, 1) = {}
      /\ H[2].kind = "code" /\ Below(H, 2) = {1}
      /\ H[3].kind = "function" /\ Below(H, 3) = {2}
  <2> DEFINE n == Len(<<>>)
  <2>1. n + 1 = 1 /\ n + 2 = 2 /\ n + 3 = 3
    BY <1>1
  <2> HIDE DEF n
  <2>2. /\ Extends(<<>>, H) /\ Len(H) = n + 3
        /\ H[n + 1].kind = "code" /\ Below(H, n + 1) = {}
        /\ H[n + 2].kind = "code" /\ Below(H, n + 2) = {n + 1}
        /\ H[n + 3].kind = "function" /\ Below(H, n + 3) = {n + 2}
    BY <1>1, <1>2, Defined DEF n
  <2> QED
    BY <2>1, <2>2 DEF Extends
<1>4. Finds(H, 3, {1, 2})
  <2>1. {1, 2} \subseteq Codes(H, 1..3)
    BY <1>3 DEF Codes
  <2>2. \A R \in SUBSET (1..3) : 3 \in R /\ Closed(H, R) => {1, 2} \subseteq R
    BY <1>3 DEF Closed
  <2>3. Closed(H, {1, 2, 3}) /\ Codes(H, {1, 2, 3}) \subseteq {1, 2}
    BY <1>3 DEF Closed, Codes
  <2> QED
    BY <1>3, <2>1, <2>2, <2>3 DEF Finds, AtLeast, AtMost
<1> QED
  BY <1>3, <1>4 DEF H

(* One more decorator keeps the code of the body within reach of the top.  *)
LEMMA ApplyOK ==
  ASSUME NEW H, Heap(H), Len(H) > 0, H[Len(H)].kind # "code", NEW step \in Steps
  PROVE  LET G == Apply(H, step)
             n == Len(H)
         IN  /\ Heap(G) /\ Len(G) > 0 /\ G[Len(G)].kind # "code"
             /\ ~Loses(H, step) => \A W : Finds(H, n, W) =>
                  Finds(G, Len(G), W \cup (IF step[1] = "setter" THEN {n + 1, n + 2} ELSE {}))
<1> DEFINE n == Len(H)
           G == Apply(H, step)
<1>0. n \in Nat /\ n \in 1..n
  BY DEF Heap
<1>1. CASE step[1] = "setter"
  <2>1. G = Setter(H)
    BY <1>1 DEF Apply
  <2>2. /\ Heap(G) /\ Len(G) = n + 5 /\ G[n + 5].kind = "PrivateWrap"
    BY <2>1, Joined DEF Extends
  <2>3. ~Loses(H, step) => IsWrap(H, n)
    BY <1>1 DEF Loses, Top
  <2> HIDE DEF G
  <2>4. ~Loses(H, step) => \A W : Finds(H, n, W) => Finds(G, n + 5, W \cup {n + 1, n + 2})
    BY <2>1, <2>3, JoinedFinds
  <2> QED
    BY <1>0, <1>1, <2>2, <2>4 DEF G
<1>2. ASSUME Extends(H, G), Len(G) > n, G[Len(G)].kind # "code", step[1] # "setter",
             ~Loses(H, step) => \/ Below(G, Len(G)) = {n}
                                \/ Below(G, Len(G)) = Below(H, n) /\ H[n].kind # "code"
      PROVE  /\ Heap(G) /\ Len(G) > 0 /\ G[Len(G)].kind # "code"
             /\ ~Loses(H, step) => \A W : Finds(H, n, W) => Finds(G, Len(G), W \cup {})
  <2> HIDE DEF G
  <2>1. Heap(G) /\ Len(G) \in 1..Len(G) /\ Len(G) \notin 1..n /\ Len(G) > 0
    BY <1>0, <1>2 DEF Extends, Heap
  <2>2. ASSUME ~Loses(H, step), NEW W, Finds(H, n, W) PROVE Finds(G, Len(G), W)
    BY <1>0, <1>2, <2>1, <2>2, Carried
  <2>3. \A W : W \cup {} = W
    OBVIOUS
  <2> QED
    BY <1>2, <2>1, <2>2, <2>3
<1>3. CASE step[1] = "bare"
  <2>1. G = Decorate(step[2], H, n) /\ step[2] \in Decorators
    BY <1>3 DEF Apply, Top, Steps
  <2>2. ~Loses(H, step) => step[2] # "plain"
    BY <1>3 DEF Loses, Steps
  <2>3. /\ Extends(H, G) /\ Len(G) > n /\ G[Len(G)].kind # "code"
        /\ step[2] # "plain" => \/ Below(G, Len(G)) = {n}
                                \/ Below(G, Len(G)) = Below(H, n) /\ H[n].kind # "code"
    BY <1>0, <2>1, Decorated
  <2> QED
    BY <1>2, <1>3, <2>2, <2>3
<1>4. CASE step[1] \in {"private", "joined"}
  <2>1. step[2] \in Decorators
    BY <1>4 DEF Steps
  <2>2. \E orig \in {Missing, n} : G = Proxy(step[2], H, n, orig)
    BY <1>4 DEF Apply, Top
  <2>3. /\ Extends(H, G) /\ Len(G) > n /\ G[Len(G)].kind # "code"
        /\ \/ Below(G, Len(G)) = {n}
           \/ Below(G, Len(G)) = Below(H, n) /\ H[n].kind # "code"
    BY <1>0, <2>1, <2>2, Proxied
  <2> QED
    BY <1>2, <1>4, <2>3
<1> QED
  BY <1>1, <1>3, <1>4 DEF Steps

LEMMA IdleItems == Items(Idle.todo) = {} /\ Idle.seen = {} /\ Idle.map = {}
  BY ItemsOfNone DEF Idle

(* An idle walk has seen nothing, whatever the body.                       *)
LEMMA IdleOK ==
  ASSUME walk = Idle, Heap(body.heap)
  PROVE  WalkOK
<1>1. Len(body.heap) \in Nat
  BY DEF Heap
<1>2. walk \in [todo : Seq(1..Len(body.heap)), seen : SUBSET (1..Len(body.heap)),
                map : SUBSET (1..Len(body.heap))]
  BY DEF Idle
<1> QED
  BY <1>2, IdleItems DEF WalkOK, Codes

LEMMA InvInit == CodeInit => CodeInv
<1> SUFFICES ASSUME CodeInit PROVE CodeInv
  OBVIOUS
<1>1. body = NewBody /\ walk = Idle
  BY DEF CodeInit
<1>2. body.written = {1, 2}
  BY <1>1 DEF NewBody
<1>3. /\ Heap(body.heap) /\ Len(body.heap) = 3 /\ body.heap[3].kind # "code"
      /\ Finds(body.heap, 3, {1, 2})
  BY <1>1, NewBodyOK
<1>4. BodyOK
  BY <1>2, <1>3 DEF BodyOK
<1> QED
  BY <1>1, <1>3, <1>4, IdleOK DEF CodeInv

LEMMA DecorateStep ==
  ASSUME CodeInv, NEW step \in Steps, DecorateBody(step)
  PROVE  CodeInv'
<1> DEFINE H == body.heap
           G == body'.heap
<1>1. /\ G = Apply(H, step) /\ body'.lost = (body.lost \/ Loses(H, step))
      /\ body'.written = body.written
           \cup (IF step[1] = "setter" THEN {Len(H) + 1, Len(H) + 2} ELSE {})
      /\ walk' = walk /\ walk = Idle
  BY DEF DecorateBody, Top
<1>2. /\ Heap(H) /\ Len(H) > 0 /\ H[Len(H)].kind # "code"
      /\ ~body.lost => Finds(H, Len(H), body.written)
  BY DEF CodeInv, BodyOK
<1> HIDE DEF H, G
<1>3. /\ Heap(G) /\ Len(G) > 0 /\ G[Len(G)].kind # "code"
      /\ ~Loses(H, step) => \A W : Finds(H, Len(H), W) =>
           Finds(G, Len(G), W \cup (IF step[1] = "setter" THEN {Len(H) + 1, Len(H) + 2} ELSE {}))
  BY <1>1, <1>2, ApplyOK
<1>4. BodyOK'
  BY <1>1, <1>2, <1>3 DEF BodyOK, G
<1>5. WalkOK'
  <2>1. walk' = Idle /\ Heap(body'.heap)
    BY <1>1, <1>3 DEF G
  <2>2. (walk = Idle /\ Heap(body.heap) => WalkOK)'
    BY IdleOK, PTL
  <2> QED
    BY <2>1, <2>2
<1> QED
  BY <1>4, <1>5 DEF CodeInv

LEMMA AnalyseStep ==
  ASSUME CodeInv, Analyse
  PROVE  WalkOK'
<1> DEFINE H == body.heap
           n == Len(H)
<1>1. Heap(H) /\ n \in Nat /\ n > 0 /\ n \in 1..n
  BY DEF CodeInv, BodyOK, Heap
<1>2. walk' = [todo |-> <<n>>, seen |-> {}, map |-> {}] /\ body' = body
  BY DEF Analyse, Idle, Top
<1>3. Items(walk'.todo) = {n} /\ walk'.seen = {} /\ walk'.map = {}
  BY <1>2, ItemsOfOne
<1>4. walk' \in [todo : Seq(1..n), seen : SUBSET (1..n), map : SUBSET (1..n)]
  BY <1>1, <1>2
<1>5. Codes(H, {}) = {}
  BY DEF Codes
<1> QED
  BY <1>2, <1>3, <1>4, <1>5 DEF WalkOK

LEMMA SeenStep ==
  ASSUME CodeInv, Seen
  PROVE  WalkOK'
<1> DEFINE H == body.heap
           n == Len(H)
<1>1. /\ walk \in [todo : Seq(1..n), seen : SUBSET (1..n), map : SUBSET (1..n)]
      /\ walk # Idle => n \in walk.seen \cup Items(walk.todo)
      /\ \A o \in walk.seen : Below(H, o) \subseteq walk.seen \cup Items(walk.todo)
      /\ walk.map = Codes(H, walk.seen)
      /\ \A R \in SUBSET (1..n) :
           n \in R /\ Closed(H, R) => walk.seen \cup Items(walk.todo) \subseteq R
  BY DEF CodeInv, WalkOK
<1>2. /\ walk.todo # <<>> /\ Head(walk.todo) \in walk.seen
      /\ walk' = [walk EXCEPT !.todo = Tail(@)] /\ body' = body
  BY DEF Seen
<1>3. /\ Tail(walk.todo) \in Seq(1..n)
      /\ Items(walk.todo) = {Head(walk.todo)} \cup Items(Tail(walk.todo))
  <2>1. walk.todo \in Seq(1..n)
    BY <1>1
  <2> QED
    BY <1>2, <2>1, ItemsHead
<1>4. walk'.todo = Tail(walk.todo) /\ walk'.seen = walk.seen /\ walk'.map = walk.map
  BY <1>1, <1>2
<1>5. walk'.seen \cup Items(walk'.todo) = walk.seen \cup Items(walk.todo)
  BY <1>2, <1>3, <1>4
<1>6. walk # Idle
  BY <1>2 DEF Idle
<1>7. walk' \in [todo : Seq(1..n), seen : SUBSET (1..n), map : SUBSET (1..n)]
  BY <1>1, <1>2, <1>3
<1> QED
  BY <1>1, <1>2, <1>4, <1>5, <1>6, <1>7 DEF WalkOK

LEMMA VisitStep ==
  ASSUME CodeInv, Visit
  PROVE  WalkOK'
<1> DEFINE H == body.heap
           n == Len(H)
           o == Head(walk.todo)
<1>1. /\ walk \in [todo : Seq(1..n), seen : SUBSET (1..n), map : SUBSET (1..n)]
      /\ walk # Idle => n \in walk.seen \cup Items(walk.todo)
      /\ \A x \in walk.seen : Below(H, x) \subseteq walk.seen \cup Items(walk.todo)
      /\ walk.map = Codes(H, walk.seen)
      /\ \A R \in SUBSET (1..n) :
           n \in R /\ Closed(H, R) => walk.seen \cup Items(walk.todo) \subseteq R
  BY DEF CodeInv, WalkOK
<1>2. /\ walk.todo # <<>> /\ body' = body
      /\ walk' = [todo |-> Successors(H, o) \o Tail(walk.todo),
                  seen |-> walk.seen \cup {o},
                  map |-> walk.map \cup (IF H[o].kind = "code" THEN {o} ELSE {})]
  BY DEF Visit
<1>3. /\ o \in 1..n /\ Tail(walk.todo) \in Seq(1..n)
      /\ Items(walk.todo) = {o} \cup Items(Tail(walk.todo))
  <2>1. walk.todo \in Seq(1..n)
    BY <1>1
  <2> QED
    BY <1>2, <2>1, ItemsHead
<1>4. Successors(H, o) \in Seq(1..n)
  BY <1>3, BelowOnHeap DEF CodeInv, BodyOK
<1> DEFINE todo == Successors(H, o) \o Tail(walk.todo)
<1>5. todo \in Seq(1..n) /\ Items(todo) = Below(H, o) \cup Items(Tail(walk.todo))
  BY <1>3, <1>4, ItemsConcat DEF Below
<1>6. walk'.todo = todo /\ walk'.seen = walk.seen \cup {o}
      /\ walk'.map = walk.map \cup (IF H[o].kind = "code" THEN {o} ELSE {})
  BY <1>2
<1>7. walk # Idle
  BY <1>2 DEF Idle
<1>8. walk'.map = Codes(H, walk'.seen)
  BY <1>1, <1>6 DEF Codes
<1>9. walk' \in [todo : Seq(1..n), seen : SUBSET (1..n), map : SUBSET (1..n)]
  <2>1. walk'.seen \in SUBSET (1..n) /\ walk'.map \in SUBSET (1..n)
    BY <1>1, <1>3, <1>6
  <2> HIDE DEF todo
  <2> QED
    BY <1>2, <1>5, <1>6, <2>1 DEF todo
<1> HIDE DEF todo
<1>10. walk.seen \cup Items(walk.todo) \subseteq walk'.seen \cup Items(walk'.todo)
  BY <1>3, <1>5, <1>6
<1>11. \A x \in walk'.seen : Below(H, x) \subseteq walk'.seen \cup Items(walk'.todo)
  BY <1>1, <1>5, <1>6, <1>10
<1>12. ASSUME NEW R \in SUBSET (1..n), n \in R, Closed(H, R)
       PROVE  walk'.seen \cup Items(walk'.todo) \subseteq R
  <2>1. walk.seen \cup Items(walk.todo) \subseteq R
    BY <1>1, <1>12
  <2>2. Below(H, o) \subseteq R
    BY <1>3, <1>12, <2>1 DEF Closed
  <2> QED
    BY <1>3, <1>5, <1>6, <2>1, <2>2
<1> QED
  BY <1>1, <1>2, <1>7, <1>8, <1>9, <1>10, <1>11, <1>12 DEF WalkOK

LEMMA InvStep == CodeInv /\ [Evaluate \/ NextName]_codeVars => CodeInv'
<1> SUFFICES ASSUME CodeInv, [Evaluate \/ NextName]_codeVars PROVE CodeInv'
  OBVIOUS
<1>1. ASSUME NEW step \in Steps, DecorateBody(step) PROVE CodeInv'
  BY <1>1, DecorateStep
<1>2. CASE Analyse \/ Seen \/ Visit
  <2>1. body' = body
    BY <1>2 DEF Analyse, Seen, Visit
  <2>2. BodyOK'
    BY <2>1 DEF CodeInv, BodyOK
  <2> QED
    BY <1>2, <2>2, AnalyseStep, SeenStep, VisitStep DEF CodeInv
<1>3. CASE NextName
  <2>1. CodeInit'
    BY <1>3 DEF NextName, CodeInit
  <2>2. (CodeInit => CodeInv)'
    BY InvInit, PTL
  <2> QED
    BY <2>1, <2>2
<1>4. CASE UNCHANGED codeVars
  BY <1>4 DEF codeVars, CodeInv, BodyOK, WalkOK
<1> QED
  BY <1>1, <1>2, <1>3, <1>4 DEF Evaluate

(* At the end what was seen is closed, and no more than must be.           *)
LEMMA InvExact == CodeInv => OwnCodeExact
<1> SUFFICES ASSUME CodeInv, Analysed, ~body.lost PROVE walk.map = body.written
  BY DEF OwnCodeExact
<1> DEFINE H == body.heap
           n == Len(H)
<1>1. Finds(H, n, body.written)
  BY DEF CodeInv, BodyOK
<1>2. Items(walk.todo) = {} /\ walk # Idle
  BY ItemsOfNone DEF Analysed, Idle
<1>3. /\ walk.seen \in SUBSET (1..n) /\ n \in walk.seen
      /\ \A o \in walk.seen : Below(H, o) \subseteq walk.seen
      /\ walk.map = Codes(H, walk.seen)
      /\ \A R \in SUBSET (1..n) : n \in R /\ Closed(H, R) => walk.seen \subseteq R
  BY <1>2 DEF CodeInv, WalkOK
<1>4. body.written \subseteq walk.seen
  BY <1>1, <1>3 DEF Finds, AtLeast, Closed
<1>5. PICK R \in SUBSET (1..n) : n \in R /\ Closed(H, R) /\ Codes(H, R) \subseteq body.written
  BY <1>1 DEF Finds, AtMost
<1>6. walk.seen \subseteq R
  BY <1>3, <1>5
<1> QED
  BY <1>1, <1>3, <1>4, <1>5, <1>6 DEF Finds, Codes

(* ------------------------------ theorems ------------------------------- *)

(* However many decorators are stacked on the functions of a class body,   *)
(* in whatever order, the analysis gives the class the code written in the *)
(* body, nested functions included, and none of the wrappers', if no step  *)
(* loses what it wraps (analyse_all_code, PrivateWrapProxy).               *)
THEOREM OwnCodeCollected == CodeSpec => []OwnCodeExact
<1>1. CodeSpec => []CodeInv
  BY InvInit, InvStep, PTL DEF CodeSpec
<1> QED
  BY <1>1, InvExact, PTL
==============================================================================
