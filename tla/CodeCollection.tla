---------------------------- MODULE CodeCollection ----------------------------
(***************************************************************************)
(* Which code objects belong to a class: analyse_all_code on what the      *)
(* class body binds to a name, after any stack of decorators, some applied *)
(* through PrivateWrapProxy.  A heap is the sequence of the objects made;  *)
(* an object is known by its index.  The recursion of analyse_all_code is  *)
(* a stack of the calls still to be made.  Operators named Mutant... are   *)
(* wrong versions of the definition that follows them and are not used.    *)
(***************************************************************************)
EXTENDS Naturals, Sequences

CONSTANT MaxDecorators   \* bound: the decorators over one function

ASSUME DecoratorAssumption == MaxDecorators \in Nat

VARIABLES
  body,  \* what the class body has bound to the name so far: the heap with the
         \* object on top, the code written in the body, whether a step has lost
         \* some of it, and the decorators applied
  walk   \* the analysis: the calls to make, _seen and map

codeVars == <<body, walk>>

(* ------------------------------- objects ------------------------------- *)

(* An object refers to its parts - the constants of a code object, the     *)
(* code of a function, the functions of a property (those it has), of a    *)
(* method and of a PrivateWrap - and may have one link: the __wrapped__ of *)
(* a function, the result of a PrivateWrap.                                *)
Missing == 0
Kinds == {"code", "function", "property", "method", "PrivateWrap"}
Object(kind, parts, link) == [kind |-> kind, parts |-> parts, link |-> link]

CodeObject(consts) == Object("code", consts, Missing)
Fun(code, wrapped) == Object("function", <<code>>, wrapped)
Property(funcs) == Object("property", funcs, Missing)
Method(func) == Object("method", <<func>>, Missing)   \* classmethod, staticmethod
PrivateWrap(result, funcs) == Object("PrivateWrap", funcs, result)

Top(heap) == Len(heap)
IsWrap(heap, o) == heap[o].kind = "PrivateWrap"

(* A function written in the body, with a function nested in its code.     *)
Def(heap) ==
  LET nested == Append(heap, CodeObject(<<>>))
      code == Append(nested, CodeObject(<<Top(nested)>>))
  IN  Append(code, Fun(Top(code), Missing))

(* ----------------------------- decorators ------------------------------ *)

(* What decorator d returns for object o, put on the heap.  "wraps" is a   *)
(* wrapper function made with functools.wraps, "self" a function made its  *)
(* own __wrapped__, and "plain" a wrapper that says nothing of o: its code *)
(* was written elsewhere.                                                  *)
Decorate(d, heap, o) ==
  LET code == Append(heap, CodeObject(<<>>)) IN
  CASE d = "property" -> Append(heap, Property(<<o>>))
    [] d = "method" -> Append(heap, Method(o))
    [] d = "wraps" -> Append(code, Fun(Top(code), o))
    [] d = "plain" -> Append(code, Fun(Top(code), Missing))
    [] d = "self" -> IF heap[o].kind = "function" /\ heap[o].link = Missing
                     THEN Append(heap, Object("function", heap[o].parts, Top(heap) + 1))
                     ELSE Append(heap, Method(o))

Decorators == {"property", "method", "wraps", "plain", "self"}

(* PrivateWrapProxy(d, orig)(o): the functions it remembers are those of a *)
(* PrivateWrap, or the object itself, and those of orig; the decorator is  *)
(* given the result of a PrivateWrap (PrivateWrap_New).                    *)
Remembered(heap, o, orig) ==
  (IF IsWrap(heap, o) THEN heap[o].parts ELSE <<o>>)
  \o (IF orig # Missing /\ IsWrap(heap, orig) THEN heap[orig].parts ELSE <<>>)

Proxy(d, heap, o, orig) ==
  LET inner == IF IsWrap(heap, o) THEN heap[o].link ELSE o
      made == Decorate(d, heap, inner)
  IN  Append(made, PrivateWrap(Top(made), Remembered(heap, o, orig)))

(* @PrivateWrapProxy(x.setter, x), with x the object so far: another       *)
(* function joins it.  A setter ends as the property with a second         *)
(* function; only what the PrivateWrap remembers is analysed.              *)
Setter(heap) ==
  LET def == Def(heap)
      made == Append(def, Property(<<Top(def)>>))
  IN  Append(made, PrivateWrap(Top(made), Remembered(def, Top(def), Top(heap))))

(* "joined" is PrivateWrapProxy(d, x)(x).                                  *)
Steps == {"bare", "private", "joined"} \X Decorators \cup {<<"setter", "property">>}

Apply(heap, step) ==
  CASE step[1] = "bare" -> Decorate(step[2], heap, Top(heap))
    [] step[1] = "private" -> Proxy(step[2], heap, Top(heap), Missing)
    [] step[1] = "joined" -> Proxy(step[2], heap, Top(heap), Top(heap))
    [] step[1] = "setter" -> Setter(heap)

(* A step loses the functions under it: a wrapper that does not name them, *)
(* or a setter without a PrivateWrap to join.                              *)
Loses(heap, step) ==
  step = <<"bare", "plain">> \/ (step[1] = "setter" /\ ~IsWrap(heap, Top(heap)))

(* ------------------------- evaluating the body ------------------------- *)

NewBody == [heap |-> Def(<<>>), written |-> {1, 2}, lost |-> FALSE, decorators |-> 0]
Idle == [todo |-> <<>>, seen |-> {}, map |-> {}]

CodeInit == body = NewBody /\ walk = Idle

DecorateBody(step) ==
  LET n == Top(body.heap) IN
  /\ walk = Idle
  /\ body.decorators < MaxDecorators
  /\ body' = [heap |-> Apply(body.heap, step),
              written |-> body.written \cup (IF step[1] = "setter" THEN {n + 1, n + 2} ELSE {}),
              lost |-> body.lost \/ Loses(body.heap, step),
              decorators |-> body.decorators + 1]
  /\ walk' = walk

(* --------------------------- the analysis ------------------------------ *)

(* Where analyse_all_code goes from an object: its parts, but from what    *)
(* has a __wrapped__ other than itself only there.                         *)
MutantSuccessors(heap, o) == heap[o].parts

Successors(heap, o) ==
  IF heap[o].kind = "function" /\ heap[o].link \notin {Missing, o}
  THEN <<heap[o].link>> ELSE heap[o].parts

(* Every name of the body starts with nothing seen.                        *)
Analyse ==
  /\ walk = Idle
  /\ walk' = [walk EXCEPT !.todo = <<Top(body.heap)>>]
  /\ body' = body

(* The next call of analyse_all_code: it returns at once from what was     *)
(* seen, ...                                                               *)
Seen ==
  /\ walk.todo # <<>> /\ Head(walk.todo) \in walk.seen
  /\ walk' = [walk EXCEPT !.todo = Tail(@)]
  /\ body' = body

(* ... and else takes a code object and calls itself.                      *)
Visit ==
  LET o == Head(walk.todo) IN
  /\ walk.todo # <<>> /\ o \notin walk.seen
  /\ walk' = [todo |-> Successors(body.heap, o) \o Tail(walk.todo),
              seen |-> walk.seen \cup {o},
              map |-> walk.map \cup (IF body.heap[o].kind = "code" THEN {o} ELSE {})]
  /\ body' = body

Analysed == walk.todo = <<>> /\ walk.seen # {}

NextName == Analysed /\ body' = NewBody /\ walk' = Idle

Evaluate == (\E step \in Steps : DecorateBody(step)) \/ Analyse \/ Seen \/ Visit

CodeSpec == CodeInit /\ [][Evaluate \/ NextName]_codeVars

(* ------------------------------ properties ----------------------------- *)

(* However a function of the class body is decorated, the class gets the   *)
(* code of the functions written in the body, nested functions included,   *)
(* and no code of the decorators' wrappers, written elsewhere - provided   *)
(* each decorator names what it wraps or is applied by PrivateWrapProxy,   *)
(* and each setter joins a PrivateWrap.                                    *)
OwnCodeExact == Analysed /\ ~body.lost => walk.map = body.written
==============================================================================
