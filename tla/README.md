# A TLA+ model of private_attribute

`private_attribute` is a CPython extension (one C++ file,
`src/private_attribute.cpp`) that gives Python classes private attributes: names
listed in `__private_attrs__` live in tables of the extension, under hidden
names, and only code found in the body of the declaring class reaches them.
This directory holds TLA+ models of its core, the TLC configurations that check
them on small instances, and TLAPS proofs of their main properties.

To check and prove, in this directory:

    tlc -workers 2 -config MCNameCache.cfg MCNameCache      # and the other cfgs
    tlapm NameCacheProofs.tla                               # and the other *Proofs

## The system

All state is global, in the namespace `AllData` (lines 215-275), keyed by the
addresses of objects and types. Line numbers are of `private_attribute.cpp`.

| component | state | operations | makes it correct |
|---|---|---|---|
| hidden-name cache | `cache`, `all_exist_name`, `obj_attr_keys`, `cache_mutex` | `default_random_string`, `custom_random_string` (696-787), `clear_obj` (789) | distinct and stable names, tables that agree, calls that end |
| access classification | `all_type_attr_set`, `type_allowed_code_map`, `all_type_parent_id` | `type_private_attr` (2746), `attr_classify` (603), `is_class_code` (544) | only the owner's code is let through, from any subject of the hierarchy |
| value storage | `all_object_attr`, `type_attr_dict`, `all_type_subclass_attr` and a mutex for each entry | `id_getattr` ... `type_delattr` (822-1140), `type_get_final_attr` (2661), the slots `PrivateAttr_tp_*attro` (1869-1941) and `PrivateAttrType_{get,set}attr` (3482, 3851) | integrity, confidentiality, reads find what writes stored |
| class creation | `type_creation_lock_mutex`, `type_creation_locked`, `tmp_creation_data`, `PrivateAttrCreationData` objects | `preprocess` (2927), `PrivateAttrType_new` (3426), `install` (333), `try_install_pending_creation` (422), `prepare`/`postprocess` (4030-4234) | the lock is released on every way out; a class gets its own data |
| finalization | removes from all of the above | `PrivateAttr_tp_finalize` (2343), `clear_object_related` (1944), `PrivateAttrType_finalize` (3904) | nothing of a dead object reaches the next one at its address; a live object keeps its values |
| slot wrapping | the slots of each type, `all_type_getattro`, `_setattro`, `_traverse`, `_clear`, `_del`, `_call` | `ensure_tp` (3286), `ensure_subclass_tp`, `get_need_tp_*` (3616-3850), `new_type_tp_setattro` (3538) | every access passes the wrapper; the saved original is never a wrapper |
| metaclass registry | `all_register_type_weak_ref`, `weakref_type`, its mutex | `register_metaclass` (4387), `ensure_metaclass_tp` (4424), `metaclass_weakref_callback` (4236), `need_analyse_type` (2895) | an entry lives exactly as long as its metaclass |
| GC traversal | thread-local `in_flight` | `tp_traverse`/`tp_clear` of objects and types (2112-2312, 2400-2566), `PrivateAttrRecursionGuard` (1997) | every stored reference is visited once |
| code collection | the code map of a creation | `analyse_all_code` (2799), `PrivateWrap`, `PrivateWrapProxy` (1407-1862) | the code objects of the body and no others |

How they interact. An access enters through a wrapped slot, is classified by the
running code object (`get_now_code`), and is denied, passed on to the original
slot or answered from the storage, which asks the cache for the hidden name of
each object or class it looks at; the cache may call the user's `private_func`.
Creating a class reads the ancestors' names, takes the creation lock, calls
`type.__new__`, which runs user hooks, and installs the collected data into the
tables; any access to an unregistered class in the meantime may install them
early. Finalizers empty the tables and give the names back to the cache.

What is hard: user code runs inside nearly every operation (`private_func`,
`__set_name__`, `__init_subclass__`, descriptors, finalizers) and may come back;
a mutex is waited for with the GIL in hand; creations fail half way; and state
is keyed by addresses that are used again. Without a GIL (`Py_mod_gil` is
`NOT_USED`, line 4743) all of it interleaves. PROJECT.json lists each hazard at
its line.

## The modules

### NameAlloc, NameCache, NameCacheProofs

`NameAlloc` is the promise: a table from (object, attribute) to hidden names, no
name used twice, requests answered in one step, an object's names forgotten in
one step. `NameCache` is the code: the three tables and, for each thread, where
it stands in a call. The critical sections under `cache_mutex` are one action
each (`LookupHit`, `SecondCheckHit`, `Insert`, `ClearObj`); between the lookup and
the insertion, where the code drops the shared lock to hash the key
(`MissDefault`) or to call `private_func` (`MissCustom`, `CallbackReturns`,
`CallbackFails`), everything interleaves. A nested call from a `private_func`
behaves as a call of another thread, since no lock is held meanwhile. The hash
is the constant `DefaultString`, any function from keys to strings: collisions
are included. A name is a sequence of parts so that a `private_func` can return
what a suffix would produce.

### Namespaces, PrivateStore, PrivateStoreProofs

Classification and storage, with each slot call as one action: it runs under the
GIL and (finalizers and descriptors that re-enter apart) without interruption.
`Owns`, `Denied` and `Normal` are `attr_classify` behind the test of
`type_private_attr`. The three tables are `typeAttr[w]` (the owner's own values),
`shadow[w][c]` (what subclass `c` stores under `w`'s name) and `objAttr[w][o]`;
`public` is the ordinary `__dict__` of a subject, whose lookup is the
interpreter's. `FinalAttr` is `type_get_final_attr`. `CreateClass` is preprocess
and install together, with redeclared names, inherited names (`use_parents`),
refused bodies and body values; MROs, code maps and class statements are
constants. `held` records mutexes that no thread will unlock, `hung` that a
thread waits for one. `last` records the call just made and its answer.

`Namespaces` is the promise behind it, README.md's "look and behave like ordinary
attributes": one `__dict__` per class and subject (`dict`), code working in the
namespace of the class it was written in (`Reaches`), names of others refused
(`Refused`), and there the interpreter's order of lookup, storing and deleting
(`Read`, `Store`, `Delete`). `PrivateStore` maps to it (`dict`, `Asked`,
`Reported`) and `SpaceSpec` says that it implements it. What the findings below
are about is left open there: what a descriptor is called with (`Told` drops it),
the deletion that reports success with an exception set, which counts as the
exception, and the access that never returns (`Hang`).

Abstracted: hidden names (NameCache shows they stand one to one for keys),
`private_func` failures inside an access, slots (with the `ensure_tp` that reads
run on the class and on the type of a descriptor, 899 and 932), the lifetime of
objects (the lifecycle modules). `Definition` holds well-formed statements only:
one whose `__private_attrs__` are not strings, are reserved names (3044) or also
in `__slots__` (3065) is refused before anything is stored. A value is plain, has
`__get__`, or has `__get__` and `__set__`; an object with `__set__` alone and an
instance that is itself a type are left out.

### TypeCreation, TypeCreationProofs

The life of a creation by the three routes the code offers: `PrivateAttrType`
itself ("native"), `prepare` as a context manager ("with") and `prepare` without
("bare"), on several threads, each with a stack of the creations and installs it
is inside. `tmp` is `tmp_creation_data`; the code sets and clears it together
with the lock, so it stands for the lock too. `Touch` is
`try_install_pending_creation`, from any thread that runs Python code, of any class
without a registration: those of `Class`, and those of `Stranger`, which no
creation here has made (a class made before its metaclass was registered, or
without `prepare`). `Install`
stops at the first call of `private_func`, if the class has one, and goes on in
`InstallEnds`, `InstallRaises` or, when the creation has meanwhile ended and freed
the data, `InstallLost`, after which the model stops. `Raise` covers an exception
at each point of a creation, and leaves the half-made class alive where something
still refers to it (`Survivor`). The variable `gil` says if a thread in C code
excludes the others; it is chosen at the start, so both builds are checked.

Abstracted: what is installed (only whose data each class got), and metaclass
code that swallows an exception of `postprocess` and goes on.

### ObjectLifecycle, ClassLifecycle, LifecycleProofs

The tables are keyed by address, so what is left of a dead object is found by the
next one there. `ObjectLifecycle` follows one address and the objects that live
at it in turn. `phase` says where the last is: alive, in its finalizer, having its
tables erased, or judged garbage. The interpreter's part is external: `Dealloc`
(the reference count is zero), and the collector's `Find`, `Finalize`, `Survive`,
`Clear` and `FreedByAnother`. The library's part is `Enter` and `EndFinalizer`
(`PrivateAttr_tp_finalize`, with the original finalizer between them), and
`EraseEntry`, `EraseMutex` and `EndErase` (`clear_object_related`, one class of
`Todo` after the other), for `tp_clear` too. User code (`Read`, `Write`,
`AssignClass`, `MakeRef`, `DropRef`) runs whenever it can reach the object: in
`__del__`, in the destructors of erased values, in the finalizers of other
garbage. `entry[w]` says which object's values `all_object_attr[w]` has.

`ClassLifecycle` adds the classes: `NewClass`, `Touch`, `Created` with `Install`,
`StoreShadow`, `ClearClass` (the metaclass's `tp_clear`) and `FreeClass` (the
deallocation, which reaches `PrivateAttrType_finalize` only under
`PrivateAttrType`). Each class table remembers the number of the class at the
address that wrote it.

Abstracted: values and names (an entry has values or none), the type's own hidden
names (NameCache), and which parent holds a shadow. A class dies after its
instances; one whose instance left it by `__class__` inside its own finalizer
dies when that finalizer has ended. Mortal classes have no subclasses.

### SlotWrapping, Traversal, SlotWrappingProofs, TraversalProofs

`live[c][s]` is the slot in the type object and `saved[c][s]` the library's entry;
a slot holds a kind of function, since all the code asks is which one it is.
`Ensured` is one block of `ensure_tp`, `Need` the walk of `get_need_tp_*`, `Family`
the classes an assignment re-wraps. The interpreter's `type.__new__` (`Make`) and
its recomputation of slots after an assignment (`Pure`, `Updated`) are external.
Reading an attribute of an instance ensures its class again (`Access`).

`Traversal` computes, from these slots, what the collector's traverse and clear of
an instance visit, as pairs of the function that makes the visit and the
reference: the wrapper, its saved original, the interpreter's `subtype_traverse`
under it, and the guard that stops the second entry. No function visits a
reference twice by itself, so the pairs of a reference are its visits.

Abstracted: `tp_setattro`, which is wrapped as `tp_getattro` is; special methods
other than `__getattribute__` and `__del__`; assignments to `__bases__`. The slots
`finalize` and `clear` of the model are `all_type_del` and `all_type_clear`.

### MetaclassRegistry, MetaclassRegistryProofs

`frame[t]` says where a thread is in `register_metaclass` (`need`, `class`,
`lock`, `insert`, `subclasses`), in an assignment to a metaclass (`assign`), or in
the `need_analyse_type` of an ordinary class of it (`other`). A scan asks
isinstance with the shared lock held, and isinstance runs Python code in two cases
(`AsksPython`): the class of the registered metaclass it is asked of has an
`__instancecheck__`, or the class it reads `__class__` of has a metaclass with a
`__class__` property or a Python `__getattribute__`. `EnterHook` is the start of
such code; `ScanEnds` and `OtherEnds` end the scans. `Lock` and `Insert` are the
rest of `register_metaclass_head`, and `Descend` goes to the subclasses. `Die` is
`metaclass_weakref_callback`, run by the collector, and `DieStuck` and `LockStuck`
the cases in which the lock will never be had.

`saved` stands for `all_type_getattro` and `all_type_traverse`, which the library
shares between registered metaclasses and classes with private attributes; a
metaclass can be both. `Wrap` is the common effect of `ensure_tp`, which saves
what it finds in the slot, over what was saved before, and `ensure_metaclass_tp`,
which keeps an entry. `EnsureTp` is `ensure_tp` where an access runs it. `Assign`
is `new_type_tp_setattro`: it scans for the class and each direct subclass, runs
`ensure_tp` on those that `need_analyse_type` names and `ensure_metaclass_tp` on
the registered among the others. `ensured` remembers where `ensure_tp` has saved
slots that nothing has erased since, and `interrupted` whether a scan of a
registration ever ran Python code.

Three choices are made at the start: is there a GIL, does the interpreter collect
inside an allocation (before 3.12), and which metaclasses have an
`__instancecheck__` or a `__class__` property (`hooked`). A `__getattribute__`
comes and goes by assignments (`own`).

Abstracted: `setattro` goes like `getattro` and `clear` like `traverse`, so one of
each is kept; `call` goes like `getattro` without the part of `ensure_tp`. A scan
reads the registry when it ends, which a hook lets change meanwhile; those of an
assignment are one step, whose answer is free where others may come between them.
Metaclasses derived from PrivateAttrType are left out.

### CodeCollection, CodeCollectionProofs

The functions a class body binds to a name: objects on a heap, decorators bare or
through `PrivateWrapProxy` (`Proxy`, `Setter`; `body`, `DecorateBody`), and then
`analyse_all_code` (`walk`): the calls still to be made are a stack, and each is
`Seen`, which returns at once, or `Visit`, which takes a code object and calls
itself for the `Successors`. `NextName` starts with nothing seen.
`MCPrivateStore` evaluates a body before the first class is created, for the sets
of code objects that `PrivateStore` takes as a constant.

## The runs

| run | instance | states | shows |
|---|---|---|---|
| `name_cache` | 2 callers, 3 keys of 2 objects, colliding hashes and callback strings | 45k | `NamesDistinct`, `NameSetExact`, `IndexExact`, `NameStable`, `AllocSpec` (refinement), `CallsEnd` |
| `private_store` | parent, child, one instance, 2 names, code of each class, of both, of none; 4 ways to declare the child; a function under up to 3 decorators | 13k | `NoOrphans`, `Confidential`, `Isolation`, `StableView`, `ReadBack`, `SpaceSpec` (refinement), `OwnCodeExact` |
| `type_creation` | 2 class statements (native; `prepare` without `with`) and a class no creation made, 2 threads, stack depth 3 | 56k | `LockIsLive`, `OwnData`, `RegistrationKept`, `CreationsEnd` |
| `object_lifecycle` | a class and its subclass, whose address is used again; 2 objects and 2 classes at an address, 3 together; one outside reference and one cycle | 1.0M | `StaleExplained`, `ValuesKept`, `Forgotten`, `ClassStartsClean`, `RegistrationIsOwn`, `ClassForgotten` |
| `slots` | three classes in a chain and a mixin, over `list` | 1.5k | `Transparent`, `LostOnlyFromAfar`, `VisitedOnce`, `OvercountExplained` |
| `metaclass_registry` | a metaclass that may have Python code for isinstance, its subclass and its instance; 2 threads, 2 calls | 136k | `SavedExact`, `SavedReal`, `Flat`, `Downward`, `HangExplained`, `CallsEnd` |
| `native_contents_collected` | as `slots` | | refuted, see below |
| `locks_released`, `deleter_gets_instance`, `class_read_binds_class` | as `private_store` | | refuted, see below |
| `creation_never_hangs`, `data_of_own_class` | 3 class statements, one of each route, 2 threads, stack depth 3 | | refuted, see below |

The bounds. For names, two callers are what a race needs, and three keys give
both a collision inside one object and one between objects; `allExistName` is
bounded by the keys, so the suffix loop is not cut. For storage, a parent and a
child are what shadows, redeclaration and `use_parents` are about, and the code
object found in both bodies is the case in which base-most-first matters;
`InstanceValue` and `ClassValue` keep to one value of each kind where the kind
is all the properties see. The proofs remove these bounds. For creation, the
native route and `prepare` without `with`, which can do all that `with` can and dangle
besides, nest and interleave on two threads; a stranger is what an access can give
another class's data although no creation failed; and `MaxDepth` 3 leaves room for a
creation, an install in it and another creation in its callback. The two refuted runs
take three statements, one of each route, and no stranger: what they find needs none.

For lifetimes, a leftover needs two occupants of an address and no more: the
properties compare a table with its present owner. `MaxMade` 3 bounds the objects
and classes together: two objects and one class at the second address, or one
object and two classes. An outside reference and the cycle count separately
because the collector looks at them separately. For slots, three levels are the
least in which an assignment is two above the class that loses, and the mixin
gives one from beside the chain. For the registry, a subclass and an instance are
the two ways one metaclass depends on another (the instance, a class with private
attributes when the metaclass is registered, is also what `ensure_tp` is run on),
and two calls on two threads are what the race between check and insertion needs.
With `Hooks` the metaclass alone may have an `__instancecheck__` or a `__class__`
property; any can have a `__getattribute__`. A body has up to three decorators:
one to hide a function, one to name it, one to join another.

`CHECK_DEADLOCK FALSE` stands where the system may stop: when every
class statement has run, a bound is reached or a thread is hung. The runs of
SlotWrapping do without it: classes can always be accessed and changed.

The VIEW of `private_store` leaves out `last`: no guard reads it, and the
properties about it speak of the value the step writes.

Fairness. In `NameCache` and `TypeCreation` each thread is weakly fair while it is
inside a call: the scheduler runs it, and callbacks and hooks of the user return
or raise. Nobody is obliged to start a call, to touch a class, or to drop a
`prepare` object. In `MetaclassRegistry` a thread that is inside a call is weakly
fair while nothing is hung: a scan ends, since the Python code that isinstance
runs returns or raises, and a lock that is free is taken. `CreationsEnd` therefore
excludes, by name, the waits that need not end (`Hung`); the registry's `CallsEnd`
excludes `hung`, whose causes `HangExplained` names; the cache's `CallsEnd`
excludes nothing. The lifetimes and the slots have no liveness: nothing in them is
obliged to die or to be read.

## What the code does not do

Six sentences of the documentation and the comments fail; each has a run that
TLC refutes.

- Deleting a private attribute that the instance does not have returns success
  with `AttributeError` set and leaves the object's mutex locked (line 1086,
  `lock.release()` where `unlock()` was meant): the next access never returns.
- `del` of a private property passes the property to its own delete slot in place
  of the instance (line 1076).
- A private `classmethod` read through the class is bound to the descriptor's
  type (line 931).
- The creation lock is waited for with the GIL held. With two threads, or one
  creation inside another's hook, both wait for ever (line 299).
- A class without a registration, touched while another creation is
  pending, receives that creation's data; the pending class is then never
  registered (line 435). The run finds it with a class left over from a failed creation; one made
  before its metaclass was registered, or without `prepare`, does as well.
- The contents of a native base are invisible to the collector: for an instance of
  a private class over `list`, say, the saved original is the interpreter's
  `subtype_traverse`, which looks for the next slot, finds the wrapper, and is
  stopped by the guard (line 2121), so that `list`'s own slot is never called. A
  cycle through the items is never freed, against the comment at line 1994 (the
  outermost invocation finishes the whole traversal).

Further, an access to the class in `__init_subclass__` unlocks before
`type.__new__` returns, so that two types can be under construction at a time,
against README.md:350; `TypeCreation` has these behaviours and its invariants hold
in them. Other behaviours that no sentence denies are stated as the exact
exception of a property: what an object leaves behind (`StaleExplained`) or loses
(`ValuesKept`), the tables of dead classes of registered metaclasses
(`RegistrationIsOwn`), the wrappers lost from two levels above
(`LostOnlyFromAfar`), what the collector counts twice of an instance made before
its class is registered (`OvercountExplained`), the classes that leave a pending
class without its data (`OwnData`), the slots `ensure_tp` leaves saved at the
address of a metaclass that is not registered, and what it saves over those of a
registered one (`SavedExact`, `SavedReal`: a metaclass registered at such an
address keeps the entry, so that its wrapper may chain to the interpreter's
delegating default, which the comment at lines 4344-4349 means to exclude), and
the causes of a hang of the registry: Python code run by isinstance in a scan, and
a collection inside an insertion (`HangExplained`).

## What is proved

TLAPS checks, for all values of the constants and from the ASSUMEs in the
modules. These say what kind of data the constants are and, of class hierarchies,
what CPython itself ensures:

- a class's MRO puts it before its ancestors (`ChainAssumption` of PrivateStore:
  the C3 order, in which the MRO of each ancestor is a subsequence; a metaclass
  with an `mro()` of its own could break it, and is left out);
- the classes of an MRO are the class and those of its bases' MROs, `tp_base` stays
  among them, and no class descends from itself (`HierarchyAssumption`);
- of the ancestors of a class only those on its line of `tp_base` have `__slots__`
  of their own ("instance lay-out conflict"), and a class whose `tp_base` has a
  `__dict__` has one (`LayoutAssumption`).

The results:

- `NameCacheProofs`: `TypeOK`; `NamesDistinct`, `NameSetExact` and `IndexExact` from
  one inductive invariant, since each insertion needs the set of names to be exact
  to be distinct and each clearing needs the index to be exact; `NameStable`; and
  that `NameCache` implements `NameAlloc`, action by action, reading the outcome
  of a call off `pc`, `key` and `result`.
- `PrivateStoreProofs`: `TypeOK`, `NoOrphans`, `Isolation`, `Confidential`,
  `StableView`, `ReadBack`, and that PrivateStore implements Namespaces. Isolation
  goes by the actions: each write goes to the tables of the class `Owns` names,
  and at most one class owns a triple of class, name and code. `StableView` and
  `ReadBack` need the auxiliary invariant `Ancestry` (a created class's ancestors
  are created), so that a class created later is on no chain that matters;
  `FinalAttr` is a least index, and well-founded induction on the naturals gives
  that it exists. The refinement goes action by action. It needs `NoOrphans`, so
  that the namespace of a new class is empty, and `Below`: what a class stores for
  another is for one below it. With the order of the MRO nothing then lies past the
  owner, and `type_get_final_attr`, which stops there, finds what a search of the
  whole MRO finds (`FinalIsMroValue`); `RefusedIsDenied` shows that the three
  cases in which `attr_classify` denies an access are one.
- `TypeCreationProofs`: `TypeOK`, `LockIsLive`, `OwnData`, `RegistrationKept`. The
  invariant `IInv` says besides that a creation has one frame on one stack; that a
  pending creation whose data are not installed holds the lock, so an access to
  its class can only install its own data; that install frames have registered
  their class; and, for `OwnData`, that until a failed class or a stranger is given another's
  data every registration is of a class with its own.
- `LifecycleProofs`: `TypeOK` and the six invariants of the run. None is inductive.
  `IInv` joins, for the object: `Shape` (what each phase says of the reference
  count and of the finalizer's mark), `Swept` (as long as no object
  left anything behind, entries are under the type and its parents only, none
  outlives the finalizer, and while erasing each is still to do), `Owned` (an entry
  of an earlier object means that one left it), `Traced` (an entry of the present
  object is where `Todo` will look for it) and `Counted` (what the finalizer and
  the collector saw of the reference count, and that the values are there, until
  something the object did makes it lose them). For the classes,
  `Standing` (instances keep their class alive) and, at each address,
  `RegisteredAt`, `CleanAt` and `ForgottenAt`: a registration that is not the
  class's own has a dead class of a registered metaclass behind it, and what
  `tp_clear` could not find, because nothing was registered, was never stored.
- `SlotWrappingProofs`: `TypeOK`, which says that a wrapper is never saved as an
  original; `LostOnlyFromAfar`, from the interpreter's order of update and the
  subclasses that are re-wrapped; and `Transparent`. The inductive invariant `Matches` says more than
  `Transparent`: the slot each class shows, or has saved if it shows the wrapper, is
  itself the one the interpreter would compute, so that no chain is ever left to a
  walk, and ancestors are made first. The step of an assignment takes a least
  counterexample in the hierarchy (no class descends from itself), and shows that
  a class below it that the interpreter does not recompute has another ancestor
  with the special method.
- `TraversalProofs`: `VisitedOnce` and `OvercountExplained`, from `Kept` (a registered
  class keeps its collector's wrappers, which no assignment touches), `Wrapped` (its
  original is the interpreter's default, and the classes above it show the wrapper
  or that default) and `Bare` (a class that does not show the wrapper has nothing
  saved). `ContentsNeverSeen` proves, in every
  hierarchy over a native base with contents, that no traversal of an instance of
  a registered class reaches them: the finding above is not one of the instance.
- `CodeCollectionProofs`: `OwnCodeExact`, for any number of decorators. Which code an
  object leads to is said without recursion, by sets of objects closed under
  `Successors`: every closed set with the object in it has the code written in the
  body (`AtLeast`), and some closed set with it has no other (`AtMost`). `BodyOK` keeps
  this of the object on top through each decorator, for those remembered by a
  PrivateWrap and for the one it returns, and `WalkOK` keeps what a worklist needs:
  what was seen has its successors seen or on the stack.
- `MetaclassRegistryProofs`: `TypeOK`, `SavedExact`, `SavedReal`, `Flat`, `Downward`
  and `HangExplained`, together with `Rooted` (a metaclass keeps those above it
  alive), `Framed` (what each point of a call implies), `Wrapped` (which functions
  the slots can be, where `ensure_tp` has been and where it has not) and `Shown`: what a
  thread's scans have shown still holds, because with a GIL, and no scan
  `interrupted` by Python code, nothing runs between the checks and the insertion. `SavedReal`
  is inductive with `Wrapped`: where `ensure_tp` was run on no class above a metaclass,
  what the walk for an original does not skip is the interpreter's or type's own.

Only model-checked: `CallsEnd` (twice) and `CreationsEnd`, liveness under fairness,
which is out of the prover's reach. Every other property of a passing run is a
theorem.

## Plan

Done: NameAlloc and NameCache; Namespaces and PrivateStore; TypeCreation;
ObjectLifecycle and ClassLifecycle; SlotWrapping and Traversal;
MetaclassRegistry; CodeCollection; their proofs. Left:

1. ObjectLocks: storage with the mutexes as steps, finalizers of old values
   (line 995) and threads without a GIL (line 877).
2. PrivateStore's classification inside TypeCreation's interleavings, for the
   fallback to the pending creation (line 559).
3. Assignments to `__bases__` in SlotWrapping and PrivateStore (line 2742).
4. PrivateAttrType_tp_traverse, the traversal of classes.

## Not modelled

- `picosha2.h`: vendored; the generator that uses it is the constant
  `DefaultString`.
- The list proxy: forwards every call to a list, no state.
- Module initialisation and shutdown: run once, before and after the rest.
- The traversal of classes by the collector (`PrivateAttrType_tp_traverse`): the
  same guard, the original that MetaclassRegistry computes, and the tables of
  ClassLifecycle; its locks belong with ObjectLocks.
- Data races of the free-threaded build on the tables themselves (line 877):
  undefined behaviour whose outcomes the code does not limit.
- The stubs, tests, documentation, build and CI.
