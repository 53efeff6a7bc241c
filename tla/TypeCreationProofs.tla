-------------------------- MODULE TypeCreationProofs --------------------------
(***************************************************************************)
(* Proofs about TypeCreation for any threads, classes, routes and bounds:  *)
(* the creation lock always belongs to a creation whose data still exist,  *)
(* a registration is never overwritten with other data, and a class that   *)
(* was created has its own data unless a failed class or a stranger was    *)
(* given another's.                                                        *)
(*                                                                         *)
(* The inductive invariant has four parts: the stacks (each creation in    *)
(* progress stands on one of them, once), the lock (a pending creation     *)
(* whose data are not installed holds it), the registrations a pending     *)
(* creation can meet, and the origin of every registration while no theft  *)
(* has happened.                                                           *)
(***************************************************************************)
EXTENDS TypeCreation, TLAPS

(* ------------------------- the inductive invariant --------------------- *)

Active == {"locking", "prepared", "hooks", "returned", "installing", "raising"}

Typed ==
  /\ gil \in BOOLEAN /\ crashed \in BOOLEAN
  /\ stack \in [Thread -> Seq(Frame)]
  /\ phase \in [Class -> Phase]
  /\ alive \subseteq Class /\ installed \subseteq Class
  /\ tmp \in Class \cup {NoClass}
  /\ registered \in [Types -> Class \cup {NoClass}]

(* A creation frame is written by Start, and a creation has at most one.   *)
Layout ==
  /\ \A t \in Thread : \A i \in 1 .. Len(stack[t]) :
       stack[t][i].kind = "create" => stack[t][i] = Create(stack[t][i].data)
  /\ \A c \in Class : \A t, u \in Thread :
       \A i \in 1 .. Len(stack[t]), j \in 1 .. Len(stack[u]) :
         stack[t][i] = Create(c) /\ stack[u][j] = Create(c) => t = u /\ i = j

(* The creations that have a frame are those in progress.                  *)
Stacks == Layout /\ \A c \in Class : (\E t \in Thread : OnStack(t, c)) <=> phase[c] \in Active

(* Only install lets go of the lock before the creation ends.              *)
LockHeld ==
  /\ LockIsLive
  /\ \A c \in Class : phase[c] \in Pending /\ c \notin installed => tmp = c

(* A class cannot be touched before type.__new__ has made it, and until    *)
(* its creation's data are installed it can only get those.                *)
Fresh ==
  \A c \in Class :
    /\ phase[c] \in {"unmade", "locking", "prepared"} =>
         c \notin alive /\ registered[c] = NoClass
    /\ phase[c] \in Pending /\ c \notin installed => registered[c] \in {c, NoClass}

(* An install frame has registered its class.                              *)
Frames ==
  \A t \in Thread : \A i \in 1 .. Len(stack[t]) :
    stack[t][i].kind = "install" => registered[stack[t][i].type] = stack[t][i].data

(* While no failed class has another's data and no stranger has any, every *)
(* class has its own or none, and what has been installed has been         *)
(* installed in its own class.                                             *)
Origin ==
  /\ \A c \in Class : phase[c] = "done" => c \in installed
  /\ NoTheft => /\ \A x \in Class : registered[x] \in {x, NoClass}
                /\ \A c \in installed : registered[c] = c

IInv == Typed /\ Stacks /\ LockHeld /\ Fresh /\ Frames /\ Origin

(* ------------------------------ the stacks ----------------------------- *)

LEMMA FrameTypes ==
  /\ \A c \in Class : Create(c) \in Frame
  /\ \A d \in Class, x \in Types : InstallOf(d, x) \in Frame
  BY DEF Create, InstallOf, Frame, Types

(* What Pop leaves: a prefix of the thread's stack.                        *)
LEMMA PopFacts ==
  ASSUME Typed, NEW t \in Thread, stack[t] # <<>>, Pop(t)
  PROVE  /\ stack' \in [Thread -> Seq(Frame)]
         /\ \A u \in Thread \ {t} : stack'[u] = stack[u]
         /\ Len(stack[t]) \in Nat \ {0}
         /\ Len(stack'[t]) = Len(stack[t]) - 1
         /\ \A i \in 1 .. Len(stack'[t]) : stack'[t][i] = stack[t][i]
  <1>1. stack[t] \in Seq(Frame) /\ Len(stack[t]) \in Nat \ {0}
    BY DEF Typed
  <1>2. stack'[t] = SubSeq(stack[t], 1, Len(stack[t]) - 1)
    BY DEF Pop, Typed
  <1>3. stack'[t] \in Seq(Frame) /\ Len(stack'[t]) = Len(stack[t]) - 1
    BY <1>1, <1>2
  <1>4. \A i \in 1 .. Len(stack'[t]) : stack'[t][i] = stack[t][i]
    BY <1>1, <1>2
  <1>5. stack' \in [Thread -> Seq(Frame)] /\ \A u \in Thread \ {t} : stack'[u] = stack[u]
    BY <1>3 DEF Pop, Typed
  <1>6. QED
    BY <1>1, <1>3, <1>4, <1>5

LEMMA PushFacts ==
  ASSUME Typed, NEW t \in Thread, NEW f \in Frame, Push(t, f)
  PROVE  /\ stack' \in [Thread -> Seq(Frame)]
         /\ \A u \in Thread \ {t} : stack'[u] = stack[u]
         /\ Len(stack[t]) \in Nat
         /\ Len(stack'[t]) = Len(stack[t]) + 1
         /\ stack'[t][Len(stack[t]) + 1] = f
         /\ \A i \in 1 .. Len(stack[t]) : stack'[t][i] = stack[t][i]
  <1>1. stack[t] \in Seq(Frame) /\ Len(stack[t]) \in Nat
    BY DEF Typed
  <1>2. stack'[t] = Append(stack[t], f)
    BY DEF Push, Typed
  <1>3. stack' \in [Thread -> Seq(Frame)] /\ \A u \in Thread \ {t} : stack'[u] = stack[u]
    BY <1>1, <1>2 DEF Push, Typed
  <1>4. QED
    BY <1>1, <1>2, <1>3

LEMMA KindsDiffer == \A c, d \in Class, x \in Types : Create(c) # InstallOf(d, x)
  <1>1. SUFFICES ASSUME NEW c \in Class, NEW d \in Class, NEW x \in Types,
                        Create(c) = InstallOf(d, x)
                 PROVE  FALSE
    OBVIOUS
  <1>2. Create(c).kind = "create" /\ InstallOf(d, x).kind = "install"
    BY DEF Create, InstallOf
  <1>3. QED
    BY <1>1, <1>2

LEMMA CreateFields ==
  \A c \in Class : Create(c).kind = "create" /\ Create(c).data = c
  BY DEF Create

LEMMA TopFacts ==
  ASSUME Typed, NEW t \in Thread, NEW kind, TopIs(t, kind)
  PROVE  /\ stack[t] # <<>> /\ Len(stack[t]) \in Nat \ {0}
         /\ Top(t) = stack[t][Len(stack[t])] /\ Top(t) \in Frame /\ Top(t).kind = kind
         /\ Top(t).data \in Class /\ Top(t).type \in Types
  <1>1. stack[t] \in Seq(Frame) /\ stack[t] # <<>>
    BY DEF Typed, TopIs
  <1>2. Len(stack[t]) \in Nat \ {0} /\ stack[t][Len(stack[t])] \in Frame
    BY <1>1
  <1>3. QED
    BY <1>1, <1>2 DEF TopIs, Top, Frame

(* An install frame comes or goes, or none does, and the same creations    *)
(* are in progress.                                                        *)
SameActive == \A c \in Class : phase'[c] \in Active <=> phase[c] \in Active

LEMMA SameStacks ==
  ASSUME Stacks, stack' = stack, SameActive
  PROVE  Stacks'
  BY DEF Stacks, Layout, SameActive, OnStack

LEMMA LayoutKept ==
  ASSUME Layout,
         \A u \in Thread : \A i \in 1 .. Len(stack'[u]) :
           i \in 1 .. Len(stack[u]) /\ stack'[u][i] = stack[u][i]
  PROVE  Layout'
  <1>1. ASSUME NEW u \in Thread, NEW i \in 1 .. Len(stack'[u]), stack'[u][i].kind = "create"
        PROVE  stack'[u][i] = Create(stack'[u][i].data)
    BY <1>1 DEF Layout
  <1>2. ASSUME NEW c \in Class, NEW u \in Thread, NEW w \in Thread,
               NEW i \in 1 .. Len(stack'[u]), NEW j \in 1 .. Len(stack'[w]),
               stack'[u][i] = Create(c), stack'[w][j] = Create(c)
        PROVE  u = w /\ i = j
    <2>1. /\ i \in 1 .. Len(stack[u]) /\ stack[u][i] = Create(c)
          /\ j \in 1 .. Len(stack[w]) /\ stack[w][j] = Create(c)
      BY <1>2
    <2>2. QED
      BY <2>1 DEF Layout
  <1>3. QED
    BY <1>1, <1>2 DEF Layout

LEMMA PushInstall ==
  ASSUME Typed, Stacks, NEW t \in Thread, NEW d \in Class, NEW x \in Types,
         Push(t, InstallOf(d, x)), SameActive
  PROVE  Stacks'
  <1> DEFINE f == InstallOf(d, x)
  <1>1. f \in Frame /\ f.kind = "install"
    BY FrameTypes DEF InstallOf
  <1>2. /\ \A u \in Thread \ {t} : stack'[u] = stack[u]
        /\ Len(stack[t]) \in Nat
        /\ Len(stack'[t]) = Len(stack[t]) + 1
        /\ stack'[t][Len(stack[t]) + 1] = f
        /\ \A i \in 1 .. Len(stack[t]) : stack'[t][i] = stack[t][i]
    <2> HIDE DEF f
    <2>1. QED
      BY <1>1, PushFacts DEF f
  <1> HIDE DEF f
  <1>3. \A c \in Class : f # Create(c)
    BY KindsDiffer DEF f
  <1>4. \A c \in Class, u \in Thread : \A i \in 1 .. Len(stack'[u]) :
          stack'[u][i] = Create(c) => i \in 1 .. Len(stack[u]) /\ stack[u][i] = Create(c)
    <2>1. SUFFICES ASSUME NEW c \in Class, NEW u \in Thread, NEW i \in 1 .. Len(stack'[u]),
                          stack'[u][i] = Create(c)
                   PROVE  i \in 1 .. Len(stack[u]) /\ stack[u][i] = Create(c)
      OBVIOUS
    <2>2. CASE u # t
      BY <1>2, <2>1, <2>2
    <2>3. CASE u = t
      BY <1>2, <1>3, <2>1, <2>3
    <2>4. QED
      BY <2>2, <2>3
  <1>5. \A c \in Class, u \in Thread : \A i \in 1 .. Len(stack[u]) :
          i \in 1 .. Len(stack'[u]) /\ stack'[u][i] = stack[u][i]
    <2>1. SUFFICES ASSUME NEW u \in Thread, NEW i \in 1 .. Len(stack[u])
                   PROVE  i \in 1 .. Len(stack'[u]) /\ stack'[u][i] = stack[u][i]
      OBVIOUS
    <2>2. QED
      BY <1>2, <2>1
  <1>6. \A u \in Thread, c \in Class : OnStack(u, c)' <=> OnStack(u, c)
    BY <1>4, <1>5 DEF OnStack
  <1>7. \A u \in Thread : \A i \in 1 .. Len(stack'[u]) :
          stack'[u][i].kind = "create" => stack'[u][i] = Create(stack'[u][i].data)
    <2>1. SUFFICES ASSUME NEW u \in Thread, NEW i \in 1 .. Len(stack'[u]),
                          stack'[u][i].kind = "create"
                   PROVE  stack'[u][i] = Create(stack'[u][i].data)
      OBVIOUS
    <2>2. i \in 1 .. Len(stack[u]) /\ stack'[u][i] = stack[u][i]
      BY <1>1, <1>2, <2>1
    <2>3. QED
      BY <2>1, <2>2 DEF Stacks, Layout
  <1>8. \A c \in Class : \A u, w \in Thread :
          \A i \in 1 .. Len(stack'[u]), j \in 1 .. Len(stack'[w]) :
            stack'[u][i] = Create(c) /\ stack'[w][j] = Create(c) => u = w /\ i = j
    BY <1>4 DEF Stacks, Layout
  <1>9. QED
    BY <1>6, <1>7, <1>8 DEF Stacks, Layout, SameActive

(* Pop takes the last frame and keeps the others where they are.           *)
LEMMA PopStacks ==
  ASSUME Typed, Stacks, NEW t \in Thread, stack[t] # <<>>, Pop(t)
  PROVE  /\ \A u \in Thread : \A i \in 1 .. Len(stack'[u]) :
              i \in 1 .. Len(stack[u]) /\ stack'[u][i] = stack[u][i]
         /\ \A u \in Thread : \A i \in 1 .. Len(stack[u]) :
              \/ u = t /\ i = Len(stack[t])
              \/ i \in 1 .. Len(stack'[u]) /\ stack'[u][i] = stack[u][i]
         /\ Len(stack[t]) \in 1 .. Len(stack[t])
         /\ Len(stack[t]) \notin 1 .. Len(stack'[t])
  BY PopFacts

LEMMA PopInstall ==
  ASSUME Typed, Stacks, NEW t \in Thread, TopIs(t, "install"), Pop(t), SameActive
  PROVE  Stacks'
  <1>1. /\ stack[t] # <<>>
        /\ stack[t][Len(stack[t])].kind = "install"
    BY TopFacts
  <1>2. /\ \A u \in Thread : \A i \in 1 .. Len(stack'[u]) :
             i \in 1 .. Len(stack[u]) /\ stack'[u][i] = stack[u][i]
        /\ \A u \in Thread : \A i \in 1 .. Len(stack[u]) :
             \/ u = t /\ i = Len(stack[t])
             \/ i \in 1 .. Len(stack'[u]) /\ stack'[u][i] = stack[u][i]
    BY <1>1, PopStacks
  <1>3. \A c \in Class : stack[t][Len(stack[t])] # Create(c)
    BY <1>1, CreateFields
  <1>4. \A u \in Thread, c \in Class : OnStack(u, c)' <=> OnStack(u, c)
    BY <1>2, <1>3 DEF OnStack
  <1>5. Layout'
    BY <1>2, LayoutKept DEF Stacks
  <1>6. QED
    BY <1>4, <1>5 DEF Stacks, SameActive

(* A creation leaves the stack.                                            *)
LEMMA PopCreate ==
  ASSUME Typed, Stacks, NEW t \in Thread, NEW c \in Class,
         TopIs(t, "create"), Top(t).data = c, Pop(t), phase'[c] \notin Active,
         \A d \in Class \ {c} : phase'[d] = phase[d]
  PROVE  Stacks'
  <1>1. /\ stack[t] # <<>>
        /\ stack[t][Len(stack[t])] = Create(c)
    BY TopFacts DEF Stacks, Layout
  <1>2. /\ \A u \in Thread : \A i \in 1 .. Len(stack'[u]) :
             i \in 1 .. Len(stack[u]) /\ stack'[u][i] = stack[u][i]
        /\ \A u \in Thread : \A i \in 1 .. Len(stack[u]) :
             \/ u = t /\ i = Len(stack[t])
             \/ i \in 1 .. Len(stack'[u]) /\ stack'[u][i] = stack[u][i]
        /\ Len(stack[t]) \in 1 .. Len(stack[t])
        /\ Len(stack[t]) \notin 1 .. Len(stack'[t])
    BY <1>1, PopStacks
  <1>3. \A d \in Class \ {c} : Create(d) # Create(c)
    BY CreateFields
  <1>4. \A u \in Thread, d \in Class \ {c} : OnStack(u, d)' <=> OnStack(u, d)
    BY <1>1, <1>2, <1>3 DEF OnStack
  <1>5. \A u \in Thread : ~OnStack(u, c)'
    BY <1>1, <1>2 DEF OnStack, Stacks, Layout
  <1>6. Layout'
    BY <1>2, LayoutKept DEF Stacks
  <1>7. \A d \in Class : (\E u \in Thread : OnStack(u, d)') <=> phase'[d] \in Active
    BY <1>4, <1>5 DEF Stacks
  <1>8. QED
    BY <1>6, <1>7 DEF Stacks

(* A creation enters it.                                                   *)
LEMMA PushCreate ==
  ASSUME Typed, Stacks, NEW t \in Thread, NEW c \in Class, Push(t, Create(c)),
         phase[c] \notin Active, phase'[c] \in Active,
         \A d \in Class \ {c} : phase'[d] = phase[d]
  PROVE  Stacks'
  <1>1. Create(c) \in Frame
    BY FrameTypes
  <1>2. /\ \A u \in Thread \ {t} : stack'[u] = stack[u]
        /\ Len(stack[t]) \in Nat
        /\ Len(stack'[t]) = Len(stack[t]) + 1
        /\ stack'[t][Len(stack[t]) + 1] = Create(c)
        /\ \A i \in 1 .. Len(stack[t]) : stack'[t][i] = stack[t][i]
    BY <1>1, PushFacts
  <1> DEFINE last == Len(stack[t]) + 1
  <1>3. /\ last \in 1 .. Len(stack'[t])
        /\ \A u \in Thread : \A i \in 1 .. Len(stack[u]) :
             i \in 1 .. Len(stack'[u]) /\ stack'[u][i] = stack[u][i]
        /\ \A u \in Thread : \A i \in 1 .. Len(stack'[u]) :
             \/ u = t /\ i = last
             \/ i \in 1 .. Len(stack[u]) /\ stack'[u][i] = stack[u][i]
    BY <1>2
  <1>4. stack'[t][last] = Create(c)
    BY <1>2
  <1> HIDE DEF last
  <1>5. \A d \in Class \ {c} : Create(d) # Create(c)
    BY CreateFields
  <1>6. \A u \in Thread : \A i \in 1 .. Len(stack[u]) : stack[u][i] # Create(c)
    BY DEF Stacks, OnStack
  <1>7. \A u \in Thread, d \in Class \ {c} : OnStack(u, d)' <=> OnStack(u, d)
    BY <1>3, <1>4, <1>5 DEF OnStack
  <1>8. OnStack(t, c)'
    BY <1>3, <1>4 DEF OnStack
  <1>9. /\ \A u \in Thread : \A i \in 1 .. Len(stack'[u]) :
             stack'[u][i].kind = "create" => stack'[u][i] = Create(stack'[u][i].data)
        /\ \A d \in Class : \A u, w \in Thread :
             \A i \in 1 .. Len(stack'[u]), j \in 1 .. Len(stack'[w]) :
               stack'[u][i] = Create(d) /\ stack'[w][j] = Create(d) => u = w /\ i = j
    <2>1. ASSUME NEW u \in Thread, NEW i \in 1 .. Len(stack'[u]), stack'[u][i].kind = "create"
          PROVE  stack'[u][i] = Create(stack'[u][i].data)
      BY <1>3, <1>4, <2>1, CreateFields DEF Stacks, Layout
    <2>2. ASSUME NEW d \in Class, NEW u \in Thread, NEW w \in Thread,
                 NEW i \in 1 .. Len(stack'[u]), NEW j \in 1 .. Len(stack'[w]),
                 stack'[u][i] = Create(d), stack'[w][j] = Create(d)
          PROVE  u = w /\ i = j
      <3>1. CASE d = c
        BY <1>3, <1>6, <2>2, <3>1
      <3>2. CASE d # c
        <4>1. /\ i \in 1 .. Len(stack[u]) /\ stack[u][i] = Create(d)
              /\ j \in 1 .. Len(stack[w]) /\ stack[w][j] = Create(d)
          BY <1>3, <1>4, <1>5, <2>2, <3>2
        <4>2. QED
          BY <4>1 DEF Stacks, Layout
      <3>3. QED
        BY <3>1, <3>2
    <2>3. QED
      BY <2>1, <2>2
  <1>10. \A d \in Class : (\E u \in Thread : OnStack(u, d)') <=> phase'[d] \in Active
    BY <1>7, <1>8 DEF Stacks
  <1>11. QED
    BY <1>9, <1>10 DEF Stacks, Layout

(* ------------------------- one lemma per action ------------------------ *)

LEMMA InvInit == Init => IInv
  <1> SUFFICES ASSUME Init PROVE IInv
    OBVIOUS
  <1> USE DEF Init
  <1>1. Typed
    <2>1. stack \in [Thread -> Seq(Frame)]
      BY <<>> \in Seq(Frame)
    <2>2. phase \in [Class -> Phase]
      BY DEF Phase
    <2>3. registered \in [Types -> Class \cup {NoClass}] /\ tmp \in Class \cup {NoClass}
      OBVIOUS
    <2>4. QED
      BY <2>1, <2>2, <2>3 DEF Typed
  <1>2. \A t \in Thread : Len(stack[t]) = 0
    OBVIOUS
  <1>3. Stacks
    BY <1>2 DEF Stacks, Layout, OnStack, Active
  <1>4. LockHeld
    BY DEF LockHeld, LockIsLive, Pending
  <1>5. Fresh
    BY DEF Fresh, Pending, Types
  <1>6. Frames
    BY <1>2 DEF Frames
  <1>7. Origin
    BY DEF Origin, Types
  <1>8. QED
    BY <1>1, <1>3, <1>4, <1>5, <1>6, <1>7 DEF IInv

LEMMA PhaseCases ==
  \A p \in Phase : p \in {"unmade", "locking", "prepared", "failed", "done"} \/ p \in Pending
  BY DEF Phase, Pending

LEMMA InvStutter == IInv /\ UNCHANGED vars => IInv'
  BY DEF vars, IInv, Typed, Stacks, Layout, OnStack, LockHeld, LockIsLive, Fresh, Frames,
         Origin, NoTheft

(* Frames holds on what is left of the stacks.                             *)
LEMMA FramesKept ==
  ASSUME Frames, registered' = registered,
         \A u \in Thread : \A i \in 1 .. Len(stack'[u]) :
           i \in 1 .. Len(stack[u]) /\ stack'[u][i] = stack[u][i]
  PROVE  Frames'
  BY DEF Frames

LEMMA InvStart ==
  ASSUME IInv, NEW t \in Thread, NEW c \in Class, Start(t, c)
  PROVE  IInv'
  <1> USE DEF IInv
  <1>1. /\ phase[c] = "unmade" /\ phase' = [phase EXCEPT ![c] = "locking"]
        /\ Push(t, Create(c))
        /\ UNCHANGED <<gil, alive, tmp, installed, registered, crashed>>
    BY DEF Start
  <1>2. /\ phase' \in [Class -> Phase] /\ phase'[c] = "locking"
        /\ \A d \in Class \ {c} : phase'[d] = phase[d]
    BY <1>1 DEF Typed, Phase
  <1>3. Create(c) \in Frame /\ Create(c).kind = "create"
    BY FrameTypes, CreateFields
  <1>4. /\ stack' \in [Thread -> Seq(Frame)]
        /\ \A u \in Thread \ {t} : stack'[u] = stack[u]
        /\ Len(stack[t]) \in Nat
        /\ Len(stack'[t]) = Len(stack[t]) + 1
        /\ stack'[t][Len(stack[t]) + 1] = Create(c)
        /\ \A i \in 1 .. Len(stack[t]) : stack'[t][i] = stack[t][i]
    BY <1>1, <1>3, PushFacts
  <1>5. Typed'
    BY <1>1, <1>2, <1>4 DEF Typed
  <1>6. Stacks'
    BY <1>1, <1>2, PushCreate DEF Active
  <1>7. LockHeld'
    BY <1>1, <1>2 DEF LockHeld, LockIsLive, Pending, Typed
  <1>8. Fresh'
    BY <1>1, <1>2 DEF Fresh, Pending
  <1>9. Frames'
    <2>1. SUFFICES ASSUME NEW u \in Thread, NEW i \in 1 .. Len(stack'[u]),
                          stack'[u][i].kind = "install"
                   PROVE  registered[stack'[u][i].type] = stack'[u][i].data
      BY <1>1 DEF Frames
    <2>2. i \in 1 .. Len(stack[u]) /\ stack'[u][i] = stack[u][i]
      BY <1>3, <1>4, <2>1
    <2>3. QED
      BY <2>1, <2>2 DEF Frames
  <1>10. Origin'
    BY <1>1, <1>2 DEF Origin, NoTheft
  <1>11. QED
    BY <1>5, <1>6, <1>7, <1>8, <1>9, <1>10

LEMMA InvRefuse ==
  ASSUME IInv, NEW t \in Thread, NEW c \in Class, Refuse(t, c)
  PROVE  IInv'
  <1> USE DEF IInv, Refuse
  <1>1. /\ phase[c] = "unmade" /\ phase'[c] = "failed" /\ phase' \in [Class -> Phase]
        /\ \A d \in Class \ {c} : phase'[d] = phase[d]
    BY DEF Typed, Phase
  <1>2. Typed'
    BY <1>1 DEF Typed
  <1>3. Stacks'
    BY <1>1, SameStacks DEF SameActive, Active
  <1>4. LockHeld' /\ Fresh'
    BY <1>1 DEF LockHeld, LockIsLive, Fresh, Pending, Typed
  <1>5. Frames' /\ Origin'
    BY <1>1 DEF Frames, Origin, NoTheft
  <1>6. QED
    BY <1>2, <1>3, <1>4, <1>5

LEMMA InvLock ==
  ASSUME IInv, NEW t \in Thread, NEW c \in Class, Lock(t, c)
  PROVE  IInv'
  <1> USE DEF IInv, Lock
  <1>1. /\ phase[c] = "locking" /\ phase'[c] = "prepared" /\ phase' \in [Class -> Phase]
        /\ \A d \in Class \ {c} : phase'[d] = phase[d]
    BY DEF Typed, Phase, Creating
  <1>2. Typed'
    BY <1>1 DEF Typed
  <1>3. Stacks'
    BY <1>1, SameStacks DEF SameActive, Active
  <1>4. LockHeld'
    BY <1>1, CreationAssumption DEF LockHeld, LockIsLive, Pending, Typed
  <1>5. Fresh' /\ Frames' /\ Origin'
    BY <1>1 DEF Fresh, Frames, Origin, NoTheft, Pending
  <1>6. QED
    BY <1>2, <1>3, <1>4, <1>5

LEMMA InvMakeType ==
  ASSUME IInv, NEW t \in Thread, NEW c \in Class, MakeType(t, c)
  PROVE  IInv'
  <1> USE DEF IInv, MakeType
  <1>1. /\ phase[c] = "prepared" /\ phase'[c] = "hooks" /\ phase' \in [Class -> Phase]
        /\ \A d \in Class \ {c} : phase'[d] = phase[d]
    BY DEF Typed, Phase, Creating
  <1>2. Typed'
    BY <1>1 DEF Typed
  <1>3. Stacks'
    BY <1>1, SameStacks DEF SameActive, Active
  <1>4. LockHeld' /\ Fresh'
    BY <1>1 DEF LockHeld, LockIsLive, Fresh, Pending, Typed
  <1>5. Frames' /\ Origin'
    BY <1>1 DEF Frames, Origin, NoTheft
  <1>6. QED
    BY <1>2, <1>3, <1>4, <1>5

LEMMA InvHooksReturn ==
  ASSUME IInv, NEW t \in Thread, NEW c \in Class, HooksReturn(t, c)
  PROVE  IInv'
  <1> USE DEF IInv, HooksReturn
  <1>1. /\ phase[c] = "hooks" /\ phase'[c] = "returned" /\ phase' \in [Class -> Phase]
        /\ \A d \in Class \ {c} : phase'[d] = phase[d]
    BY DEF Typed, Phase, Creating
  <1>2. Typed'
    BY <1>1 DEF Typed
  <1>3. Stacks'
    BY <1>1, SameStacks DEF SameActive, Active
  <1>4. LockHeld' /\ Fresh'
    BY <1>1 DEF LockHeld, LockIsLive, Fresh, Pending, Typed
  <1>5. Frames' /\ Origin'
    BY <1>1 DEF Frames, Origin, NoTheft
  <1>6. QED
    BY <1>2, <1>3, <1>4, <1>5

(* What both users of Install need: x gets d's data, which it is allowed.  *)
LEMMA InvInstall ==
  ASSUME IInv, NEW t \in Thread, NEW d \in Class, NEW x \in Types, Install(t, d, x),
         phase[d] \in Pending, tmp = d, registered[x] \in {d, NoClass},
         x \in Class => phase[x] \notin {"unmade", "locking", "prepared"}, phase' \in [Class -> Phase], SameActive,
         \A c \in Class : \/ phase'[c] = phase[c]
                          \/ c = d /\ phase[c] = "returned" /\ phase'[c] = "installing",
         UNCHANGED <<gil, alive, crashed>>
  PROVE  IInv'
  <1> USE DEF IInv
  <1>1. /\ registered' \in [Types -> Class \cup {NoClass}]
        /\ registered'[x] = d
        /\ \A z \in Types \ {x} : registered'[z] = registered[z]
        /\ Class \subseteq Types
    BY DEF Install, Typed, Types
  <1>2. \A z \in Types : registered[z] # NoClass => registered'[z] = registered[z]
    BY <1>1
  <1>3. /\ \/ installed' = installed /\ tmp' = tmp
           \/ installed' = installed \cup {d} /\ tmp' = NoClass
        /\ stack' \in [Thread -> Seq(Frame)]
        /\ Stacks'
    <2>1. CASE Push(t, InstallOf(d, x)) /\ UNCHANGED <<installed, tmp>>
      BY <2>1, PushInstall, PushFacts, FrameTypes
    <2>2. CASE installed' = installed \cup {d} /\ tmp' = Unlocked(d) /\ stack' = stack
      BY <2>2, SameStacks DEF Unlocked, Typed
    <2>3. QED
      BY <2>1, <2>2 DEF Install
  <1>4. Typed'
    BY <1>1, <1>3 DEF Typed
  <1>5. LockHeld'
    BY <1>3 DEF LockHeld, LockIsLive, Pending
  <1>6. Fresh'
    BY <1>1, <1>3 DEF Fresh, LockHeld, LockIsLive, Pending
  <1>7. Frames'
    <2>1. ASSUME NEW u \in Thread, NEW i \in 1 .. Len(stack[u]), stack[u][i].kind = "install"
          PROVE  registered'[stack[u][i].type] = stack[u][i].data
      <3>1. stack[u][i] \in Frame
        BY DEF Typed
      <3>2. /\ registered[stack[u][i].type] = stack[u][i].data
            /\ stack[u][i].type \in Types /\ stack[u][i].data \in Class
        BY <2>1, <3>1 DEF Frames, Frame
      <3>3. QED
        BY <1>2, <3>2, CreationAssumption
    <2>2. CASE stack' = stack
      BY <2>1, <2>2 DEF Frames
    <2>3. CASE Push(t, InstallOf(d, x))
      <3>1. InstallOf(d, x) \in Frame /\ InstallOf(d, x).type = x /\ InstallOf(d, x).data = d
        BY FrameTypes DEF InstallOf
      <3>2. /\ \A u \in Thread \ {t} : stack'[u] = stack[u]
            /\ Len(stack[t]) \in Nat
            /\ Len(stack'[t]) = Len(stack[t]) + 1
            /\ stack'[t][Len(stack[t]) + 1] = InstallOf(d, x)
            /\ \A i \in 1 .. Len(stack[t]) : stack'[t][i] = stack[t][i]
        BY <2>3, <3>1, PushFacts
      <3>3. SUFFICES ASSUME NEW u \in Thread, NEW i \in 1 .. Len(stack'[u]),
                            stack'[u][i].kind = "install"
                     PROVE  registered'[stack'[u][i].type] = stack'[u][i].data
        BY DEF Frames
      <3>4. CASE i \in 1 .. Len(stack[u])
        BY <2>1, <3>2, <3>3, <3>4
      <3>5. CASE i \notin 1 .. Len(stack[u])
        BY <1>1, <3>1, <3>2, <3>3, <3>5
      <3>6. QED
        BY <3>4, <3>5
    <2>4. QED
      BY <2>2, <2>3 DEF Install
  <1>8. Origin'
    <2>1. \A c \in Class : phase'[c] = "done" => c \in installed'
      BY <1>3 DEF Origin
    <2>2. SUFFICES ASSUME NoTheft'
                   PROVE  /\ \A z \in Class : registered'[z] \in {z, NoClass}
                          /\ \A c \in installed' : registered'[c] = c
      BY <2>1 DEF Origin
    <2>3. NoTheft
      BY <1>1, <2>2, CreationAssumption DEF NoTheft, Types
    <2>4. /\ \A z \in Class : registered[z] \in {z, NoClass}
          /\ \A c \in installed : registered[c] = c
          /\ d \in Class /\ d # NoClass
      BY <2>3, CreationAssumption DEF Origin
    <2>5. x = d
      <3>0. x \in Class
        BY <1>1, <2>2, <2>4 DEF NoTheft, Types
      <3>1. CASE phase[x] = "failed"
        BY <1>1, <2>2, <2>4, <3>0, <3>1 DEF NoTheft, Pending
      <3>2. CASE x \in installed
        BY <2>4, <3>0, <3>2, CreationAssumption
      <3>3. CASE phase[x] \in Pending /\ x \notin installed
        BY <3>0, <3>3 DEF LockHeld
      <3>4. phase[x] = "failed" \/ x \in installed \/ (phase[x] \in Pending /\ x \notin installed)
        <4>1. phase[x] \in Phase
          BY <3>0 DEF Typed
        <4>2. phase[x] = "done" => x \in installed
          BY <3>0 DEF Origin
        <4>3. QED
          BY <3>0, <4>1, <4>2, PhaseCases
      <3>5. QED
        BY <3>1, <3>2, <3>3, <3>4
    <2>6. installed' \subseteq installed \cup {d} /\ installed \subseteq Class
      BY <1>3 DEF Typed
    <2>7. QED
      BY <1>1, <2>4, <2>5, <2>6
  <1>9. QED
    BY <1>3, <1>4, <1>5, <1>6, <1>7, <1>8

LEMMA InvTouch ==
  ASSUME IInv, NEW t \in Thread, NEW x \in Types, Touch(t, x)
  PROVE  IInv'
  <1>1. /\ x \in alive \cup Stranger /\ tmp # NoClass /\ registered[x] = NoClass
        /\ Install(t, tmp, x)
        /\ UNCHANGED <<gil, phase, alive, crashed>>
    BY DEF Touch, Unregistered
  <1>2. tmp \in Class /\ phase[tmp] \in Pending /\ phase \in [Class -> Phase]
    BY <1>1 DEF IInv, Typed, LockHeld, LockIsLive
  <1>3. x \in Class => phase[x] \notin {"unmade", "locking", "prepared"}
    BY <1>1, CreationAssumption DEF IInv, Fresh
  <1>4. SameActive
    BY <1>1 DEF SameActive
  <1>5. QED
    BY <1>1, <1>2, <1>3, <1>4, InvInstall

LEMMA InvFinish ==
  ASSUME IInv, NEW t \in Thread, NEW c \in Class, Finish(t, c)
  PROVE  IInv'
  <1>1. /\ phase[c] = "returned" /\ c \notin installed
        /\ phase' = [phase EXCEPT ![c] = "installing"]
        /\ Install(t, c, c)
        /\ UNCHANGED <<gil, alive, crashed>>
    BY DEF Finish, Creating
  <1>2. /\ phase' \in [Class -> Phase] /\ phase'[c] = "installing"
        /\ \A d \in Class \ {c} : phase'[d] = phase[d]
    BY <1>1 DEF IInv, Typed, Phase
  <1>3. SameActive
    BY <1>1, <1>2 DEF SameActive, Active
  <1>4. /\ phase[c] \in Pending /\ tmp = c /\ registered[c] \in {c, NoClass} /\ c \in Types
    BY <1>1 DEF IInv, LockHeld, Fresh, Pending, Types
  <1>5. QED
    BY <1>1, <1>2, <1>3, <1>4, InvInstall

LEMMA InvInstallEnds ==
  ASSUME IInv, NEW t \in Thread, InstallEnds(t)
  PROVE  IInv'
  <1> USE DEF IInv
  <1> DEFINE d == Top(t).data
  <1>1. /\ TopIs(t, "install") /\ phase[d] \in Pending
        /\ installed' = installed \cup {d}
        /\ tmp' = Unlocked(d)
        /\ Pop(t)
        /\ UNCHANGED <<gil, phase, alive, registered, crashed>>
    BY DEF InstallEnds
  <1>2. stack[t] # <<>> /\ d \in Class /\ registered[Top(t).type] = d /\ Top(t).type \in Types
    BY <1>1, TopFacts DEF Frames
  <1> HIDE DEF d
  <1>3. /\ stack' \in [Thread -> Seq(Frame)]
        /\ \A u \in Thread : \A i \in 1 .. Len(stack'[u]) :
             i \in 1 .. Len(stack[u]) /\ stack'[u][i] = stack[u][i]
    BY <1>1, <1>2, PopFacts, PopStacks
  <1>4. Typed'
    BY <1>1, <1>2, <1>3 DEF Typed, Unlocked
  <1>5. Stacks'
    BY <1>1, PopInstall DEF SameActive
  <1>6. LockHeld'
    BY <1>1, <1>2, CreationAssumption DEF LockHeld, LockIsLive, Unlocked
  <1>7. Fresh' /\ Frames'
    BY <1>1, <1>3, FramesKept DEF Fresh
  <1>8. Origin'
    <2>1. ASSUME NoTheft
          PROVE  Top(t).type = d
      BY <1>2, <2>1, CreationAssumption DEF Origin, NoTheft, Types
    <2>2. QED
      BY <1>1, <1>2, <2>1, CreationAssumption DEF Origin, NoTheft
  <1>9. QED
    BY <1>4, <1>5, <1>6, <1>7, <1>8

LEMMA InvInstallRaises ==
  ASSUME IInv, NEW t \in Thread, InstallRaises(t)
  PROVE  IInv'
  <1> USE DEF IInv
  <1> DEFINE d == Top(t).data
  <1>1. /\ TopIs(t, "install") /\ phase[d] \in Pending
        /\ \/ phase' = phase
           \/ phase[d] = "installing" /\ phase' = [phase EXCEPT ![d] = "raising"]
        /\ Pop(t)
        /\ UNCHANGED <<gil, alive, tmp, installed, registered, crashed>>
    BY DEF InstallRaises, OwnInstall
  <1>2. stack[t] # <<>> /\ d \in Class
    BY <1>1, TopFacts
  <1> HIDE DEF d
  <1>3. /\ stack' \in [Thread -> Seq(Frame)]
        /\ \A u \in Thread : \A i \in 1 .. Len(stack'[u]) :
             i \in 1 .. Len(stack[u]) /\ stack'[u][i] = stack[u][i]
    BY <1>1, <1>2, PopFacts, PopStacks
  <1>4. /\ phase' \in [Class -> Phase]
        /\ \A c \in Class : \/ phase'[c] = phase[c]
                            \/ phase[c] = "installing" /\ phase'[c] = "raising"
    BY <1>1, <1>2 DEF Typed, Phase
  <1>5. Typed'
    BY <1>1, <1>3, <1>4 DEF Typed
  <1>6. SameActive
    BY <1>4 DEF SameActive, Active
  <1>7. Stacks'
    BY <1>1, <1>6, PopInstall
  <1>8. LockHeld' /\ Fresh'
    BY <1>1, <1>4 DEF LockHeld, LockIsLive, Fresh, Pending, Typed
  <1>9. Frames' /\ Origin'
    BY <1>1, <1>3, <1>4, FramesKept DEF Origin, NoTheft
  <1>10. QED
    BY <1>5, <1>7, <1>8, <1>9

LEMMA InvInstallLost ==
  ASSUME IInv, NEW t \in Thread, InstallLost(t)
  PROVE  IInv'
  <1>1. crashed' = TRUE /\ UNCHANGED <<gil, stack, phase, alive, tmp, installed, registered>>
    BY DEF InstallLost
  <1>2. Stacks'
    BY <1>1, SameStacks DEF IInv, SameActive
  <1>3. Typed' /\ LockHeld' /\ Fresh' /\ Frames' /\ Origin'
    BY <1>1 DEF IInv, Typed, LockHeld, LockIsLive, Fresh, Frames, Origin, NoTheft
  <1>4. QED
    BY <1>2, <1>3 DEF IInv

(* The end of a creation, whose lock goes with it.                         *)
LEMMA InvEnd ==
  ASSUME IInv, NEW t \in Thread, NEW c \in Class,
         TopIs(t, "create"), Top(t).data = c, Pop(t),
         phase[c] \in Pending, alive' \subseteq alive,
         phase' \in [Class -> Phase], \A d \in Class \ {c} : phase'[d] = phase[d],
         \/ phase'[c] = "done" /\ c \in installed /\ tmp' = Unlocked(c)
         \/ phase'[c] = "failed" /\ tmp' = Unlocked(c)
         \/ phase'[c] = "dangling" /\ tmp' = tmp,
         UNCHANGED <<gil, installed, registered, crashed>>
  PROVE  IInv'
  <1> USE DEF IInv
  <1>1. stack[t] # <<>>
    BY DEF TopIs
  <1>2. /\ stack' \in [Thread -> Seq(Frame)]
        /\ \A u \in Thread : \A i \in 1 .. Len(stack'[u]) :
             i \in 1 .. Len(stack[u]) /\ stack'[u][i] = stack[u][i]
    BY <1>1, PopFacts, PopStacks
  <1>3. Typed'
    BY <1>2 DEF Typed, Unlocked
  <1>4. phase'[c] \notin Active
    BY DEF Active
  <1>5. Stacks'
    BY <1>4, PopCreate
  <1>6. LockHeld'
    BY CreationAssumption DEF LockHeld, LockIsLive, Unlocked, Pending, Typed
  <1>7. Fresh' /\ Frames'
    BY <1>2, FramesKept DEF Fresh, Pending
  <1>8. Origin'
    <2>1. \A d \in Class : phase'[d] = "done" => d \in installed'
      BY DEF Origin
    <2>2. NoTheft' => NoTheft
      BY DEF NoTheft, Pending
    <2>3. QED
      BY <2>1, <2>2 DEF Origin
  <1>9. QED
    BY <1>3, <1>5, <1>6, <1>7, <1>8

LEMMA InvComplete ==
  ASSUME IInv, NEW t \in Thread, NEW c \in Class, Complete(t, c)
  PROVE  IInv'
  <1>1. /\ TopIs(t, "create") /\ Top(t).data = c /\ Pop(t) /\ phase[c] \in Pending
        /\ phase' = [phase EXCEPT ![c] = "done"] /\ c \in installed /\ tmp' = Unlocked(c)
        /\ UNCHANGED <<gil, alive, installed, registered, crashed>>
    BY DEF Complete, Creating, Pending
  <1>2. /\ phase' \in [Class -> Phase] /\ phase'[c] = "done"
        /\ \A d \in Class \ {c} : phase'[d] = phase[d]
    BY <1>1 DEF IInv, Typed, Phase
  <1>3. QED
    BY <1>1, <1>2, InvEnd

LEMMA InvRaise ==
  ASSUME IInv, NEW t \in Thread, NEW c \in Class, Raise(t, c)
  PROVE  IInv'
  <1>1. /\ TopIs(t, "create") /\ Top(t).data = c /\ Pop(t) /\ phase[c] \in Pending
        /\ \/ phase' = [phase EXCEPT ![c] = "failed"] /\ tmp' = Unlocked(c)
           \/ phase' = [phase EXCEPT ![c] = "dangling"] /\ tmp' = tmp
        /\ alive' \subseteq alive
        /\ UNCHANGED <<gil, installed, registered, crashed>>
    BY DEF Raise, Creating, Pending
  <1>2. /\ phase' \in [Class -> Phase]
        /\ \/ phase'[c] = "failed" /\ tmp' = Unlocked(c)
           \/ phase'[c] = "dangling" /\ tmp' = tmp
        /\ \A d \in Class \ {c} : phase'[d] = phase[d]
    BY <1>1 DEF IInv, Typed, Phase
  <1>3. QED
    BY <1>1, <1>2, InvEnd

LEMMA InvDropTemp ==
  ASSUME IInv, NEW t \in Thread, NEW c \in Class, DropTemp(t, c)
  PROVE  IInv'
  <1> USE DEF IInv, DropTemp
  <1>1. /\ phase[c] = "dangling" /\ phase'[c] = "failed" /\ phase' \in [Class -> Phase]
        /\ \A d \in Class \ {c} : phase'[d] = phase[d]
    BY DEF Typed, Phase
  <1>2. Typed'
    BY <1>1 DEF Typed, Unlocked
  <1>3. Stacks'
    BY <1>1, SameStacks DEF SameActive, Active
  <1>4. LockHeld'
    BY <1>1, CreationAssumption DEF LockHeld, LockIsLive, Unlocked, Pending, Typed
  <1>5. Fresh' /\ Frames'
    BY <1>1 DEF Fresh, Frames, Pending
  <1>6. NoTheft' => NoTheft
    BY <1>1 DEF NoTheft
  <1>7. Origin'
    BY <1>1, <1>6 DEF Origin
  <1>8. QED
    BY <1>2, <1>3, <1>4, <1>5, <1>7

(* ------------------------------ theorems ------------------------------- *)

LEMMA InvStep == IInv /\ [Next]_vars => IInv'
  <1> SUFFICES ASSUME IInv, [Next]_vars PROVE IInv'
    OBVIOUS
  <1>1. ASSUME NEW t \in Thread, Step(t)
        PROVE  IInv'
    BY <1>1, InvLock, InvMakeType, InvHooksReturn, InvFinish, InvComplete, InvRaise,
       InvInstallEnds, InvInstallRaises, InvInstallLost DEF Step
  <1>2. ASSUME NEW t \in Thread, NEW c \in Class,
               Start(t, c) \/ Refuse(t, c) \/ DropTemp(t, c)
        PROVE  IInv'
    BY <1>2, InvStart, InvRefuse, InvDropTemp
  <1>3. QED
    BY <1>1, <1>2, InvTouch, InvStutter DEF Next

(* The inductive invariant: what relates the stacks of the threads, the    *)
(* creation lock, the registrations and the installs at every moment.      *)
THEOREM Inductive == Spec => []IInv
  BY InvInit, InvStep, PTL DEF Spec

(* Every state is of the declared shape, and the creations in progress are *)
(* exactly those some thread is inside (PrivateAttrType_new or a prepare   *)
(* object in use).                                                         *)
THEOREM TypeCorrect == Spec => []TypeOK
  <1>1. IInv => TypeOK
    BY DEF IInv, Typed, Stacks, Active, TypeOK
  <1>2. QED
    BY <1>1, Inductive, PTL

(* tmp_creation_data never outlives the creation it points into: clear()   *)
(* releases the lock on every way out, whoever installed the data.         *)
THEOREM LockBelongsToLiveCreation == Spec => []LockIsLive
  <1>1. IInv => LockIsLive
    BY DEF IInv, LockHeld
  <1>2. QED
    BY <1>1, Inductive, PTL

(* As long as no class whose creation failed, and no class that none has   *)
(* made, was touched at the wrong time and got pending data, each class    *)
(* that was created is registered with its own, whatever touched it before *)
(* (try_install_pending_creation).                                         *)
THEOREM CreatedWithOwnData == Spec => []OwnData
  <1>1. IInv => OwnData
    BY DEF IInv, Origin, OwnData
  <1>2. QED
    BY <1>1, Inductive, PTL

(* No access and no install gives a registered class other data.           *)
THEOREM RegistrationsKept == Spec => RegistrationKept
  <1>1. IInv /\ [Next]_vars =>
          [\A x \in Types : registered[x] # NoClass => registered'[x] = registered[x]]_vars
    <2> SUFFICES ASSUME IInv, Next, NEW x \in Types, registered[x] # NoClass
                 PROVE  registered'[x] = registered[x]
      OBVIOUS
    <2>1. ASSUME NEW t \in Thread, NEW c \in Types, Touch(t, c)
          PROVE  registered'[x] = registered[x]
      BY <2>1 DEF Touch, Install, Unregistered, IInv, Typed
    <2>2. ASSUME NEW t \in Thread, NEW c \in Class, Finish(t, c)
          PROVE  registered'[x] = registered[x]
      <3>1. registered[c] \in {c, NoClass} /\ registered' = [registered EXCEPT ![c] = c]
        BY <2>2 DEF Finish, Install, Creating, IInv, Fresh, Pending
      <3>2. QED
        BY <3>1 DEF IInv, Typed
    <2>3. QED
      BY <2>1, <2>2
         DEF Next, Step, Start, Refuse, DropTemp, Lock, MakeType, HooksReturn, Complete, Raise,
             InstallEnds, InstallRaises, InstallLost
  <1>2. QED
    BY <1>1, Inductive, PTL DEF Spec, RegistrationKept
=============================================================================
