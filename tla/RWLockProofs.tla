----------------------------- MODULE RWLockProofs -----------------------------
(***************************************************************************)
(* Proofs about RWLock for every finite set of threads and every set of    *)
(* writers among them.                                                     *)
(***************************************************************************)
EXTENDS RWLock, FiniteSetTheorems, TLAPS

(***************************************************************************)
(* At depends on pc alone; the facts below say how one Goto changes it.    *)
(***************************************************************************)
LEMMA AtFinite ==
  ASSUME NEW S
  PROVE  IsFiniteSet(At(S))
<1>1. At(S) \subseteq Thread BY DEF At
<1> QED BY <1>1, ThreadAssumption, FS_Subset

LEMMA AtEnter ==
  ASSUME pc \in [Thread -> PC], NEW S, NEW t \in Thread, NEW l,
         Goto(t, l), pc[t] \notin S, l \in S
  PROVE  At(S)' = At(S) \cup {t} /\ t \notin At(S)
BY DEF At, Goto

LEMMA AtLeave ==
  ASSUME pc \in [Thread -> PC], NEW S, NEW t \in Thread, NEW l,
         Goto(t, l), pc[t] \in S, l \notin S
  PROVE  At(S)' = At(S) \ {t} /\ t \in At(S)
BY DEF At, Goto

LEMMA AtSame ==
  ASSUME pc \in [Thread -> PC], NEW S, NEW t \in Thread, NEW l,
         Goto(t, l), pc[t] \in S <=> l \in S
  PROVE  At(S)' = At(S)
BY DEF At, Goto

-------------------------------------------------------------------------------
(***************************************************************************)
(* Type correctness of the lock word, the counter and the program          *)
(* counters, read \in Nat excepted: that the counter never goes below zero *)
(* follows from what it counts, so it is proved with ReadCountExact.       *)
(***************************************************************************)
Shape == /\ write \in {0, 1}
         /\ read \in Int
         /\ pc \in [Thread -> PC]
         /\ val \in [Thread -> {0, 1}]
         /\ overlapped \in BOOLEAN
         /\ At(InWrite) \subseteq Writer

LEMMA ShapeInductive == Shape /\ [Next]_vars => Shape'
<1> SUFFICES ASSUME Shape, [Next]_vars PROVE Shape'
    OBVIOUS
<1> USE DEF Shape, Goto, At, InWrite, PC
<1>1. CASE UNCHANGED vars
      BY <1>1 DEF vars
<1>2. ASSUME NEW t \in Thread, CallRlock(t) PROVE Shape'
      BY <1>2 DEF CallRlock
<1>3. ASSUME NEW t \in Thread, CallWlock(t) PROVE Shape'
      BY <1>3 DEF CallWlock
<1>4. ASSUME NEW t \in Thread, Progress(t) PROVE Shape'
  <2>1. CASE RSpin(t) BY <2>1 DEF RSpin
  <2>2. CASE RInc(t) BY <2>2 DEF RInc
  <2>3. CASE RCheck(t) BY <2>3 DEF RCheck
  <2>4. CASE RUndo(t) BY <2>4 DEF RUndo
  <2>5. CASE RUnlock(t) BY <2>5 DEF RUnlock
  <2>6. CASE WCas(t) BY <2>6 DEF WCas
  <2>7. CASE WDrain(t) BY <2>7 DEF WDrain
  <2>8. CASE WUnlock(t) BY <2>8 DEF WUnlock
  <2> QED BY <1>4, <2>1, <2>2, <2>3, <2>4, <2>5, <2>6, <2>7, <2>8 DEF Progress
<1> QED BY <1>1, <1>2, <1>3, <1>4 DEF Next

(***************************************************************************)
(* One atomic step moves at most one thread into or out of Counted, and    *)
(* read moves with it.                                                     *)
(***************************************************************************)
LEMMA CountInductive == Shape /\ ReadCountExact /\ [Next]_vars => ReadCountExact'
<1> SUFFICES ASSUME Shape, ReadCountExact, [Next]_vars PROVE ReadCountExact'
    OBVIOUS
<1> DEFINE C == {"r_check", "r_undo", "reading"}
<1>a. IsFiniteSet(At(C)) BY AtFinite
<1>b. pc \in [Thread -> PC] /\ read = Cardinality(At(C))
      BY DEF Shape, ReadCountExact, Counted
<1>c. SUFFICES read' = Cardinality(At(C)')
      BY DEF ReadCountExact, Counted
<1> HIDE DEF C
<1>1. ASSUME UNCHANGED <<read, pc>> PROVE read' = Cardinality(At(C)')
      BY <1>1, <1>b DEF At
<1>2. ASSUME NEW t \in Thread, NEW l, Goto(t, l), read' = read,
             pc[t] \in C <=> l \in C
      PROVE  read' = Cardinality(At(C)')
      BY <1>2, <1>b, AtSame
<1>3. ASSUME NEW t \in Thread, NEW l, Goto(t, l), read' = read + 1,
             pc[t] \notin C, l \in C
      PROVE  read' = Cardinality(At(C)')
  <2>1. At(C)' = At(C) \cup {t} /\ t \notin At(C) BY <1>3, <1>b, AtEnter
  <2> QED BY <1>3, <1>a, <1>b, <2>1, FS_AddElement
<1>4. ASSUME NEW t \in Thread, NEW l, Goto(t, l), read' = read - 1,
             pc[t] \in C, l \notin C
      PROVE  read' = Cardinality(At(C)')
  <2>1. At(C)' = At(C) \ {t} /\ t \in At(C) BY <1>4, <1>b, AtLeave
  <2> QED BY <1>4, <1>a, <1>b, <2>1, FS_RemoveElement
<1>5. CASE UNCHANGED vars BY <1>1, <1>5 DEF vars
<1>6. ASSUME NEW t \in Thread, CallRlock(t) PROVE read' = Cardinality(At(C)')
      BY <1>2, <1>6 DEF CallRlock, C
<1>7. ASSUME NEW t \in Thread, CallWlock(t) PROVE read' = Cardinality(At(C)')
      BY <1>2, <1>7 DEF CallWlock, C
<1>8. ASSUME NEW t \in Thread, Progress(t) PROVE read' = Cardinality(At(C)')
  <2>1. CASE RSpin(t) BY <1>2, <2>1 DEF RSpin, C
  <2>2. CASE RInc(t) BY <1>3, <2>2 DEF RInc, C
  <2>3. CASE RCheck(t)
    <3>1. CASE write # 0 BY <1>2, <2>3, <3>1 DEF RCheck, C
    <3>2. CASE write = 0 BY <1>2, <2>3, <3>2 DEF RCheck, C
    <3> QED BY <3>1, <3>2
  <2>4. CASE RUndo(t) BY <1>4, <2>4 DEF RUndo, C
  <2>5. CASE RUnlock(t) BY <1>4, <2>5 DEF RUnlock, C
  <2>6. CASE WCas(t) BY <1>1, <1>2, <2>6 DEF WCas, C
  <2>7. CASE WDrain(t) BY <1>2, <2>7 DEF WDrain, C
  <2>8. CASE WUnlock(t) BY <1>2, <2>8 DEF WUnlock, C
  <2> QED BY <1>8, <2>1, <2>2, <2>3, <2>4, <2>5, <2>6, <2>7, <2>8 DEF Progress
<1> QED BY <1>5, <1>6, <1>7, <1>8 DEF Next

LEMMA CountInitially == Init => Shape /\ ReadCountExact
<1> SUFFICES ASSUME Init PROVE Shape /\ ReadCountExact
    OBVIOUS
<1>1. Shape
  <2>1. At(InWrite) = {} BY DEF Init, At, InWrite
  <2>2. overlapped \in BOOLEAN BY DEF Init
  <2>3. write \in {0, 1} /\ read \in Int BY DEF Init
  <2>4. pc \in [Thread -> PC] /\ val \in [Thread -> {0, 1}] BY DEF Init, PC
  <2> QED BY <2>1, <2>2, <2>3, <2>4 DEF Shape
<1>2. Counted = {} BY DEF Init, Counted, At
<1>3. ReadCountExact BY <1>2, FS_EmptySet DEF Init, ReadCountExact
<1> QED BY <1>1, <1>3

(***************************************************************************)
(* The reader count is exact in every reachable state, for any number of   *)
(* readers and of writers, overlapping writers included.                   *)
(***************************************************************************)
THEOREM ReadCountIsExact == Spec => []ReadCountExact
<1>1. Shape /\ ReadCountExact /\ [Next]_vars => (Shape /\ ReadCountExact)'
      BY ShapeInductive, CountInductive
<1> QED BY <1>1, CountInitially, PTL DEF Spec

LEMMA CountIsNat == Shape /\ ReadCountExact => read \in Nat
BY AtFinite, FS_CardinalityType DEF ReadCountExact, Counted

(***************************************************************************)
(* Every reachable state has the declared types; in particular the         *)
(* counter of readers is never negative.                                   *)
(***************************************************************************)
THEOREM TypeCorrect == Spec => []TypeOK
<1>1. Shape /\ ReadCountExact /\ [Next]_vars => (Shape /\ ReadCountExact)'
      BY ShapeInductive, CountInductive
<1>2. Shape /\ ReadCountExact => TypeOK
      BY CountIsNat DEF Shape, TypeOK
<1> QED BY <1>1, <1>2, CountInitially, PTL DEF Spec

-------------------------------------------------------------------------------
(***************************************************************************)
(* The inductive invariant behind mutual exclusion.  While no two writers  *)
(* have overlapped, at most one thread is on the write side; it has set    *)
(* write from its compare and exchange on; and once it has seen read = 0   *)
(* nobody holds the lock for reading.                                      *)
(***************************************************************************)
OneOnWriteSide == \A s, t \in Thread : pc[s] \in InWrite /\ pc[t] \in InWrite => s = t

WriteIsSet == \A t \in Thread : pc[t] \in {"w_drain", "writing"} => write = 1

NoReaderInside == \A s, t \in Thread : ~ (pc[s] = "writing" /\ pc[t] = "reading")

Exclusion == ~overlapped => OneOnWriteSide /\ WriteIsSet /\ NoReaderInside

IInv == Shape /\ ReadCountExact /\ Exclusion

(***************************************************************************)
(* A writer that reads read = 0 at line 32 finds nobody reading.           *)
(***************************************************************************)
LEMMA ZeroMeansNobody ==
  ASSUME Shape, ReadCountExact, read = 0
  PROVE  \A t \in Thread : pc[t] # "reading"
<1>1. IsFiniteSet(Counted) BY AtFinite DEF Counted
<1>2. Counted = {} BY <1>1, FS_EmptySet DEF ReadCountExact
<1> QED BY <1>2 DEF Counted, At

LEMMA ExclusionInductive == IInv /\ [Next]_vars => Exclusion'
<1> SUFFICES ASSUME IInv, [Next]_vars, ~overlapped' PROVE Exclusion'
    BY DEF Exclusion
<1>a. Shape /\ ReadCountExact BY DEF IInv
<1>b. ~overlapped
  <2>1. overlapped \in BOOLEAN BY DEF IInv, Shape
  <2>2. overlapped => overlapped'
        BY <2>1 DEF Next, Progress, vars, CallRlock, CallWlock, RSpin, RInc, RCheck,
                    RUndo, RUnlock, WCas, WDrain, WUnlock
  <2> QED BY <2>2
<1>c. OneOnWriteSide /\ WriteIsSet /\ NoReaderInside BY <1>b DEF IInv, Exclusion
<1>d. SUFFICES (OneOnWriteSide /\ WriteIsSet /\ NoReaderInside)' BY DEF Exclusion
<1> USE <1>a, <1>c
<1> USE DEF OneOnWriteSide, WriteIsSet, NoReaderInside, InWrite, Goto, PC, Shape
<1>1. CASE UNCHANGED vars BY <1>1 DEF vars
<1>2. ASSUME NEW t \in Thread, CallRlock(t)
      PROVE (OneOnWriteSide /\ WriteIsSet /\ NoReaderInside)'
      BY <1>2 DEF CallRlock
<1>3. ASSUME NEW t \in Thread, CallWlock(t)
      PROVE (OneOnWriteSide /\ WriteIsSet /\ NoReaderInside)'
  <2>1. \A s \in Thread : pc[s] \notin InWrite BY <1>3 DEF CallWlock, At
  <2> QED BY <1>3, <2>1 DEF CallWlock
<1>4. ASSUME NEW t \in Thread, Progress(t)
      PROVE (OneOnWriteSide /\ WriteIsSet /\ NoReaderInside)'
  <2>1. CASE RSpin(t) BY <2>1 DEF RSpin
  <2>2. CASE RInc(t) BY <2>2 DEF RInc
  <2>3. CASE RCheck(t) BY <2>3 DEF RCheck
  <2>4. CASE RUndo(t) BY <2>4 DEF RUndo
  <2>5. CASE RUnlock(t) BY <2>5 DEF RUnlock
  <2>6. CASE WCas(t) BY <2>6 DEF WCas
  <2>7. CASE WDrain(t) BY <2>7, ZeroMeansNobody DEF WDrain
  <2>8. CASE WUnlock(t) BY <2>8 DEF WUnlock
  <2> QED BY <1>4, <2>1, <2>2, <2>3, <2>4, <2>5, <2>6, <2>7, <2>8 DEF Progress
<1> QED BY <1>1, <1>2, <1>3, <1>4 DEF Next

LEMMA IInvInitially == Init => IInv
BY CountInitially DEF Init, IInv, Exclusion, OneOnWriteSide, WriteIsSet, NoReaderInside,
                      InWrite

LEMMA IInvInductive == IInv /\ [Next]_vars => IInv'
BY ShapeInductive, CountInductive, ExclusionInductive DEF IInv

(***************************************************************************)
(* As long as no two calls of the write side overlap, a writer is alone in *)
(* the lock, for every number of threads.                                  *)
(***************************************************************************)
THEOREM WriterExclusion == Spec => []WriterIsAlone
<1>1. IInv => WriterIsAlone
      BY DEF IInv, Exclusion, OneOnWriteSide, NoReaderInside, WriterIsAlone, At, InWrite
<1> QED BY <1>1, IInvInitially, IInvInductive, PTL DEF Spec

(***************************************************************************)
(* The lock implements the abstract reader/writer lock for every number of *)
(* threads, until two calls of the write side overlap: initial states map  *)
(* to initial states and steps to steps.                                   *)
(***************************************************************************)
THEOREM LockRefinesSpec == Spec => ImplementsRWLock
<1> DEFINE R == At({"reading"})
           W == At({"writing"})
<1>1. Init => Abstract!Init
      BY DEF Init, Abstract!Init, At
<1>2. IInv /\ IInv' /\ [Next]_vars => [overlapped' \/ Abstract!Next]_<<R, W>>
  <2> SUFFICES ASSUME IInv, IInv', [Next]_vars, ~overlapped'
               PROVE  Abstract!Next \/ UNCHANGED <<R, W>>
      OBVIOUS
  <2>a. pc \in [Thread -> PC] /\ Shape /\ ReadCountExact BY DEF IInv, Shape
  <2>b. (WriteIsSet /\ NoReaderInside /\ OneOnWriteSide)' BY DEF IInv, Exclusion
  <2>1. CASE UNCHANGED vars BY <2>1 DEF vars, At
  <2>2. ASSUME NEW t \in Thread, NEW l, Goto(t, l),
               pc[t] \notin {"reading", "writing"}, l \notin {"reading", "writing"}
        PROVE  UNCHANGED <<R, W>>
        BY <2>2, <2>a, AtSame
  <2>3. ASSUME NEW t \in Thread, CallRlock(t) PROVE UNCHANGED <<R, W>>
        BY <2>2, <2>3 DEF CallRlock
  <2>4. ASSUME NEW t \in Thread, CallWlock(t) PROVE UNCHANGED <<R, W>>
        BY <2>2, <2>4 DEF CallWlock
  <2>5. ASSUME NEW t \in Thread, Progress(t)
        PROVE  Abstract!Next \/ UNCHANGED <<R, W>>
    <3>1. CASE RSpin(t) BY <2>2, <3>1 DEF RSpin
    <3>2. CASE RInc(t) BY <2>2, <3>2 DEF RInc
    <3>3. CASE RCheck(t)
      <4>1. CASE write # 0 BY <2>2, <3>3, <4>1 DEF RCheck
      <4>2. CASE write = 0
        <5>1. Goto(t, "reading") /\ pc[t] = "r_check" /\ write' = 0
              BY <3>3, <4>2 DEF RCheck
        <5>2. R' = R \cup {t} /\ t \notin R BY <5>1, <2>a, AtEnter
        <5>3. W' = W BY <5>1, <2>a, AtSame
        <5>4. W' = {} BY <2>b, <5>1 DEF WriteIsSet, At
        <5>5. Abstract!StartRead(t) BY <5>2, <5>3, <5>4 DEF Abstract!StartRead
        <5> QED BY <5>5 DEF Abstract!Next
      <4> QED BY <4>1, <4>2
    <3>4. CASE RUndo(t) BY <2>2, <3>4 DEF RUndo
    <3>5. CASE RUnlock(t)
      <4>1. Goto(t, "idle") /\ pc[t] = "reading" BY <3>5 DEF RUnlock
      <4>2. R' = R \ {t} /\ t \in R BY <4>1, <2>a, AtLeave
      <4>3. W' = W BY <4>1, <2>a, AtSame
      <4> QED BY <4>2, <4>3 DEF Abstract!EndRead, Abstract!Next
    <3>6. CASE WCas(t)
      <4>1. CASE UNCHANGED pc BY <4>1 DEF At
      <4>2. CASE Goto(t, "w_drain") BY <2>2, <3>6, <4>2 DEF WCas
      <4> QED BY <3>6, <4>1, <4>2 DEF WCas
    <3>7. CASE WDrain(t)
      <4>1. Goto(t, "writing") /\ pc[t] = "w_drain" /\ read = 0 BY <3>7 DEF WDrain
      <4>2. W' = W \cup {t} /\ t \notin W BY <4>1, <2>a, AtEnter
      <4>3. R' = R BY <4>1, <2>a, AtSame
      <4>4. R = {} BY <4>1, <2>a, ZeroMeansNobody DEF At
      <4>5. W' \subseteq {t}
            BY <2>b, <4>2 DEF OneOnWriteSide, At, InWrite
      <4>6. W = {} /\ W' = {t} BY <4>2, <4>5
      <4> QED BY <4>3, <4>4, <4>6 DEF Abstract!StartWrite, Abstract!Next
    <3>8. CASE WUnlock(t)
      <4>1. Goto(t, "idle") /\ pc[t] = "writing" BY <3>8 DEF WUnlock
      <4>2. W' = W \ {t} /\ t \in W BY <4>1, <2>a, AtLeave
      <4>3. R' = R BY <4>1, <2>a, AtSame
      <4> QED BY <4>2, <4>3 DEF Abstract!EndWrite, Abstract!Next
    <3> QED BY <2>5, <3>1, <3>2, <3>3, <3>4, <3>5, <3>6, <3>7, <3>8 DEF Progress
  <2> QED BY <2>1, <2>3, <2>4, <2>5 DEF Next
<1> QED BY <1>1, <1>2, IInvInitially, IInvInductive, PTL DEF Spec, ImplementsRWLock
===============================================================================
