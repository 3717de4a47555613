---------------------------- MODULE DispatchProofs ----------------------------
(***************************************************************************)
(* Proofs about Dispatch for every finite set of services, workers and     *)
(* other threads: the state has its type, and every reference to a context *)
(* is counted exactly.                                                     *)
(***************************************************************************)
EXTENDS Dispatch, FiniteSetTheorems, FunctionTheorems, TLAPS

(***************************************************************************)
(* Arithmetic of the threshold and of the loop's bound: 2^k is the number  *)
(* of subsets of 1 .. k.                                                   *)
(***************************************************************************)
LEMMA PowerOfTwo ==
  ASSUME NEW k \in Nat
  PROVE  2^k \in Nat \ {0} /\ k <= 2^k
<1> DEFINE S == 1 .. k
<1>1. IsFiniteSet(S) /\ Cardinality(S) = k
  BY FS_Interval
<1>2. IsFiniteSet(SUBSET S) /\ Cardinality(SUBSET S) = 2^k
  BY <1>1, FS_SUBSET
<1>3. [x \in S |-> {x}] \in Injection(S, SUBSET S)
  BY Fun_IsInj
<1>4. k <= 2^k
  <2> HIDE DEF S
  <2> QED BY <1>1, <1>2, <1>3, FS_Injection
<1>5. 2^k \in Nat /\ 2^k # 0
  BY <1>2, FS_CardinalityType, FS_EmptySet
<1> QED BY <1>4, <1>5

LEMMA QuotientInNat ==
  ASSUME NEW a \in Nat, NEW b \in Nat \ {0}
  PROVE  a \div b \in Nat
OBVIOUS

LEMMA NonemptyNatHasMin ==
  ASSUME NEW T, T \subseteq Nat, T # {}
  PROVE  \E x \in T : \A y \in T : x <= y
<1> DEFINE R == OpToRel(<, Nat)
<1>1. IsWellFoundedOn(R, Nat) BY NatLessThanWellFounded
<1>2. PICK x \in T : \A y \in T : ~(<<y, x>> \in R)
  <2> HIDE DEF R
  <2> QED BY <1>1, WFMin
<1>3. \A y \in T : <<y, x>> \in R <=> y < x
  BY Zenon DEF OpToRel
<1> HIDE DEF R
<1>4. \A y \in T : ~(y < x)
  BY <1>2, <1>3, Zenon
<1> QED BY <1>4

-------------------------------------------------------------------------------
(***************************************************************************)
(* The type invariant without ref \in Nat: that a count never goes below   *)
(* zero follows from what it counts, so it is proved with RefExact.        *)
(***************************************************************************)
WorkerPC == {"start", "grab", "qrelease", "drain", "pop", "body", "after", "swap",
             "release", "next"}
Null == Queue \union {None}
Thread == Worker \union Queue

QueueTypes == /\ msgs \in [Queue -> Seq(Null)]
              /\ release \in [Queue -> BOOLEAN]
              /\ in_global \in [Queue -> {0, 1}]
              /\ overload \in [Queue -> Nat]
              /\ threshold \in [Queue -> Nat \ {0}]

ListTypes == /\ next \in [Queue -> Null]
             /\ head \in Null
             /\ tail \in Null
             /\ aborted \in {"no", "assert", "fault"}

ContextTypes == /\ ref \in [Queue -> Int]
                /\ live \in SUBSET Queue
                /\ freed \in SUBSET Queue

ThreadTypes == /\ stage \in [Queue -> Stage]
               /\ drain \in [Thread -> {"no", "pop", "push", "release"}]
               /\ dest \in [Thread -> Null]
               /\ gone \in SUBSET Queue
               /\ pc \in [Worker -> WorkerPC]
               /\ cur \in [Worker -> Null]
               /\ ctx \in [Worker -> Null]
               /\ temp \in [Worker -> Null]
               /\ i \in [Worker -> Nat]
               /\ n \in [Worker -> Nat]
               /\ doing \in [Sender -> {"idle", "push", "release", "retire"}]
               /\ target \in [Sender -> Null]
               /\ nulled \in BOOLEAN

Types == QueueTypes /\ ListTypes /\ ContextTypes /\ ThreadTypes

(***************************************************************************)
(* What a thread holds at each point of its code: the queue it works on,   *)
(* the context it has grabbed, the queue popped at the end of the loop.    *)
(***************************************************************************)
Busy == {"grab", "qrelease", "drain", "pop", "body", "after", "swap"}
Grabbed == {"pop", "body", "after", "swap", "release"}

WorkerControl == \A w \in Worker :
  /\ pc[w] \in Busy => cur[w] # None
  /\ pc[w] = "next" => cur[w] = None
  /\ ctx[w] # None <=> pc[w] \in Grabbed
  /\ pc[w] \in Grabbed \ {"release"} => ctx[w] = cur[w]
  /\ temp[w] # None <=> pc[w] = "swap"
  /\ drain[w] # "no" => pc[w] = "drain"

DrainControl == /\ \A t \in Thread : dest[t] # None <=> drain[t] \in {"push", "release"}
                /\ \A q \in Queue : drain[q] # "no" => stage[q] = "done"

SenderControl == \A s \in Sender : doing[s] = "idle" <=> target[s] = None

Shape == Types /\ WorkerControl /\ DrainControl /\ SenderControl

-------------------------------------------------------------------------------
(***************************************************************************)
(* What the operations on the queues do to the types.                      *)
(***************************************************************************)
LEMMA GlobalPushTypes ==
  ASSUME ListTypes, aborted = "no", NEW q \in Queue, GlobalPush(q)
  PROVE  ListTypes'
BY DispatchAssumption DEF ListTypes, GlobalPush, list, Null

LEMMA GlobalPopTypes ==
  ASSUME ListTypes, aborted = "no", GlobalPop
  PROVE  ListTypes'
BY DispatchAssumption DEF ListTypes, GlobalPop, list, Null, Asserted

LEMMA UnreferenceTypes ==
  ASSUME QueueTypes, ListTypes, ref \in [Queue -> Int], aborted = "no",
         NEW q \in Queue, Unreference(q)
  PROVE  QueueTypes' /\ ListTypes' /\ ref' \in [Queue -> Int]
<1>1. ref' \in [Queue -> Int]
  BY DEF Unreference
<1>2. CASE ref[q] = 1 /\ ~release[q] /\ in_global[q] # 1
  <2>1. GlobalPush(q) /\ release' = [release EXCEPT ![q] = TRUE]
    BY <1>2 DEF Unreference, MarkRelease
  <2> QED BY <1>1, <2>1, GlobalPushTypes DEF QueueTypes, Unreference
<1>3. CASE ~(ref[q] = 1 /\ ~release[q] /\ in_global[q] # 1)
  BY <1>1, <1>3 DEF QueueTypes, ListTypes, Unreference, MarkRelease, list
<1> QED BY <1>2, <1>3

LEMMA PushTypes ==
  ASSUME QueueTypes, ListTypes, aborted = "no", NEW q \in Queue, NEW from \in Null,
         Push(q, from)
  PROVE  QueueTypes' /\ ListTypes'
<1>1. ListTypes'
  BY GlobalPushTypes DEF Push, ListTypes, list
<1>2. QueueTypes'
  BY DEF Push, QueueTypes
<1> QED BY <1>1, <1>2

LEMMA PopFullTypes ==
  ASSUME QueueTypes, NEW q \in Queue, PopFull(q)
  PROVE  QueueTypes'
<1> DEFINE len == Len(msgs[q])
           covers == {k \in 0 .. len : len <= threshold[q] * 2^k}
           doublings == CHOOSE k \in covers : \A j \in covers : k <= j
<1>1. len \in Nat /\ threshold[q] \in Nat \ {0}
  BY DEF QueueTypes
<1>2. doublings \in covers
  <2>1. len \in covers
    <3>1. len <= 2^len /\ 2^len \in Nat BY <1>1, PowerOfTwo
    <3>2. 2^len <= threshold[q] * 2^len BY <1>1, <3>1
    <3> QED BY <1>1, <3>1, <3>2
  <2>2. covers \subseteq Nat BY <1>1
  <2> HIDE DEF covers
  <2>3. \E x \in covers : \A y \in covers : x <= y
    BY <2>1, <2>2, NonemptyNatHasMin, Zenon
  <2> QED BY <2>3
<1>3. doublings \in Nat BY <1>1, <1>2
<1>4. 2^doublings \in Nat \ {0} BY <1>3, PowerOfTwo
<1>5. /\ overload' = IF doublings = 0 THEN overload ELSE [overload EXCEPT ![q] = len]
      /\ threshold' = [threshold EXCEPT ![q] = @ * 2^doublings]
      /\ UNCHANGED <<msgs, release, in_global>>
  BY DEF PopFull
<1> HIDE DEF doublings, len
<1>6. threshold[q] * 2^doublings \in Nat \ {0}
  BY <1>1, <1>4
<1> QED BY <1>1, <1>4, <1>5, <1>6 DEF QueueTypes

LEMMA PopEmptyTypes ==
  ASSUME QueueTypes, NEW q \in Queue, PopEmpty(q)
  PROVE  QueueTypes'
BY DispatchAssumption DEF QueueTypes, PopEmpty

-------------------------------------------------------------------------------
(***************************************************************************)
(* Shape is inductive: one lemma per kind of thread, one step per action.  *)
(***************************************************************************)
LEMMA ShapeInit == Init => Shape
<1> SUFFICES ASSUME Init PROVE Shape
  OBVIOUS
<1> USE DispatchAssumption DEF Init
<1>1. QueueTypes BY DEF QueueTypes, Null
<1>2. ListTypes BY DEF ListTypes, Null
<1>3. ContextTypes BY DEF ContextTypes
<1>4. ThreadTypes BY DEF ThreadTypes, Stage, WorkerPC, Null, Thread
<1>5. WorkerControl BY DEF WorkerControl, Busy, Grabbed
<1>6. DrainControl BY DEF DrainControl, Thread
<1>7. SenderControl BY DEF SenderControl
<1> QED BY <1>1, <1>2, <1>3, <1>4, <1>5, <1>6, <1>7 DEF Shape, Types

LEMMA ShapeDispatch ==
  ASSUME Shape, NEW w \in Worker, DispatchStep(w)
  PROVE  Shape'
<1> USE DispatchAssumption
<1>0. /\ QueueTypes /\ ListTypes /\ ContextTypes /\ ThreadTypes
      /\ WorkerControl /\ DrainControl /\ SenderControl /\ aborted = "no"
  BY DEF Shape, Types, DispatchStep
<1> USE <1>0
<1> SUFFICES /\ QueueTypes' /\ ListTypes' /\ ContextTypes' /\ ThreadTypes'
             /\ WorkerControl' /\ DrainControl' /\ SenderControl'
  BY DEF Shape, Types
<1>1. CASE Start(w)
  <2>1. ListTypes'
    BY <1>1, GlobalPopTypes DEF Start, ListTypes, list
  <2>2. QueueTypes' /\ ContextTypes' /\ DrainControl' /\ SenderControl'
    BY <1>1 DEF Start, queue, context, drainer, sender, QueueTypes, ContextTypes, DrainControl, SenderControl
  <2>3. ThreadTypes'
    BY <1>1 DEF Start, drainer, sender, Goto, ThreadTypes, ListTypes, WorkerPC
  <2>4. WorkerControl'
    BY <1>1 DEF Start, drainer, Goto, ThreadTypes, WorkerControl, Busy, Grabbed
  <2> QED BY <2>1, <2>2, <2>3, <2>4
<1>2. CASE Grab(w)
  <2>1. QueueTypes' /\ ListTypes' /\ DrainControl' /\ SenderControl'
    BY <1>2 DEF Grab, queue, list, drainer, sender, QueueTypes, ListTypes, DrainControl, SenderControl
  <2>2. cur[w] \in Queue
    BY <1>2 DEF Grab, WorkerControl, ThreadTypes, Null, Busy
  <2>3. ContextTypes' /\ ThreadTypes'
    BY <1>2, <2>2 DEF Grab, drainer, sender, Goto, ContextTypes, ThreadTypes, WorkerPC, Null
  <2>4. WorkerControl'
    BY <1>2, <2>2 DEF Grab, drainer, Goto, ThreadTypes, WorkerControl, Busy, Grabbed
  <2> QED BY <2>1, <2>3, <2>4
<1>3. CASE WorkerQueueRelease(w)
  <2>1. cur[w] \in Queue /\ drain[w] = "no"
    BY <1>3 DEF WorkerQueueRelease, WorkerControl, ThreadTypes, Null, Busy, Thread
  <2>2. ListTypes'
    BY <1>3, <2>1, GlobalPushTypes DEF WorkerQueueRelease, QueueRelease, ListTypes, list
  <2>3. QueueTypes' /\ ContextTypes' /\ SenderControl'
    BY <1>3 DEF WorkerQueueRelease, queue, context, sender, QueueTypes, ContextTypes, SenderControl
  <2>4. \/ drain' = drain /\ pc' = [pc EXCEPT ![w] = "next"] /\ cur' = [cur EXCEPT ![w] = None]
        \/ drain' = [drain EXCEPT ![w] = "pop"] /\ pc' = [pc EXCEPT ![w] = "drain"] /\ cur' = cur
    BY <1>3 DEF WorkerQueueRelease, QueueRelease, Goto
  <2>5. ThreadTypes'
    BY <1>3, <2>4 DEF WorkerQueueRelease, sender, ThreadTypes, WorkerPC, Null, Thread
  <2>6. WorkerControl'
    BY <1>3, <2>1, <2>4 DEF WorkerQueueRelease, ThreadTypes, WorkerControl, Busy, Grabbed, Thread
  <2>7. DrainControl'
    BY <1>3, <2>1, <2>4 DEF WorkerQueueRelease, ThreadTypes, DrainControl, Thread
  <2> QED BY <2>2, <2>3, <2>5, <2>6, <2>7
<1>4. CASE QueueReleased(w)
  BY <1>4
     DEF QueueReleased, queue, list, context, drainer, sender, Goto, QueueTypes, ListTypes, ContextTypes,
         ThreadTypes, WorkerControl, DrainControl, SenderControl, WorkerPC, Null, Thread, Busy, Grabbed
<1>5. CASE PopMessage(w)
  <2>1. cur[w] \in Queue
    BY <1>5 DEF PopMessage, WorkerControl, ThreadTypes, Null, Busy
  <2>2. QueueTypes'
    BY <1>5, <2>1, PopFullTypes, PopEmptyTypes DEF PopMessage
  <2> QED BY <1>5, <2>1, <2>2
     DEF PopMessage, list, context, drainer, sender, Goto, ListTypes, ContextTypes,
         ThreadTypes, WorkerControl, DrainControl, SenderControl, WorkerPC, Null, Thread, Busy, Grabbed
<1>6. CASE PopNull(w)
  <2>1. cur[w] \in Queue
    BY <1>6 DEF PopNull, WorkerControl, ThreadTypes, Null, Busy
  <2>2. QueueTypes'
    BY <1>6, <2>1, PopEmptyTypes DEF PopNull
  <2> QED BY <1>6, <2>1, <2>2
     DEF PopNull, list, context, drainer, sender, Goto, ListTypes, ContextTypes,
         ThreadTypes, WorkerControl, DrainControl, SenderControl, WorkerPC, Null, Thread, Busy, Grabbed
<1>7. CASE Body(w)
  <2> DEFINE bound == IF i[w] = 0 /\ Weight[w] >= 0
                        THEN Len(msgs[cur[w]]) \div 2^Weight[w] ELSE n[w]
  <2>1. cur[w] \in Queue
    BY <1>7 DEF Body, WorkerControl, ThreadTypes, Null, Busy
  <2>2. bound \in Nat
    <3>1. Weight[w] \in Int /\ n[w] \in Nat /\ Len(msgs[cur[w]]) \in Nat
      BY <2>1 DEF QueueTypes, ThreadTypes
    <3>2. ASSUME Weight[w] >= 0 PROVE Len(msgs[cur[w]]) \div 2^Weight[w] \in Nat
      <4>1. 2^Weight[w] \in Nat \ {0} BY <3>1, <3>2, PowerOfTwo
      <4> QED BY <3>1, <4>1, QuotientInNat
    <3> QED BY <3>1, <3>2
  <2>3. /\ pc[w] = "body"
        /\ overload' = [overload EXCEPT ![cur[w]] = 0]
        /\ n' = [n EXCEPT ![w] = bound]
        /\ aborted' = Asserted(cur[w] \notin Callback)
        /\ i' = [i EXCEPT ![w] = @ + 1]
        /\ \/ pc' = [pc EXCEPT ![w] = "pop"]
           \/ pc' = [pc EXCEPT ![w] = "after"]
        /\ UNCHANGED <<msgs, release, in_global, threshold, list, context, stage, drainer,
                       cur, ctx, temp, sender, nulled>>
    BY <1>7 DEF Body, Goto
  <2> HIDE DEF bound
  <2>4. QueueTypes' /\ ListTypes' /\ ContextTypes' /\ DrainControl' /\ SenderControl'
    BY <2>1, <2>3 DEF Asserted, list, context, drainer, sender, QueueTypes, ListTypes, ContextTypes,
                      DrainControl, SenderControl
  <2>5. ThreadTypes'
    BY <2>2, <2>3 DEF drainer, sender, ThreadTypes, WorkerPC
  <2>6. WorkerControl'
    BY <2>3 DEF drainer, ThreadTypes, WorkerControl, Busy, Grabbed
  <2> QED BY <2>4, <2>5, <2>6
<1>8. CASE After(w)
  <2>1. ListTypes'
    BY <1>8, GlobalPopTypes DEF After
  <2>2. QueueTypes' /\ ContextTypes' /\ DrainControl' /\ SenderControl'
    BY <1>8 DEF After, queue, context, drainer, sender, QueueTypes, ContextTypes, DrainControl, SenderControl
  <2>3. ThreadTypes'
    BY <1>8 DEF After, drainer, sender, Goto, ThreadTypes, ListTypes, WorkerPC
  <2>4. WorkerControl'
    BY <1>8 DEF After, drainer, Goto, ThreadTypes, WorkerControl, Busy, Grabbed
  <2> QED BY <2>1, <2>2, <2>3, <2>4
<1>9. CASE Swap(w)
  <2>1. cur[w] \in Queue /\ temp[w] \in Queue
    BY <1>9 DEF Swap, WorkerControl, ThreadTypes, Null, Busy
  <2>2. ListTypes'
    BY <1>9, <2>1, GlobalPushTypes DEF Swap
  <2> QED BY <1>9, <2>1, <2>2
     DEF Swap, queue, context, drainer, sender, Goto, QueueTypes, ContextTypes,
         ThreadTypes, WorkerControl, DrainControl, SenderControl, WorkerPC, Null, Thread, Busy, Grabbed
<1>10. CASE DispatchRelease(w)
  <2>1. ctx[w] \in Queue
    BY <1>10 DEF DispatchRelease, WorkerControl, ThreadTypes, Null, Grabbed
  <2>2. QueueTypes' /\ ListTypes' /\ ref' \in [Queue -> Int]
    BY <1>10, <2>1, UnreferenceTypes DEF DispatchRelease, Release, ContextTypes
  <2> QED BY <1>10, <2>1, <2>2
     DEF DispatchRelease, Release, drainer, sender, Goto, ContextTypes,
         ThreadTypes, WorkerControl, DrainControl, SenderControl, WorkerPC, Null, Thread, Busy, Grabbed
<1>11. CASE NextQueue(w)
  <2>1. ListTypes'
    BY <1>11, GlobalPopTypes DEF NextQueue
  <2> QED BY <1>11, <2>1
     DEF NextQueue, queue, context, drainer, sender, Goto, QueueTypes, ListTypes, ContextTypes,
         ThreadTypes, WorkerControl, DrainControl, SenderControl, WorkerPC, Null, Thread, Busy, Grabbed
<1> QED BY <1>1, <1>2, <1>3, <1>4, <1>5, <1>6, <1>7, <1>8, <1>9, <1>10, <1>11 DEF DispatchStep

LEMMA DrainedInQueue ==
  ASSUME Shape, NEW t \in Thread, drain[t] # "no"
  PROVE  Drained(t) \in Queue
BY DEF Shape, Types, ThreadTypes, WorkerControl, Drained, Thread, Null, Busy

LEMMA ShapeDrain ==
  ASSUME Shape, NEW t \in Thread, DrainStep(t)
  PROVE  Shape'
<1> USE DispatchAssumption
<1>0. /\ QueueTypes /\ ListTypes /\ ContextTypes /\ ThreadTypes
      /\ WorkerControl /\ DrainControl /\ SenderControl /\ aborted = "no"
  BY DEF Shape, Types, DrainStep
<1> USE <1>0
<1> SUFFICES /\ QueueTypes' /\ ListTypes' /\ ContextTypes' /\ ThreadTypes'
             /\ WorkerControl' /\ DrainControl' /\ SenderControl'
  BY DEF Shape, Types
<1>1. CASE DrainDrop(t)
  <2>1. Drained(t) \in Queue
    BY <1>1, DrainedInQueue DEF DrainDrop
  <2>2. QueueTypes'
    BY <1>1, <2>1, PopFullTypes DEF DrainDrop
  <2>3. ListTypes' /\ SenderControl'
    BY <1>1 DEF DrainDrop, list, sender, ListTypes, SenderControl
  <2>4. /\ drain[t] = "pop"
        /\ UNCHANGED <<live, freed, stage, gone, worker, sender, nulled>>
        /\ \/ UNCHANGED <<drain, dest, ref>>
           \/ \E q \in live : /\ ref' = [ref EXCEPT ![q] = @ + 1]
                              /\ dest' = [dest EXCEPT ![t] = q]
                              /\ drain' = [drain EXCEPT ![t] = "push"]
    BY <1>1 DEF DrainDrop
  <2>5. ContextTypes' /\ ThreadTypes'
    BY <2>4 DEF worker, sender, ContextTypes, ThreadTypes, Null
  <2>6. WorkerControl' /\ DrainControl'
    BY <2>4 DEF worker, ContextTypes, ThreadTypes, WorkerControl, DrainControl, Thread
  <2> QED BY <2>2, <2>3, <2>5, <2>6
<1>2. CASE DrainPush(t)
  <2>1. Drained(t) \in Queue /\ dest[t] \in Queue
    BY <1>2, DrainedInQueue DEF DrainPush, DrainControl, ThreadTypes, Null
  <2>2. QueueTypes' /\ ListTypes'
    BY <1>2, <2>1, PushTypes DEF DrainPush, Null
  <2>3. ContextTypes' /\ ThreadTypes' /\ SenderControl'
    BY <1>2 DEF DrainPush, context, worker, sender, ContextTypes, ThreadTypes, SenderControl
  <2>4. WorkerControl' /\ DrainControl'
    BY <1>2 DEF DrainPush, worker, ThreadTypes, WorkerControl, DrainControl, Thread
  <2> QED BY <2>2, <2>3, <2>4
<1>3. CASE DrainRelease(t)
  <2>1. dest[t] \in Queue
    BY <1>3 DEF DrainRelease, DrainControl, ThreadTypes, Null
  <2>2. QueueTypes' /\ ListTypes' /\ ref' \in [Queue -> Int]
    BY <1>3, <2>1, UnreferenceTypes DEF DrainRelease, ReleaseAndDelete, ContextTypes
  <2>3. ContextTypes' /\ ThreadTypes' /\ SenderControl'
    BY <1>3, <2>1, <2>2
       DEF DrainRelease, ReleaseAndDelete, worker, sender, ContextTypes, ThreadTypes, SenderControl, Null
  <2>4. WorkerControl' /\ DrainControl'
    BY <1>3 DEF DrainRelease, worker, ThreadTypes, WorkerControl, DrainControl, Thread
  <2> QED BY <2>2, <2>3, <2>4
<1>4. CASE DrainEnd(t)
  <2>1. Drained(t) \in Queue
    BY <1>4, DrainedInQueue DEF DrainEnd
  <2>2. QueueTypes'
    BY <1>4, <2>1, PopEmptyTypes DEF DrainEnd
  <2>3. ListTypes' /\ ContextTypes' /\ ThreadTypes' /\ SenderControl'
    BY <1>4, <2>1
       DEF DrainEnd, list, context, worker, sender, Asserted, ListTypes, ContextTypes, ThreadTypes, SenderControl
  <2>4. WorkerControl' /\ DrainControl'
    BY <1>4 DEF DrainEnd, worker, ThreadTypes, WorkerControl, DrainControl, Thread
  <2> QED BY <2>2, <2>3, <2>4
<1> QED BY <1>1, <1>2, <1>3, <1>4 DEF DrainStep

LEMMA ShapeCreate ==
  ASSUME Shape, NEW q \in Queue, CreateStep(q)
  PROVE  Shape'
<1> USE DispatchAssumption
<1>0. /\ QueueTypes /\ ListTypes /\ ContextTypes /\ ThreadTypes
      /\ WorkerControl /\ DrainControl /\ SenderControl /\ aborted = "no"
  BY DEF Shape, Types, CreateStep
<1> USE <1>0
<1> SUFFICES /\ QueueTypes' /\ ListTypes' /\ ContextTypes' /\ ThreadTypes'
             /\ WorkerControl' /\ DrainControl' /\ SenderControl'
  BY DEF Shape, Types
<1>a. ASSUME UNCHANGED <<drainer, worker, sender, nulled>>, NEW st \in Stage,
             stage[q] # "done", Advance(q, st)
      PROVE  ThreadTypes' /\ WorkerControl' /\ DrainControl' /\ SenderControl'
  BY <1>a DEF drainer, worker, sender, Advance, ThreadTypes, WorkerControl, DrainControl, SenderControl
<1>b. ASSUME Unreference(q), UNCHANGED live, freed' \in {freed, freed \union {q}}
      PROVE  QueueTypes' /\ ListTypes' /\ ContextTypes'
  BY <1>b, UnreferenceTypes DEF ContextTypes
<1>1. CASE NewContext(q)
  <2>1. QueueTypes' /\ ListTypes' /\ ContextTypes'
    BY <1>1 DEF NewContext, queue, list, QueueTypes, ListTypes, ContextTypes
  <2> QED BY <1>1, <1>a, <2>1 DEF NewContext, Stage
<1>2. CASE InitSucceeds(q)
  BY <1>2, <1>a, <1>b DEF InitSucceeds, ReleaseAndDelete, Stage
<1>3. CASE InitPush(q)
  <2>1. ListTypes'
    BY <1>3, GlobalPushTypes DEF InitPush
  <2>2. QueueTypes' /\ ContextTypes'
    BY <1>3 DEF InitPush, queue, context, QueueTypes, ContextTypes
  <2> QED BY <1>3, <1>a, <2>1, <2>2 DEF InitPush, Stage
<1>4. CASE InitFails(q)
  BY <1>4, <1>a, <1>b DEF InitFails, Release, Stage
<1>5. CASE FailRetire(q)
  <2>1. QueueTypes' /\ ListTypes' /\ ContextTypes'
    BY <1>5 DEF FailRetire, queue, list, QueueTypes, ListTypes, ContextTypes
  <2> QED BY <1>5, <1>a, <2>1 DEF FailRetire, Stage
<1>6. CASE FailRelease(q)
  BY <1>6, <1>a, <1>b DEF FailRelease, Release, Stage
<1>7. CASE FailQueueRelease(q)
  <2>1. ListTypes'
    BY <1>7, GlobalPushTypes DEF FailQueueRelease, QueueRelease, ListTypes, list
  <2>2. QueueTypes' /\ ContextTypes' /\ SenderControl'
    BY <1>7 DEF FailQueueRelease, queue, context, sender, QueueTypes, ContextTypes, SenderControl
  <2>3. ThreadTypes'
    BY <1>7 DEF FailQueueRelease, QueueRelease, Advance, Stage, worker, sender, ThreadTypes, Thread
  <2>4. drain[q] = "no"
    BY <1>7 DEF FailQueueRelease, DrainControl
  <2>5. WorkerControl' /\ DrainControl'
    BY <1>7, <2>4
       DEF FailQueueRelease, QueueRelease, Advance, worker, ThreadTypes, WorkerControl, DrainControl, Thread
  <2> QED BY <2>1, <2>2, <2>3, <2>5
<1> QED BY <1>1, <1>2, <1>3, <1>4, <1>5, <1>6, <1>7 DEF CreateStep

LEMMA ShapeSender ==
  ASSUME Shape, NEW s \in Sender, SenderStep(s)
  PROVE  Shape'
<1> USE DispatchAssumption
<1>0. /\ QueueTypes /\ ListTypes /\ ContextTypes /\ ThreadTypes
      /\ WorkerControl /\ DrainControl /\ SenderControl /\ aborted = "no"
  BY DEF Shape, Types, SenderStep
<1> USE <1>0
<1> SUFFICES /\ QueueTypes' /\ ListTypes' /\ ContextTypes' /\ ThreadTypes'
             /\ WorkerControl' /\ DrainControl' /\ SenderControl'
  BY DEF Shape, Types
<1>a. ASSUME UNCHANGED <<stage, drainer, worker, nulled>>,
             \/ \E q \in Queue, what \in {"push", "release", "retire"} : Does(s, what, q)
             \/ Does(s, "idle", None)
      PROVE  ThreadTypes' /\ WorkerControl' /\ DrainControl' /\ SenderControl'
  <2>1. ThreadTypes'
    BY <1>a DEF drainer, worker, Does, ThreadTypes, Null
  <2>2. WorkerControl' /\ DrainControl'
    BY <1>a DEF drainer, worker, WorkerControl, DrainControl
  <2>3. SenderControl'
    BY <1>a DEF Does, ThreadTypes, SenderControl
  <2> QED BY <2>1, <2>2, <2>3
<1>b. ASSUME NEW q \in Queue, Unreference(q), UNCHANGED live, freed' \in {freed, freed \union {q}}
      PROVE  QueueTypes' /\ ListTypes' /\ ContextTypes'
  BY <1>b, UnreferenceTypes DEF ContextTypes
<1>c. doing[s] # "idle" => target[s] \in Queue
  BY DEF SenderControl, ThreadTypes, Null
<1>1. ASSUME NEW q \in Queue, SendGrab(s, q)
      PROVE  /\ QueueTypes' /\ ListTypes' /\ ContextTypes' /\ ThreadTypes'
             /\ WorkerControl' /\ DrainControl' /\ SenderControl'
  <2>1. QueueTypes' /\ ListTypes' /\ ContextTypes'
    BY <1>1 DEF SendGrab, queue, list, QueueTypes, ListTypes, ContextTypes
  <2> QED BY <1>1, <1>a, <2>1 DEF SendGrab
<1>2. ASSUME NEW q \in Queue, Retire(s, q)
      PROVE  /\ QueueTypes' /\ ListTypes' /\ ContextTypes' /\ ThreadTypes'
             /\ WorkerControl' /\ DrainControl' /\ SenderControl'
  <2>1. QueueTypes' /\ ListTypes' /\ ContextTypes'
    BY <1>2 DEF Retire, queue, list, QueueTypes, ListTypes, ContextTypes
  <2> QED BY <1>2, <1>a, <2>1 DEF Retire
<1>3. CASE SendPush(s)
  <2>1. target[s] \in Queue /\ Source[s] \in Null
    BY <1>3, <1>c DEF SendPush, Null
  <2>2. QueueTypes' /\ ListTypes' /\ ContextTypes'
    BY <1>3, <2>1, PushTypes DEF SendPush, context, ContextTypes
  <2> QED BY <1>3, <1>a, <2>1, <2>2 DEF SendPush
<1>4. CASE SendRelease(s)
  BY <1>4, <1>a, <1>b, <1>c DEF SendRelease, ReleaseAndDelete
<1>5. CASE RetireRelease(s)
  BY <1>5, <1>a, <1>b, <1>c DEF RetireRelease, Release
<1> QED BY <1>1, <1>2, <1>3, <1>4, <1>5 DEF SenderStep

LEMMA ShapeStep == Shape /\ [Next]_vars => Shape'
<1> SUFFICES ASSUME Shape, [Next]_vars PROVE Shape'
  OBVIOUS
<1>1. CASE UNCHANGED vars
  BY <1>1 DEF vars, queue, list, context, drainer, worker, sender, Shape, Types, QueueTypes, ListTypes,
              ContextTypes, ThreadTypes, WorkerControl, DrainControl, SenderControl
<1>2. CASE Next
  BY <1>2, ShapeDispatch, ShapeDrain, ShapeCreate, ShapeSender DEF Next, Thread
<1> QED BY <1>1, <1>2


-------------------------------------------------------------------------------
(***************************************************************************)
(* Counting who holds a reference.  Holders(f, D, q) is the number of      *)
(* threads of D whose variable f is q; one assignment moves one thread.    *)
(***************************************************************************)
Holders(f, D, q) == Cardinality({x \in D : f[x] = q})

LEMMA HoldersNat ==
  ASSUME NEW D, IsFiniteSet(D), NEW f, NEW q
  PROVE  /\ Holders(f, D, q) \in Nat
         /\ \A x \in D : f[x] = q => Holders(f, D, q) >= 1
<1> DEFINE S == {x \in D : f[x] = q}
<1>1. IsFiniteSet(S)
  BY FS_Subset
<1>2. Cardinality(S) \in Nat /\ (Cardinality(S) = 0 => S = {})
  BY <1>1, FS_CardinalityType, FS_EmptySet
<1> QED BY <1>2 DEF Holders

LEMMA AddHolder ==
  ASSUME NEW S, IsFiniteSet(S), NEW d, d \notin S, NEW T, T = S \union {d}
  PROVE  Cardinality(T) = Cardinality(S) + 1
BY FS_AddElement, Zenon

LEMMA DropHolder ==
  ASSUME NEW S, IsFiniteSet(S), NEW d, d \in S, NEW T, T = S \ {d}
  PROVE  Cardinality(T) = Cardinality(S) - 1
BY FS_RemoveElement, Zenon

(***************************************************************************)
(* RefExact with what the creation of a service needs beside it: before    *)
(* NewContext nobody can have found the handle.                            *)
(***************************************************************************)
Unborn == \A q \in Queue : stage[q] = "none" => q \notin live /\ ref[q] = 0

RefInv == RefExact /\ Unborn

Slot(q) == IF q \in live THEN 1 ELSE 0
Creator(q) == IF stage[q] \in {"init", "fail2"} THEN 1 ELSE 0

LEMMA RefExactIsSum ==
  RefExact <=> \A q \in Queue : ref[q] = Slot(q) + Creator(q) + Holders(ctx, Worker, q)
                                         + Holders(target, Sender, q) + Holders(dest, Thread, q)
BY DEF RefExact, Slot, Creator, Holders, Thread

LEMMA RefExactIsSumNext ==
  RefExact' <=> \A q \in Queue : ref'[q] = Slot(q)' + Creator(q)' + Holders(ctx', Worker, q)
                                           + Holders(target', Sender, q) + Holders(dest', Thread, q)
BY DEF RefExact, Slot, Creator, Holders, Thread

LEMMA HoldersFinite ==
  ASSUME NEW q
  PROVE  /\ Holders(ctx, Worker, q) \in Nat
         /\ Holders(target, Sender, q) \in Nat
         /\ Holders(dest, Thread, q) \in Nat
         /\ \A w \in Worker : ctx[w] = q => Holders(ctx, Worker, q) >= 1
         /\ \A s \in Sender : target[s] = q => Holders(target, Sender, q) >= 1
         /\ \A t \in Thread : dest[t] = q => Holders(dest, Thread, q) >= 1
<1>1. IsFiniteSet(Worker) /\ IsFiniteSet(Sender) /\ IsFiniteSet(Thread)
  BY DispatchAssumption, FS_Union DEF Thread
<1> QED BY <1>1, HoldersNat

(***************************************************************************)
(* A reference that somebody holds is counted, so the service was created. *)
(***************************************************************************)
LEMMA HeldIsCounted ==
  ASSUME Shape, RefInv, NEW q \in Queue,
         \/ q \in live \/ stage[q] \in {"init", "fail2"}
         \/ \E w \in Worker : ctx[w] = q
         \/ \E s \in Sender : target[s] = q
         \/ \E t \in Thread : dest[t] = q
  PROVE  ref[q] >= 1 /\ stage[q] # "none"
<1>1. ref[q] = Slot(q) + Creator(q) + Holders(ctx, Worker, q)
               + Holders(target, Sender, q) + Holders(dest, Thread, q)
  BY RefExactIsSum DEF RefInv
<1>2. ref[q] >= 1
  BY <1>1, HoldersFinite DEF Slot, Creator
<1> QED BY <1>2 DEF RefInv, Unborn

(***************************************************************************)
(* What an assignment to a thread's variable does to each count.           *)
(***************************************************************************)
LEMMA HoldersSame ==
  ASSUME NEW q
  PROVE  /\ UNCHANGED ctx => Holders(ctx', Worker, q) = Holders(ctx, Worker, q)
         /\ UNCHANGED target => Holders(target', Sender, q) = Holders(target, Sender, q)
         /\ UNCHANGED dest => Holders(dest', Thread, q) = Holders(dest, Thread, q)
BY DEF Holders

LEMMA CtxUpdate ==
  ASSUME Shape, NEW w \in Worker, NEW v, ctx' = [ctx EXCEPT ![w] = v], NEW q
  PROVE  /\ v = q /\ ctx[w] # q => Holders(ctx', Worker, q) = Holders(ctx, Worker, q) + 1
         /\ v # q /\ ctx[w] = q => Holders(ctx', Worker, q) = Holders(ctx, Worker, q) - 1
         /\ (v = q <=> ctx[w] = q) => Holders(ctx', Worker, q) = Holders(ctx, Worker, q)
<1>1. ctx \in [Worker -> Null] /\ IsFiniteSet(Worker)
  BY DispatchAssumption DEF Shape, Types, ThreadTypes
<1> DEFINE S == {y \in Worker : ctx[y] = q}
           T == {y \in Worker : ctx'[y] = q}
<1>a. IsFiniteSet(S) BY <1>1, FS_Subset
<1>b. v = q /\ ctx[w] # q => T = S \union {w} /\ w \notin S BY <1>1
<1>c. v # q /\ ctx[w] = q => T = S \ {w} /\ w \in S BY <1>1
<1>d. (v = q <=> ctx[w] = q) => T = S BY <1>1
<1>e. Holders(ctx, Worker, q) = Cardinality(S) /\ Holders(ctx', Worker, q) = Cardinality(T)
  BY DEF Holders
<1> HIDE DEF S, T
<1>2. v = q /\ ctx[w] # q => Holders(ctx', Worker, q) = Holders(ctx, Worker, q) + 1
  BY <1>a, <1>b, <1>e, AddHolder, Zenon
<1>3. v # q /\ ctx[w] = q => Holders(ctx', Worker, q) = Holders(ctx, Worker, q) - 1
  BY <1>a, <1>c, <1>e, DropHolder, Zenon
<1>4. (v = q <=> ctx[w] = q) => Holders(ctx', Worker, q) = Holders(ctx, Worker, q)
  BY <1>d, <1>e, Zenon
<1> QED BY <1>2, <1>3, <1>4

LEMMA TargetUpdate ==
  ASSUME Shape, NEW s \in Sender, NEW v, target' = [target EXCEPT ![s] = v], NEW q
  PROVE  /\ v = q /\ target[s] # q => Holders(target', Sender, q) = Holders(target, Sender, q) + 1
         /\ v # q /\ target[s] = q => Holders(target', Sender, q) = Holders(target, Sender, q) - 1
         /\ (v = q <=> target[s] = q) => Holders(target', Sender, q) = Holders(target, Sender, q)
<1>1. target \in [Sender -> Null] /\ IsFiniteSet(Sender)
  BY DispatchAssumption DEF Shape, Types, ThreadTypes
<1> DEFINE S == {y \in Sender : target[y] = q}
           T == {y \in Sender : target'[y] = q}
<1>a. IsFiniteSet(S) BY <1>1, FS_Subset
<1>b. v = q /\ target[s] # q => T = S \union {s} /\ s \notin S BY <1>1
<1>c. v # q /\ target[s] = q => T = S \ {s} /\ s \in S BY <1>1
<1>d. (v = q <=> target[s] = q) => T = S BY <1>1
<1>e. Holders(target, Sender, q) = Cardinality(S) /\ Holders(target', Sender, q) = Cardinality(T)
  BY DEF Holders
<1> HIDE DEF S, T
<1>2. v = q /\ target[s] # q => Holders(target', Sender, q) = Holders(target, Sender, q) + 1
  BY <1>a, <1>b, <1>e, AddHolder, Zenon
<1>3. v # q /\ target[s] = q => Holders(target', Sender, q) = Holders(target, Sender, q) - 1
  BY <1>a, <1>c, <1>e, DropHolder, Zenon
<1>4. (v = q <=> target[s] = q) => Holders(target', Sender, q) = Holders(target, Sender, q)
  BY <1>d, <1>e, Zenon
<1> QED BY <1>2, <1>3, <1>4

LEMMA DestUpdate ==
  ASSUME Shape, NEW t \in Thread, NEW v, dest' = [dest EXCEPT ![t] = v], NEW q
  PROVE  /\ v = q /\ dest[t] # q => Holders(dest', Thread, q) = Holders(dest, Thread, q) + 1
         /\ v # q /\ dest[t] = q => Holders(dest', Thread, q) = Holders(dest, Thread, q) - 1
         /\ (v = q <=> dest[t] = q) => Holders(dest', Thread, q) = Holders(dest, Thread, q)
<1>1. dest \in [Thread -> Null] /\ IsFiniteSet(Thread)
  BY DispatchAssumption, FS_Union DEF Shape, Types, ThreadTypes, Thread
<1> DEFINE S == {y \in Thread : dest[y] = q}
           T == {y \in Thread : dest'[y] = q}
<1>a. IsFiniteSet(S) BY <1>1, FS_Subset
<1>b. v = q /\ dest[t] # q => T = S \union {t} /\ t \notin S BY <1>1
<1>c. v # q /\ dest[t] = q => T = S \ {t} /\ t \in S BY <1>1
<1>d. (v = q <=> dest[t] = q) => T = S BY <1>1
<1>e. Holders(dest, Thread, q) = Cardinality(S) /\ Holders(dest', Thread, q) = Cardinality(T)
  BY DEF Holders
<1> HIDE DEF S, T
<1>2. v = q /\ dest[t] # q => Holders(dest', Thread, q) = Holders(dest, Thread, q) + 1
  BY <1>a, <1>b, <1>e, AddHolder, Zenon
<1>3. v # q /\ dest[t] = q => Holders(dest', Thread, q) = Holders(dest, Thread, q) - 1
  BY <1>a, <1>c, <1>e, DropHolder, Zenon
<1>4. (v = q <=> dest[t] = q) => Holders(dest', Thread, q) = Holders(dest, Thread, q)
  BY <1>d, <1>e, Zenon
<1> QED BY <1>2, <1>3, <1>4

-------------------------------------------------------------------------------
(***************************************************************************)
(* Every step moves a count with the reference that it takes, gives back   *)
(* or hands over.                                                          *)
(***************************************************************************)
LEMMA RefUntouched ==
  ASSUME Shape, RefInv, UNCHANGED <<ref, live, stage, ctx, target, dest>>
  PROVE  RefInv'
BY DEF RefInv, RefExact, Unborn

LEMMA RefDispatch ==
  ASSUME Shape, RefInv, NEW w \in Worker, DispatchStep(w)
  PROVE  RefInv'
<1> USE DispatchAssumption
<1>a. /\ ref \in [Queue -> Int] /\ live \subseteq Queue /\ stage \in [Queue -> Stage]
      /\ aborted = "no"
  BY DEF Shape, Types, ContextTypes, ThreadTypes, DispatchStep
<1>b. \A q \in Queue : ref[q] = Slot(q) + Creator(q) + Holders(ctx, Worker, q)
                                + Holders(target, Sender, q) + Holders(dest, Thread, q)
  BY RefExactIsSum DEF RefInv
<1>1. CASE Start(w)
  BY <1>1, RefUntouched DEF Start, context, drainer, sender
<1>2. CASE Grab(w)
  <2>1. CASE cur[w] \notin live
    BY <1>2, <2>1, RefUntouched DEF Grab, drainer, sender
  <2>2. CASE cur[w] \in live
    <3>1. /\ ctx[w] = None
          /\ ref' = [ref EXCEPT ![cur[w]] = @ + 1]
          /\ ctx' = [ctx EXCEPT ![w] = cur[w]]
          /\ UNCHANGED <<live, stage, target, dest>>
      BY <1>2, <2>2 DEF Grab, drainer, sender, Shape, WorkerControl, Grabbed
    <3>2. RefExact'
      <4> SUFFICES ASSUME NEW q \in Queue
                   PROVE  ref'[q] = Slot(q)' + Creator(q)' + Holders(ctx', Worker, q)
                                    + Holders(target', Sender, q) + Holders(dest', Thread, q)
        BY RefExactIsSumNext
      <4>1. /\ Holders(target', Sender, q) = Holders(target, Sender, q)
            /\ Holders(dest', Thread, q) = Holders(dest, Thread, q)
            /\ Slot(q)' = Slot(q) /\ Creator(q)' = Creator(q)
        BY <3>1, HoldersSame DEF Slot, Creator
      <4>2. /\ cur[w] = q => Holders(ctx', Worker, q) = Holders(ctx, Worker, q) + 1
            /\ cur[w] # q => Holders(ctx', Worker, q) = Holders(ctx, Worker, q)
        <5>1. ctx[w] # q BY <3>1
        <5>2. ASSUME cur[w] = q PROVE Holders(ctx', Worker, q) = Holders(ctx, Worker, q) + 1
          BY <3>1, <5>1, <5>2, CtxUpdate
        <5>3. ASSUME cur[w] # q PROVE Holders(ctx', Worker, q) = Holders(ctx, Worker, q)
          <6>1. \A y \in Worker : ctx'[y] = q <=> ctx[y] = q
            BY <3>1, <5>1, <5>3 DEF Shape, Types, ThreadTypes
          <6> QED BY <6>1 DEF Holders
        <5> QED BY <5>2, <5>3
      <4>3. ref'[q] = IF cur[w] = q THEN ref[q] + 1 ELSE ref[q]
        BY <1>a, <2>2, <3>1
      <4> QED BY <1>b, <4>1, <4>2, <4>3, HoldersFinite DEF Slot, Creator
    <3>3. Unborn'
      BY <1>a, <2>2, <3>1 DEF RefInv, Unborn
    <3> QED BY <3>2, <3>3 DEF RefInv
  <2> QED BY <2>1, <2>2
<1>3. CASE WorkerQueueRelease(w)
  BY <1>3, RefUntouched DEF WorkerQueueRelease, context, sender
<1>4. CASE QueueReleased(w)
  BY <1>4, RefUntouched DEF QueueReleased, context, drainer, sender
<1>5. CASE PopMessage(w)
  BY <1>5, RefUntouched DEF PopMessage, context, drainer, sender
<1>6. CASE PopNull(w)
  BY <1>6, RefUntouched DEF PopNull, context, drainer, sender
<1>7. CASE Body(w)
  BY <1>7, RefUntouched DEF Body, context, drainer, sender
<1>8. CASE After(w)
  BY <1>8, RefUntouched DEF After, context, drainer, sender
<1>9. CASE Swap(w)
  BY <1>9, RefUntouched DEF Swap, context, drainer, sender
<1>10. CASE DispatchRelease(w)
  <2>1. /\ ctx[w] \in Queue
        /\ ref' = [ref EXCEPT ![ctx[w]] = @ - 1]
        /\ ctx' = [ctx EXCEPT ![w] = None]
        /\ UNCHANGED <<live, stage, target, dest>>
    BY <1>10 DEF DispatchRelease, Release, Unreference, drainer, sender, Shape, Types, ThreadTypes,
                 WorkerControl, Grabbed, Null
  <2>2. RefExact'
    <3> SUFFICES ASSUME NEW q \in Queue
                 PROVE  ref'[q] = Slot(q)' + Creator(q)' + Holders(ctx', Worker, q)
                                  + Holders(target', Sender, q) + Holders(dest', Thread, q)
      BY RefExactIsSumNext
    <3>1. /\ Holders(target', Sender, q) = Holders(target, Sender, q)
          /\ Holders(dest', Thread, q) = Holders(dest, Thread, q)
          /\ Slot(q)' = Slot(q) /\ Creator(q)' = Creator(q)
      BY <2>1, HoldersSame DEF Slot, Creator
    <3>2. /\ ctx[w] = q => Holders(ctx', Worker, q) = Holders(ctx, Worker, q) - 1
          /\ ctx[w] # q => Holders(ctx', Worker, q) = Holders(ctx, Worker, q)
      <4>1. None # q OBVIOUS
      <4>2. ASSUME ctx[w] = q PROVE Holders(ctx', Worker, q) = Holders(ctx, Worker, q) - 1
        BY <2>1, <4>1, <4>2, CtxUpdate
      <4>3. ASSUME ctx[w] # q PROVE Holders(ctx', Worker, q) = Holders(ctx, Worker, q)
        BY <2>1, <4>1, <4>3, CtxUpdate
      <4> QED BY <4>2, <4>3
    <3>3. ref'[q] = IF ctx[w] = q THEN ref[q] - 1 ELSE ref[q]
      BY <1>a, <2>1
    <3> QED BY <1>b, <3>1, <3>2, <3>3, HoldersFinite DEF Slot, Creator
  <2>3. stage[ctx[w]] # "none"
    BY <2>1, HeldIsCounted
  <2>4. Unborn'
    BY <1>a, <2>1, <2>3 DEF RefInv, Unborn
  <2> QED BY <2>2, <2>4 DEF RefInv
<1>11. CASE NextQueue(w)
  BY <1>11, RefUntouched DEF NextQueue, context, drainer, sender
<1> QED BY <1>1, <1>2, <1>3, <1>4, <1>5, <1>6, <1>7, <1>8, <1>9, <1>10, <1>11 DEF DispatchStep

LEMMA RefDrain ==
  ASSUME Shape, RefInv, NEW t \in Thread, DrainStep(t)
  PROVE  RefInv'
<1> USE DispatchAssumption
<1>a. ref \in [Queue -> Int] /\ live \subseteq Queue
  BY DEF Shape, Types, ContextTypes
<1>b. \A q \in Queue : ref[q] = Slot(q) + Creator(q) + Holders(ctx, Worker, q)
                                + Holders(target, Sender, q) + Holders(dest, Thread, q)
  BY RefExactIsSum DEF RefInv
<1>1. CASE DrainDrop(t)
  <2>1. CASE Head(msgs[Drained(t)]) \notin live
    BY <1>1, <2>1, RefUntouched DEF DrainDrop, worker, sender
  <2>2. CASE Head(msgs[Drained(t)]) \in live
    <3>1. PICK source \in live : /\ ref' = [ref EXCEPT ![source] = @ + 1]
                                 /\ dest' = [dest EXCEPT ![t] = source]
      BY <1>1, <2>2 DEF DrainDrop
    <3>2. dest[t] = None /\ UNCHANGED <<live, stage, ctx, target>>
      BY <1>1 DEF DrainDrop, worker, sender, Shape, DrainControl
    <3>3. RefExact'
      <4> SUFFICES ASSUME NEW q \in Queue
                   PROVE  ref'[q] = Slot(q)' + Creator(q)' + Holders(ctx', Worker, q)
                                    + Holders(target', Sender, q) + Holders(dest', Thread, q)
        BY RefExactIsSumNext
      <4>1. /\ Holders(target', Sender, q) = Holders(target, Sender, q)
            /\ Holders(ctx', Worker, q) = Holders(ctx, Worker, q)
            /\ Slot(q)' = Slot(q) /\ Creator(q)' = Creator(q)
        BY <3>2, HoldersSame DEF Slot, Creator
      <4>2. dest[t] # q BY <3>2
      <4>3. ASSUME source = q PROVE Holders(dest', Thread, q) = Holders(dest, Thread, q) + 1
        BY <3>1, <4>2, <4>3, DestUpdate
      <4>4. ASSUME source # q PROVE Holders(dest', Thread, q) = Holders(dest, Thread, q)
        BY <3>1, <4>2, <4>4, DestUpdate
      <4>5. ref'[q] = IF source = q THEN ref[q] + 1 ELSE ref[q]
        BY <1>a, <3>1
      <4> QED BY <1>b, <4>1, <4>3, <4>4, <4>5, HoldersFinite DEF Slot, Creator
    <3>4. Unborn'
      BY <1>a, <3>1, <3>2 DEF RefInv, Unborn
    <3> QED BY <3>3, <3>4 DEF RefInv
  <2> QED BY <2>1, <2>2
<1>2. CASE DrainPush(t)
  BY <1>2, RefUntouched DEF DrainPush, context, worker, sender
<1>3. CASE DrainRelease(t)
  <2>1. /\ dest[t] \in Queue
        /\ ref' = [ref EXCEPT ![dest[t]] = @ - 1]
        /\ dest' = [dest EXCEPT ![t] = None]
        /\ UNCHANGED <<live, stage, ctx, target>>
    BY <1>3 DEF DrainRelease, ReleaseAndDelete, Unreference, worker, sender, Shape, Types, ThreadTypes,
                DrainControl, Null
  <2>2. RefExact'
    <3> SUFFICES ASSUME NEW q \in Queue
                 PROVE  ref'[q] = Slot(q)' + Creator(q)' + Holders(ctx', Worker, q)
                                  + Holders(target', Sender, q) + Holders(dest', Thread, q)
      BY RefExactIsSumNext
    <3>1. /\ Holders(target', Sender, q) = Holders(target, Sender, q)
          /\ Holders(ctx', Worker, q) = Holders(ctx, Worker, q)
          /\ Slot(q)' = Slot(q) /\ Creator(q)' = Creator(q)
      BY <2>1, HoldersSame DEF Slot, Creator
    <3>2. None # q OBVIOUS
    <3>3. ASSUME dest[t] = q PROVE Holders(dest', Thread, q) = Holders(dest, Thread, q) - 1
      BY <2>1, <3>2, <3>3, DestUpdate
    <3>4. ASSUME dest[t] # q PROVE Holders(dest', Thread, q) = Holders(dest, Thread, q)
      BY <2>1, <3>2, <3>4, DestUpdate
    <3>5. ref'[q] = IF dest[t] = q THEN ref[q] - 1 ELSE ref[q]
      BY <1>a, <2>1
    <3> QED BY <1>b, <3>1, <3>3, <3>4, <3>5, HoldersFinite DEF Slot, Creator
  <2>3. stage[dest[t]] # "none"
    BY <2>1, HeldIsCounted
  <2>4. Unborn'
    BY <1>a, <2>1, <2>3 DEF RefInv, Unborn
  <2> QED BY <2>2, <2>4 DEF RefInv
<1>4. CASE DrainEnd(t)
  BY <1>4, RefUntouched DEF DrainEnd, context, worker, sender
<1> QED BY <1>1, <1>2, <1>3, <1>4 DEF DrainStep

LEMMA RefCreate ==
  ASSUME Shape, RefInv, NEW p \in Queue, CreateStep(p)
  PROVE  RefInv'
<1>a. ref \in [Queue -> Int] /\ live \subseteq Queue /\ stage \in [Queue -> Stage]
  BY DEF Shape, Types, ContextTypes, ThreadTypes
<1>b. \A q \in Queue : ref[q] = Slot(q) + Creator(q) + Holders(ctx, Worker, q)
                                + Holders(target, Sender, q) + Holders(dest, Thread, q)
  BY RefExactIsSum DEF RefInv
<1>c. ASSUME UNCHANGED <<ctx, target, dest>>,
             \A q \in Queue : ref'[q] - Slot(q)' - Creator(q)' = ref[q] - Slot(q) - Creator(q),
             ref' \in [Queue -> Int]
      PROVE  RefExact'
  <2> SUFFICES ASSUME NEW q \in Queue
               PROVE  ref'[q] = Slot(q)' + Creator(q)' + Holders(ctx', Worker, q)
                                + Holders(target', Sender, q) + Holders(dest', Thread, q)
    BY RefExactIsSumNext
  <2>1. /\ Holders(target', Sender, q) = Holders(target, Sender, q)
        /\ Holders(ctx', Worker, q) = Holders(ctx, Worker, q)
        /\ Holders(dest', Thread, q) = Holders(dest, Thread, q)
    BY <1>c, HoldersSame
  <2>2. /\ Slot(q) \in Int /\ Creator(q) \in Int /\ ref[q] \in Int
        /\ Slot(q)' \in Int /\ Creator(q)' \in Int /\ ref'[q] \in Int
    BY <1>a, <1>c DEF Slot, Creator
  <2>3. /\ ref'[q] - Slot(q)' - Creator(q)' = ref[q] - Slot(q) - Creator(q)
        /\ ref[q] = Slot(q) + Creator(q) + Holders(ctx, Worker, q)
                    + Holders(target, Sender, q) + Holders(dest, Thread, q)
    BY <1>b, <1>c
  <2> QED BY <2>1, <2>2, <2>3, HoldersFinite
<1>1. CASE NewContext(p)
  <2>1. ref[p] = 0 /\ p \notin live
    BY <1>1 DEF NewContext, RefInv, Unborn
  <2>2. RefExact'
    BY <1>1, <1>a, <1>c, <2>1 DEF NewContext, Advance, drainer, worker, sender, Slot, Creator, Stage
  <2> QED BY <1>1, <1>a, <2>2 DEF NewContext, Advance, RefInv, Unborn
<1>2. CASE InitSucceeds(p)
  <2>1. ref' = [ref EXCEPT ![p] = @ - 1] /\ UNCHANGED <<live, ctx, target, dest>>
    BY <1>2 DEF InitSucceeds, ReleaseAndDelete, Unreference, drainer, worker, sender
  <2>2. RefExact'
    BY <1>2, <1>a, <1>c, <2>1 DEF InitSucceeds, Advance, Slot, Creator, Stage
  <2> QED BY <1>2, <1>a, <2>1, <2>2 DEF InitSucceeds, Advance, RefInv, Unborn
<1>3. CASE InitPush(p)
  <2>1. RefExact'
    BY <1>3, <1>a, <1>c DEF InitPush, Advance, context, drainer, worker, sender, Slot, Creator, Stage
  <2> QED BY <1>3, <1>a, <2>1 DEF InitPush, Advance, context, RefInv, Unborn
<1>4. CASE InitFails(p)
  <2>1. ref' = [ref EXCEPT ![p] = @ - 1] /\ UNCHANGED <<live, ctx, target, dest>>
    BY <1>4 DEF InitFails, Release, Unreference, drainer, worker, sender
  <2>2. RefExact'
    BY <1>4, <1>a, <1>c, <2>1 DEF InitFails, Advance, Slot, Creator, Stage
  <2> QED BY <1>4, <1>a, <2>1, <2>2 DEF InitFails, Advance, RefInv, Unborn
<1>5. CASE FailRetire(p)
  <2>1. RefExact'
    BY <1>5, <1>a, <1>c DEF FailRetire, Advance, drainer, worker, sender, Slot, Creator, Stage
  <2> QED BY <1>5, <1>a, <2>1 DEF FailRetire, Advance, RefInv, Unborn
<1>6. CASE FailRelease(p)
  <2>1. ref' = [ref EXCEPT ![p] = @ - 1] /\ UNCHANGED <<live, ctx, target, dest>>
    BY <1>6 DEF FailRelease, Release, Unreference, drainer, worker, sender
  <2>2. RefExact'
    BY <1>6, <1>a, <1>c, <2>1 DEF FailRelease, Advance, Slot, Creator, Stage
  <2> QED BY <1>6, <1>a, <2>1, <2>2 DEF FailRelease, Advance, RefInv, Unborn
<1>7. CASE FailQueueRelease(p)
  <2>1. RefExact'
    BY <1>7, <1>a, <1>c DEF FailQueueRelease, Advance, context, worker, sender, Slot, Creator, Stage
  <2> QED BY <1>7, <1>a, <2>1 DEF FailQueueRelease, Advance, context, RefInv, Unborn
<1> QED BY <1>1, <1>2, <1>3, <1>4, <1>5, <1>6, <1>7 DEF CreateStep

LEMMA RefSender ==
  ASSUME Shape, RefInv, NEW s \in Sender, SenderStep(s)
  PROVE  RefInv'
<1> USE DispatchAssumption
<1>a. /\ ref \in [Queue -> Int] /\ live \subseteq Queue /\ target \in [Sender -> Null]
      /\ \A q \in Queue : Slot(q) \in Int /\ Creator(q) \in Int
  BY DEF Shape, Types, ContextTypes, ThreadTypes, Slot, Creator
<1>b. \A q \in Queue : ref[q] = Slot(q) + Creator(q) + Holders(ctx, Worker, q)
                                + Holders(target, Sender, q) + Holders(dest, Thread, q)
  BY RefExactIsSum DEF RefInv
<1>1. ASSUME NEW p \in Queue, SendGrab(s, p) PROVE RefInv'
  <2>1. /\ target[s] = None /\ p \in live
        /\ ref' = [ref EXCEPT ![p] = @ + 1]
        /\ target' = [target EXCEPT ![s] = p]
        /\ UNCHANGED <<live, stage, ctx, dest>>
    BY <1>1 DEF SendGrab, Does, drainer, worker, Shape, SenderControl
  <2>2. RefExact'
    <3> SUFFICES ASSUME NEW q \in Queue
                 PROVE  ref'[q] = Slot(q)' + Creator(q)' + Holders(ctx', Worker, q)
                                  + Holders(target', Sender, q) + Holders(dest', Thread, q)
      BY RefExactIsSumNext
    <3>1. /\ Holders(ctx', Worker, q) = Holders(ctx, Worker, q)
          /\ Holders(dest', Thread, q) = Holders(dest, Thread, q)
          /\ Slot(q)' = Slot(q) /\ Creator(q)' = Creator(q)
      BY <2>1, HoldersSame DEF Slot, Creator
    <3>2. target[s] # q BY <2>1
    <3>3. ASSUME p = q PROVE Holders(target', Sender, q) = Holders(target, Sender, q) + 1
      BY <2>1, <3>2, <3>3, TargetUpdate
    <3>4. ASSUME p # q PROVE Holders(target', Sender, q) = Holders(target, Sender, q)
      BY <2>1, <3>2, <3>4, TargetUpdate
    <3>5. ref'[q] = IF p = q THEN ref[q] + 1 ELSE ref[q]
      BY <1>a, <2>1
    <3> QED BY <1>a, <1>b, <3>1, <3>3, <3>4, <3>5, HoldersFinite
  <2>3. Unborn'
    BY <1>a, <2>1 DEF RefInv, Unborn
  <2> QED BY <2>2, <2>3 DEF RefInv
<1>2. ASSUME NEW p \in Queue, Retire(s, p) PROVE RefInv'
  <2>1. /\ target[s] = None /\ p \in live
        /\ live' = live \ {p}
        /\ target' = [target EXCEPT ![s] = p]
        /\ UNCHANGED <<ref, stage, ctx, dest>>
    BY <1>2 DEF Retire, Does, drainer, worker, Shape, SenderControl
  <2>2. RefExact'
    <3> SUFFICES ASSUME NEW q \in Queue
                 PROVE  ref'[q] = Slot(q)' + Creator(q)' + Holders(ctx', Worker, q)
                                  + Holders(target', Sender, q) + Holders(dest', Thread, q)
      BY RefExactIsSumNext
    <3>1. /\ Holders(ctx', Worker, q) = Holders(ctx, Worker, q)
          /\ Holders(dest', Thread, q) = Holders(dest, Thread, q)
          /\ Creator(q)' = Creator(q)
      BY <2>1, HoldersSame DEF Creator
    <3>2. target[s] # q BY <2>1
    <3>3. ASSUME p = q PROVE Holders(target', Sender, q) = Holders(target, Sender, q) + 1
      BY <2>1, <3>2, <3>3, TargetUpdate
    <3>4. ASSUME p # q PROVE Holders(target', Sender, q) = Holders(target, Sender, q)
      BY <2>1, <3>2, <3>4, TargetUpdate
    <3>5. Slot(q)' = IF p = q THEN Slot(q) - 1 ELSE Slot(q)
      BY <1>a, <2>1 DEF Slot
    <3>6. ref'[q] = ref[q] BY <2>1
    <3> QED BY <1>a, <1>b, <3>1, <3>3, <3>4, <3>5, <3>6, HoldersFinite
  <2>3. Unborn'
    BY <1>a, <2>1 DEF RefInv, Unborn
  <2> QED BY <2>2, <2>3 DEF RefInv
<1>3. CASE SendPush(s)
  <2>1. target' = target
    BY <1>3, <1>a DEF SendPush, Does
  <2> QED BY <1>3, <2>1, RefUntouched DEF SendPush, context, drainer, worker
<1>4. ASSUME doing[s] # "idle", Unreference(target[s]), Does(s, "idle", None),
             UNCHANGED <<live, stage, drainer, worker>>
      PROVE  RefInv'
  <2>1. /\ target[s] \in Queue
        /\ ref' = [ref EXCEPT ![target[s]] = @ - 1]
        /\ target' = [target EXCEPT ![s] = None]
        /\ UNCHANGED <<live, stage, ctx, dest>>
    BY <1>4, <1>a DEF Unreference, Does, drainer, worker, Shape, SenderControl, Null
  <2>2. RefExact'
    <3> SUFFICES ASSUME NEW q \in Queue
                 PROVE  ref'[q] = Slot(q)' + Creator(q)' + Holders(ctx', Worker, q)
                                  + Holders(target', Sender, q) + Holders(dest', Thread, q)
      BY RefExactIsSumNext
    <3>1. /\ Holders(ctx', Worker, q) = Holders(ctx, Worker, q)
          /\ Holders(dest', Thread, q) = Holders(dest, Thread, q)
          /\ Slot(q)' = Slot(q) /\ Creator(q)' = Creator(q)
      BY <2>1, HoldersSame DEF Slot, Creator
    <3>2. None # q OBVIOUS
    <3>3. ASSUME target[s] = q PROVE Holders(target', Sender, q) = Holders(target, Sender, q) - 1
      BY <2>1, <3>2, <3>3, TargetUpdate
    <3>4. ASSUME target[s] # q PROVE Holders(target', Sender, q) = Holders(target, Sender, q)
      BY <2>1, <3>2, <3>4, TargetUpdate
    <3>5. ref'[q] = IF target[s] = q THEN ref[q] - 1 ELSE ref[q]
      BY <1>a, <2>1
    <3> QED BY <1>a, <1>b, <3>1, <3>3, <3>4, <3>5, HoldersFinite
  <2>3. stage[target[s]] # "none"
    BY <2>1, HeldIsCounted
  <2>4. Unborn'
    BY <1>a, <2>1, <2>3 DEF RefInv, Unborn
  <2> QED BY <2>2, <2>4 DEF RefInv
<1>5. CASE SendRelease(s)
  BY <1>4, <1>5 DEF SendRelease, ReleaseAndDelete
<1>6. CASE RetireRelease(s)
  BY <1>4, <1>6 DEF RetireRelease, Release
<1> QED BY <1>1, <1>2, <1>3, <1>5, <1>6 DEF SenderStep

LEMMA RefInit == Init => RefInv
<1> SUFFICES ASSUME Init PROVE RefInv
  OBVIOUS
<1>1. \A q \in Queue : /\ {w \in Worker : ctx[w] = q} = {}
                       /\ {s \in Sender : target[s] = q} = {}
                       /\ {t \in Worker \union Queue : dest[t] = q} = {}
  BY DispatchAssumption DEF Init
<1>2. \A q \in Queue : q \notin live /\ stage[q] = "none" /\ ref[q] = 0
  BY DEF Init
<1>3. RefExact
  BY <1>1, <1>2, FS_EmptySet DEF RefExact
<1> QED BY <1>2, <1>3 DEF RefInv, Unborn

LEMMA RefStep == Shape /\ RefInv /\ [Next]_vars => RefInv'
<1> SUFFICES ASSUME Shape, RefInv, [Next]_vars PROVE RefInv'
  OBVIOUS
<1>1. CASE UNCHANGED vars
  BY <1>1, RefUntouched DEF vars, context, drainer, worker, sender
<1>2. CASE Next
  BY <1>2, RefDispatch, RefDrain, RefCreate, RefSender DEF Next, Thread
<1> QED BY <1>1, <1>2

(***************************************************************************)
(* The conjunction that the rest of the proofs starts from.                *)
(***************************************************************************)
Base == Shape /\ RefInv

LEMMA BaseInvariant == Spec => []Base
<1>1. Init => Base
  BY ShapeInit, RefInit DEF Base
<1>2. Base /\ [Next]_vars => Base'
  BY ShapeStep, RefStep DEF Base
<1> QED BY <1>1, <1>2, PTL DEF Spec

LEMMA BaseImpliesTypeOK == Base => TypeOK
<1> SUFFICES ASSUME Base PROVE TypeOK
  OBVIOUS
<1>1. ASSUME NEW q \in Queue PROVE ref[q] \in Nat
  <2>1. ref[q] = Slot(q) + Creator(q) + Holders(ctx, Worker, q)
                 + Holders(target, Sender, q) + Holders(dest, Thread, q)
    BY RefExactIsSum DEF Base, RefInv
  <2> QED BY <2>1, HoldersFinite DEF Slot, Creator
<1>2. ref \in [Queue -> Nat]
  BY <1>1 DEF Base, Shape, Types, ContextTypes
<1>3. QueueTypes /\ ListTypes /\ ContextTypes /\ ThreadTypes
  BY DEF Base, Shape, Types
<1> QED BY <1>2, <1>3 DEF TypeOK, QueueTypes, ListTypes, ContextTypes, ThreadTypes, Null, Thread, WorkerPC

(***************************************************************************)
(* The variables of the message queues, of the global list, of the         *)
(* contexts and of all threads keep their types: no count goes below zero, *)
(* whatever the number of services, workers and other threads.             *)
(***************************************************************************)
THEOREM TypeCorrect == Spec => []TypeOK
BY BaseInvariant, BaseImpliesTypeOK, PTL

(***************************************************************************)
(* ref_ of a context is at all times the number of references that         *)
(* somebody still has to give back: HandleGrab and NewContext add exactly  *)
(* the ones that ContextPush, MessageDispatch, HandleRetire and the drain  *)
(* take off.                                                               *)
(***************************************************************************)
THEOREM ReferencesCounted == Spec => []RefExact
<1>1. Base => RefExact
  BY DEF Base, RefInv
<1> QED BY <1>1, BaseInvariant, PTL

===============================================================================
