--------------------------- MODULE WorkerPoolProofs ---------------------------
(***************************************************************************)
(* Proofs about WorkerPool for every finite set of workers and every bound *)
(* on the list.                                                            *)
(***************************************************************************)
EXTENDS WorkerPool, FiniteSetTheorems, TLAPS

(***************************************************************************)
(* The bound of sleep in TypeOK follows from what sleep counts; the rest   *)
(* of TypeOK is inductive by itself.                                       *)
(***************************************************************************)
Label == {"loop", "idle", "locked", "wait", "waiting", "woken", "leave", "exit"}

Shape == /\ work \in 0 .. MaxWork
         /\ holds \subseteq Worker
         /\ sleep \in Int
         /\ total \in BOOLEAN
         /\ server \in BOOLEAN
         /\ quit \in BOOLEAN
         /\ thread_unlock \in BOOLEAN
         /\ mutex \in Worker \union {None}
         /\ notified \subseteq Worker
         /\ pc \in [Worker -> Label]
         /\ timer \in {"loop", "wake", "exit", "quit", "done"}
         /\ socket \in {"poll", "total", "wake", "done"}
         /\ monitor \in {"loop", "done"}
         /\ main \in {"join", "done"}

LEMMA ShapeInit == Init => Shape
<1> SUFFICES ASSUME Init PROVE Shape
    OBVIOUS
<1>1. /\ total \in BOOLEAN /\ server \in BOOLEAN /\ quit \in BOOLEAN /\ thread_unlock \in BOOLEAN
      /\ pc \in [Worker -> Label]
      BY Zenon DEF Init, Label
<1>2. sleep \in Int /\ work \in 0 .. MaxWork
      BY DEF Init
<1> QED BY <1>1, <1>2, Zenon DEF Init, Shape

LEMMA WorkerShape ==
  ASSUME Shape, NEW w \in Worker, WorkerStep(w)
  PROVE  Shape'
<1> USE PoolAssumption DEF Shape, Label, Goto, pool, others
<1>1. CASE WorkerQuit(w) BY <1>1 DEF WorkerQuit
<1>2. CASE WorkerDispatch(w) BY <1>2 DEF WorkerDispatch
<1>3. CASE WorkerLock(w) BY <1>3 DEF WorkerLock
<1>4. CASE WorkerCheck(w) BY <1>4 DEF WorkerCheck
<1>5. CASE WorkerWait(w) BY <1>5 DEF WorkerWait
<1>6. CASE WorkerWakes(w) BY <1>6 DEF WorkerWakes
<1>7. CASE WorkerLeave(w) BY <1>7 DEF WorkerLeave
<1> QED BY <1>1, <1>2, <1>3, <1>4, <1>5, <1>6, <1>7 DEF WorkerStep

LEMMA OthersShape ==
  ASSUME Shape, TimerStep \/ SocketStep \/ MonitorEnds \/ MainJoin \/ TotalReachesZero
  PROVE  Shape'
<1> USE PoolAssumption DEF Shape, pool, others
<1>1. CASE TimerUpdate BY <1>1 DEF TimerUpdate, Arrive
<1>2. CASE TimerWakeUp BY <1>2 DEF TimerWakeUp, WakeUp, Sleepers
<1>3. CASE TimerSocketExit BY <1>3 DEF TimerSocketExit
<1>4. CASE TimerQuit BY <1>4 DEF TimerQuit, Sleepers
<1>5. CASE SocketPoll BY <1>5 DEF SocketPoll, Arrive
<1>6. CASE SocketTotal BY <1>6 DEF SocketTotal
<1>7. CASE SocketWakeUp BY <1>7 DEF SocketWakeUp, WakeUp, Sleepers
<1>8. CASE MonitorEnds BY <1>8 DEF MonitorEnds
<1>9. CASE MainJoin BY <1>9 DEF MainJoin
<1>10. CASE TotalReachesZero BY <1>10 DEF TotalReachesZero
<1> QED BY <1>1, <1>2, <1>3, <1>4, <1>5, <1>6, <1>7, <1>8, <1>9, <1>10 DEF TimerStep, SocketStep

LEMMA ShapeInductive == Shape /\ [Next]_vars => Shape'
<1> SUFFICES ASSUME Shape, [Next]_vars PROVE Shape'
    OBVIOUS
<1>1. CASE UNCHANGED vars BY <1>1 DEF Shape, vars, pool, others
<1>2. CASE \E w \in Worker : WorkerStep(w) BY <1>2, WorkerShape
<1>3. CASE TimerStep \/ SocketStep \/ MonitorEnds \/ MainJoin \/ TotalReachesZero
      BY <1>3, OthersShape
<1> QED BY <1>1, <1>2, <1>3 DEF Next

\* What the other threads leave alone: the workers, and the mutex, which
\* TimerQuit takes and gives back in one step.
LEMMA OthersFrame ==
  ASSUME \/ TimerStep \/ SocketStep \/ MonitorEnds \/ MainJoin \/ TotalReachesZero
         \/ UNCHANGED vars
  PROVE  /\ UNCHANGED <<pc, mutex, sleep>>
         /\ quit' # quit => TimerQuit
BY DEF TimerStep, TimerUpdate, TimerWakeUp, TimerSocketExit, TimerQuit, SocketStep, SocketPoll,
       SocketTotal, SocketWakeUp, MonitorEnds, MainJoin, TotalReachesZero, vars, pool, others

-------------------------------------------------------------------------------
(***************************************************************************)
(* One step moves at most one worker into or out of Sleeping, and sleep    *)
(* moves with it.                                                          *)
(***************************************************************************)
LEMMA SleepingFinite == IsFiniteSet(Sleeping) /\ Cardinality(Sleeping) \in 0 .. count
<1>1. Sleeping \subseteq Worker BY DEF Sleeping
<1>2. IsFiniteSet(Worker) BY PoolAssumption
<1>3. IsFiniteSet(Sleeping) /\ Cardinality(Sleeping) <= Cardinality(Worker)
      BY <1>1, <1>2, FS_Subset
<1>4. Cardinality(Sleeping) \in Nat /\ Cardinality(Worker) \in Nat
      BY <1>2, <1>3, FS_CardinalityType
<1> QED BY <1>3, <1>4 DEF count

LEMMA SleepInductive == Shape /\ SleepExact /\ [Next]_vars => SleepExact'
<1> SUFFICES ASSUME Shape, SleepExact, [Next]_vars PROVE sleep' = Cardinality(Sleeping')
    BY DEF SleepExact
<1>a. pc \in [Worker -> Label] /\ sleep = Cardinality(Sleeping) BY DEF Shape, SleepExact
<1>b. ASSUME sleep' = sleep, Sleeping' = Sleeping PROVE sleep' = Cardinality(Sleeping')
      BY <1>a, <1>b
<1>1. CASE \/ TimerStep \/ SocketStep \/ MonitorEnds \/ MainJoin \/ TotalReachesZero
           \/ UNCHANGED vars
  <2>1. UNCHANGED <<pc, sleep>> BY <1>1, OthersFrame
  <2>2. Sleeping' = Sleeping BY <2>1 DEF Sleeping
  <2> QED BY <1>b, <2>1, <2>2
<1>2. ASSUME NEW w \in Worker, WorkerStep(w) PROVE sleep' = Cardinality(Sleeping')
  <2>1. CASE WorkerQuit(w)
    <3>1. Sleeping' = Sleeping BY <1>a, <2>1 DEF Sleeping, WorkerQuit, Goto
    <3> QED BY <1>b, <2>1, <3>1 DEF WorkerQuit, pool
  <2>2. CASE WorkerDispatch(w)
    <3>1. pc' = pc \/ (pc[w] = "loop" /\ Goto(w, "idle")) BY <2>2 DEF WorkerDispatch
    <3>2. Sleeping' = Sleeping BY <1>a, <3>1 DEF Sleeping, Goto
    <3> QED BY <1>b, <2>2, <3>2 DEF WorkerDispatch, pool
  <2>3. CASE WorkerLock(w)
    <3>1. Sleeping' = Sleeping \union {w} /\ w \notin Sleeping
          BY <1>a, <2>3 DEF Sleeping, WorkerLock, Goto
    <3>2. sleep' = sleep + 1 BY <2>3 DEF WorkerLock
    <3> QED BY <1>a, <3>1, <3>2, SleepingFinite, FS_AddElement
  <2>4. CASE WorkerCheck(w)
    <3>1. Sleeping' = Sleeping BY <1>a, <2>4 DEF Sleeping, WorkerCheck, Goto
    <3> QED BY <1>b, <2>4, <3>1 DEF WorkerCheck, pool
  <2>5. CASE WorkerWait(w)
    <3>1. pc[w] \in {"wait", "woken"} /\ (Goto(w, "leave") \/ Goto(w, "waiting"))
          BY <2>5 DEF WorkerWait
    <3>2. Sleeping' = Sleeping BY <1>a, <3>1 DEF Sleeping, Goto
    <3> QED BY <1>b, <2>5, <3>2 DEF WorkerWait
  <2>6. CASE WorkerWakes(w)
    <3>1. Sleeping' = Sleeping BY <1>a, <2>6 DEF Sleeping, WorkerWakes, Goto
    <3> QED BY <1>b, <2>6, <3>1 DEF WorkerWakes
  <2>7. CASE WorkerLeave(w)
    <3>1. Sleeping' = Sleeping \ {w} /\ w \in Sleeping
          BY <1>a, <2>7 DEF Sleeping, WorkerLeave, Goto
    <3>2. sleep' = sleep - 1 BY <2>7 DEF WorkerLeave
    <3> QED BY <1>a, <3>1, <3>2, SleepingFinite, FS_RemoveElement
  <2> QED BY <1>2, <2>1, <2>2, <2>3, <2>4, <2>5, <2>6, <2>7 DEF WorkerStep
<1> QED BY <1>1, <1>2 DEF Next

LEMMA SleepInit == Init => SleepExact
<1> SUFFICES ASSUME Init PROVE SleepExact
    OBVIOUS
<1>1. Sleeping = {} BY DEF Init, Sleeping
<1> QED BY <1>1, FS_EmptySet DEF Init, SleepExact

-------------------------------------------------------------------------------
(***************************************************************************)
(* The mutex is held exactly by the worker inside the critical section,    *)
(* and no worker that has passed the test of quit is left when quit is     *)
(* set.                                                                    *)
(***************************************************************************)
MutexHeld == \A w \in Worker : mutex = w <=> pc[w] \in {"locked", "wait", "woken", "leave"}

QuitSeen == quit => \A w \in Worker : pc[w] # "wait"

LEMMA MutexInductive == Shape /\ MutexHeld /\ [Next]_vars => MutexHeld'
<1> SUFFICES ASSUME Shape, MutexHeld, [Next]_vars PROVE MutexHeld'
    OBVIOUS
<1>1. CASE \/ TimerStep \/ SocketStep \/ MonitorEnds \/ MainJoin \/ TotalReachesZero
           \/ UNCHANGED vars
      BY <1>1, OthersFrame DEF MutexHeld
<1>2. ASSUME NEW w \in Worker, WorkerStep(w) PROVE MutexHeld'
  <2> USE PoolAssumption DEF Shape, Label, MutexHeld, Goto, pool
  <2>1. CASE WorkerQuit(w) BY <2>1 DEF WorkerQuit
  <2>2. CASE WorkerDispatch(w)
    <3>1. mutex' = mutex /\ (pc' = pc \/ (pc[w] = "loop" /\ Goto(w, "idle")))
          BY <2>2 DEF WorkerDispatch
    <3> QED BY <3>1
  <2>3. CASE WorkerLock(w) BY <2>3 DEF WorkerLock
  <2>4. CASE WorkerCheck(w) BY <2>4 DEF WorkerCheck
  <2>5. CASE WorkerWait(w) BY <2>5 DEF WorkerWait
  <2>6. CASE WorkerWakes(w) BY <2>6 DEF WorkerWakes
  <2>7. CASE WorkerLeave(w) BY <2>7 DEF WorkerLeave
  <2> QED BY <1>2, <2>1, <2>2, <2>3, <2>4, <2>5, <2>6, <2>7 DEF WorkerStep
<1> QED BY <1>1, <1>2 DEF Next

LEMMA QuitInductive == Shape /\ MutexHeld /\ QuitSeen /\ [Next]_vars => QuitSeen'
<1> SUFFICES ASSUME Shape, MutexHeld, QuitSeen, [Next]_vars, quit', NEW v \in Worker
             PROVE  pc'[v] # "wait"
    BY DEF QuitSeen
<1>1. CASE \/ TimerStep \/ SocketStep \/ MonitorEnds \/ MainJoin \/ TotalReachesZero
           \/ UNCHANGED vars
  <2>1. UNCHANGED pc /\ (quit \/ TimerQuit) BY <1>1, OthersFrame
  <2>2. CASE quit BY <2>1, <2>2 DEF QuitSeen
  <2>3. CASE TimerQuit
    <3>1. mutex = None BY <2>3 DEF TimerQuit
    <3>2. mutex # v BY <3>1, PoolAssumption
    <3> QED BY <2>1, <3>2 DEF MutexHeld
  <2> QED BY <2>1, <2>2, <2>3
<1>2. ASSUME NEW w \in Worker, WorkerStep(w) PROVE pc'[v] # "wait"
  <2>0. quit
        BY <1>2 DEF WorkerStep, WorkerQuit, WorkerDispatch, WorkerLock, WorkerCheck, WorkerWait,
                    WorkerWakes, WorkerLeave, pool
  <2>1. pc[v] # "wait" BY <2>0 DEF QuitSeen
  <2> USE DEF Shape, Label, Goto
  <2>2. CASE WorkerQuit(w) BY <2>1, <2>2 DEF WorkerQuit
  <2>3. CASE WorkerDispatch(w) BY <2>0, <2>3 DEF WorkerDispatch
  <2>4. CASE WorkerLock(w) BY <2>1, <2>4 DEF WorkerLock
  <2>5. CASE WorkerCheck(w) BY <2>0, <2>1, <2>5 DEF WorkerCheck
  <2>6. CASE WorkerWait(w)
    <3>1. Goto(w, "leave") \/ Goto(w, "waiting") BY <2>6 DEF WorkerWait
    <3> QED BY <2>1, <3>1
  <2>7. CASE WorkerWakes(w) BY <2>1, <2>7 DEF WorkerWakes
  <2>8. CASE WorkerLeave(w) BY <2>1, <2>8 DEF WorkerLeave
  <2> QED BY <1>2, <2>2, <2>3, <2>4, <2>5, <2>6, <2>7, <2>8 DEF WorkerStep
<1> QED BY <1>1, <1>2 DEF Next

-------------------------------------------------------------------------------
(***************************************************************************)
(* The sleep counter of start.cpp is exact: at every moment it is the      *)
(* number of workers between its increment and its decrement.              *)
(***************************************************************************)
THEOREM SleepIsExact == Spec => []SleepExact
<1>1. Init => Shape /\ SleepExact BY ShapeInit, SleepInit
<1>2. Shape /\ SleepExact /\ [Next]_vars => (Shape /\ SleepExact)'
      BY ShapeInductive, SleepInductive
<1> QED BY <1>1, <1>2, PTL DEF Spec

(***************************************************************************)
(* The type invariant.  That sleep stays between 0 and the number of       *)
(* workers, so that WakeUp compares sensible numbers, needs SleepExact.    *)
(***************************************************************************)
THEOREM TypeCorrect == Spec => []TypeOK
<1>1. Init => Shape BY ShapeInit
<1>2. Shape /\ [Next]_vars => Shape' BY ShapeInductive
<1>3. Shape /\ SleepExact => TypeOK
  <2>1. SleepExact => sleep \in 0 .. count BY SleepingFinite DEF SleepExact
  <2> QED BY <2>1 DEF Shape, TypeOK, Label
<1> QED BY <1>1, <1>2, <1>3, SleepIsExact, PTL DEF Spec

(***************************************************************************)
(* No worker enters cond_var.wait once the timer thread has set quit: the  *)
(* mutex orders the worker's last look at quit before it.  Workers that    *)
(* were inside before may block again.                                     *)
(***************************************************************************)
THEOREM NobodySleepsAfterQuit == Spec => NoSleepAfterQuit
<1>1. Init => Shape /\ MutexHeld /\ QuitSeen
  <2>1. Init => MutexHeld BY PoolAssumption DEF Init, MutexHeld
  <2>2. Init => QuitSeen BY DEF Init, QuitSeen
  <2> QED BY <2>1, <2>2, ShapeInit
<1>2. Shape /\ MutexHeld /\ QuitSeen /\ [Next]_vars => (Shape /\ MutexHeld /\ QuitSeen)'
      BY ShapeInductive, MutexInductive, QuitInductive
<1>3. Shape /\ QuitSeen /\ [Next]_vars => [\A w \in Worker : quit /\ ~Asleep(w) => ~Asleep(w)']_vars
  <2> SUFFICES ASSUME Shape, QuitSeen, Next, NEW v \in Worker, quit, pc[v] \notin {"waiting", "woken"}
               PROVE  pc'[v] \notin {"waiting", "woken"}
      BY DEF Asleep
  <2>1. pc[v] # "wait" BY DEF QuitSeen
  <2>2. CASE UNCHANGED pc BY <2>2
  <2>3. CASE \E w \in Worker : WorkerStep(w)
    <3>1. PICK w \in Worker : WorkerStep(w) BY <2>3
    <3>2. CASE WorkerWait(w) \/ WorkerWakes(w)
      <4>1. pc[w] \in {"wait", "waiting", "woken"} BY <3>2 DEF WorkerWait, WorkerWakes
      <4>2. v # w BY <2>1, <4>1
      <4> QED BY <3>2, <4>2 DEF WorkerWait, WorkerWakes, Goto, Shape
    <3>3. CASE ~(WorkerWait(w) \/ WorkerWakes(w))
      <4>1. \/ pc' = pc
            \/ \E l \in {"loop", "idle", "locked", "wait", "leave", "exit"} : pc' = [pc EXCEPT ![w] = l]
        BY <3>1, <3>3 DEF WorkerStep, WorkerQuit, WorkerDispatch, WorkerLock, WorkerCheck, WorkerLeave, Goto
      <4> QED BY <4>1 DEF Shape
    <3> QED BY <3>2, <3>3
  <2> QED BY <2>2, <2>3, OthersFrame DEF Next
<1> QED BY <1>1, <1>2, <1>3, PTL DEF Spec, NoSleepAfterQuit

===============================================================================
