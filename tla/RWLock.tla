-------------------------------- MODULE RWLock --------------------------------
(***************************************************************************)
(* skynet-src/include/rwlock.h, one action per atomic instruction of       *)
(* rwlock_rlock, rwlock_runlock, rwlock_wlock and rwlock_wunlock.  Every   *)
(* operation of the lock is a sequentially consistent std::atomic access,  *)
(* so interleaving the instructions is the whole concurrency.              *)
(*                                                                         *)
(* A thread's pc is the instruction it executes next, the number in the    *)
(* comment its line in rwlock.h.                                           *)
(*                                                                         *)
(*   "idle"     outside the lock                                           *)
(*   "r_spin"   17: spins until write is 0                                 *)
(*   "r_inc"    19: read + 1                                               *)
(*   "r_check"  20: reads write again                                      *)
(*   "r_undo"   21: read - 1, a writer came in between                     *)
(*   "reading"  returned from rwlock_rlock                                 *)
(*   "w_cas"    30: compare and exchange of write from val to 1            *)
(*   "w_drain"  32: spins until read is 0                                  *)
(*   "writing"  returned from rwlock_wlock                                 *)
(***************************************************************************)
EXTENDS Integers, FiniteSets

CONSTANTS Thread,     \* the threads that use the lock
          Writer      \* those among them that ever call rwlock_wlock

ASSUME ThreadAssumption == IsFiniteSet(Thread) /\ Writer \subseteq Thread

VARIABLES write,      \* rwlock.write
          read,       \* rwlock.read
          pc,         \* the next instruction of every thread
          val,        \* the local variable val of rwlock_wlock
          overlapped  \* auxiliary: two threads were between the call of wlock
                      \* and the return of wunlock at the same time

vars == <<write, read, pc, val, overlapped>>

PC == {"idle", "r_spin", "r_inc", "r_check", "r_undo", "reading",
       "w_cas", "w_drain", "writing"}

At(S) == {t \in Thread : pc[t] \in S}

InWrite == {"w_cas", "w_drain", "writing"}

Goto(t, l) == pc' = [pc EXCEPT ![t] = l]

Init == /\ write = 0
        /\ read = 0
        /\ pc = [t \in Thread |-> "idle"]
        /\ val = [t \in Thread |-> 0]
        /\ overlapped = FALSE

-------------------------------------------------------------------------------
\* rwlock_rlock and rwlock_runlock.

CallRlock(t) == /\ pc[t] = "idle"
                /\ Goto(t, "r_spin")
                /\ UNCHANGED <<write, read, val, overlapped>>

RSpin(t) == /\ pc[t] = "r_spin"
            /\ write = 0
            /\ Goto(t, "r_inc")
            /\ UNCHANGED <<write, read, val, overlapped>>

\* Mutant: the increment is lost.
RIncLost(t) == /\ pc[t] = "r_inc"
               /\ Goto(t, "r_check")
               /\ UNCHANGED <<write, read, val, overlapped>>

RInc(t) == /\ pc[t] = "r_inc"
           /\ read' = read + 1
           /\ Goto(t, "r_check")
           /\ UNCHANGED <<write, val, overlapped>>

\* Mutant: write is not read a second time.
RCheckOnce(t) == /\ pc[t] = "r_check"
                 /\ Goto(t, "reading")
                 /\ UNCHANGED <<write, read, val, overlapped>>

RCheck(t) == /\ pc[t] = "r_check"
             /\ Goto(t, IF write # 0 THEN "r_undo" ELSE "reading")
             /\ UNCHANGED <<write, read, val, overlapped>>

\* Mutant: the retry keeps its count.
RUndoLeaks(t) == /\ pc[t] = "r_undo"
                 /\ Goto(t, "r_spin")
                 /\ UNCHANGED <<write, read, val, overlapped>>

RUndo(t) == /\ pc[t] = "r_undo"
            /\ read' = read - 1
            /\ Goto(t, "r_spin")
            /\ UNCHANGED <<write, val, overlapped>>

RUnlock(t) == /\ pc[t] = "reading"
              /\ read' = read - 1
              /\ Goto(t, "idle")
              /\ UNCHANGED <<write, val, overlapped>>

\* rwlock_wlock and rwlock_wunlock.

CallWlock(t) == /\ t \in Writer
                /\ pc[t] = "idle"
                /\ val' = [val EXCEPT ![t] = 0]
                /\ Goto(t, "w_cas")
                /\ overlapped' = (overlapped \/ At(InWrite) # {})
                /\ UNCHANGED <<write, read>>

(***************************************************************************)
(* A compare and exchange that fails stores the value it met in val, and   *)
(* the loop of line 30 does not reset val: the next attempt compares with  *)
(* that value.                                                             *)
(***************************************************************************)
WCas(t) == /\ pc[t] = "w_cas"
           /\ \/ /\ write = val[t]
                 /\ write' = 1
                 /\ Goto(t, "w_drain")
                 /\ UNCHANGED val
              \/ /\ write # val[t]
                 /\ val' = [val EXCEPT ![t] = write]
                 /\ UNCHANGED <<write, pc>>
           /\ UNCHANGED <<read, overlapped>>

\* Mutant: the writer does not wait for the readers it found inside.
WDrainSkipped(t) == /\ pc[t] = "w_drain"
                    /\ Goto(t, "writing")
                    /\ UNCHANGED <<write, read, val, overlapped>>

WDrain(t) == /\ pc[t] = "w_drain"
             /\ read = 0
             /\ Goto(t, "writing")
             /\ UNCHANGED <<write, read, val, overlapped>>

WUnlock(t) == /\ pc[t] = "writing"
              /\ write' = 0
              /\ Goto(t, "idle")
              /\ UNCHANGED <<read, val, overlapped>>

-------------------------------------------------------------------------------
(***************************************************************************)
(* What a thread does inside rwlock_rlock, rwlock_wlock or a critical      *)
(* section, which it always leaves; calling the lock is its free choice.   *)
(***************************************************************************)
Progress(t) == \/ RSpin(t) \/ RInc(t) \/ RCheck(t) \/ RUndo(t) \/ RUnlock(t)
               \/ WCas(t) \/ WDrain(t) \/ WUnlock(t)

Next == \E t \in Thread : CallRlock(t) \/ CallWlock(t) \/ Progress(t)

Spec == Init /\ [][Next]_vars

Fairness == \A t \in Thread : WF_vars(Progress(t))

FairSpec == Spec /\ Fairness

-------------------------------------------------------------------------------
(***************************************************************************)
(* The type invariant: in particular read, an int that readers add to and  *)
(* subtract from without a test, never goes below zero.                    *)
(***************************************************************************)
TypeOK == /\ write \in {0, 1}
          /\ read \in Nat
          /\ pc \in [Thread -> PC]
          /\ val \in [Thread -> {0, 1}]
          /\ overlapped \in BOOLEAN
          /\ At(InWrite) \subseteq Writer

Counted == At({"r_check", "r_undo", "reading"})

(***************************************************************************)
(* rwlock.read is exactly the number of threads between their fetch_add    *)
(* and their fetch_sub, whatever the writers do: the retries of            *)
(* rwlock_rlock neither leak a count (a writer would then spin for ever at *)
(* line 32) nor lose one.                                                  *)
(***************************************************************************)
ReadCountExact == read = Cardinality(Counted)

(***************************************************************************)
(* As long as no two calls of the write side have overlapped, a thread     *)
(* between wlock and wunlock is alone in the lock: handle.cpp updates      *)
(* slot, name and handle_index relying on it.                              *)
(***************************************************************************)
WriterIsAlone ==
  ~overlapped => \A t \in At({"writing"}) : At({"reading", "writing"}) = {t}

(***************************************************************************)
(* The same without the proviso on writers, which is what a reader/writer  *)
(* lock (handle.h:41) promises to two threads that both call wlock.        *)
(***************************************************************************)
WritersExcludeEachOther == Cardinality(At({"writing"})) <= 1

(***************************************************************************)
(* A thread that calls rwlock_wlock alone gets in, however many readers    *)
(* come and go: readers that meet write # 0 back off (lines 20 and 21).    *)
(***************************************************************************)
WriterGetsIn ==
  \A t \in Writer : pc[t] = "w_cas" ~> (pc[t] = "writing" \/ overlapped)

(***************************************************************************)
(* Until two calls of the write side overlap, every step of the lock is a  *)
(* step of the abstract lock or changes nothing in it.                     *)
(***************************************************************************)
Abstract == INSTANCE RWLockSpec WITH readers <- At({"reading"}), writers <- At({"writing"})

ImplementsRWLock ==
  Abstract!Init /\ [][overlapped' \/ Abstract!Next]_<<At({"reading"}), At({"writing"})>>
===============================================================================
