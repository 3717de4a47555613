------------------------------ MODULE WorkerPool ------------------------------
(***************************************************************************)
(* The threads of skynet-src/start.cpp: the workers, the timer, the socket *)
(* and the monitor thread, started and joined by Start.                    *)
(*                                                                         *)
(* Of MessageDispatch (module Dispatch) a worker sees whether it returns a *)
(* queue or null; the global list is abstracted to its length.  A worker   *)
(* that gets null sleeps on the condition variable, with the predicate     *)
(* thread_unlock.                                                          *)
(***************************************************************************)
EXTENDS Integers, FiniteSets

CONSTANTS Worker,        \* the worker threads
          None,          \* the mutex is free
          MaxWork,       \* bound: the queues in the global list
          MayStop        \* whether ContextTotal() can reach zero

ASSUME PoolAssumption == /\ IsFiniteSet(Worker)
                         /\ None \notin Worker
                         /\ MaxWork \in Nat
                         /\ MayStop \in BOOLEAN

VARIABLES work,          \* the queues in the global list
          holds,         \* the workers whose message_queue is not null
          total,         \* ContextTotal() # 0
          server,        \* the socket server exists
          sleep, quit, thread_unlock, mutex,    \* of the MonitorThread
          notified,      \* the sleepers a notify_all has reached
          pc,            \* of each worker
          timer, socket, monitor, main    \* how far the other threads are

pool == <<sleep, quit, thread_unlock, mutex, notified>>
others == <<timer, socket, monitor, main>>
vars == <<work, holds, total, server, pool, pc, others>>

count == Cardinality(Worker)

Init == /\ work \in 0 .. MaxWork
        /\ holds = {}
        /\ total = TRUE
        /\ server = TRUE
        /\ sleep = 0
        /\ quit = FALSE
        /\ thread_unlock = FALSE
        /\ mutex = None
        /\ notified = {}
        /\ pc = [w \in Worker |-> "loop"]
        /\ timer = "loop"
        /\ socket = "poll"
        /\ monitor = "loop"
        /\ main = "join"

Goto(w, l) == pc' = [pc EXCEPT ![w] = l]

-------------------------------------------------------------------------------
(***************************************************************************)
(* ThreadWorker.  MessageDispatch uses up the queue it is given or takes,  *)
(* which may go back into the list, and returns the next one of the list.  *)
(***************************************************************************)
WorkerQuit(w) == /\ pc[w] = "loop"
                 /\ quit
                 /\ Goto(w, "exit")
                 /\ UNCHANGED <<work, holds, total, server, pool, others>>

WorkerDispatch(w) ==
  LET taken == IF w \in holds \/ work = 0 THEN 0 ELSE 1
      backs == IF w \in holds \/ work > 0 THEN {0, 1} ELSE {0}
  IN  /\ pc[w] = "loop"
      /\ ~quit
      /\ \E back \in backs :
           LET left == work - taken + back
           IN  IF left > 0
                 THEN /\ work' = left - 1
                      /\ holds' = holds \union {w}
                      /\ UNCHANGED pc
                 ELSE /\ work' = 0
                      /\ holds' = holds \ {w}
                      /\ Goto(w, "idle")
      /\ UNCHANGED <<total, server, pool, others>>

\* Mutant of WorkerLock: the sleeper is not counted.
WorkerLockUncounted(w) ==
  /\ pc[w] = "idle"
  /\ mutex = None
  /\ mutex' = w
  /\ Goto(w, "locked")
  /\ UNCHANGED <<work, holds, total, server, sleep, quit, thread_unlock, notified, others>>

WorkerLock(w) == /\ pc[w] = "idle"
                 /\ mutex = None
                 /\ mutex' = w
                 /\ sleep' = sleep + 1
                 /\ Goto(w, "locked")
                 /\ UNCHANGED <<work, holds, total, server, quit, thread_unlock, notified, others>>

WorkerCheck(w) == /\ pc[w] = "locked"
                  /\ Goto(w, IF quit THEN "leave" ELSE "wait")
                  /\ UNCHANGED <<work, holds, total, server, pool, others>>

(***************************************************************************)
(* cond_var.wait(lock, predicate): the predicate is tested before the      *)
(* thread blocks and whenever it wakes up.  Blocking frees the mutex.      *)
(***************************************************************************)
WorkerWait(w) ==
  /\ pc[w] \in {"wait", "woken"}
  /\ IF thread_unlock
       THEN /\ Goto(w, "leave")
            /\ UNCHANGED <<mutex, notified>>
       ELSE /\ Goto(w, "waiting")
            /\ mutex' = None
            /\ notified' = notified \ {w}
  /\ UNCHANGED <<work, holds, total, server, sleep, quit, thread_unlock, others>>

\* A thread that waits wakes up when it is notified, and spuriously.
WorkerWakes(w) == /\ pc[w] = "waiting"
                  /\ mutex = None
                  /\ mutex' = w
                  /\ Goto(w, "woken")
                  /\ UNCHANGED <<work, holds, total, server, sleep, quit, thread_unlock, notified, others>>

\* Mutant of WorkerLeave: the worker is still counted as asleep.
WorkerLeaveCounted(w) ==
  /\ pc[w] = "leave"
  /\ mutex' = None
  /\ Goto(w, "loop")
  /\ UNCHANGED <<work, holds, total, server, sleep, quit, thread_unlock, notified, others>>

\* Mutant of WorkerLeave: the mutex is not unlocked.
WorkerLeaveLocked(w) ==
  /\ pc[w] = "leave"
  /\ sleep' = sleep - 1
  /\ Goto(w, "loop")
  /\ UNCHANGED <<work, holds, total, server, quit, thread_unlock, mutex, notified, others>>

WorkerLeave(w) == /\ pc[w] = "leave"
                  /\ sleep' = sleep - 1
                  /\ mutex' = None
                  /\ Goto(w, "loop")
                  /\ UNCHANGED <<work, holds, total, server, quit, thread_unlock, notified, others>>

-------------------------------------------------------------------------------
Sleepers == {w \in Worker : pc[w] = "waiting"}

\* WakeUp(m, busy); it reads sleep without the mutex.
WakeUp(busy) == notified' = IF sleep >= count - busy THEN notified \union Sleepers ELSE notified

(***************************************************************************)
(* ThreadTimer.  Updatetime may push messages, so that a queue enters the  *)
(* list.                                                                   *)
(***************************************************************************)
Arrive == work' \in {work} \union (work + 1) .. MaxWork

TimerUpdate == /\ timer = "loop"
               /\ Arrive
               /\ timer' = IF total THEN "wake" ELSE "exit"
               /\ UNCHANGED <<holds, total, server, pool, pc, socket, monitor, main>>

TimerWakeUp == /\ timer = "wake"
               /\ WakeUp(count - 1)
               /\ timer' = "loop"
               /\ UNCHANGED <<work, holds, total, server, sleep, quit, thread_unlock, mutex, pc,
                              socket, monitor, main>>

\* SocketExit deletes the server.
TimerSocketExit == /\ timer = "exit"
                   /\ server' = FALSE
                   /\ timer' = "quit"
                   /\ UNCHANGED <<work, holds, total, pool, pc, socket, monitor, main>>

\* Mutant of TimerQuit: the flag is set without the mutex.
TimerQuitUnlocked == /\ timer = "quit"
                     /\ quit' = TRUE
                     /\ notified' = notified \union Sleepers
                     /\ timer' = "done"
                     /\ UNCHANGED <<work, holds, total, server, sleep, thread_unlock, mutex, pc,
                                    socket, monitor, main>>

TimerQuit == /\ timer = "quit"
             /\ mutex = None
             /\ quit' = TRUE
             /\ notified' = notified \union Sleepers
             /\ timer' = "done"
             /\ UNCHANGED <<work, holds, total, server, sleep, thread_unlock, mutex, pc,
                            socket, monitor, main>>

(***************************************************************************)
(* ThreadSocket: SocketPoll returns 1 with the last message of a batch, -1 *)
(* otherwise and 0 for a request to exit, which nothing sends.  Polling a  *)
(* server that has been deleted may return anything.                       *)
(***************************************************************************)
SocketPoll == /\ socket = "poll"
              /\ Arrive
              /\ socket' \in IF server THEN {"wake", "total"} ELSE {"wake", "total", "done"}
              /\ UNCHANGED <<holds, total, server, pool, pc, timer, monitor, main>>

SocketTotal == /\ socket = "total"
               /\ socket' = IF total THEN "poll" ELSE "done"
               /\ UNCHANGED <<work, holds, total, server, pool, pc, timer, monitor, main>>

SocketWakeUp == /\ socket = "wake"
                /\ WakeUp(0)
                /\ socket' = "poll"
                /\ UNCHANGED <<work, holds, total, server, sleep, quit, thread_unlock, mutex, pc,
                               timer, monitor, main>>

-------------------------------------------------------------------------------
\* ThreadMonitor.  Check finds nothing to report: nothing calls Trigger.
MonitorEnds == /\ monitor = "loop"
               /\ ~total
               /\ monitor' = "done"
               /\ UNCHANGED <<work, holds, total, server, pool, pc, timer, socket, main>>

\* Start joins every thread, then frees the MonitorThread they share.
MainJoin == /\ main = "join"
            /\ {timer, socket, monitor} = {"done"}
            /\ \A w \in Worker : pc[w] = "exit"
            /\ main' = "done"
            /\ UNCHANGED <<work, holds, total, server, pool, pc, timer, socket, monitor>>

\* The last service is released.
TotalReachesZero == /\ MayStop
                    /\ total
                    /\ total' = FALSE
                    /\ UNCHANGED <<work, holds, server, pool, pc, others>>

-------------------------------------------------------------------------------
WorkerStep(w) == \/ WorkerQuit(w) \/ WorkerDispatch(w) \/ WorkerLock(w) \/ WorkerCheck(w)
                 \/ WorkerWait(w) \/ WorkerWakes(w) \/ WorkerLeave(w)
TimerStep == TimerUpdate \/ TimerWakeUp \/ TimerSocketExit \/ TimerQuit
SocketStep == SocketPoll \/ SocketTotal \/ SocketWakeUp

Next == \/ \E w \in Worker : WorkerStep(w)
        \/ TimerStep \/ SocketStep \/ MonitorEnds \/ MainJoin \/ TotalReachesZero

Spec == Init /\ [][Next]_vars

(***************************************************************************)
(* Every thread of the process is scheduled, and a thread that waits for   *)
(* the mutex gets it if it keeps becoming free.  No spurious wake-up is    *)
(* owed to anybody, and nothing is assumed of the socket thread, which     *)
(* waits for the network.                                                  *)
(***************************************************************************)
Scheduled(w) == WorkerStep(w) /\ (pc[w] = "waiting" => w \in notified)
Locks(w) == Scheduled(w) /\ (WorkerLock(w) \/ WorkerWakes(w))

FairSpec == /\ Spec
            /\ \A w \in Worker : WF_vars(Scheduled(w)) /\ SF_vars(Locks(w))
            /\ WF_vars(TimerUpdate \/ TimerWakeUp \/ TimerSocketExit)
            /\ SF_vars(TimerQuit)
            /\ WF_vars(MonitorEnds)
            /\ WF_vars(MainJoin)

-------------------------------------------------------------------------------
(***************************************************************************)
(* The type invariant.                                                     *)
(***************************************************************************)
TypeOK == /\ work \in 0 .. MaxWork
          /\ holds \subseteq Worker
          /\ sleep \in 0 .. count
          /\ total \in BOOLEAN
          /\ server \in BOOLEAN
          /\ quit \in BOOLEAN
          /\ thread_unlock \in BOOLEAN
          /\ mutex \in Worker \union {None}
          /\ notified \subseteq Worker
          /\ pc \in [Worker -> {"loop", "idle", "locked", "wait", "waiting", "woken", "leave", "exit"}]
          /\ timer \in {"loop", "wake", "exit", "quit", "done"}
          /\ socket \in {"poll", "total", "wake", "done"}
          /\ monitor \in {"loop", "done"}
          /\ main \in {"join", "done"}

(***************************************************************************)
(* sleep counts the workers that have gone to sleep and not come back.     *)
(* WakeUp compares it with count, so a count that drifts wakes nobody or   *)
(* everybody.                                                              *)
(***************************************************************************)
Sleeping == {w \in Worker : pc[w] \in {"locked", "wait", "waiting", "woken", "leave"}}
SleepExact == sleep = Cardinality(Sleeping)

\* The worker is inside cond_var.wait: blocked, or looking at the predicate again.
Asleep(w) == pc[w] \in {"waiting", "woken"}

(***************************************************************************)
(* The quit flag is set under the mutex and read again under it before a   *)
(* worker waits: once it is set no worker enters cond_var.wait, after the  *)
(* last notification.  (A worker that is inside already blocks again when  *)
(* it is notified, because its predicate is false: WakeUpSignals.)         *)
(***************************************************************************)
NoSleepAfterQuit == [][\A w \in Worker : quit /\ ~Asleep(w) => ~Asleep(w)']_vars

(***************************************************************************)
(* A worker that is awake when the process quits leaves its loop, whatever *)
(* it was doing; only one that was inside cond_var.wait stays there.       *)
(***************************************************************************)
AwakeWorkersExit == quit ~> \A w \in Worker : pc[w] = "exit" \/ Asleep(w)

(***************************************************************************)
(* start.cpp says of WakeUp: signal sleep worker.  While every worker      *)
(* sleeps and a queue waits in the list, the timer's next WakeUp gets one  *)
(* of them to work.                                                        *)
(***************************************************************************)
WakeUpSignals ==
  (work > 0 /\ \A w \in Worker : Asleep(w)) ~> (\E w \in Worker : ~Asleep(w))

===============================================================================
