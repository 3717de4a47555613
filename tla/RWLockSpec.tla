------------------------------ MODULE RWLockSpec ------------------------------
(***************************************************************************)
(* What a reader/writer lock promises to the code of handle.cpp that uses  *)
(* it: any number of threads may hold it for reading together, or exactly  *)
(* one thread may hold it for writing, never both.  There is no notion of  *)
(* how a thread waits.                                                     *)
(***************************************************************************)
CONSTANT Thread

VARIABLES readers,    \* the threads that hold the lock for reading
          writers     \* the threads that hold the lock for writing

vars == <<readers, writers>>

Init == readers = {} /\ writers = {}

StartRead(t) == /\ t \notin readers
                /\ writers = {}
                /\ readers' = readers \cup {t}
                /\ UNCHANGED writers

EndRead(t) == /\ t \in readers
              /\ readers' = readers \ {t}
              /\ UNCHANGED writers

StartWrite(t) == /\ readers = {}
                 /\ writers = {}
                 /\ writers' = {t}
                 /\ UNCHANGED readers

EndWrite(t) == /\ t \in writers
               /\ writers' = writers \ {t}
               /\ UNCHANGED readers

Next == \E t \in Thread : StartRead(t) \/ EndRead(t) \/ StartWrite(t) \/ EndWrite(t)

Spec == Init /\ [][Next]_vars
===============================================================================
