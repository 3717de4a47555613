------------------------------- MODULE MCRWLock -------------------------------
(***************************************************************************)
(* An instance of RWLock for TLC: four threads, of which two also write.   *)
(***************************************************************************)
EXTENDS RWLock

CONSTANTS t1, t2, t3, t4

FourThreads == {t1, t2, t3, t4}
TwoThreads == {t1, t2}
===============================================================================
