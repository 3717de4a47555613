---------------------------- MODULE MCHandleNames ----------------------------
(***************************************************************************)
(* An instance of HandleNames for TLC.  Handles are large numbers and      *)
(* names small ones: the two are never compared.                           *)
(***************************************************************************)
EXTENDS HandleNames

CONSTANTS t1, t2

TwoThreads == {t1, t2}
===============================================================================
