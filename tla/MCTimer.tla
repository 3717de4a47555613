------------------------------- MODULE MCTimer -------------------------------
(***************************************************************************)
(* An instance of Timer for TLC: two ticks in the near wheel, two lists in *)
(* each level, times of five bits.                                         *)
(***************************************************************************)
EXTENDS Timer

CONSTANTS n1, n2
===============================================================================
