------------------------------ MODULE MCHarbor ------------------------------
(***************************************************************************)
(* Harbor for TLC: this node is harbor 3, h3 is a service of it and h1 one *)
(* of harbor 1.  Harbor 2 only connects, sends and disconnects.            *)
(***************************************************************************)
EXTENDS Harbor

CONSTANTS h1, h3, n1

MCHarborOf == [h \in Handle |-> IF h = h1 THEN 1 ELSE 3]

=============================================================================
