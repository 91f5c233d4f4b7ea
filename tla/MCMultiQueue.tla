---------------------------- MODULE MCMultiQueue ----------------------------
(* MultiQueue with a queue of two places, whose indices wrap, and one of one. *)
EXTENDS MultiQueue

Capacities == <<2, 1>>
=============================================================================
