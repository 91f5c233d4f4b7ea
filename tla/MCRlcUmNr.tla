----------------------------- MODULE MCRlcUmNr ------------------------------
(* Three SDUs, whose sequence numbers wrap after the second.                *)
EXTENDS RlcUmNr

Sdus_of == 1..3
=============================================================================
