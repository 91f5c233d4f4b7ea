----------------------------- MODULE MCRlcAmNr ------------------------------
(* Small instances of RlcAmNr for TLC.                                     *)
EXTENDS RlcAmNr
OneSdu == {1}
TwoSdus == 1..2
FiveSdus == 1..5
NoPdus == {}
NoReordering == {}
WholeGrant == {20}
SmallOrWhole == {3, 5, 20}
CutsOrWhole == {3, 4, 5, 20}
=============================================================================
