------------------------------ MODULE MCTimers ------------------------------
(* Small instances of Timers for TLC.                                      *)
EXTENDS Timers

ShortDurations  == {0, 3}
NoUses          == {}
=============================================================================
