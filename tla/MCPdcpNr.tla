------------------------------- MODULE MCPdcpNr ------------------------------
(* Small instances of PdcpNrBearer                                         *)
EXTENDS PdcpNrBearer

CONSTANT MaxAmSdus      \* how many SDUs are written in acknowledged mode

AllCounts   == 0..(SnMod * HfnMod - 1)

Bearer_of(t, mode, integ) ==
  [t_reordering |-> t, rlc_mode |-> mode, integrity |-> integ, ciphering |-> TRUE]
Deployments == {Bearer_of("finite", "AM", TRUE), Bearer_of("finite", "UM", FALSE),
                Bearer_of("infinity", "UM", FALSE), Bearer_of("ms0", "UM", TRUE)}

(* In unacknowledged mode the sender goes on to the last COUNT, or to the  *)
(* SDU that takes it out of reach                                          *)
MayWrite == /\ ~out_of_reach
            /\ cfg.rlc_mode = "AM" => tx_next < StartCount + MaxAmSdus
MCNext ==
  \/ MayWrite /\ Write
  \/ Reordering
  \/ \E c \in Sdus : Receive(c) \/ Lose(c) \/ DiscardTimer(c)
  \/ \E cs \in SUBSET (GivenToPeer \ acked) : Notify(cs)

MCSpec == Init /\ [][MCNext]_vars /\ WF_vars(Reordering)
=============================================================================
