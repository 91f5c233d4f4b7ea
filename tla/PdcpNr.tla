------------------------------- MODULE PdcpNr -------------------------------
(***************************************************************************)
(* pdcp_entity_nr (lib/src/pdcp/pdcp_entity_nr.cc): the COUNTs, the        *)
(* discard timers of the transmitting side, and the reordering window of   *)
(* the receiving side.  All calls run on the stack thread, so that each    *)
(* is one step.  A PDU is the SN of its header and its payload; what       *)
(* ciphering and MAC-I do to the payload is that they depend on the COUNT. *)
(***************************************************************************)
EXTENDS Naturals

CONSTANTS SnMod,        \* 2 ^ cfg.sn_len
          HfnMod,       \* 2 ^ (32 - cfg.sn_len)
          Configs,      \* the configurations of the bearer
          StartCount,   \* the COUNT both ends have got to without a loss
          Corrupt       \* what deciphering with a wrong COUNT gives

window_size == SnMod \div 2
CountMod    == SnMod * HfnMod
Counts      == 0..(CountMod - 1)

(* The payload of an SDU is named by the COUNT it was sent under.          *)
Payload == Counts \cup {Corrupt}

(* cfg.t_reordering: ms0 leaves the timer without a duration, and timers   *)
(* that were never set do not expire                                       *)
TReordering == {"ms0", "finite", "infinity"}
Config == [t_reordering : TReordering, rlc_mode : {"AM", "UM"},
           integrity : BOOLEAN, ciphering : BOOLEAN]

ASSUME PdcpAssumption ==
  /\ Configs \subseteq Config
  /\ HfnMod \in Nat \ {0} /\ SnMod \in Nat \ {0} /\ window_size * 2 = SnMod
  /\ StartCount \in Counts
  /\ Corrupt \notin Nat

VARIABLES cfg,
          tx_next, tx_overflow,
          discard_timers,       \* discard_timers_map: the COUNTs with a running timer
          rx_next, rx_deliv, rx_reord, rx_overflow,
          reorder_queue,        \* the PDUs held back, as records of COUNT and payload
          reordering_timer,     \* is t-Reordering running?
          upper,                \* what the last call passed to the upper layer: the loops over
                                \* reorder_queue go in ascending order of COUNT
          integrity_error       \* has notify_pdcp_integrity_error() been called?

pdcpTxVars == <<tx_next, tx_overflow, discard_timers>>
rxState    == <<rx_next, rx_deliv, rx_reord, rx_overflow, reorder_queue, reordering_timer>>
pdcpRxVars == <<rxState, upper, integrity_error>>
pdcpVars   == <<cfg, pdcpTxVars, pdcpRxVars>>

Entry == [count : Counts, sdu : Payload]

PdcpTxInit == tx_next = StartCount /\ tx_overflow = FALSE /\ discard_timers = {}

PdcpRxInit ==
  /\ rx_next = StartCount /\ rx_deliv = StartCount /\ rx_reord = 0 /\ rx_overflow = FALSE
  /\ reorder_queue = {} /\ reordering_timer = FALSE
  /\ upper = {} /\ integrity_error = FALSE

(* configure(), called once, and StartCount SDUs sent one after the other  *)
PdcpInit == cfg \in Configs /\ PdcpTxInit /\ PdcpRxInit

-----------------------------------------------------------------------------
(* COUNT, HFN and SN                                                       *)

HFN(count)     == count \div SnMod
SN(count)      == count % SnMod
COUNT(hfn, sn) == (hfn % HfnMod) * SnMod + sn
next_count(count) == (count + 1) % CountMod

-----------------------------------------------------------------------------
(* Transmitting side                                                       *)

(* "disable discard timer if using UM"                                     *)
with_discard_timer == cfg.rlc_mode = "AM"

(* write_sdu() up to rlc->write_sdu(), which takes the SDU under tx_next.  *)
write_sdu ==
  /\ ~tx_overflow
  /\ tx_overflow' = (tx_next + 1 = CountMod)
  /\ tx_next' = next_count(tx_next)
  /\ discard_timers' = IF with_discard_timer THEN discard_timers \cup {tx_next}
                                             ELSE discard_timers

(* notify_delivery() stops the timers of what has arrived                  *)
notify_delivery(counts) ==
  /\ discard_timers' = discard_timers \ counts
  /\ UNCHANGED <<tx_next, tx_overflow>>

(* discard_callback, after rlc->discard_sdu()                              *)
discard_callback(count) ==
  /\ count \in discard_timers
  /\ discard_timers' = discard_timers \ {count}
  /\ UNCHANGED <<tx_next, tx_overflow>>

-----------------------------------------------------------------------------
(* Receiving side                                                          *)

(* The HFN of a received SN, from the position of the window; the bug is   *)
(* an off-by-one at its upper end.                                         *)
rcvd_hfn_OneMore(sn) ==
  IF sn + window_size < SN(rx_deliv) THEN HFN(rx_deliv) + 1
  ELSE IF sn > SN(rx_deliv) + window_size THEN HFN(rx_deliv) + HfnMod - 1
  ELSE HFN(rx_deliv)
rcvd_hfn(sn) ==
  IF sn + window_size < SN(rx_deliv) THEN HFN(rx_deliv) + 1
  ELSE IF sn >= SN(rx_deliv) + window_size THEN HFN(rx_deliv) + HfnMod - 1
  ELSE HFN(rx_deliv)

rcvd_count(sn) == COUNT(rcvd_hfn(sn), sn)

(* cipher_decrypt() and integrity_verify() with the received COUNT         *)
deciphered(count, sdu)      == IF cfg.ciphering /\ count # sdu THEN Corrupt ELSE sdu
integrity_verify(count, sdu) == cfg.integrity => count = sdu

held(queue) == {e.count : e \in queue}

(* deliver_all_consecutive_counts(): it stops at the first COUNT that is   *)
(* not in the queue, so at the end of the COUNTs at the latest             *)
end_of_run(queue, deliv) ==
  CHOOSE e \in deliv..CountMod :
    /\ \A c \in deliv..(e - 1) : c \in held(queue)
    /\ e \notin held(queue)

below(queue, count) == {e \in queue : e.count < count}

(* What write_pdu() leaves of the queue before the timer is looked at      *)
deliver_from(queue, deliv) ==
  LET e == end_of_run(queue, deliv) IN
    /\ upper' = below(queue, e)
    /\ reorder_queue' = queue \ below(queue, e)
    /\ rx_deliv' = e % CountMod
    /\ rx_overflow' = (e = CountMod)

(* Stop t-Reordering when the gap it was started for is closed, start it   *)
(* when there is one; the bug does not start it again in the same call.    *)
update_reordering_NoRestart ==
  LET running == reordering_timer /\ rx_deliv' < rx_reord
      start   == /\ cfg.t_reordering # "infinity" /\ ~reordering_timer
                 /\ rx_deliv' < rx_next'
  IN /\ reordering_timer' = (running \/ start)
     /\ rx_reord' = IF start THEN rx_next' ELSE rx_reord
update_reordering ==
  LET running == reordering_timer /\ rx_deliv' < rx_reord
      start   == cfg.t_reordering # "infinity" /\ ~running /\ rx_deliv' < rx_next'
  IN /\ reordering_timer' = (running \/ start)
     /\ rx_reord' = IF start THEN rx_next' ELSE rx_reord

(* The early returns of write_pdu(); the bugs accept what is below         *)
(* RX_DELIV, and drop RX_DELIV itself.                                     *)
discarded_pdu_AtDeliv(sn, sdu) ==
  rx_overflow \/ (rcvd_count(sn) <= rx_deliv /\ rx_deliv # 0)
              \/ rcvd_count(sn) \in held(reorder_queue)
discarded_pdu_Duplicates(sn, sdu) == rx_overflow \/ rcvd_count(sn) \in held(reorder_queue)
discarded_pdu(sn, sdu) ==
  \/ rx_overflow
  \/ rcvd_count(sn) < rx_deliv
  \/ rcvd_count(sn) \in held(reorder_queue)

invalid_pdu(sn, sdu) == ~rx_overflow /\ ~integrity_verify(rcvd_count(sn), sdu)

write_pdu(sn, sdu) ==
  \/ /\ invalid_pdu(sn, sdu)
     /\ integrity_error' = TRUE /\ upper' = {}
     /\ UNCHANGED rxState
  \/ /\ ~invalid_pdu(sn, sdu) /\ discarded_pdu(sn, sdu)
     /\ upper' = {}
     /\ UNCHANGED <<rxState, integrity_error>>
  \/ /\ ~invalid_pdu(sn, sdu) /\ ~discarded_pdu(sn, sdu)
     /\ LET count == rcvd_count(sn)
            queue == reorder_queue \cup {[count |-> count, sdu |-> deciphered(count, sdu)]}
        IN /\ rx_next' = IF count >= rx_next THEN next_count(count) ELSE rx_next
           /\ \/ count = rx_deliv /\ deliver_from(queue, rx_deliv)
              \/ /\ count # rx_deliv /\ reorder_queue' = queue /\ upper' = {}
                 /\ UNCHANGED <<rx_deliv, rx_overflow>>
     /\ update_reordering
     /\ UNCHANGED integrity_error

(* reordering_callback: everything below RX_REORD goes up, and what        *)
(* follows it without a gap; the bug does not wait for the next gap.       *)
reordering_callback_NoRestart ==
  /\ reordering_timer /\ cfg.t_reordering = "finite" /\ ~rx_overflow
  /\ deliver_from(reorder_queue, rx_reord)
  /\ reordering_timer' = FALSE
  /\ UNCHANGED <<rx_next, rx_reord, integrity_error>>
reordering_callback ==
  /\ reordering_timer /\ cfg.t_reordering = "finite"
  /\ IF rx_overflow
       THEN /\ upper' = below(reorder_queue, rx_reord)
            /\ reorder_queue' = reorder_queue \ below(reorder_queue, rx_reord)
            /\ rx_deliv' = rx_reord
            /\ UNCHANGED rx_overflow
       ELSE deliver_from(reorder_queue, rx_reord)
  /\ reordering_timer' = (rx_deliv' < rx_next)
  /\ rx_reord' = IF reordering_timer' THEN rx_next ELSE rx_reord
  /\ UNCHANGED <<rx_next, integrity_error>>
=============================================================================
