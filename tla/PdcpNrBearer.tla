---------------------------- MODULE PdcpNrBearer ----------------------------
(***************************************************************************)
(* The transmitting side of one pdcp_entity_nr and the receiving side of   *)
(* its peer over an RLC bearer: Bearer is what RlcAmNr is shown to         *)
(* implement.  In unacknowledged mode the bearer also loses SDUs and never *)
(* reports their delivery.  An SDU of the bearer is the COUNT it was       *)
(* written under (sdu->md.pdcp_sn); the peer only sees its SN.             *)
(***************************************************************************)
EXTENDS PdcpNr, Bearer

VARIABLES sent,         \* how often rlc->write_sdu() has been called for a COUNT
          out_of_reach  \* history: has the sender been a window or more ahead?

vars == <<pdcpVars, bearerVars, sent, out_of_reach>>

(* A step that does not reach the receiver passes nothing up               *)
receiver_idle == upper' = {} /\ UNCHANGED <<cfg, rxState, integrity_error>>

ASSUME BearerAssumption == Sdus = Counts

(* The SDUs before StartCount have been sent, handed over and, in          *)
(* acknowledged mode, notified                                             *)
Init ==
  /\ PdcpInit
  /\ written = 0..(StartCount - 1) /\ discarded = {}
  /\ handed = [c \in Sdus |-> IF c < StartCount THEN 1 ELSE 0] /\ sent = handed
  /\ acked = IF cfg.rlc_mode = "AM" THEN written ELSE {}
  /\ out_of_reach = FALSE

(* What may still reach the receiver, and what it waits for, should be     *)
(* less than half the space of the SNs behind the sender.  Nothing in      *)
(* write_sdu() sees to it: with a finite t-Reordering and little delay it  *)
(* is so, and the history variable notes when it is not.                   *)
outstanding  == Pending \cup {rx_deliv}
within_reach == ~rx_overflow => \A c \in outstanding : tx_next < c + window_size

(* write_sdu() drops the SDU when the queue of the RLC is full, which is   *)
(* no step here                                                            *)
Write ==
  /\ write_sdu
  /\ out_of_reach' = (out_of_reach \/ ~within_reach)
  /\ sent' = [sent EXCEPT ![tx_next] = @ + 1]
  /\ written' = written \cup {tx_next}
  /\ receiver_idle /\ UNCHANGED <<discarded, handed, acked>>

Receive(count) ==
  /\ HandOver(count)
  /\ write_pdu(SN(count), count)
  /\ UNCHANGED <<cfg, pdcpTxVars, sent, out_of_reach>>

(* RLC UM does not retransmit                                              *)
Lose(count) ==
  /\ cfg.rlc_mode = "UM"
  /\ GiveUp(count)
  /\ receiver_idle /\ UNCHANGED <<pdcpTxVars, sent, out_of_reach>>

(* rlc->discard_sdu(): "It's the RLC to actually discard, if no segment    *)
(* was transmitted yet"                                                    *)
DiscardTimer(count) ==
  /\ discard_callback(count)
  /\ GiveUp(count) \/ UNCHANGED bearerVars
  /\ receiver_idle /\ UNCHANGED <<sent, out_of_reach>>

Notify(counts) ==
  /\ cfg.rlc_mode = "AM"
  /\ Acknowledge(counts)
  /\ notify_delivery(counts)
  /\ receiver_idle /\ UNCHANGED <<sent, out_of_reach>>

Reordering == reordering_callback /\ UNCHANGED <<cfg, pdcpTxVars, bearerVars, sent, out_of_reach>>

Next ==
  \/ Write \/ Reordering
  \/ \E c \in Sdus : Receive(c) \/ Lose(c) \/ DiscardTimer(c)
  \/ \E cs \in SUBSET (GivenToPeer \ acked) : Notify(cs)

(* A running timer with a duration expires                                 *)
Spec == Init /\ [][Next]_vars /\ WF_vars(Reordering)

-----------------------------------------------------------------------------
(* Properties                                                              *)

(* The variables of the entity keep the range of their C++ declarations    *)
(* and of the history variables.                                           *)
TypeOK ==
  /\ cfg \in Config
  /\ tx_next \in Counts /\ rx_next \in Counts /\ rx_deliv \in Counts /\ rx_reord \in Counts
  /\ tx_overflow \in BOOLEAN /\ rx_overflow \in BOOLEAN /\ reordering_timer \in BOOLEAN
  /\ discard_timers \subseteq Counts /\ reorder_queue \subseteq Entry
  /\ upper \subseteq Entry /\ out_of_reach \in BOOLEAN

(* The peer works out the COUNT every PDU was sent under, so that it is    *)
(* deciphered and verified with the right one: the HFN is not sent, both   *)
(* ends count it, also over a wrap of the SN, gaps and late arrivals.      *)
CountsAgree ==
  /\ \A e \in reorder_queue \cup upper : e.sdu = e.count
  /\ ~integrity_error

(* The upper layer gets the SDUs in ascending order of COUNT and none of   *)
(* them twice, whatever the order of arrival and the expiries of           *)
(* t-Reordering: a call passes up only COUNTs from RX_DELIV on, and leaves *)
(* RX_DELIV behind them.                                                   *)
DeliveredInOrder ==
  [][/\ rx_deliv <= rx_deliv' \/ rx_overflow'
     /\ \A e \in upper' :
          rx_deliv <= e.count /\ (e.count < rx_deliv' \/ rx_overflow')]_vars

(* What waits is between RX_DELIV and RX_NEXT, and while there is a gap    *)
(* t-Reordering runs for a COUNT beyond it: no PDU is held back with no    *)
(* timer to release it.  The last COUNT of all is left out: RX_NEXT wraps  *)
(* to zero behind it, and it is held until everything before it is there.  *)
WindowTimed ==
  CountMod - 1 \notin held(reorder_queue) /\ ~rx_overflow =>
    /\ rx_deliv <= rx_next
    /\ \A c \in held(reorder_queue) : rx_deliv < c /\ c < rx_next
    /\ reordering_timer => rx_deliv < rx_reord /\ rx_reord <= rx_next
    /\ ~reordering_timer /\ cfg.t_reordering # "infinity" => rx_deliv = rx_next

(* No COUNT is used twice for ciphering: TX_NEXT stops at its last value.  *)
NoCountReuse == \A c \in Sdus : sent[c] <= 1

(* An SDU the RLC has reported as delivered has no discard timer, and a    *)
(* COUNT that has one was written: after an early or a late report no      *)
(* timer fires for an SDU that is no longer the RLC's.                     *)
DiscardTimersMatch ==
  /\ discard_timers \subseteq written \ acked
  /\ cfg.rlc_mode = "UM" => discard_timers = {}

(* No COUNT is used for two SDUs, and as long as the sender stayed less    *)
(* than half the space of the SNs ahead of what was still to come, both    *)
(* ends use one COUNT for an SDU.                                          *)
CountsUnique == NoCountReuse /\ (~out_of_reach => CountsAgree)

(* The state variables of the entity, what it holds and the timers agree.  *)
EntityConsistent == TypeOK /\ WindowTimed /\ DiscardTimersMatch

(* What the RLC hands over is not lost inside the entity: unless           *)
(* t-Reordering had given up waiting for it when it came, or the sender    *)
(* had got half the space of the SNs ahead, it is held until the call that *)
(* passes it up.                                                           *)
NothingLost ==
  [][~out_of_reach /\ ~rx_overflow => {c \in GivenToPeer' : c >= rx_deliv} \subseteq
                       {e.count : e \in reorder_queue' \cup upper'}]_vars

(* Nothing is held back for ever when t-Reordering has a duration: however *)
(* many gaps the bearer leaves, the queue is emptied again and again.      *)
HeldPdusReleased ==
  cfg.t_reordering = "finite" => []<>(held(reorder_queue) \subseteq {CountMod - 1})
=============================================================================
