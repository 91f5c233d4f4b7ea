------------------------------ MODULE RlcAmNr -------------------------------
(***************************************************************************)
(* One direction of an NR RLC AM bearer: the transmitting side of one      *)
(* rlc_am_nr entity, the receiving side of its peer, and between them the  *)
(* MAC, which loses PDUs and, with several HARQ processes, reorders them.  *)
(***************************************************************************)
EXTENDS RlcAmNrTx, RlcAmNrRx

CONSTANTS Reordered,            \* the channels that reorder: "data", "status"
          WithDiscard,          \* does the PDCP discard SDUs?
          WithReestablish       \* is the bearer re-established?

ASSUME BearerAssumption ==
  /\ Reordered \subseteq {"data", "status"}
  /\ WithDiscard \in BOOLEAN /\ WithReestablish \in BOOLEAN

VARIABLES status_ch,            \* STATUS PDUs on their way back, oldest first
          delivered             \* what the peer's PDCP has been given, in order

vars == <<txVars, rxVars, status_ch, delivered>>

Init == TxInit /\ RxInit /\ status_ch = <<>> /\ delivered = <<>>

(* The PDU the channel hands over next                                     *)
Next_of(ch, name, i) == i \in DOMAIN ch /\ (i = 1 \/ name \in Reordered)

Write(sdu) == write_sdu(sdu) /\ UNCHANGED <<rxVars, status_ch, delivered>>
Discard(sdu) == WithDiscard /\ discard_sdu(sdu) /\ UNCHANGED <<rxVars, status_ch, delivered>>

Grant(nof_bytes) == read_pdu(nof_bytes) /\ UNCHANGED <<rxVars, status_ch, delivered>>

StatusGrant(max_len) ==
  /\ build_status_pdu(max_len)
  /\ Len(status_ch) < MaxInFlight
  /\ status_ch' = status_ch \o status_pdus(max_len)
  /\ UNCHANGED <<txVars, delivered>>

(* rlc_am_base_rx::write_pdu of the peer: an AMD PDU                       *)
ReceiveData(i) ==
  /\ Next_of(data_ch, "data", i)
  /\ handle_data_pdu(data_ch[i])
  /\ delivered' = delivered \o reassembled(data_ch[i])
  /\ data_ch' = RemoveAt(data_ch, i)
  /\ UNCHANGED <<tx_next_ack, tx_next, pollVars, tx_window, retx_queue, tx_sdu_queue,
                 sdu_under_segmentation_sn, poll_expired, tx_enabled, upperVars, status_ch>>

(* The same, and there is no buffer for it                                 *)
ReceiveDataNoBuffer(i) ==
  /\ "rx" \in OutOfBuffers
  /\ Next_of(data_ch, "data", i)
  /\ handle_data_pdu_no_buffer(data_ch[i])
  /\ data_ch' = RemoveAt(data_ch, i)
  /\ UNCHANGED <<tx_next_ack, tx_next, pollVars, tx_window, retx_queue, tx_sdu_queue,
                 sdu_under_segmentation_sn, poll_expired, tx_enabled, upperVars,
                 status_ch, delivered>>

(* rlc_am_base_rx::write_pdu of the sender: a STATUS PDU                   *)
ReceiveStatus(i) ==
  /\ Next_of(status_ch, "status", i) /\ ~poll_expired
  /\ \/ handle_control_pdu(status_ch[i])
     \/ ignored_status(status_ch[i]) /\ UNCHANGED txVars
  /\ status_ch' = RemoveAt(status_ch, i)
  /\ UNCHANGED <<rxVars, delivered>>

LoseData(i) ==
  /\ i \in DOMAIN data_ch
  /\ data_ch' = RemoveAt(data_ch, i)
  /\ UNCHANGED <<tx_next_ack, tx_next, pollVars, tx_window, retx_queue, tx_sdu_queue,
                 sdu_under_segmentation_sn, poll_expired, tx_enabled, upperVars,
                 rxVars, status_ch, delivered>>

(* A loss commutes with the pending callback of t-PollRetransmit, so it is *)
(* enough to lose PDUs before it is pending and after it has run           *)
LoseStatus(i) ==
  /\ i \in DOMAIN status_ch /\ ~poll_expired
  /\ status_ch' = RemoveAt(status_ch, i)
  /\ UNCHANGED <<txVars, rxVars, delivered>>

PollTimer     == poll_timer_expires /\ UNCHANGED <<rxVars, status_ch, delivered>>
PollCallback  == poll_timer_expired /\ UNCHANGED <<rxVars, status_ch, delivered>>
Reassembly    == reassembly_expired /\ UNCHANGED <<txVars, status_ch, delivered>>
StatusAllowed == status_prohibit_expired /\ UNCHANGED <<txVars, status_ch, delivered>>

(* rlc_am::reestablish() at the sender                                     *)
Reestablish ==
  /\ WithReestablish
  /\ tx_reestablish
  /\ UNCHANGED <<rxVars, status_ch, delivered>>

Channel == 1..MaxInFlight

Next ==
  \/ \E sdu \in Sdus : Write(sdu) \/ Discard(sdu)
  \/ \E n \in Grants : Grant(n)
  \/ \E n \in StatusGrants : StatusGrant(n)
  \/ \E i \in Channel : ReceiveDataNoBuffer(i)
  \/ \E i \in Channel : ReceiveData(i) \/ ReceiveStatus(i) \/ LoseData(i) \/ LoseStatus(i)
  \/ PollTimer \/ PollCallback \/ Reassembly \/ StatusAllowed
  \/ Reestablish

(* The MAC serves a bearer that asks for bytes and one that has a status   *)
(* report to send; timers expire and their callbacks run; a channel that   *)
(* is used again and again does not lose every PDU.                        *)
Fairness ==
  /\ WF_vars(get_buffer_state > 0 /\ \E n \in Grants : Grant(n))
  /\ WF_vars(\E n \in StatusGrants : StatusGrant(n))
  /\ SF_vars(\E i \in Channel : ReceiveData(i))
  /\ SF_vars(\E i \in Channel : ReceiveStatus(i))
  /\ WF_vars(PollTimer) /\ WF_vars(PollCallback)
  /\ WF_vars(Reassembly) /\ WF_vars(StatusAllowed)

Safety == Init /\ [][Next]_vars
Spec   == Safety /\ Fairness

-----------------------------------------------------------------------------
(* Properties                                                              *)

(* Every variable of the sender keeps the range of its C++ declaration.    *)
TypeOK ==
  /\ tx_next_ack \in SNs /\ tx_next \in SNs /\ poll_sn \in SNs
  /\ pdu_without_poll \in 0..PollPdu /\ byte_without_poll \in 0..PollByte
  /\ \A sn \in SNs : /\ tx_window[sn].sdu \in Sdus \cup {None, Corrupt}
                     /\ tx_window[sn].retx_count \in NOT_STARTED..(max_retx_thresh + 1)
  /\ \A i \in DOMAIN tx_sdu_queue : tx_sdu_queue[i] \in Sdus \cup {None}
  /\ \A i \in DOMAIN retx_queue : retx_queue[i].sn \in SNs
  /\ sdu_under_segmentation_sn \in SNs \cup {None}
  /\ poll_retransmit_timer \in BOOLEAN /\ poll_expired \in BOOLEAN /\ tx_enabled \in BOOLEAN
  /\ \A i \in DOMAIN data_ch : data_ch[i] \in DataPdu
  /\ \A i \in DOMAIN status_ch : status_ch[i].ack_sn \in SNs
  /\ written \cup discarded \cup failed \subseteq Sdus
  /\ RxTypeOK

Elems(s)    == {s[i] : i \in DOMAIN s}
Distinct(s) == \A i, j \in DOMAIN s : s[i] = s[j] => i = j

(* The window holds exactly the SDUs from TX_Next_Ack up to TX_Next, and   *)
(* the one at TX_Next while it is being segmented: the ACK loop, new SDUs  *)
(* and segmentation move the three independently, and add_pdu() would      *)
(* silently evict an SDU from the slot of another.                         *)
TxWindowContiguous ==
  Outstanding(tx_window) =
    {sn \in SNs : tx_mod_base_nr(sn) < tx_mod_base_nr(tx_next)} \cup
    (IF sdu_under_segmentation_sn # None \/ tx_window[tx_next].sdu = Corrupt
     THEN {tx_next} ELSE {})

(* The two ends never disagree by more than is in flight: the receiver's   *)
(* window starts at an SN the sender has not yet removed from its own or   *)
(* at TX_Next, so a retransmission is never taken for a new SDU when the   *)
(* SN space wraps.                                                         *)
WindowsAgree ==
  tx_enabled =>
    /\ tx_mod_base_nr(rx_next) <= tx_mod_base_nr(tx_next)
    /\ tx_mod_base_nr(rx_next) <= tx_mod_base_nr(rx_next_highest)
    /\ tx_mod_base_nr(rx_next_highest) <= Cardinality(Outstanding(tx_window))

(* The peer's PDCP gets every SDU at most once, whole and unchanged,       *)
(* whatever is lost, segmented or retransmitted.                           *)
DeliveredOnce == Distinct(delivered) /\ Corrupt \notin Elems(delivered)

(* notify_delivery() tells the PDCP of an SDU once, and only of one the    *)
(* peer's PDCP has been given.                                             *)
AckedWereDelivered == Distinct(notified) /\ Elems(notified) \subseteq Elems(delivered)

(* An SDU write_sdu() has taken is not forgotten: until it is delivered or *)
(* discarded, or no buffer is found for it, it is in the queue or in the   *)
(* window of the sender.                                                   *)
NoSduForgotten ==
  tx_enabled => written \subseteq discarded \cup Elems(tx_sdu_queue) \cup
                  {tx_window[sn].sdu : sn \in SNs} \cup Elems(delivered)

(* An SDU reaches the peer's PDCP once and whole before the own PDCP is    *)
(* told so, once.                                                          *)
ExactlyOnce == DeliveredOnce /\ AckedWereDelivered

(* The state of the two ends fits together: window, queue and sequence     *)
(* numbers of the sender with each other, with those of the receiver and   *)
(* with what was delivered and acknowledged, through losses, discards,     *)
(* segmentation and re-establishment, and no assertion fails.              *)
BearerConsistent ==
  /\ TypeOK /\ TxWindowContiguous /\ WindowsAgree
  /\ NoSduForgotten /\ ExactlyOnce /\ RxAssertionsHold

(* "To make sure we do not mess up the segment list" (rlc_am_nr.cc:1285):  *)
(* the segment list of an SDU in the window cuts the bytes sent so far     *)
(* into adjacent, non-empty pieces, so that every NACKed byte is found.    *)
Tiles(list) ==
  \A i \in DOMAIN list :
    /\ list[i].so = IF i = 1 THEN 0 ELSE list[i - 1].so + list[i - 1].len
    /\ list[i].len > 0 /\ list[i].so + list[i].len <= N_bytes
SegmentListsTile == \A sn \in SNs : Tiles(tx_window[sn].segment_list)

(* The bearer is an implementation of what the PDCP is promised: one SDU   *)
(* is handed over at a time, never twice, never after discard_sdu() has    *)
(* taken it back, and notify_delivery() reports only what was handed over. *)
Occurrences(sdu) == Cardinality({i \in DOMAIN delivered : delivered[i] = sdu})
Promised == INSTANCE Bearer WITH acked  <- Elems(notified),
                                 handed <- [sdu \in Sdus |-> Occurrences(sdu)]
ImplementsBearer == Promised!BearerSpec

(* Every SDU the bearer takes is acknowledged in the end, or discarded.    *)
SdusAcknowledged ==
  \A sdu \in Sdus : (sdu \in written) ~> (sdu \in Elems(notified) \cup discarded)

(* An SDU with nothing before it is not stuck, whatever is lost: the       *)
(* answer to a poll or t-PollRetransmit recovers the front of the window.  *)
FirstSduAcknowledged == (1 \in written) ~> (1 \in Elems(notified) \cup discarded)

(* The bearer comes to rest: whatever is lost, once the upper layer stops  *)
(* writing the sender in the end has nothing to send, no timer running and *)
(* no callback pending, so polls and retransmissions do not feed each      *)
(* other for ever.                                                         *)
EventuallyQuiet ==
  <>[](get_buffer_state = 0 /\ ~poll_retransmit_timer /\ ~poll_expired)
=============================================================================
