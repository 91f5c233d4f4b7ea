----------------------------- MODULE RlcAmNrTx ------------------------------
(***************************************************************************)
(* rlc_am_nr_tx (lib/src/rlc/rlc_am_nr.cc): the transmitting side of an NR *)
(* RLC AM entity.  Every handler holds the entity's mutex, so it is one    *)
(* action.  The stack thread runs the timers, the PDCP and the incoming    *)
(* PDUs; a PHY thread calls read_pdu(), also between the expiry of         *)
(* t-PollRetransmit and its callback, which takes the mutex by itself.     *)
(***************************************************************************)
EXTENDS RlcAmNrStatus

CONSTANTS PollPdu, PollByte,    \* poll_pdu and poll_byte, 0 if infinite
          max_retx_thresh,
          TxQueueLength,        \* tx_queue_length
          Grants,               \* sizes of the grants the MAC gives
          MaxInFlight,          \* bound: PDUs in flight
          LenMod                \* values of a segment length (2^32)

ASSUME TxAssumption ==
  /\ PollPdu \in Nat /\ PollByte \in Nat
  /\ max_retx_thresh \in Nat \ {0}
  /\ TxQueueLength \in Nat \ {0}
  /\ Grants \subseteq Nat
  /\ MaxInFlight \in Nat \ {0}
  /\ LenMod \in Nat /\ LenMod > 2 * N_bytes

VARIABLES tx_next_ack, tx_next, poll_sn, pdu_without_poll, byte_without_poll,
          tx_window, retx_queue, tx_sdu_queue, sdu_under_segmentation_sn,
          poll_retransmit_timer,  \* is it running?
          poll_expired,           \* expired, its callback still to run
          tx_enabled,
          data_ch,                \* PDUs handed to the MAC, oldest first
          written,                \* SDUs write_sdu() has taken
          discarded,              \* SDUs discard_sdu() has taken back, or
                                  \* that were dropped for want of a buffer
          notified,               \* what notify_delivery() has been told, in order
          failed                  \* SDUs notify_failure() has been called for

pollVars  == <<poll_sn, pdu_without_poll, byte_without_poll, poll_retransmit_timer>>
upperVars == <<written, discarded, notified, failed>>
txVars    == <<tx_next_ack, tx_next, pollVars, tx_window, retx_queue, tx_sdu_queue,
               sdu_under_segmentation_sn, poll_expired, tx_enabled, data_ch, upperVars>>

(* rlc_amd_tx_pdu_nr: sdu is None where the window does not have the SN;   *)
(* retx_count stays at max_retx_thresh + 1 once it is beyond the threshold *)
NOT_STARTED == -1
NoTxPdu == [sdu |-> None, segment_list |-> <<>>, retx_count |-> NOT_STARTED]

tx_has_sn(sn)  == sn \in SNs /\ tx_window[sn].sdu # None
Outstanding(w) == {sn \in SNs : w[sn].sdu # None}
full_OneMore(w) == Cardinality(Outstanding(w)) > AM_Window_Size     \* (bug)
full(w)        == Cardinality(Outstanding(w)) = AM_Window_Size

tx_mod_base_nr(sn)  == mod_base(sn, tx_next_ack)
valid_tx_ack_sn_Short(sn) ==    \* (bug) the SN after a full window is refused
  0 < tx_mod_base_nr(sn) /\ tx_mod_base_nr(sn) < AM_Window_Size
valid_tx_ack_sn(sn) == 0 < tx_mod_base_nr(sn) /\ tx_mod_base_nr(sn) <= AM_Window_Size

-----------------------------------------------------------------------------
TxInit ==
  /\ tx_next_ack = 0 /\ tx_next = 0 /\ poll_sn = 0
  /\ pdu_without_poll = 0 /\ byte_without_poll = 0
  /\ tx_window = [sn \in SNs |-> NoTxPdu]
  /\ retx_queue = <<>> /\ tx_sdu_queue = <<>>
  /\ sdu_under_segmentation_sn = None
  /\ poll_retransmit_timer = FALSE /\ poll_expired = FALSE
  /\ tx_enabled = TRUE
  /\ data_ch = <<>>
  /\ written = {} /\ discarded = {} /\ notified = <<>> /\ failed = {}

(* write_sdu: an SDU that finds the queue full is dropped.  SDUs are       *)
(* written in order of their number, which is their PDCP SN.               *)
write_sdu(sdu) ==
  /\ tx_enabled /\ Len(tx_sdu_queue) < TxQueueLength
  /\ sdu \notin written /\ \A x \in Sdus : x < sdu => x \in written
  /\ tx_sdu_queue' = Append(tx_sdu_queue, sdu)
  /\ written' = written \cup {sdu}
  /\ UNCHANGED <<tx_next_ack, tx_next, pollVars, tx_window, retx_queue,
                 sdu_under_segmentation_sn, poll_expired, tx_enabled, data_ch,
                 discarded, notified, failed>>

(* (bug) the head of the queue is discarded, wherever the SDU is           *)
discard_sdu_Head(sdu) ==
  /\ tx_enabled /\ Len(tx_sdu_queue) < TxQueueLength
  /\ \E i \in DOMAIN tx_sdu_queue :
       tx_sdu_queue[i] = sdu /\ tx_sdu_queue' = [tx_sdu_queue EXCEPT ![1] = None]
  /\ discarded' = discarded \cup {sdu}
  /\ UNCHANGED <<tx_next_ack, tx_next, pollVars, tx_window, retx_queue,
                 sdu_under_segmentation_sn, poll_expired, tx_enabled, data_ch,
                 written, notified, failed>>

(* discard_sdu: the entry becomes a null pointer and stays in the queue.   *)
(* The loop of apply_first() has no turns when the queue is full.          *)
discard_sdu(sdu) ==
  /\ tx_enabled /\ Len(tx_sdu_queue) < TxQueueLength
  /\ \E i \in DOMAIN tx_sdu_queue :
       tx_sdu_queue[i] = sdu /\ tx_sdu_queue' = [tx_sdu_queue EXCEPT ![i] = None]
  /\ discarded' = discarded \cup {sdu}
  /\ UNCHANGED <<tx_next_ack, tx_next, pollVars, tx_window, retx_queue,
                 sdu_under_segmentation_sn, poll_expired, tx_enabled, data_ch,
                 written, notified, failed>>

-----------------------------------------------------------------------------
(* (bug) no poll when the buffers run empty                                *)
poll_due_NotEmpty(is_retx, bytes, queue, retx, segm_sn, w) ==
  \/ ~is_retx /\ PollPdu > 0 /\ pdu_without_poll + 1 >= PollPdu
  \/ ~is_retx /\ PollByte > 0 /\ byte_without_poll + bytes >= PollByte
  \/ full(w)

(* get_pdu_poll, with the queues, the window and the SDU under             *)
(* segmentation as they are when it is called                              *)
poll_due(is_retx, bytes, queue, retx, segm_sn, w) ==
  \/ ~is_retx /\ PollPdu > 0 /\ pdu_without_poll + 1 >= PollPdu
  \/ ~is_retx /\ PollByte > 0 /\ byte_without_poll + bytes >= PollByte
  \/ queue = <<>> /\ retx = <<>> /\ segm_sn = None
  \/ full(w)

get_pdu_poll(sn, is_retx, bytes, poll) ==
  /\ pdu_without_poll' = IF poll \/ PollPdu = 0 THEN 0
                         ELSE IF is_retx THEN pdu_without_poll ELSE pdu_without_poll + 1
  /\ byte_without_poll' = IF poll \/ PollByte = 0 THEN 0
                          ELSE IF is_retx THEN byte_without_poll ELSE byte_without_poll + bytes
  /\ poll_sn' = IF poll /\ ~is_retx THEN sn ELSE poll_sn
  /\ poll_retransmit_timer' = (poll_retransmit_timer \/ poll)

Send(pdu) == Len(data_ch) < MaxInFlight /\ data_ch' = Append(data_ch, pdu)

Pdu(sn, si, so, len, poll) ==
  [sn |-> sn, si |-> si, so |-> so, len |-> len, p |-> poll, sdu |-> tx_window'[sn].sdu]

(* TX_Next moves when the last byte of the SDU is submitted                *)
tx_next_after(complete) == IF complete THEN next_sn(tx_next) ELSE tx_next

(* build_new_pdu and build_new_sdu_segment: null entries in front of the   *)
(* first SDU of the queue are read with it                                 *)
build_new_pdu(nof_bytes) ==
  LET i     == CHOOSE i \in DOMAIN tx_sdu_queue :
                 /\ tx_sdu_queue[i] # None
                 /\ \A j \in 1..(i - 1) : tx_sdu_queue[j] = None
      queue == SubSeq(tx_sdu_queue, i + 1, Len(tx_sdu_queue))
      whole == N_bytes + min_hdr_size <= nof_bytes
      len   == IF whole THEN N_bytes ELSE nof_bytes - min_hdr_size
      segm  == IF whole THEN None ELSE tx_next
      w     == [tx_window EXCEPT ![same_slot(tx_next)] = NoTxPdu,
                  ![tx_next] = [NoTxPdu EXCEPT !.sdu = tx_sdu_queue[i],
                                  !.segment_list = IF whole THEN <<>>
                                                   ELSE <<[so |-> 0, len |-> len]>>]]
      poll  == poll_due(FALSE, len, queue, retx_queue, segm, w)
  IN  /\ nof_bytes > min_hdr_size /\ ~full(tx_window)
      /\ \E j \in DOMAIN tx_sdu_queue : tx_sdu_queue[j] # None
      /\ tx_sdu_queue' = queue
      /\ tx_window' = w
      /\ sdu_under_segmentation_sn' = segm
      /\ get_pdu_poll(tx_next, FALSE, len, poll)
      /\ tx_next' = tx_next_after(whole)
      /\ Send(Pdu(tx_next, IF whole THEN "full" ELSE "first", 0, len, poll))
      /\ UNCHANGED <<tx_next_ack, retx_queue, poll_expired, tx_enabled, upperVars>>

(* No buffer for the SDU, which has been read from the queue: it is lost,  *)
(* and TX_Next stays although the window has an entry for it, with a null  *)
(* pointer, until the next SDU takes its place                             *)
build_new_pdu_no_buffer(nof_bytes) ==
  /\ nof_bytes > min_hdr_size /\ ~full(tx_window)
  /\ \E i \in DOMAIN tx_sdu_queue :
       /\ tx_sdu_queue[i] # None /\ \A j \in 1..(i - 1) : tx_sdu_queue[j] = None
       /\ tx_sdu_queue' = SubSeq(tx_sdu_queue, i + 1, Len(tx_sdu_queue))
       /\ discarded' = discarded \cup {tx_sdu_queue[i]}
  /\ tx_window' = [tx_window EXCEPT ![same_slot(tx_next)] = NoTxPdu,
                                    ![tx_next] = [NoTxPdu EXCEPT !.sdu = Corrupt]]
  /\ UNCHANGED <<tx_next_ack, tx_next, pollVars, retx_queue, sdu_under_segmentation_sn,
                 poll_expired, tx_enabled, data_ch, written, notified, failed>>

(* Only null entries are left: they are read, and there is nothing to send *)
read_null_sdus(nof_bytes) ==
  /\ nof_bytes > min_hdr_size /\ ~full(tx_window)
  /\ tx_sdu_queue # <<>> /\ \A j \in DOMAIN tx_sdu_queue : tx_sdu_queue[j] = None
  /\ tx_sdu_queue' = <<>>
  /\ UNCHANGED <<tx_next_ack, tx_next, pollVars, tx_window, retx_queue,
                 sdu_under_segmentation_sn, poll_expired, tx_enabled, data_ch, upperVars>>

(* The bytes of the SDU under segmentation that have been sent             *)
last_byte == LET seg == Last(tx_window[sdu_under_segmentation_sn].segment_list)
             IN  seg.so + seg.len

build_continuation_sdu_segment(nof_bytes) ==
  LET sn    == sdu_under_segmentation_sn
      rest  == N_bytes - last_byte + max_hdr_size <= nof_bytes
      len   == IF rest THEN N_bytes - last_byte ELSE nof_bytes - max_hdr_size
      segm  == IF rest THEN None ELSE sn
      poll  == poll_due(FALSE, len, tx_sdu_queue, retx_queue, segm, tx_window)
  IN  /\ tx_has_sn(sn) /\ nof_bytes > max_hdr_size /\ last_byte <= N_bytes
      /\ sdu_under_segmentation_sn' = segm
      /\ get_pdu_poll(tx_next, FALSE, len, poll)
      /\ tx_window' = [tx_window EXCEPT ![sn].segment_list =
                         Append(@, [so |-> last_byte, len |-> len])]
      /\ tx_next' = tx_next_after(rest)
      /\ Send([Pdu(sn, IF rest THEN "last" ELSE "middle", last_byte, len, poll)
                EXCEPT !.sn = tx_next])
      /\ UNCHANGED <<tx_next_ack, retx_queue, tx_sdu_queue, poll_expired, tx_enabled, upperVars>>

(* read_pdu and get_buffer_state: the SDU under segmentation is gone       *)
abort_segmentation ==
  /\ sdu_under_segmentation_sn # None /\ ~tx_has_sn(sdu_under_segmentation_sn)
  /\ sdu_under_segmentation_sn' = None
  /\ UNCHANGED <<tx_next_ack, tx_next, pollVars, tx_window, retx_queue, tx_sdu_queue,
                 poll_expired, tx_enabled, data_ch, upperVars>>

-----------------------------------------------------------------------------
(* Retransmissions                                                         *)
retx_sdu(sn) == [sn |-> sn, is_segment |-> FALSE, so_start |-> 0, current_so |-> 0,
                 segment_length |-> N_bytes]
retx_segment(sn, segm) == [sn |-> sn, is_segment |-> TRUE, so_start |-> segm.so,
                           current_so |-> segm.so, segment_length |-> segm.len]

overlaps(retx, so) == retx.so_start <= so /\ so < retx.current_so + retx.segment_length

queued(q, sn)        == \E i \in DOMAIN q : q[i].sn = sn
queued_at(q, sn, so) == \E i \in DOMAIN q : q[i].sn = sn /\ overlaps(q[i], so)

retx_payload_len(retx) == IF retx.is_segment
                          THEN (retx.so_start + retx.segment_length - retx.current_so) % LenMod
                          ELSE N_bytes
retx_hdr_len(retx) == IF retx.current_so = 0 THEN min_hdr_size ELSE max_hdr_size

is_retx_segmentation_required(retx, nof_bytes) ==
  nof_bytes < (retx_payload_len(retx) + retx_hdr_len(retx)) % LenMod

(* The queue without the entries in front whose SN has left the window     *)
live_retx_queue ==
  LET live == {i \in DOMAIN retx_queue : tx_has_sn(retx_queue[i].sn)}
  IN  IF live = {} THEN <<>> ELSE SubSeq(retx_queue, Min(live), Len(retx_queue))

drop_acked_retx ==
  /\ retx_queue # <<>> /\ live_retx_queue = <<>>
  /\ retx_queue' = <<>>
  /\ UNCHANGED <<tx_next_ack, tx_next, pollVars, tx_window, tx_sdu_queue,
                 sdu_under_segmentation_sn, poll_expired, tx_enabled, data_ch, upperVars>>

build_retx_pdu_without_segmentation(nof_bytes) ==
  LET retx == Head(live_retx_queue)
      len  == retx_payload_len(retx)
      si   == CASE ~retx.is_segment -> "full"
                [] retx.is_segment /\ retx.current_so = 0 -> "first"
                [] retx.is_segment /\ retx.current_so > 0 /\ retx.current_so + len < N_bytes -> "middle"
                [] OTHER -> "last"
      poll == poll_due(TRUE, 0, tx_sdu_queue, Tail(live_retx_queue),
                       sdu_under_segmentation_sn, tx_window)
  IN  /\ live_retx_queue # <<>> /\ ~is_retx_segmentation_required(retx, nof_bytes)
      /\ retx_queue' = Tail(live_retx_queue)
      /\ get_pdu_poll(retx.sn, TRUE, 0, poll)
      /\ UNCHANGED tx_window
      /\ Send(Pdu(retx.sn, si, retx.current_so, len, poll))
      /\ UNCHANGED <<tx_next_ack, tx_next, tx_sdu_queue, sdu_under_segmentation_sn,
                     poll_expired, tx_enabled, upperVars>>

(* (bug) the second part keeps the length of the whole segment             *)
split_segments_SameLength(list, retx, len) ==
  LET so    == retx.current_so
      found == {i \in DOMAIN list : list[i].so = so}
      i     == Min(found)
  IN  IF retx.is_segment /\ found = {}
      THEN list
      ELSE LET at == IF retx.is_segment THEN i ELSE 1
           IN  SubSeq(list, 1, at - 1)
                 \o <<[so |-> so, len |-> len], [so |-> so + len, len |-> retx.segment_length]>>
                 \o SubSeq(list, at + 1, Len(list))

(* The list of sent segments after retx is cut after len bytes             *)
split_segments(list, retx, len) ==
  LET so    == retx.current_so
      found == {i \in DOMAIN list : list[i].so = so}
      i     == Min(found)
  IN  CASE ~retx.is_segment ->
             list \o <<[so |-> so, len |-> len],
                       [so |-> so + len, len |-> (retx.segment_length - len) % LenMod]>>
        [] retx.is_segment /\ found # {} ->
             SubSeq(list, 1, i - 1)
               \o <<[so |-> so, len |-> len],
                    [so |-> so + len, len |-> (list[i].len - len) % LenMod]>>
               \o SubSeq(list, i + 1, Len(list))
        [] OTHER -> list

(* When acked entries were dropped in front of it, retx is a reference to  *)
(* a freed list node that holds a copy of the entry: the update is lost    *)
build_retx_pdu_with_segmentation(nof_bytes) ==
  LET retx == Head(live_retx_queue)
      hdr  == retx_hdr_len(retx)
      len  == nof_bytes - hdr
      cut  == [retx EXCEPT !.is_segment = TRUE, !.current_so = @ + len]
      poll == poll_due(TRUE, 0, tx_sdu_queue, live_retx_queue,
                       sdu_under_segmentation_sn, tx_window)
  IN  /\ live_retx_queue # <<>> /\ is_retx_segmentation_required(retx, nof_bytes)
      /\ nof_bytes > hdr /\ nof_bytes <= N_bytes + hdr
      /\ retx_queue' = IF Len(live_retx_queue) = Len(retx_queue)
                       THEN <<cut>> \o Tail(live_retx_queue)
                       ELSE live_retx_queue
      /\ tx_window' = [tx_window EXCEPT ![retx.sn].segment_list = split_segments(@, retx, len)]
      /\ get_pdu_poll(retx.sn, TRUE, 0, poll)
      /\ IF cut.current_so < N_bytes /\ cut.current_so < cut.so_start + cut.segment_length
         THEN Send(Pdu(retx.sn, IF retx.current_so = 0 THEN "first" ELSE "middle",
                       retx.current_so, len, poll))
         ELSE UNCHANGED data_ch
      /\ UNCHANGED <<tx_next_ack, tx_next, tx_sdu_queue, sdu_under_segmentation_sn,
                     poll_expired, tx_enabled, upperVars>>

(* read_pdu: retransmissions first, then the SDU under segmentation, then  *)
(* new SDUs.  (Its first choice, a STATUS PDU, is build_status_pdu of the  *)
(* receiving side.)  A grant that is too small changes nothing.            *)
read_pdu(nof_bytes) ==
  /\ tx_enabled
  /\ \/ /\ retx_queue # <<>>
        /\ \/ drop_acked_retx
           \/ build_retx_pdu_without_segmentation(nof_bytes)
           \/ build_retx_pdu_with_segmentation(nof_bytes)
     \/ /\ retx_queue = <<>> /\ sdu_under_segmentation_sn # None
        /\ \/ build_continuation_sdu_segment(nof_bytes)
           \/ abort_segmentation
     \/ /\ retx_queue = <<>> /\ sdu_under_segmentation_sn = None
        /\ \/ build_new_pdu(nof_bytes)
           \/ "tx" \in OutOfBuffers /\ build_new_pdu_no_buffer(nof_bytes)
           \/ read_null_sdus(nof_bytes)

(* get_buffer_state(): bytes the bearer asks the MAC for (0: no grant).    *)
(* The length of a retransmission is read as a signed number.              *)
get_buffer_state ==
  LET Bytes(retx) == IF tx_has_sn(retx.sn) /\ retx.segment_length \in 1..(LenMod \div 2 - 1)
                     THEN retx.segment_length + retx_hdr_len(retx) ELSE 0
      n_sdus == Cardinality({i \in DOMAIN tx_sdu_queue : tx_sdu_queue[i] # None})
  IN  FoldLeft(LAMBDA n, retx : n + Bytes(retx), 0, retx_queue)
      + (IF sdu_under_segmentation_sn # None /\ tx_has_sn(sdu_under_segmentation_sn)
         THEN N_bytes - last_byte + max_hdr_size ELSE 0)
      + n_sdus * (N_bytes + min_hdr_size)

-----------------------------------------------------------------------------
(* Status reports                                                          *)

(* handle_nack, acc.q the retransmission queue and acc.sns retx_sn_set     *)
segment_entries(sn, list) == [i \in DOMAIN list |-> retx_segment(sn, list[i])]

handle_nack(acc, nack, next_ack, w) ==
  LET sn    == nack.nack_sn
      list  == w[sn].segment_list
      InSdu(segm) == segm.so >= nack.so_start /\ segm.so <= nack.so_end
      Push(q, segm) == IF InSdu(segm) /\ ~queued_at(q, sn, segm.so)
                       THEN Append(q, retx_segment(sn, segm)) ELSE q
      q     == IF nack.has_so
               THEN FoldLeft(Push, acc.q, list)
               ELSE acc.q \o (CASE queued(acc.q, sn) -> <<>>
                                [] ~queued(acc.q, sn) /\ list = <<>> -> <<retx_sdu(sn)>>
                                [] OTHER -> segment_entries(sn, list))
  IN  IF /\ mod_base(sn, next_ack) <= mod_base(tx_next, next_ack)
         /\ sn \in SNs /\ w[sn].sdu # None
      THEN [q |-> q, sns |-> IF q # acc.q THEN acc.sns \cup {sn} ELSE acc.sns]
      ELSE acc

handle_nacks(q, nacks, next_ack, w) ==
  FoldLeft(LAMBDA acc, nack : handle_nack(acc, nack, next_ack, w),
           [q |-> q, sns |-> {}], nacks)

(* (bug) the SDU at stop_sn is acknowledged as well                        *)
acked_sns_Inclusive(stop_sn) ==
  LET Gone(n) == n < mod_nr /\ tx_has_sn((tx_next_ack + n) % mod_nr)
      to == tx_mod_base_nr(stop_sn) + 1
      n  == CHOOSE n \in 0..to : /\ \A k \in 0..(n - 1) : Gone(k)
                                 /\ n = to \/ ~Gone(n)
  IN  [k \in 1..n |-> (tx_next_ack + k - 1) % mod_nr]

(* The ACK loop: SDUs from tx_next_ack to the first NACK, or to the first  *)
(* SN that is not in the window                                            *)
acked_sns(stop_sn) ==
  LET Gone(n) == n < mod_nr /\ tx_has_sn((tx_next_ack + n) % mod_nr)
      n == CHOOSE n \in 0..tx_mod_base_nr(stop_sn) :
             /\ \A k \in 0..(n - 1) : Gone(k)
             /\ n = tx_mod_base_nr(stop_sn) \/ ~Gone(n)
  IN  [k \in 1..n |-> (tx_next_ack + k - 1) % mod_nr]

(* remove_sn: the first entry of that SN only                              *)
remove_sn(q, sn) == RemoveFirstMatch(q, LAMBDA retx : retx.sn = sn)

count_retx(pdu) ==
  [pdu EXCEPT !.retx_count = IF @ > max_retx_thresh THEN @ ELSE @ + 1]

handle_control_pdu(s) ==
  LET status  == rlc_am_nr_read_status_pdu(s)
      stop_sn == IF status.nacks = <<>> THEN status.ack_sn ELSE status.nacks[1].nack_sn
      acks    == acked_sns(stop_sn)
      nextAck == (tx_next_ack + Len(acks)) % mod_nr
      w       == [sn \in SNs |-> IF \E k \in DOMAIN acks : acks[k] = sn
                                 THEN NoTxPdu ELSE tx_window[sn]]
      retx    == handle_nacks(FoldLeft(remove_sn, retx_queue, acks),
                              expand_nacks(status.nacks), nextAck, w)
      MaxRetx == {sn \in retx.sns : count_retx(w[sn]).retx_count = max_retx_thresh}
  IN  /\ ~poll_expired
      /\ tx_enabled
      /\ valid_tx_ack_sn(status.ack_sn)
      /\ tx_mod_base_nr(status.ack_sn) <= tx_mod_base_nr(tx_next + 1)
      /\ poll_retransmit_timer' =
           (poll_retransmit_timer /\ tx_mod_base_nr(poll_sn) >= tx_mod_base_nr(status.ack_sn))
      /\ tx_next_ack' = nextAck
      /\ tx_window' = [sn \in SNs |-> IF sn \in retx.sns THEN count_retx(w[sn]) ELSE w[sn]]
      /\ retx_queue' = retx.q
      /\ notified' = notified \o [k \in DOMAIN acks |-> tx_window[acks[k]].sdu]
      /\ failed' = failed \cup {w[sn].sdu : sn \in MaxRetx}
      /\ UNCHANGED <<tx_next, poll_sn, pdu_without_poll, byte_without_poll, tx_sdu_queue,
                     sdu_under_segmentation_sn, poll_expired, tx_enabled, data_ch,
                     written, discarded>>

(* A report handle_control_pdu() ignores                                   *)
ignored_status(s) ==
  \/ ~tx_enabled
  \/ ~valid_tx_ack_sn(s.ack_sn)
  \/ tx_mod_base_nr(s.ack_sn) > tx_mod_base_nr(tx_next + 1)

-----------------------------------------------------------------------------
(* t-PollRetransmit expires, and later its callback runs                   *)
poll_timer_expires ==
  /\ poll_retransmit_timer /\ ~poll_expired
  /\ poll_retransmit_timer' = FALSE /\ poll_expired' = TRUE
  /\ UNCHANGED <<tx_next_ack, tx_next, poll_sn, pdu_without_poll, byte_without_poll,
                 tx_window, retx_queue, tx_sdu_queue, sdu_under_segmentation_sn,
                 tx_enabled, data_ch, upperVars>>

poll_timer_expired ==
  LET list == tx_window[tx_next_ack].segment_list
      retx == IF list = <<>> THEN retx_sdu(tx_next_ack)
              ELSE retx_segment(tx_next_ack, [so |-> 0, len |-> list[1].len])
  IN  /\ poll_expired
      /\ poll_expired' = FALSE
      /\ retx_queue' = IF /\ (tx_sdu_queue = <<>> /\ retx_queue = <<>>) \/ full(tx_window)
                          /\ tx_has_sn(tx_next_ack)
                       THEN Append(retx_queue, retx) ELSE retx_queue
      /\ UNCHANGED <<tx_next_ack, tx_next, pollVars, tx_window, tx_sdu_queue,
                     sdu_under_segmentation_sn, tx_enabled, data_ch, upperVars>>

(* stop(), and reestablish(), which is the same                            *)
tx_reestablish ==
  /\ tx_enabled /\ ~poll_expired
  /\ tx_next_ack' = 0 /\ tx_next' = 0 /\ poll_sn' = 0
  /\ pdu_without_poll' = 0 /\ byte_without_poll' = 0
  /\ tx_window' = [sn \in SNs |-> NoTxPdu]
  /\ retx_queue' = <<>> /\ tx_sdu_queue' = <<>>
  /\ sdu_under_segmentation_sn' = None
  /\ poll_retransmit_timer' = FALSE
  /\ tx_enabled' = FALSE
  /\ UNCHANGED <<poll_expired, data_ch, upperVars>>
=============================================================================
