------------------------------- MODULE RlcUmNr ------------------------------
(***************************************************************************)
(* One direction of an NR RLC UM bearer: rlc_um_nr_tx of one entity and    *)
(* rlc_um_nr_rx of its peer (lib/src/rlc/rlc_um_nr.cc, rlc_um_base.cc),    *)
(* and the MAC between them, which loses PDUs and, with several HARQ       *)
(* processes, reorders them.  Each side holds its mutex for a whole call.  *)
(* A payload is a piece of an SDU: which one, from which byte, how long.   *)
(***************************************************************************)
EXTENDS Integers, Sequences, FiniteSets, FiniteSetsExt, SequencesExt

CONSTANTS UM_Window_Size,       \* half the SN space
          sn_bytes,             \* the SN in the header of a segment: 1 byte (6 bits) or 2 (12 bits)
          Sdus, N_bytes,        \* the SDUs and the length of each
          TxQueueLength,        \* cfg.tx_queue_length
          Grants,               \* the sizes the MAC asks for
          StartSn,              \* the SN both ends have got to without a loss
          MaxInFlight           \* bound: PDUs in the channel

mod  == 2 * UM_Window_Size
SNs  == 0..(mod - 1)
None == -1
Corrupt == -2           \* a payload that is not an SDU as it was written

ASSUME UmAssumption ==
  /\ UM_Window_Size \in Nat \ {0} /\ N_bytes \in Nat \ {0} /\ sn_bytes \in {1, 2}
  /\ Sdus \subseteq Nat
  /\ Grants \subseteq Nat \ (0..2)        \* MIN_RLC_PDU_LEN of the MAC, less its subheader
  /\ TxQueueLength \in Nat /\ MaxInFlight \in Nat /\ StartSn \in SNs

VARIABLES TX_Next, next_so,
          tx_sdu,               \* the SDU being sent and how much of it is left
          tx_sdu_queue,         \* SDUs and, where one was discarded, None
          mac_grant,            \* the bytes the MAC has asked for in a call under way, 0 if none
          in_read,              \* does that call wait in tx_sdu_queue.read(), holding the mutex?
          RX_Next_Reassembly, RX_Timer_Trigger, RX_Next_Highest,
          rx_window,            \* the SNs with segments
          reassembly_timer,     \* is it running?
          channel,              \* PDUs on their way, oldest first
          written, discarded,   \* SDUs given to write_sdu() and taken back
          handed,               \* how often the peer's PDCP has been given an SDU
          affected,             \* SDUs of which the MAC lost or t-Reassembly dropped something
          in_order,             \* no PDU has overtaken another so far
          map_in_order,         \* the map was in the window's order whenever it was searched so far
          sns_apart             \* no SN has been used again too early so far

umTxVars == <<TX_Next, next_so, tx_sdu, tx_sdu_queue, mac_grant, in_read, written, discarded>>
umRxVars == <<RX_Next_Reassembly, RX_Timer_Trigger, RX_Next_Highest, rx_window,
              reassembly_timer, handed>>
vars == <<umTxVars, umRxVars, channel, affected, in_order, map_in_order, sns_apart>>

NoSdu == [sdu |-> None, left |-> 0]

(* rlc_umd_pdu_segments_nr_t: the segments not yet joined, by their SO, the*)
(* SDU joined so far (None: nothing), and its expected length (0: unknown) *)
NoSegments == [segments |-> {}, sdu |-> None, next_expected_so |-> 0, total_sdu_length |-> 0]

Init ==
  /\ TX_Next = StartSn /\ next_so = 0 /\ tx_sdu = NoSdu /\ tx_sdu_queue = <<>>
  /\ mac_grant = 0 /\ in_read = FALSE
  /\ RX_Next_Reassembly = StartSn /\ RX_Timer_Trigger = StartSn /\ RX_Next_Highest = StartSn
  /\ rx_window = [sn \in SNs |-> NoSegments] /\ reassembly_timer = FALSE
  /\ channel = <<>> /\ written = {} /\ discarded = {}
  /\ handed = [sdu \in Sdus \cup {Corrupt} |-> 0]
  /\ affected = {} /\ in_order = TRUE /\ map_in_order = TRUE /\ sns_apart = TRUE

Elems(s) == {s[i] : i \in DOMAIN s}

-----------------------------------------------------------------------------
(* Transmitting side                                                       *)

(* try_write_sdu(); the SDUs are numbered as they come                     *)
write_sdu(sdu) ==
  /\ written # Sdus /\ sdu = Min(Sdus \ written) /\ Len(tx_sdu_queue) < TxQueueLength
  /\ tx_sdu_queue' = Append(tx_sdu_queue, sdu)
  /\ written' = written \cup {sdu}
  /\ UNCHANGED <<TX_Next, next_so, tx_sdu, mac_grant, in_read, discarded>>

(* discard_sdu() leaves a null pointer in the queue, and does nothing when *)
(* the queue is full (apply_first()); the bug leaves the SDU.              *)
discard_sdu_Kept(sdu) ==
  /\ sdu \in Elems(tx_sdu_queue) /\ Len(tx_sdu_queue) < TxQueueLength
  /\ ~in_read /\ discarded' = discarded \cup {sdu}
  /\ UNCHANGED <<TX_Next, next_so, tx_sdu, tx_sdu_queue, mac_grant, in_read, written>>
discard_sdu(sdu) ==
  /\ sdu \in Elems(tx_sdu_queue) /\ Len(tx_sdu_queue) < TxQueueLength
  /\ tx_sdu_queue' = [i \in DOMAIN tx_sdu_queue |->
                        IF tx_sdu_queue[i] = sdu THEN None ELSE tx_sdu_queue[i]]
  /\ ~in_read /\ discarded' = discarded \cup {sdu}
  /\ UNCHANGED <<TX_Next, next_so, tx_sdu, mac_grant, in_read, written>>

(* The header lengths of configure(): its header has the default SN size   *)
head_len_full    == 1
head_len_segment == 1 + 2

(* rlc_um_nr_packed_length(): the SO is left out when it is 0              *)
packed_length(si, so) == IF si = "full" THEN 1 ELSE sn_bytes + (IF so # 0 THEN 2 ELSE 0)

(* The first SDU of the queue, after the null pointers in front of it      *)
only_null(q) == \A i \in DOMAIN q : q[i] = None
first_sdu(q) == CHOOSE i \in DOMAIN q : q[i] # None /\ \A j \in 1..(i - 1) : q[j] = None

(* The SDU a grant is for: the one under way or the next of the queue      *)
is_new  == tx_sdu = NoSdu
current == IF is_new THEN [sdu |-> tx_sdu_queue[first_sdu(tx_sdu_queue)], left |-> N_bytes] ELSE tx_sdu
queue_after ==
  IF is_new THEN SubSeq(tx_sdu_queue, first_sdu(tx_sdu_queue) + 1, Len(tx_sdu_queue))
  ELSE tx_sdu_queue
so_of_next  == IF is_new THEN 0 ELSE next_so

(* pdu_space - head_len_segment is unsigned: it wraps for a smaller grant  *)
si_of(nof_bytes) ==
  IF is_new THEN (IF current.left <= nof_bytes - head_len_full THEN "full" ELSE "first")
  ELSE IF nof_bytes < head_len_segment \/ current.left <= nof_bytes - head_len_segment
       THEN "last" ELSE "middle"

(* TX_Next after a PDU; the bug uses an SN for two SDUs.                   *)
tx_next_after_Never(si) == TX_Next
tx_next_after(si)       == IF si = "last" THEN (TX_Next + 1) % mod ELSE TX_Next

(* The length of the payload of a PDU, if the grant allows one             *)
too_small(nof_bytes) == nof_bytes <= packed_length(si_of(nof_bytes), so_of_next) + 1
payload_of(nof_bytes) ==
  LET space == nof_bytes - packed_length(si_of(nof_bytes), so_of_next)
  IN  IF space >= current.left THEN current.left ELSE space

pdu_of(nof_bytes) ==
  [si |-> si_of(nof_bytes), sn |-> TX_Next, so |-> so_of_next, len |-> payload_of(nof_bytes),
   sdu |-> current.sdu, from |-> N_bytes - current.left]

(* build_data_pdu() of the base class: is there anything to send?  It lets *)
(* go of the mutex before it calls the one below.                          *)
mac_opportunity(nof_bytes) ==
  /\ mac_grant = 0 /\ ~(is_new /\ tx_sdu_queue = <<>>)
  /\ mac_grant' = nof_bytes
  /\ UNCHANGED <<TX_Next, next_so, tx_sdu, tx_sdu_queue, in_read, written, discarded, channel>>

(* build_data_pdu(): read() waits if the queue has become empty            *)
build_blocks ==
  /\ mac_grant # 0 /\ is_new /\ tx_sdu_queue = <<>>
  /\ in_read' = TRUE
  /\ UNCHANGED <<TX_Next, next_so, tx_sdu, tx_sdu_queue, mac_grant, written, discarded, channel>>

build_returns == mac_grant # 0 /\ mac_grant' = 0 /\ in_read' = FALSE

(* Otherwise there is no SDU in the queue, no room for one, or a PDU       *)
build_nothing ==
  /\ build_returns /\ is_new /\ tx_sdu_queue # <<>> /\ only_null(tx_sdu_queue)
  /\ tx_sdu_queue' = <<>>
  /\ UNCHANGED <<TX_Next, next_so, tx_sdu, written, discarded, channel>>

build_too_small ==
  /\ build_returns /\ ~(is_new /\ only_null(tx_sdu_queue))
  /\ too_small(mac_grant)
  /\ tx_sdu' = current /\ tx_sdu_queue' = queue_after /\ next_so' = so_of_next
  /\ UNCHANGED <<TX_Next, written, discarded, channel>>

build_pdu ==
  /\ build_returns /\ ~(is_new /\ only_null(tx_sdu_queue))
  /\ ~too_small(mac_grant)
  /\ LET pdu  == pdu_of(mac_grant)
         left == current.left - pdu.len
     IN /\ channel' = Append(channel, pdu)
        /\ tx_sdu' = IF left = 0 THEN NoSdu ELSE [current EXCEPT !.left = left]
        /\ next_so' = IF pdu.si = "last" THEN 0 ELSE so_of_next + pdu.len
        /\ TX_Next' = tx_next_after(pdu.si)
  /\ tx_sdu_queue' = queue_after
  /\ UNCHANGED <<written, discarded>>

(* stop() of rlc_um_base_tx: the queue and the SDU under way are dropped   *)
tx_stop ==
  /\ TX_Next' = 0 /\ next_so' = 0 /\ tx_sdu' = NoSdu /\ tx_sdu_queue' = <<>>
  /\ ~in_read /\ UNCHANGED <<mac_grant, in_read, written, discarded>>

-----------------------------------------------------------------------------
(* Receiving side                                                          *)

(* RX_MOD_NR_BASE, for the highest SN in force                             *)
base(nh, x) == (x - nh - UM_Window_Size) % mod

sn_in_reassembly_window(nh, sn) == base(nh, sn) < UM_Window_Size

sn_invalid_for_rx_buffer(sn) ==
  base(RX_Next_Highest, sn) < base(RX_Next_Highest, RX_Next_Reassembly)

(* The SO of a middle or last segment is always read: when it was left out *)
(* it is what the first two bytes of the payload happen to be              *)
so_missing(pdu)  == pdu.si \in {"middle", "last"} /\ pdu.so = 0
so_read(pdu)     == IF so_missing(pdu) THEN 0..N_bytes ELSE {pdu.so}
segment(pdu, so) ==
  [so |-> so, len |-> IF so # 0 /\ so_missing(pdu) THEN pdu.len - 2 ELSE pdu.len,
   sdu |-> IF so = pdu.from /\ pdu.so = so THEN pdu.sdu ELSE Corrupt]

(* The segments of an SN with one more: a second one for an SO is dropped. *)
(* A last segment tells the length of the SDU.                             *)
place(pdu, seg) ==
  LET old == rx_window[pdu.sn]
  IN  [old EXCEPT
         !.segments = IF \E s \in @ : s.so = seg.so THEN @ ELSE @ \cup {seg},
         !.total_sdu_length = IF pdu.si = "last" THEN seg.so + seg.len ELSE @]

(* The loop of handle_rx_buffer_update() over the segments in the order of *)
(* their SO: what continues the SDU joined so far is added to it.  It is   *)
(* complete only when a segment was appended.                              *)
join_one(acc, so) ==
  LET w    == acc.pdu
      seg  == CHOOSE s \in w.segments : s.so = so
      next == so + seg.len
  IN  IF acc.complete \/ so # w.next_expected_so \/ ~\E s \in w.segments : s.so = so THEN acc
      ELSE [pdu |-> [w EXCEPT !.segments = @ \ {seg}, !.next_expected_so = next,
                              !.sdu = IF so = 0 \/ @ = seg.sdu THEN seg.sdu ELSE Corrupt],
            complete |-> so # 0 /\ next = w.total_sdu_length]
joined(w) ==
  LET upto[so \in -1..N_bytes] ==
        IF so = -1 THEN [pdu |-> w, complete |-> FALSE] ELSE join_one(upto[so - 1], so)
  IN  upto[N_bytes]

held(w) == {sn \in SNs : w[sn] # NoSegments}
dropped(w, sns) == [sn \in SNs |-> IF sn \in sns THEN NoSegments ELSE w[sn]]

(* RX_Next_Reassembly after the SDU it stood at is complete, the SNs taken *)
(* in the order of the map.  The bug goes one too far.                     *)
next_reassembly_OneMore(w) == (RX_Next_Highest + 1) % mod
next_reassembly(w) ==
  LET later == {sn \in held(w) : base(RX_Next_Highest, sn) > base(RX_Next_Highest, RX_Next_Reassembly)}
  IN  IF held(w) = {} THEN RX_Next_Highest
      ELSE IF later = {} THEN RX_Next_Reassembly ELSE Min(later)

(* The window with a new upper edge: what falls out of it is dropped, and  *)
(* RX_Next_Reassembly follows, again in the order of the map.              *)
window_moved(nh, w) == dropped(w, {sn \in SNs : ~sn_in_reassembly_window(nh, sn)})
reassembly_moved(nh, w) ==
  IF sn_in_reassembly_window(nh, RX_Next_Reassembly) \/ held(w) = {}
  THEN RX_Next_Reassembly ELSE Min(held(w))

(* Is there something to wait for?  The bug forgets the newest SN.         *)
gap_NotNewest(nh, nr, w) == UM_Window_Size > base(nh, nr + 1)
gap(nh, nr, w) ==
  \/ UM_Window_Size > base(nh, nr + 1)
  \/ UM_Window_Size = base(nh, nr + 1) /\ nr \in held(w)

(* t-Reassembly is stopped when it has become pointless; these comparisons *)
(* are not relative to the window                                          *)
timer_pointless(nh, nr, w) ==
  \/ RX_Timer_Trigger <= nr
  \/ ~sn_in_reassembly_window(nh, RX_Timer_Trigger) /\ RX_Timer_Trigger # nh
  \/ nh = nr + 1 /\ nr \notin held(w)

update_reassembly_timer(nh, nr, w, running) ==
  /\ reassembly_timer' = (running \/ gap(nh, nr, w))
  /\ RX_Timer_Trigger' = IF ~running /\ gap(nh, nr, w) THEN nh ELSE RX_Timer_Trigger

(* The state after handle_rx_buffer_update(), w the window with the segment *)
buffer_updated(nh, nr, w) ==
  /\ RX_Next_Highest' = nh /\ RX_Next_Reassembly' = nr /\ rx_window' = w
  /\ update_reassembly_timer(nh, nr, w, reassembly_timer /\ ~timer_pointless(nh, nr, w))

(* pdcp->write_pdu() with an SDU of this length                            *)
deliver(sdu, len) ==
  handed' = [handed EXCEPT ![IF len = N_bytes THEN sdu ELSE Corrupt] = @ + 1]

handle_full(pdu) ==
  /\ pdu.si = "full"
  /\ deliver(pdu.sdu, pdu.len)
  /\ UNCHANGED <<RX_Next_Reassembly, RX_Timer_Trigger, RX_Next_Highest, rx_window,
                 reassembly_timer>>

handle_invalid_sn(pdu) ==
  pdu.si # "full" /\ sn_invalid_for_rx_buffer(pdu.sn) /\ UNCHANGED umRxVars

handle_segment(pdu, so) ==
  /\ pdu.si # "full" /\ ~sn_invalid_for_rx_buffer(pdu.sn) /\ so \in so_read(pdu)
  /\ LET sn == pdu.sn
         j  == joined(place(pdu, segment(pdu, so)))
         w  == [rx_window EXCEPT ![sn] = j.pdu]
         nh == (sn + 1) % mod
     IN IF j.complete
        THEN LET w2 == dropped(w, {sn})
             IN  /\ buffer_updated(RX_Next_Highest,
                      IF sn = RX_Next_Reassembly THEN next_reassembly(w2) ELSE RX_Next_Reassembly, w2)
                 /\ deliver(j.pdu.sdu, j.pdu.next_expected_so)
        ELSE IF sn_in_reassembly_window(RX_Next_Highest, sn)
        THEN buffer_updated(RX_Next_Highest, RX_Next_Reassembly, w) /\ UNCHANGED handed
        ELSE LET w2 == window_moved(nh, w)
             IN  buffer_updated(nh, reassembly_moved(nh, w2), w2) /\ UNCHANGED handed

(* RX_Next_Reassembly goes to RX_Next_Highest when RX_Timer_Trigger is in  *)
(* the window, and the segments before it are dropped; the bug keeps them. *)
expired_reassembly ==
  IF sn_in_reassembly_window(RX_Next_Highest, RX_Timer_Trigger)
  THEN RX_Next_Highest ELSE RX_Timer_Trigger
expired_sns_None == {}
expired_sns ==
  {sn \in held(rx_window) : base(RX_Next_Highest, sn) < base(RX_Next_Highest, expired_reassembly)}

timer_expired ==
  /\ reassembly_timer
  /\ RX_Next_Reassembly' = expired_reassembly
  /\ rx_window' = dropped(rx_window, expired_sns)
  /\ update_reassembly_timer(RX_Next_Highest, expired_reassembly, rx_window', FALSE)
  /\ UNCHANGED <<RX_Next_Highest, handed>>

rx_reestablish ==
  /\ RX_Next_Reassembly' = 0 /\ RX_Timer_Trigger' = 0 /\ RX_Next_Highest' = 0
  /\ rx_window' = [sn \in SNs |-> NoSegments] /\ reassembly_timer' = FALSE
  /\ UNCHANGED handed

-----------------------------------------------------------------------------
(* The bearer                                                              *)

Tx == UNCHANGED <<umRxVars, affected, in_order, map_in_order>>

(* The MAC has the HARQ processes for so many PDUs at a time.              *)
mac_is_ready == Len(channel) < MaxInFlight

(* Have the PDUs of the earlier use of an SN left the channel, and has the *)
(* receiver not missed half the SN space in a row?  The sender does not    *)
(* look, so that this is only noted.                                       *)
apart ==
  /\ \A p \in Elems(channel) : p.si # "full" => (TX_Next - p.sn) % mod < UM_Window_Size
  /\ is_new => (TX_Next - RX_Next_Highest) % mod < UM_Window_Size

Write(sdu)   == write_sdu(sdu) /\ Tx /\ UNCHANGED <<channel, sns_apart>>
Discard(sdu) == discard_sdu(sdu) /\ Tx /\ UNCHANGED <<channel, sns_apart>>
Opportunity(nof_bytes) ==
  /\ mac_is_ready /\ mac_opportunity(nof_bytes) /\ Tx
  /\ sns_apart' = (sns_apart /\ apart)
Build  == (build_nothing \/ build_too_small \/ build_pdu) /\ Tx /\ UNCHANGED sns_apart
Blocks == build_blocks /\ Tx /\ UNCHANGED sns_apart

Channel(i) ==
  /\ channel' = RemoveAt(channel, i)
  /\ UNCHANGED <<umTxVars, sns_apart>>

(* Is the map, which is in the order of the plain SNs, in the window's?    *)
window_order(nh, w) == \A a, b \in held(w) : a < b => base(nh, a) < base(nh, b)

Receive(i) ==
  /\ Channel(i)
  /\ in_order' = (in_order /\ i = 1)
  /\ \/ (handle_full(channel[i]) \/ handle_invalid_sn(channel[i])) /\ UNCHANGED affected
     \/ \E so \in 0..N_bytes :
          /\ handle_segment(channel[i], so)
          /\ affected' = affected \cup (IF so = channel[i].from THEN {} ELSE {channel[i].sdu})
  /\ map_in_order' = (map_in_order /\ (\/ RX_Next_Reassembly' = RX_Next_Reassembly
                                      \/ window_order(RX_Next_Highest', rx_window')))

Lose(i) ==
  /\ Channel(i)
  /\ affected' = affected \cup {channel[i].sdu}
  /\ UNCHANGED <<umRxVars, in_order, map_in_order>>

(* The SDUs with something in the receiver's window                        *)
sdus_in(w, sns) ==
  UNION {{seg.sdu : seg \in w[sn].segments} \cup {w[sn].sdu} : sn \in sns}

Expire ==
  /\ timer_expired
  /\ affected' = affected \cup sdus_in(rx_window, expired_sns)
  /\ UNCHANGED <<umTxVars, channel, in_order, map_in_order, sns_apart>>

(* rlc_um_base::reestablish() of both ends, with a reset of the MAC: the   *)
(* SDUs not handed over by then are lost                                   *)
Reestablish ==
  /\ tx_stop /\ rx_reestablish
  /\ channel' = <<>> /\ affected' = affected \cup written
  /\ in_order' = TRUE /\ map_in_order' = TRUE /\ UNCHANGED sns_apart

Next ==
  \/ \E sdu \in Sdus : Write(sdu) \/ Discard(sdu)
  \/ \E n \in Grants : Opportunity(n)
  \/ Build \/ Blocks
  \/ \E i \in DOMAIN channel : Receive(i) \/ Lose(i)
  \/ Expire
  \/ Reestablish

(* A running timer expires, and a call of the MAC that can go on does      *)
Spec == Init /\ [][Next]_vars /\ WF_vars(Expire) /\ WF_vars(Build)

-----------------------------------------------------------------------------
(* Properties                                                              *)

(* The variables keep the range the code gives them; the SNs are below the *)
(* modulus.                                                                *)
TypeOK ==
  /\ {TX_Next, RX_Next_Reassembly, RX_Timer_Trigger, RX_Next_Highest} \subseteq SNs
  /\ next_so \in 0..N_bytes /\ tx_sdu.sdu \in Sdus \cup {None} /\ tx_sdu.left \in 0..N_bytes
  /\ Elems(tx_sdu_queue) \subseteq Sdus \cup {None} /\ Len(tx_sdu_queue) <= TxQueueLength
  /\ reassembly_timer \in BOOLEAN

(* Every SDU the receiver passes up is one that was written, with all its  *)
(* bytes and in its place, and none is passed up twice: segments of        *)
(* different SDUs are not joined when the SN comes round again, unless     *)
(* half the SN space was lost in a row or delayed.                         *)
DeliveredWhole ==
  sns_apart =>
    /\ handed[Corrupt] = 0
    /\ \A sdu \in Sdus : handed[sdu] <= IF sdu \in written \ discarded THEN 1 ELSE 0

(* RX_Next_Reassembly is "the earliest SN that is still considered for     *)
(* reassembly" (rlc_um_nr.h): nothing held is before it.                   *)
NextReassemblyEarliest == \A sn \in held(rx_window) : ~sn_invalid_for_rx_buffer(sn)

(* What is held is inside the reassembly window and not before             *)
(* RX_Next_Reassembly.                                                     *)
RxWindowOrdered ==
  /\ \A sn \in held(rx_window) : sn_in_reassembly_window(RX_Next_Highest, sn)
  /\ NextReassemblyEarliest

(* While segments of an SDU wait for the others t-Reassembly runs.         *)
HeldSegmentsTimed == held(rx_window) # {} => reassembly_timer

(* The state variables of the receiver, what it holds and t-Reassembly     *)
(* agree, over the wrap of the SNs too, unless RX_Next_Reassembly has been *)
(* taken from a map that was not in the order of the window.               *)
ReceiverConsistent == TypeOK /\ (map_in_order => RxWindowOrdered /\ HeldSegmentsTimed)

(* RLC UM as the PDCP sees it: an SDU is handed over at most once and only *)
(* if it was not discarded; nothing is ever acknowledged.  Only a step     *)
(* after an SN was used again too early may do something else.             *)
Promised == INSTANCE Bearer WITH acked <- {},
              handed <- [sdu \in Sdus |-> handed[sdu]]
ImplementsBearer ==
  /\ Promised!BearerInit
  /\ [][sns_apart => Promised!BearerNext]_<<written, discarded, handed>>

(* As long as no PDU overtakes another and no SN is used again too early,  *)
(* an SDU all of whose PDUs arrive is not lost in the entities: it is in   *)
(* one of them, on its way or handed over.                                 *)
Somewhere ==
  Elems(tx_sdu_queue) \cup {tx_sdu.sdu} \cup {p.sdu : p \in Elems(channel)}
    \cup sdus_in(rx_window, SNs) \cup {sdu \in Sdus : handed[sdu] > 0}
NothingDropped ==
  in_order /\ sns_apart => written \ (discarded \cup affected) \subseteq Somewhere

(* Segments that wait for one that is lost do not stay for ever, but for   *)
(* those RX_Next_Reassembly passed over.                                   *)
HeldSegmentsReleased == []<>(held(rx_window) = {} \/ ~map_in_order)
=============================================================================
