----------------------------- MODULE RlcAmNrRx ------------------------------
(***************************************************************************)
(* rlc_am_nr_rx (lib/src/rlc/rlc_am_nr.cc): the receiving side of an NR    *)
(* RLC AM entity, against a peer that may send any AMD PDU.  Every handler *)
(* holds the entity's mutex from start to end, so it is one action.        *)
(***************************************************************************)
EXTENDS RlcAmNrStatus

CONSTANTS Pdus,                 \* the AMD PDUs the peer may send
          StatusGrants,         \* sizes of the grants for a STATUS PDU
          StatusProhibitSet     \* is t_status_prohibit configured (not 0)?

ASSUME RxAssumption ==
  /\ Pdus \subseteq DataPdu
  /\ StatusGrants \subseteq Nat
  /\ StatusProhibitSet \in BOOLEAN

VARIABLES rx_next, rx_next_status_trigger, rx_highest_status, rx_next_highest,
          rx_window,
          do_status,
          status_prohibit_timer, reassembly_timer,   \* is the timer running?
          sdu_removed,          \* did a failed allocation take an SDU away?
          rx_abort              \* the assertion that ended the process

rxState == <<rx_next, rx_next_status_trigger, rx_highest_status, rx_next_highest>>
rxVars  == <<rxState, rx_window, do_status, status_prohibit_timer, reassembly_timer,
             sdu_removed, rx_abort>>

Segment == [so : 0..(N_bytes - 1), len : 1..N_bytes, last : BOOLEAN, sdu : Sdus]

(* rlc_amd_rx_sdu_nr_t; present says whether the window has the SN.  The   *)
(* set of segments is ordered by so.                                       *)
RxSdu == [present : BOOLEAN, fully_received : BOOLEAN, has_gap : BOOLEAN,
          segments : SUBSET Segment]
NoRxSdu == [present |-> FALSE, fully_received |-> FALSE, has_gap |-> FALSE,
            segments |-> {}]
NewRxSdu == [NoRxSdu EXCEPT !.present = TRUE]
holds_data(sdu) == sdu.fully_received \/ sdu.segments # {}

RxAborts == {"none", "no_sdu_at_rx_next", "highest_status_outside", "nack_so_reversed"}

-----------------------------------------------------------------------------
(* Window helpers, relative to the base rx_next                            *)
rx_mod_base_nr(sn)   == mod_base(sn, rx_next)
inside_rx_window(sn) == rx_mod_base_nr(sn) < AM_Window_Size
valid_rx_ack_sn(sn)  == 0 < rx_mod_base_nr(sn) /\ rx_mod_base_nr(sn) <= AM_Window_Size
received(w, sn)      == w[sn].present /\ w[sn].fully_received

(* The loops "for (sn_upd = from; ... < to; sn_upd++)" that stop at the    *)
(* first SDU that is not fully received                                    *)
first_not_received(w, from, to) ==
  LET Missing == {sn \in SNs : /\ rx_mod_base_nr(from) <= rx_mod_base_nr(sn)
                               /\ rx_mod_base_nr(sn) < rx_mod_base_nr(to)
                               /\ ~received(w, sn)}
  IN  IF Missing # {}
      THEN CHOOSE sn \in Missing : \A x \in Missing : rx_mod_base_nr(sn) <= rx_mod_base_nr(x)
      ELSE IF rx_mod_base_nr(from) >= rx_mod_base_nr(to) THEN from ELSE to

-----------------------------------------------------------------------------
(* Segments                                                                *)
segm_end(s) == s.so + s.len

(* s starts where the segment before it, in order of so, ends              *)
linked(segments, s) ==
  \/ s.so = 0
  \/ \E t \in segments : /\ segm_end(t) = s.so
                         /\ \A u \in segments : u.so <= t.so \/ u.so >= s.so

(* update_segment_inventory: the scan ends at the first segment that is    *)
(* not linked (a gap) or is the last of the SDU                            *)
scan_ends(segments) == {s \in segments : ~linked(segments, s) \/ s.last}
first_end(segments) == CHOOSE s \in scan_ends(segments) :
                         \A t \in scan_ends(segments) : s.so <= t.so

update_segment_inventory(segments) ==
  LET ends == scan_ends(segments) # {}
      gap  == ends /\ ~linked(segments, first_end(segments))
  IN  [present |-> TRUE, fully_received |-> ends /\ ~gap, has_gap |-> gap,
       segments |-> segments]

(* (bug) no segment is dropped                                             *)
duplicate_bytes_Never(p) == FALSE

(* "discard segments with overlapping bytes"                               *)
duplicate_bytes(p) ==
  \E s \in rx_window[p.sn].segments :
     LET pdu_last_byte == p.so + p.len - 1
     IN  \/ p.so \in s.so..(segm_end(s) - 1)
         \/ pdu_last_byte \in s.so..(segm_end(s) - 1)

(* (bug) PDUs behind the window are not dropped                            *)
accepted_AnySn(p) ==
  /\ ~received(rx_window, p.sn)
  /\ ~(rx_window[p.sn].present /\ p.si # "full" /\ duplicate_bytes(p))

(* The checks of handle_data_pdu() before the PDU is stored                *)
accepted(p) ==
  /\ inside_rx_window(p.sn)
  /\ ~received(rx_window, p.sn)
  /\ ~(rx_window[p.sn].present /\ p.si # "full" /\ duplicate_bytes(p))

segment_of(p) == [so |-> p.so, len |-> p.len, last |-> p.si = "last", sdu |-> p.sdu]

(* handle_full_data_sdu, handle_segment_data_sdu                           *)
stored_sdu(p) ==
  IF p.si = "full"
  THEN [NoRxSdu EXCEPT !.present = TRUE, !.fully_received = TRUE]
  ELSE update_segment_inventory(rx_window[p.sn].segments \cup {segment_of(p)})

window_with(p) ==
  [rx_window EXCEPT ![same_slot(p.sn)] = NoRxSdu, ![p.sn] = stored_sdu(p)]

(* What write_to_upper_layers() gets: the segments are copied one after    *)
(* the other, whatever their offsets                                       *)
reassembled(p) ==
  LET sdu == stored_sdu(p)
      Whole(x) == \A s \in sdu.segments :
                    s.sdu = x /\ linked(sdu.segments, s) /\ (s.last <=> segm_end(s) = N_bytes)
  IN  IF ~accepted(p) \/ ~sdu.fully_received THEN <<>>
      ELSE IF p.si = "full" \/ Whole(p.sdu) THEN <<p.sdu>> ELSE <<Corrupt>>

-----------------------------------------------------------------------------
RxInit ==
  /\ rx_next = 0 /\ rx_next_status_trigger = 0
  /\ rx_highest_status = 0 /\ rx_next_highest = 0
  /\ rx_window = [sn \in SNs |-> NoRxSdu]
  /\ do_status = FALSE
  /\ status_prohibit_timer = FALSE /\ reassembly_timer = FALSE
  /\ sdu_removed = FALSE /\ rx_abort = "none"

(* 5.2.3.2.3: rx_next_highest, rx_highest_status and rx_next after p       *)
next_highest(p) ==
  IF rx_mod_base_nr(p.sn) >= rx_mod_base_nr(rx_next_highest)
  THEN next_sn(p.sn) ELSE rx_next_highest

next_highest_status(p) ==
  IF received(window_with(p), p.sn) /\ p.sn = rx_highest_status
  THEN first_not_received(window_with(p), next_sn(rx_highest_status), next_highest(p))
  ELSE rx_highest_status

next_rx_next(p) ==
  IF received(window_with(p), p.sn) /\ p.sn = rx_next
  THEN first_not_received(window_with(p), rx_next, next_highest(p))
  ELSE rx_next

(* The SDUs below the new rx_next are removed                              *)
window_from(w, new_next) ==
  [sn \in SNs |-> IF rx_mod_base_nr(sn) < rx_mod_base_nr(new_next) THEN NoRxSdu ELSE w[sn]]

(* (bug) the timer goes on although rx_next has reached its trigger        *)
stop_reassembly_NotAtTrigger(new_next, w) ==
  \/ mod_base(rx_next_status_trigger, new_next) = 1 /\ ~w[new_next].has_gap
  \/ mod_base(rx_next_status_trigger, new_next) >= AM_Window_Size

(* t-Reassembly, with the new rx_next, rx_next_highest and window          *)
stop_reassembly(new_next, w) ==
  \/ rx_next_status_trigger = new_next
  \/ mod_base(rx_next_status_trigger, new_next) = 1 /\ ~w[new_next].has_gap
  \/ mod_base(rx_next_status_trigger, new_next) >= AM_Window_Size

start_reassembly(base, new_next, highest, w) ==
  \/ mod_base(highest, new_next) > mod_base(base + 1, new_next)
  \/ /\ mod_base(highest, new_next) = mod_base(base + 1, new_next)
     /\ w[base].present /\ w[base].has_gap

update_reassembly_timer(new_next, highest, w) ==
  LET running == reassembly_timer /\ ~stop_reassembly(new_next, w)
      start   == ~running /\ start_reassembly(new_next, new_next, highest, w)
  IN  /\ reassembly_timer' = (running \/ start)
      /\ rx_next_status_trigger' = IF start THEN highest ELSE rx_next_status_trigger
      \* operator[] of the window asserts that it has rx_next
      /\ rx_abort' = IF /\ reassembly_timer
                        /\ mod_base(rx_next_status_trigger, new_next) = 1
                        /\ ~w[new_next].present
                     THEN "no_sdu_at_rx_next" ELSE rx_abort

handle_data_pdu(p) ==
  /\ rx_abort = "none"
  /\ do_status' = (do_status \/ p.p)
  /\ \/ /\ accepted(p)
        /\ rx_next_highest' = next_highest(p)
        /\ rx_highest_status' = next_highest_status(p)
        /\ rx_next' = next_rx_next(p)
        /\ rx_window' = window_from(window_with(p), next_rx_next(p))
        /\ update_reassembly_timer(next_rx_next(p), next_highest(p),
                                   window_from(window_with(p), next_rx_next(p)))
     \/ /\ ~accepted(p)
        /\ UNCHANGED <<rxState, rx_window, reassembly_timer, rx_abort>>
  /\ UNCHANGED <<status_prohibit_timer, sdu_removed>>

(* There is no buffer for p, it does not fit, or there is none to put the  *)
(* segments together: its SDU is removed, or stays without p, even if it   *)
(* is empty.  The handler returns before the state variables move.         *)
sdus_without_buffer(p) ==
  (IF p.si = "full" \/ stored_sdu(p).fully_received THEN {NoRxSdu} ELSE {}) \cup
  (IF p.si = "full" THEN {}
   ELSE {IF rx_window[p.sn].present THEN rx_window[p.sn] ELSE NewRxSdu})

handle_data_pdu_no_buffer(p) ==
  /\ rx_abort = "none" /\ accepted(p)
  /\ do_status' = (do_status \/ p.p)
  /\ \E sdu \in sdus_without_buffer(p) :
       /\ rx_window' = [rx_window EXCEPT ![same_slot(p.sn)] = NoRxSdu, ![p.sn] = sdu]
       /\ sdu_removed' = (sdu_removed \/ (rx_window[p.sn].present /\ ~sdu.present))
  /\ UNCHANGED <<rxState, status_prohibit_timer, reassembly_timer, rx_abort>>

-----------------------------------------------------------------------------
(* get_status_pdu                                                          *)
segm_nacks(sn) ==
  LET segs == SetToSortSeq(rx_window[sn].segments, LAMBDA a, b : a.so < b.so)
      last_so(i) == IF i = 1 THEN 0 ELSE segm_end(segs[i - 1])
      Before(i)  == IF segs[i].so = last_so(i) THEN <<>>
                    ELSE <<nack_bytes(sn, last_so(i), segs[i].so - 1)>>
      tail       == IF \E i \in DOMAIN segs : segs[i].last THEN <<>>
                    ELSE <<nack_bytes(sn, last_so(Len(segs) + 1), so_end_of_sdu)>>
  IN  FlattenSeq([i \in DOMAIN segs |-> Before(i)]) \o tail

nacks_of(sn) == CASE received(rx_window, sn)   -> <<>>
                  [] ~rx_window[sn].present    -> <<nack_sdu(sn)>>
                  [] OTHER                     -> segm_nacks(sn)

missing_nacks ==
  FlattenSeq([i \in 1..rx_mod_base_nr(rx_highest_status) |->
                nacks_of((rx_next + i - 1) % mod_nr)])

full_status == [ack_sn |-> rx_highest_status, nacks |-> FoldLeft(push_nack, <<>>, missing_nacks)]

get_do_status == do_status /\ ~status_prohibit_timer

(* The STATUS PDUs a grant of max_len bytes produces: one, or none when    *)
(* not even the header fits                                                *)
status_pdus(max_len) ==
  IF packed_size(trim(full_status, max_len).nacks) <= max_len
  THEN <<trim(full_status, max_len)>> ELSE <<>>

(* A segment starts before the end of the one in front of it, and the      *)
(* bytes to be NACKed between them end before they start.  (The second     *)
(* assertion compares a uint16_t with 0xFFFF and always holds.)            *)
nack_so_reversed ==
  \E sn \in SNs :
    /\ rx_mod_base_nr(sn) < rx_mod_base_nr(rx_highest_status)
    /\ rx_window[sn].present /\ ~rx_window[sn].fully_received
    /\ \E s, t \in rx_window[sn].segments :
         /\ t.so < s.so /\ s.so < segm_end(t)
         /\ \A u \in rx_window[sn].segments : u.so <= t.so \/ u.so >= s.so

(* rlc_am_nr_tx::build_status_pdu() of the same entity.  do_status is      *)
(* cleared, and the timer run, even if the PDU does not fit.  (Nothing     *)
(* changes, and nothing is sent, if there is no buffer for the PDU or the  *)
(* receiver's mutex is taken: the next grant tries again.)                 *)
build_status_pdu(max_len) ==
  /\ rx_abort = "none" /\ get_do_status
  /\ status_prohibit_timer' = TRUE
  /\ do_status' = FALSE
  /\ rx_abort' = IF nack_so_reversed THEN "nack_so_reversed" ELSE rx_abort
  /\ UNCHANGED <<rxState, rx_window, reassembly_timer, sdu_removed>>

(* With t_status_prohibit = 0 no duration is set, and run() starts the     *)
(* timer for 2^32 ticks: it does not expire                                *)
status_prohibit_expired ==
  /\ rx_abort = "none" /\ status_prohibit_timer /\ StatusProhibitSet
  /\ status_prohibit_timer' = FALSE
  /\ UNCHANGED <<rxState, rx_window, do_status, reassembly_timer, sdu_removed, rx_abort>>

(* 5.2.3.2.4                                                               *)
reassembly_expired ==
  LET highest == first_not_received(rx_window, rx_next_status_trigger, rx_next_highest)
      restart == start_reassembly(highest, rx_next, rx_next_highest, rx_window)
  IN  /\ rx_abort = "none" /\ reassembly_timer
      /\ rx_highest_status' = highest
      /\ rx_abort' = IF valid_rx_ack_sn(highest) THEN rx_abort ELSE "highest_status_outside"
      /\ reassembly_timer' = restart
      /\ rx_next_status_trigger' = IF restart THEN rx_next_highest ELSE rx_next_status_trigger
      /\ do_status' = TRUE
      /\ UNCHANGED <<rx_next, rx_next_highest, rx_window, status_prohibit_timer, sdu_removed>>

(* stop() and reestablish()                                                *)
rx_reestablish ==
  /\ rx_abort = "none"
  /\ rx_next' = 0 /\ rx_next_status_trigger' = 0
  /\ rx_highest_status' = 0 /\ rx_next_highest' = 0
  /\ rx_window' = [sn \in SNs |-> NoRxSdu]
  /\ do_status' = FALSE
  /\ status_prohibit_timer' = FALSE /\ reassembly_timer' = FALSE
  /\ sdu_removed' = FALSE
  /\ UNCHANGED rx_abort

RxNext ==
  \/ \E p \in Pdus : handle_data_pdu(p) \/ ("rx" \in OutOfBuffers /\ handle_data_pdu_no_buffer(p))
  \/ \E max_len \in StatusGrants : build_status_pdu(max_len)
  \/ status_prohibit_expired
  \/ reassembly_expired
  \/ rx_reestablish

RxSpec == RxInit /\ [][RxNext]_rxVars

-----------------------------------------------------------------------------
(* Properties                                                              *)

(* Every variable keeps the range of its C++ declaration.                  *)
RxTypeOK ==
  /\ rx_next \in SNs /\ rx_next_status_trigger \in SNs
  /\ rx_highest_status \in SNs /\ rx_next_highest \in SNs
  /\ rx_window \in [SNs -> RxSdu]
  /\ do_status \in BOOLEAN
  /\ status_prohibit_timer \in BOOLEAN /\ reassembly_timer \in BOOLEAN
  /\ sdu_removed \in BOOLEAN /\ rx_abort \in RxAborts

(* The state variables of TS 38.322 7.1 keep their order around the        *)
(* circular SN space, RX_Next <= RX_Highest_Status <= RX_Next_Highest <=   *)
(* RX_Next + AM_Window_Size, although each is moved by a loop of its own;  *)
(* the first two name SDUs that are not complete, and the window holds     *)
(* no byte outside [RX_Next, RX_Next_Highest) and no SDU outside the       *)
(* receive window, so that none is overwritten by one that shares its slot.*)
RxStateOrdered ==
  /\ rx_mod_base_nr(rx_highest_status) <= rx_mod_base_nr(rx_next_highest)
  /\ rx_mod_base_nr(rx_next_highest) <= AM_Window_Size
  /\ ~received(rx_window, rx_next)
  /\ ~received(rx_window, rx_highest_status)
  /\ \A sn \in SNs : rx_window[sn].present => inside_rx_window(sn)
  /\ \A sn \in SNs : holds_data(rx_window[sn]) =>
        rx_mod_base_nr(sn) < rx_mod_base_nr(rx_next_highest)

(* While t-Reassembly runs its trigger is ahead of RX_Next, at most at     *)
(* RX_Next_Highest, and the SDU just before it is in the window, unless a  *)
(* failed allocation took one away: what reading the SDU at RX_Next when   *)
(* the trigger is RX_Next + 1 relies on.                                   *)
ReassemblyTriggerValid ==
  reassembly_timer =>
    /\ 0 < rx_mod_base_nr(rx_next_status_trigger)
    /\ rx_mod_base_nr(rx_next_status_trigger) <= rx_mod_base_nr(rx_next_highest)
    /\ sdu_removed \/ rx_window[prev_sn(rx_next_status_trigger)].present

(* No sequence of PDUs, timeouts and grants fails the assertions of        *)
(* handle_data_pdu() and timer_expired(): RX_Highest_Status is put inside  *)
(* the window, and the SDU at RX_Next is there when it is read, unless a   *)
(* failed allocation took an SDU away.                                     *)
StateAssertionsHold ==
  /\ rx_abort # "highest_status_outside"
  /\ rx_abort = "no_sdu_at_rx_next" => sdu_removed

(* Nor does any sequence that has no PDU with another one inside fail that *)
(* of get_status_pdu() on the order of the missing bytes.                  *)
RxAssertionsHold == StateAssertionsHold /\ rx_abort # "nack_so_reversed"

(* The state variables of the receiver, its window and the trigger of      *)
(* t-Reassembly agree and no assertion fails, in whatever order and        *)
(* however often the PDUs of a peer arrive none of which encloses another. *)
RxConsistent ==
  RxTypeOK /\ RxStateOrdered /\ ReassemblyTriggerValid /\ RxAssertionsHold

(* "discard segments with overlapping bytes" (rlc_am_nr.cc:1474): what is  *)
(* kept of an SDU does not overlap, so that its bytes are assembled once   *)
(* each and the bytes between two segments are really missing.             *)
SegmentsDisjoint ==
  \A sn \in SNs : \A s, t \in rx_window[sn].segments :
    s # t => segm_end(s) <= t.so \/ segm_end(t) <= s.so

(* What that takes of the peer: no PDU reaches beyond another of its SDU   *)
(* on both sides, because only the first and the last byte of a PDU are    *)
(* compared with what was received.                                        *)
NoPduEncloses ==
  \A p, q \in Pdus : p.sn = q.sn => ~(p.so < q.so /\ segm_end(q) < segm_end(p))

(* What a status report means to the peer, which finds no SDU with a       *)
(* sequence number beyond the SN space, and what is missing                *)
bytes_of(nack) ==
  {<<nack.nack_sn, b>> : b \in nack.so_start..(IF nack.so_end = so_end_of_sdu
                                              THEN N_bytes - 1 ELSE nack.so_end)}
nacked_bytes(status) ==
  LET nacks == expand_nacks(rlc_am_nr_read_status_pdu(status).nacks)
  IN  UNION {bytes_of(nacks[i]) : i \in {j \in DOMAIN nacks : nacks[j].nack_sn \in SNs}}

(* The SNs that a NACK range stands for and the peer does not get: those   *)
(* after the wrap of the SN space (range_sn is not taken modulo mod_nr),   *)
(* and all of them when the range does not fit its 8 bits and is 0         *)
unsaid_sns(status) ==
  UNION {LET nack == status.nacks[i]
             sns  == IF nack.range = 0 THEN NackRangeMod ELSE nack.range
         IN  {(nack.nack_sn + k) % mod_nr :
                k \in {k \in 0..(sns - 1) : nack.range = 0 \/ nack.nack_sn + k >= mod_nr}}
         : i \in DOMAIN status.nacks}

missing_below(ack_sn) ==
  {x \in SNs \X (0..(N_bytes - 1)) :
     /\ rx_mod_base_nr(x[1]) < rx_mod_base_nr(ack_sn)
     /\ ~received(rx_window, x[1])
     /\ \A s \in rx_window[x[1]].segments : x[2] \notin s.so..(segm_end(s) - 1)}

(* What the peer makes of a status report when it takes the NACK ranges    *)
(* apart is missing below ACK_SN; and of what is missing it gets all but   *)
(* what the ranges cannot say: what lies beyond the wrap of the SN space,  *)
(* and a range of exactly 256 SDUs.                                        *)
StatusExact ==
  LET missing == missing_below(rx_highest_status)
      nacked  == nacked_bytes(full_status)
  IN  /\ nacked \subseteq missing
      /\ \A x \in missing \ nacked : x[1] \in unsaid_sns(full_status)

(* Trimming a report to a grant leaves a report that fits, acknowledges no *)
(* SDU that is not complete, and still NACKs every missing byte below the  *)
(* ACK_SN it moved back to that its ranges can say and no byte that was    *)
(* received.                                                               *)
TrimmedStatusSound ==
  \A max_len \in StatusGrants :
    LET t == trim(full_status, max_len)
    IN  max_len >= sizeof_header_ack_sn =>
          /\ packed_size(t.nacks) <= max_len
          /\ rx_mod_base_nr(t.ack_sn) <= rx_mod_base_nr(rx_highest_status)
          /\ \A x \in missing_below(t.ack_sn) \ nacked_bytes(t) : x[1] \in unsaid_sns(t)
          /\ nacked_bytes(t) \subseteq missing_below(rx_highest_status)
=============================================================================
