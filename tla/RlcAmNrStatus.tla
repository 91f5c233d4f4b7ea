--------------------------- MODULE RlcAmNrStatus ----------------------------
(***************************************************************************)
(* rlc_am_nr_status_pdu_t (rlc_am_nr_packing.cc): how NACKs are merged     *)
(* into ranges, how a STATUS PDU is trimmed to a grant, and how the other  *)
(* end (handle_control_pdu) takes the ranges apart again.                  *)
(***************************************************************************)
EXTENDS RlcAmNrTypes, SequencesExt

sizeof_header_ack_sn == 3
sizeof_nack_sn_ext   == 2       \* 12 bit SN
sizeof_nack_so       == 4
sizeof_nack_range    == 1

(* The constructor's defaults: the whole SDU                               *)
nack_sdu(sn) ==
  [nack_sn |-> sn, has_so |-> FALSE, so_start |-> 0, so_end |-> so_end_of_sdu,
   has_range |-> FALSE, range |-> 1]

nack_bytes(sn, so_start, so_end) ==
  [nack_sdu(sn) EXCEPT !.has_so = TRUE, !.so_start = so_start, !.so_end = so_end]

nack_size(nack) ==
  sizeof_nack_sn_ext + (IF nack.has_so THEN sizeof_nack_so ELSE 0)
                     + (IF nack.has_range THEN sizeof_nack_range ELSE 0)

packed_size(nacks) ==
  FoldLeft(LAMBDA size, nack : size + nack_size(nack), sizeof_header_ack_sn, nacks)

(* (bug) the second NACK may start in the middle of its SDU                *)
is_continuous_sequence_AnyStart(left, right) ==
  /\ right.nack_sn = (left.nack_sn + left.range) % mod_nr
  /\ left.has_so => left.so_end = so_end_of_sdu

is_continuous_sequence(left, right) ==
  /\ right.nack_sn = (left.nack_sn + left.range) % mod_nr
  /\ left.has_so  => left.so_end = so_end_of_sdu
  /\ right.has_so => right.so_start = 0

(* The NACK before takes the next one in; nack_range is a uint8_t          *)
extended(left, right) ==
  [left EXCEPT !.has_range = TRUE,
               !.range  = (@ + right.range) % NackRangeMod,
               !.has_so = @ \/ right.has_so,
               !.so_end = right.so_end]

push_nack(nacks, nack) ==
  IF nacks # <<>> /\ is_continuous_sequence(Last(nacks), nack)
  THEN [nacks EXCEPT ![Len(nacks)] = extended(Last(nacks), nack)]
  ELSE Append(nacks, nack)

(* trim: NACKs go from the back until the rest fits and does not start a   *)
(* NACK at the new ACK_SN                                                  *)
ack_sn_of_Kept(status, kept) == status.ack_sn    \* (bug) ACK_SN does not move back

ack_sn_of(status, kept) ==
  IF kept = Len(status.nacks) THEN status.ack_sn ELSE status.nacks[kept + 1].nack_sn

trim(status, max_packed_size) ==
  LET Fits(k) == packed_size(SubSeq(status.nacks, 1, k)) <= max_packed_size
      kept == Max({0} \cup {k \in 1..Len(status.nacks) :
                              Fits(k) /\ status.nacks[k].nack_sn # ack_sn_of(status, k)})
  IN  IF \/ packed_size(status.nacks) <= max_packed_size
         \/ max_packed_size < sizeof_header_ack_sn
      THEN status
      ELSE [ack_sn |-> ack_sn_of(status, kept), nacks |-> SubSeq(status.nacks, 1, kept)]

(* rlc_am_nr_read_status_pdu: the reader merges what it reads as well      *)
rlc_am_nr_read_status_pdu(status) ==
  [status EXCEPT !.nacks = FoldLeft(push_nack, <<>>, @)]

(* The single NACKs handle_control_pdu() makes of one NACK of the PDU.     *)
(* range_sn is not taken modulo mod_nr.                                    *)
expand_nack(nack) ==
  IF ~nack.has_range
  THEN <<nack>>
  ELSE [i \in 1..nack.range |->
          LET so_start == IF nack.has_so /\ i = 1 THEN nack.so_start ELSE 0
              so_end   == IF nack.has_so /\ i = nack.range THEN nack.so_end ELSE so_end_of_sdu
          IN  [nack_sdu(nack.nack_sn + i - 1) EXCEPT
                 !.has_so = so_start # 0 \/ so_end # so_end_of_sdu,
                 !.so_start = so_start, !.so_end = so_end]]

expand_nacks(nacks) == FlattenSeq([i \in DOMAIN nacks |-> expand_nack(nacks[i])])
=============================================================================
