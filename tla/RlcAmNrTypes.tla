---------------------------- MODULE RlcAmNrTypes ----------------------------
(***************************************************************************)
(* What the two ends of an NR RLC AM bearer (lib/src/rlc/rlc_am_nr.cc)     *)
(* share: sequence numbers, AMD PDUs and STATUS PDUs.                      *)
(*                                                                         *)
(* Sequence numbers, segment offsets and lengths are modelled exactly; the *)
(* payload of a PDU is the identity of the SDU its bytes come from.        *)
(***************************************************************************)
EXTENDS Integers, Sequences, FiniteSets

CONSTANTS mod_nr,          \* cardinality(sn_field_length): 2^12 or 2^18
          AM_Window_Size,  \* am_window_size(sn_field_length): half of it
          Sdus,            \* the SDUs the upper layer may write: 1..n
          N_bytes,         \* bytes of every SDU
          min_hdr_size,    \* header without segment offset
          so_size,         \* bytes of the segment offset
          NackRangeMod,    \* values of rlc_status_nack_t::nack_range (2^8)
          OutOfBuffers     \* the ends where make_byte_buffer() may fail: "tx", "rx"

ASSUME TypesAssumption ==
  /\ AM_Window_Size \in Nat \ {0}
  /\ mod_nr = 2 * AM_Window_Size
  /\ Sdus \subseteq Nat \ {0}
  /\ N_bytes \in Nat \ {0}
  /\ min_hdr_size \in Nat \ {0} /\ so_size \in Nat
  /\ NackRangeMod \in Nat \ {0, 1}
  /\ OutOfBuffers \subseteq {"tx", "rx"}

max_hdr_size == min_hdr_size + so_size

SNs     == 0..(mod_nr - 1)
None    == -1                   \* INVALID_RLC_SN; an SDU or buffer that is not there
Corrupt == 0                    \* bytes that are no SDU that was written

(* 0xFFFF in a NACK: to the end of the SDU.  No byte has this offset.      *)
so_end_of_sdu == N_bytes

(* Unsigned arithmetic modulo the SN space                                 *)
next_sn(sn)        == (sn + 1) % mod_nr
prev_sn(sn)        == (sn - 1) % mod_nr
mod_base(sn, base) == (sn - base) % mod_nr

(* The ring buffer has one slot for sn and for the SN half a space away    *)
same_slot(sn) == (sn + AM_Window_Size) % mod_nr

(* AMD PDU: the SI field, the segment offset (0 in the header of a full    *)
(* SDU or first segment), the length of the data field, the poll bit, and  *)
(* the SDU the data comes from                                             *)
SI == {"full", "first", "middle", "last"}
DataPdu == [sn : SNs, si : SI, so : 0..(N_bytes - 1), len : 1..N_bytes,
            p : BOOLEAN, sdu : Sdus]

(* rlc_status_nack_t; range is 1 where there is no NACK range              *)
Nack == [nack_sn : SNs, has_so : BOOLEAN, so_start : Nat, so_end : Int,
         has_range : BOOLEAN, range : 0..(NackRangeMod - 1)]
StatusPdu == [ack_sn : SNs, nacks : Seq(Nack)]
=============================================================================
