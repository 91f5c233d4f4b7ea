--------------------------- MODULE RlcAmNr_proofs ---------------------------
(***************************************************************************)
(* The AM bearer of RlcAmNr, for every window size, every number of SDUs   *)
(* and PDUs in flight and every pattern of losses, when the MAC's grants   *)
(* are never smaller than an SDU with its header (so that no SDU is cut    *)
(* into segments), the two channels keep the order of what they do not     *)
(* lose and the sender finds a buffer for every SDU; the receiver need not *)
(* find one.                                                               *)
(***************************************************************************)
EXTENDS RlcAmNr, RlcAmNrRx_proofs, FiniteSetTheorems, SequenceTheorems

(* What the theorems take of the MAC, and of the sender's pool of buffers  *)
WholeGrants     == \A n \in Grants : n >= N_bytes + min_hdr_size
ChannelsInOrder == Reordered = {}
SenderHasBuffers == "tx" \notin OutOfBuffers

-----------------------------------------------------------------------------
(* The inductive invariant                                                 *)

WholeTxPdu == [sdu : Sdus \cup {None}, segment_list : {<<>>},
               retx_count : NOT_STARTED..(max_retx_thresh + 1)]
WholeRetx  == {retx_sdu(sn) : sn \in SNs}
WholePdu   == {p \in DataPdu : p.si = "full"}
WholeNacks == {n \in Nack : ~n.has_so}
Report     == [ack_sn : SNs, nacks : Seq(WholeNacks)]

(* Where the sender's window ends after this report                        *)
stop_of(s) == IF s.nacks = <<>> THEN s.ack_sn ELSE s.nacks[1].nack_sn

(* Every variable of the bearer, with whole SDUs only.                     *)
WholeTypes ==
  /\ tx_next_ack \in SNs /\ tx_next \in SNs /\ poll_sn \in SNs
  /\ pdu_without_poll \in 0..PollPdu /\ byte_without_poll \in 0..PollByte
  /\ tx_window \in [SNs -> WholeTxPdu]
  /\ retx_queue \in Seq(WholeRetx)
  /\ tx_sdu_queue \in Seq(Sdus \cup {None})
  /\ sdu_under_segmentation_sn = None
  /\ poll_retransmit_timer \in BOOLEAN /\ poll_expired \in BOOLEAN /\ tx_enabled \in BOOLEAN
  /\ data_ch \in Seq(WholePdu) /\ status_ch \in Seq(Report)
  /\ written \subseteq Sdus /\ discarded \subseteq Sdus /\ failed \subseteq Sdus
  /\ notified \in Seq(Sdus) /\ delivered \in Seq(Sdus)

Window == Outstanding(tx_window)

(* The window holds the SNs from TX_Next_Ack up to TX_Next.                *)
WindowOK ==
  /\ tx_mod_base_nr(tx_next) <= AM_Window_Size
  /\ Window = {sn \in SNs : tx_mod_base_nr(sn) < tx_mod_base_nr(tx_next)}

Live       == written \ discarded
Queued     == Elems(tx_sdu_queue) \ {None}
WindowSdus == {tx_window[sn].sdu : sn \in Window}
Delivered  == Elems(delivered)
Notified   == Elems(notified)

(* Where an SDU is: in the queue, then in the window, delivered from there *)
(* and then notified.                                                      *)
SdusOK ==
  /\ \A a, b \in Window : tx_window[a].sdu = tx_window[b].sdu => a = b
  /\ \A i, j \in DOMAIN tx_sdu_queue :
       tx_sdu_queue[i] = tx_sdu_queue[j] /\ tx_sdu_queue[i] # None => i = j
  /\ WindowSdus \subseteq Live \ (Queued \cup Notified)
  /\ Queued \subseteq Live \ Delivered
  /\ Delivered \subseteq Live
  /\ Notified \subseteq Delivered
  /\ Distinct(delivered) /\ Distinct(notified)
  /\ discarded \subseteq written
  /\ tx_enabled => written \subseteq discarded \cup Queued \cup WindowSdus \cup Delivered

(* The receiver has whole SDUs only, and no assertion has failed.          *)
ReceiverOK ==
  /\ RxInv /\ rx_abort = "none" /\ ~sdu_removed
  /\ \A sn \in SNs : received(rx_window, sn) \/ rx_window[sn] = NoRxSdu

(* The place of a sequence number between RX_Next - AM_Window_Size, which  *)
(* is 0, and RX_Next + AM_Window_Size: what is in flight is in there.      *)
place(sn) == rx_mod_base_nr(same_slot(sn))

(* The receiver has the SDU of a sequence number at that place             *)
Done(sn) == place(sn) < AM_Window_Size \/ received(rx_window, sn)

InData == Elems(data_ch)

(* The PDUs in flight: each fits its place, behind what was sent before    *)
(* it, and has an SDU that was delivered only if the receiver has its SN.  *)
DataOK ==
  /\ \A q \in InData : q.sdu \in Live \ Queued
  /\ \A q \in InData : rx_mod_base_nr(rx_next_highest) <= place(q.sn)
  /\ \A q \in InData : ~Done(q.sn) => q.sdu \notin Delivered
  /\ \A i, j \in DOMAIN data_ch :
       i < j => place(data_ch[i].sn) < place(data_ch[j].sn) + AM_Window_Size
  /\ \A p, q \in InData : p.sdu = q.sdu => p.sn = q.sn

(* The sender, as long as it is enabled, with the PDUs in flight and with  *)
(* the receiver.                                                           *)
LinkOK ==
  tx_enabled =>
    /\ tx_mod_base_nr(rx_next) + rx_mod_base_nr(rx_next_highest) <= tx_mod_base_nr(tx_next)
    /\ \A q \in InData :
         place(q.sn) < AM_Window_Size + tx_mod_base_nr(tx_next) - tx_mod_base_nr(rx_next)
    /\ \A q \in InData, sn \in Window : q.sdu = tx_window[sn].sdu <=> q.sn = sn
    /\ \A sn \in Window : Done(sn) <=> tx_window[sn].sdu \in Delivered

(* The reports in flight end where RX_Next was, one after the other.       *)
ReportsOK ==
  tx_enabled =>
    /\ \A i \in DOMAIN status_ch :
         tx_mod_base_nr(stop_of(status_ch[i])) <= tx_mod_base_nr(rx_next)
    /\ \A i, j \in DOMAIN status_ch :
         i <= j => tx_mod_base_nr(stop_of(status_ch[i])) <= tx_mod_base_nr(stop_of(status_ch[j]))

AmInv == /\ WholeTypes /\ WindowOK /\ SdusOK /\ ReceiverOK
         /\ DataOK /\ LinkOK /\ ReportsOK

-----------------------------------------------------------------------------
(* Places and distances                                                    *)

(* The place of a sequence number, from its distance to RX_Next.           *)
LEMMA Place ==
  ASSUME NEW sn \in SNs, NEW base \in SNs
  PROVE  /\ same_slot(sn) \in SNs
         /\ mod_base(same_slot(sn), base) =
              IF mod_base(sn, base) < AM_Window_Size
              THEN mod_base(sn, base) + AM_Window_Size
              ELSE mod_base(sn, base) - AM_Window_Size
<1>1. /\ same_slot(sn) = (IF sn < AM_Window_Size THEN sn + AM_Window_Size
                                                 ELSE sn - AM_Window_Size)
      /\ same_slot(sn) \in SNs
  BY Neighbours, TypesAssumption DEF SNs
<1>2. mod_base(sn, base) = IF sn >= base THEN sn - base ELSE sn - base + mod_nr
  BY ModBase
<1>3. mod_base(same_slot(sn), base) =
        IF same_slot(sn) >= base THEN same_slot(sn) - base ELSE same_slot(sn) - base + mod_nr
  BY <1>1, ModBase
<1> QED BY <1>1, <1>2, <1>3, TypesAssumption DEF SNs

(* The place of a sequence number the sender has not removed yet.          *)
LEMMA PlaceFromSender ==
  ASSUME NEW sn \in SNs, NEW ack \in SNs, NEW base \in SNs,
         mod_base(base, ack) <= AM_Window_Size,
         mod_base(sn, ack) < mod_base(base, ack) + AM_Window_Size
  PROVE  mod_base(same_slot(sn), base) =
           AM_Window_Size + mod_base(sn, ack) - mod_base(base, ack)
<1>1. mod_base(sn, base) = IF mod_base(sn, ack) >= mod_base(base, ack)
                           THEN mod_base(sn, ack) - mod_base(base, ack)
                           ELSE mod_base(sn, ack) - mod_base(base, ack) + mod_nr
  BY Rebase
<1>2. /\ mod_base(sn, ack) \in Nat /\ mod_base(base, ack) \in Nat
      /\ AM_Window_Size \in Nat /\ mod_nr = 2 * AM_Window_Size
  BY Distance, TypesAssumption
<1>3. mod_base(same_slot(sn), base) = IF mod_base(sn, base) < AM_Window_Size
                                      THEN mod_base(sn, base) + AM_Window_Size
                                      ELSE mod_base(sn, base) - AM_Window_Size
  BY Place
<1> HIDE DEF mod_base
<1> QED BY <1>1, <1>2, <1>3

(* A sequence number and its successor at a distance below the SN space.   *)
LEMMA AtDistance ==
  ASSUME NEW base \in SNs, NEW k \in Nat, k < mod_nr
  PROVE  (base + k) % mod_nr \in SNs /\ mod_base((base + k) % mod_nr, base) = k
<1>1. mod_nr \in Nat \ {0} /\ base \in 0..(mod_nr - 1)
  BY TypesAssumption DEF SNs
<1>2. (base + k) % mod_nr = IF base + k < mod_nr THEN base + k ELSE base + k - mod_nr
  <2>1. CASE base + k < mod_nr
    BY <2>1, <1>1
  <2>2. CASE base + k >= mod_nr
    <3> DEFINE y == base + k - mod_nr
    <3>1. y \in 0..(mod_nr - 1) /\ base + k = y + mod_nr
      BY <1>1, <2>2
    <3> HIDE DEF y
    <3>2. (y + mod_nr) % mod_nr = y
      BY <1>1, <3>1
    <3> QED BY <1>1, <2>2, <3>1, <3>2
  <2> QED BY <1>1, <2>1, <2>2
<1>3. (base + k) % mod_nr \in SNs
  BY <1>1, <1>2 DEF SNs
<1>4. mod_base((base + k) % mod_nr, base) =
        IF (base + k) % mod_nr >= base THEN ((base + k) % mod_nr) - base
        ELSE ((base + k) % mod_nr) - base + mod_nr
  BY <1>3, ModBase
<1> QED BY <1>1, <1>2, <1>3, <1>4

(* The window of k sequence numbers from base has k elements.              *)
LEMMA WindowCardinality ==
  ASSUME NEW base \in SNs, NEW k \in Nat, k <= mod_nr
  PROVE  Cardinality({sn \in SNs : mod_base(sn, base) < k}) = k
<1> DEFINE S == {sn \in SNs : mod_base(sn, base) < k}
           f == [i \in 1..k |-> (base + (i - 1)) % mod_nr]
<1>1. mod_nr \in Nat \ {0}
  BY TypesAssumption
<1>2. \A i \in 1..k : (base + (i - 1)) % mod_nr \in SNs /\ mod_base((base + (i - 1)) % mod_nr, base) = i - 1
  BY <1>1, AtDistance
<1>3. f \in [1..k -> S]
  BY <1>2
<1>4. \A i, j \in 1..k : f[i] = f[j] => i = j
  BY <1>2
<1>5. ASSUME NEW sn \in S PROVE \E i \in 1..k : f[i] = sn
  <2> DEFINE i == mod_base(sn, base) + 1
  <2>1. mod_base(sn, base) \in Nat
    BY Distance
  <2>2. i \in 1..k
    BY <1>5, <2>1
  <2>3. f[i] \in SNs /\ mod_base(f[i], base) = mod_base(sn, base)
    BY <1>2, <2>1, <2>2
  <2> HIDE DEF f, i
  <2>4. f[i] = sn
    BY <1>5, <2>3, SameDistance
  <2> QED BY <2>2, <2>4
<1>6. f \in Bijection(1..k, S)
  BY <1>3, <1>4, <1>5 DEF Bijection, Injection, Surjection, IsInjective
<1>7. IsFiniteSet(1..k) /\ Cardinality(1..k) = k
  BY FS_Interval
<1>8. ExistsBijection(1..k, S)
  BY <1>6 DEF ExistsBijection
<1> HIDE DEF S
<1>9. Cardinality(S) = Cardinality(1..k)
  BY <1>7, <1>8, FS_Bijection
<1> QED BY <1>7, <1>9 DEF S

-----------------------------------------------------------------------------
(* Data PDUs reach the receiver                                            *)

(* The numbers of the receiver's state.                                    *)
LEMMA ReceiverNumbers ==
  ASSUME ReceiverOK
  PROVE  /\ rx_next \in SNs /\ rx_next_highest \in SNs /\ rx_highest_status \in SNs
         /\ rx_window \in [SNs -> RxSdu]
         /\ rx_mod_base_nr(rx_next_highest) \in Nat
         /\ rx_mod_base_nr(rx_next_highest) <= AM_Window_Size
         /\ \A x \in SNs : rx_mod_base_nr(x) \in Nat /\ rx_mod_base_nr(x) < mod_nr
         /\ \A x \in SNs : received(rx_window, x) =>
                             rx_mod_base_nr(x) < rx_mod_base_nr(rx_next_highest)
<1>1. /\ rx_next \in SNs /\ rx_next_highest \in SNs /\ rx_highest_status \in SNs
      /\ rx_window \in [SNs -> RxSdu]
  BY DEF ReceiverOK, RxInv, RxTypeOK
<1>2. \A x \in SNs : rx_mod_base_nr(x) \in Nat /\ rx_mod_base_nr(x) < mod_nr
  BY <1>1, Distance DEF rx_mod_base_nr
<1>3. /\ rx_mod_base_nr(rx_next_highest) <= AM_Window_Size
      /\ \A x \in SNs : received(rx_window, x) =>
                          rx_mod_base_nr(x) < rx_mod_base_nr(rx_next_highest)
  BY DEF ReceiverOK, RxInv, RxStateOrdered, received, holds_data
<1> QED BY <1>1, <1>2, <1>3

(* An accepted PDU adds its SN to the received ones, and RX_Next moves     *)
(* over received ones only.                                                *)
LEMMA AcceptedWhole ==
  ASSUME ReceiverOK, NEW p \in WholePdu, accepted(p), handle_data_pdu(p)
  PROVE  /\ ReceiverOK' /\ rx_next' \in SNs
         /\ rx_mod_base_nr(rx_next_highest') =
              IF rx_mod_base_nr(p.sn) >= rx_mod_base_nr(rx_next_highest)
              THEN rx_mod_base_nr(p.sn) + 1 ELSE rx_mod_base_nr(rx_next_highest)
         /\ rx_mod_base_nr(rx_next') <= rx_mod_base_nr(rx_next_highest')
         /\ \A x \in SNs : rx_mod_base_nr(x) < rx_mod_base_nr(rx_next') =>
                             received(rx_window, x) \/ x = p.sn
         /\ \A x \in SNs : received(rx_window', x) <=>
                             /\ rx_mod_base_nr(x) >= rx_mod_base_nr(rx_next')
                             /\ received(rx_window, x) \/ x = p.sn
<1> DEFINE w == window_with(p)
           n == next_rx_next(p)
           h == next_highest(p)
<1>1. /\ p \in DataPdu /\ p.si = "full" /\ RxInv
  BY DEF WholePdu, ReceiverOK
<1>2. /\ rx_next' = n /\ rx_next_highest' = h
      /\ rx_window' = window_from(w, n)
      /\ rx_abort' \in {"no_sdu_at_rx_next", rx_abort} /\ sdu_removed' = sdu_removed
  BY DEF handle_data_pdu, update_reassembly_timer
<1>3. RxInv'
  BY <1>1, DataPreserves
<1>4. /\ n \in SNs /\ h \in SNs
      /\ rx_mod_base_nr(n) <= rx_mod_base_nr(h)
      /\ \A x \in SNs : rx_mod_base_nr(x) < rx_mod_base_nr(n) => received(w, x)
  BY <1>1, NewNext, NewHighest
<1>5. p.sn \in SNs /\ rx_next \in SNs /\ rx_window \in [SNs -> RxSdu]
  BY <1>1, StoredSdu DEF RxInv, RxTypeOK
<1>6. w[p.sn] = [NoRxSdu EXCEPT !.present = TRUE, !.fully_received = TRUE]
  BY <1>1, <1>5 DEF window_with, stored_sdu
<1>7. received(w, p.sn)
  BY <1>6 DEF received, NoRxSdu
<1>8. \A x \in SNs : received(w, x) <=> received(rx_window, x) \/ x = p.sn
  <2> SUFFICES ASSUME NEW x \in SNs, x # p.sn PROVE received(w, x) <=> received(rx_window, x)
    BY <1>7
  <2>1. /\ rx_window[x].present => w[x] = rx_window[x]
        /\ w[x].present => rx_window[x].present
    BY <1>1, WindowWith
  <2> QED BY <2>1 DEF received
<1>9. \A x \in SNs : received(w, x) \/ w[x] = NoRxSdu
  <2> SUFFICES ASSUME NEW x \in SNs, x # p.sn PROVE received(w, x) \/ w[x] = NoRxSdu
    BY <1>7
  <2>1. w[x] \in {rx_window[x], NoRxSdu}
    BY <1>1, WindowWith
  <2> QED BY <2>1 DEF ReceiverOK, received
<1>10. \A x \in SNs : rx_window'[x] = IF rx_mod_base_nr(x) < rx_mod_base_nr(n) THEN NoRxSdu ELSE w[x]
  BY <1>2 DEF window_from
<1>11. \A x \in SNs : rx_mod_base_nr(x) \in Nat
  BY <1>5, Distance DEF rx_mod_base_nr
<1>12. rx_mod_base_nr(h) = IF rx_mod_base_nr(p.sn) >= rx_mod_base_nr(rx_next_highest)
                           THEN rx_mod_base_nr(p.sn) + 1 ELSE rx_mod_base_nr(rx_next_highest)
  <2>1. mod_base(p.sn, rx_next) < mod_nr - 1
    <3>1. mod_base(p.sn, rx_next) < AM_Window_Size /\ mod_base(p.sn, rx_next) \in Nat
      BY <1>5, Distance DEF accepted, inside_rx_window, rx_mod_base_nr
    <3> QED BY <3>1, TypesAssumption
  <2>2. mod_base(next_sn(p.sn), rx_next) = mod_base(p.sn, rx_next) + 1
    BY <1>5, <2>1, NextDistance
  <2> QED BY <2>2 DEF next_highest, rx_mod_base_nr
<1> HIDE DEF w, n, h
<1>13. \A x \in SNs : received(rx_window', x) <=>
                        /\ rx_mod_base_nr(x) >= rx_mod_base_nr(n)
                        /\ received(rx_window, x) \/ x = p.sn
  <2> SUFFICES ASSUME NEW x \in SNs
               PROVE  received(rx_window', x) <=>
                        /\ rx_mod_base_nr(x) >= rx_mod_base_nr(n)
                        /\ received(w, x)
    BY <1>8
  <2> QED BY <1>4, <1>10, <1>11 DEF received, NoRxSdu
<1>14. \A x \in SNs : received(rx_window', x) \/ rx_window'[x] = NoRxSdu
  BY <1>9, <1>10 DEF received
<1>15. rx_abort' = "none" /\ ~sdu_removed'
  BY <1>2, <1>3 DEF ReceiverOK, RxInv, StateAssertionsHold
<1>16. ReceiverOK'
  BY <1>3, <1>14, <1>15 DEF ReceiverOK
<1> QED BY <1>2, <1>4, <1>8, <1>12, <1>13, <1>16 DEF rx_mod_base_nr

(* What is in flight or in the window after RX_Next has moved: its place   *)
(* moves back by as much, and one more SN is done.                         *)
LEMMA PlaceAfter ==
  ASSUME ReceiverOK, NEW p \in WholePdu, accepted(p), handle_data_pdu(p),
         NEW x \in SNs, rx_mod_base_nr(rx_next') <= place(x)
  PROVE  /\ place(x)' = place(x) - rx_mod_base_nr(rx_next')
         /\ Done(x)' <=> Done(x) \/ x = p.sn
<1> DEFINE d == rx_mod_base_nr(rx_next')
<1>1. /\ rx_next' \in SNs
      /\ \A y \in SNs : rx_mod_base_nr(y) < d => received(rx_window, y) \/ y = p.sn
      /\ \A y \in SNs : received(rx_window', y) <=>
                          /\ rx_mod_base_nr(y) >= d
                          /\ received(rx_window, y) \/ y = p.sn
  BY AcceptedWhole
<1>2. rx_next \in SNs /\ same_slot(x) \in SNs
  BY ReceiverNumbers, Place
<1>3. mod_base(same_slot(x), rx_next') = mod_base(same_slot(x), rx_next) - mod_base(rx_next', rx_next)
  <2>1. mod_base(same_slot(x), rx_next) >= mod_base(rx_next', rx_next)
    BY <1>1, <1>2, Distance DEF place, rx_mod_base_nr
  <2> QED BY <1>1, <1>2, <2>1, Rebase
<1>4. place(x)' = place(x) - d
  BY <1>3 DEF place, rx_mod_base_nr
<1>5. place(x) = IF rx_mod_base_nr(x) < AM_Window_Size
                 THEN rx_mod_base_nr(x) + AM_Window_Size ELSE rx_mod_base_nr(x) - AM_Window_Size
  BY <1>2, Place DEF place, rx_mod_base_nr
<1>6. /\ rx_mod_base_nr(x) \in Nat /\ rx_mod_base_nr(x) < mod_nr /\ d \in Nat
      /\ AM_Window_Size \in Nat /\ mod_nr = 2 * AM_Window_Size /\ d <= AM_Window_Size
  <2>1. d <= rx_mod_base_nr(rx_next_highest') /\ rx_next_highest' \in SNs
    BY AcceptedWhole DEF ReceiverOK, RxInv, RxTypeOK
  <2>2. rx_mod_base_nr(rx_next_highest') <= AM_Window_Size
    <3>1. /\ rx_mod_base_nr(rx_next_highest') =
              IF rx_mod_base_nr(p.sn) >= rx_mod_base_nr(rx_next_highest)
              THEN rx_mod_base_nr(p.sn) + 1 ELSE rx_mod_base_nr(rx_next_highest)
      BY AcceptedWhole
    <3>2. /\ rx_mod_base_nr(rx_next_highest) <= AM_Window_Size
          /\ rx_mod_base_nr(p.sn) < AM_Window_Size
          /\ p.sn \in SNs
      BY ReceiverNumbers DEF accepted, inside_rx_window, WholePdu, DataPdu
    <3> QED BY <3>1, <3>2, ReceiverNumbers, TypesAssumption
  <2> QED BY <1>1, <2>1, <2>2, ReceiverNumbers, TypesAssumption
<1>7. Done(x)' <=> place(x) - d < AM_Window_Size \/ received(rx_window', x)
  BY <1>4 DEF Done, received
<1> HIDE DEF d
<1>8. Done(x)' <=> Done(x) \/ x = p.sn
  <2>1. CASE rx_mod_base_nr(x) < d
    <3>1. received(rx_window, x) \/ x = p.sn
      BY <1>1, <2>1
    <3>2. place(x) - d < AM_Window_Size
      BY <1>5, <1>6, <2>1
    <3> QED BY <1>7, <3>1, <3>2 DEF Done
  <2>2. CASE rx_mod_base_nr(x) >= d
    <3>1. received(rx_window', x) <=> received(rx_window, x) \/ x = p.sn
      BY <1>1, <2>2
    <3>2. place(x) - d < AM_Window_Size <=> place(x) < AM_Window_Size
      BY <1>5, <1>6, <2>2
    <3> QED BY <1>7, <3>1, <3>2 DEF Done
  <2> QED BY <1>6, <2>1, <2>2
<1> QED BY <1>4, <1>8 DEF d


(* Where the receiver's window and numbers stay.                           *)
LEMMA ReceiverUnchanged ==
  ASSUME ReceiverOK, UNCHANGED <<rxState, rx_window, reassembly_timer, sdu_removed, rx_abort>>,
         do_status' \in BOOLEAN, status_prohibit_timer' \in BOOLEAN
  PROVE  ReceiverOK'
<1>1. RxInv'
  BY StateUnchanged DEF ReceiverOK
<1> QED BY <1>1 DEF ReceiverOK

(* Where all of it stays.                                                  *)
LEMMA ReceiverStays ==
  ASSUME ReceiverOK, UNCHANGED rxVars
  PROVE  ReceiverOK'
<1>1. /\ UNCHANGED <<rxState, rx_window, reassembly_timer, sdu_removed, rx_abort>>
      /\ UNCHANGED <<do_status, status_prohibit_timer>>
  BY DEF rxVars
<1>2. do_status' \in BOOLEAN /\ status_prohibit_timer' \in BOOLEAN
  BY <1>1 DEF ReceiverOK, RxInv, RxTypeOK
<1> QED BY <1>1, <1>2, ReceiverUnchanged

(* A channel without one of its PDUs: the rest is in the same order.       *)
LEMMA Removed ==
  ASSUME NEW T, NEW s \in Seq(T), NEW i \in DOMAIN s
  PROVE  /\ RemoveAt(s, i) \in Seq(T)
         /\ DOMAIN RemoveAt(s, i) = 1..(Len(s) - 1)
         /\ \A j \in 1..(Len(s) - 1) :
              /\ RemoveAt(s, i)[j] = s[IF j < i THEN j ELSE j + 1]
              /\ (IF j < i THEN j ELSE j + 1) \in DOMAIN s \ {i}
<1>1. i \in 1..Len(s) /\ Len(s) \in Nat /\ DOMAIN s = 1..Len(s)
  OBVIOUS
<1> DEFINE a == SubSeq(s, 1, i - 1)
           b == SubSeq(s, i + 1, Len(s))
<1>2. /\ a \in Seq(T) /\ Len(a) = i - 1 /\ \A j \in 1..(i - 1) : a[j] = s[j]
      /\ b \in Seq(T) /\ Len(b) = Len(s) - i /\ \A j \in 1..(Len(s) - i) : b[j] = s[i + j]
  BY <1>1
<1>3. RemoveAt(s, i) = a \o b
  BY DEF RemoveAt
<1> HIDE DEF a, b
<1>4. /\ a \o b \in Seq(T) /\ Len(a \o b) = Len(s) - 1
      /\ \A j \in 1..(Len(s) - 1) : (a \o b)[j] = IF j <= i - 1 THEN a[j] ELSE b[j - (i - 1)]
  <2>1. /\ a \o b \in Seq(T) /\ Len(a \o b) = Len(a) + Len(b)
        /\ \A j \in 1..(Len(a) + Len(b)) : (a \o b)[j] = IF j <= Len(a) THEN a[j] ELSE b[j - Len(a)]
    BY <1>2, ConcatProperties
  <2>2. Len(a) + Len(b) = Len(s) - 1
    BY <1>1, <1>2
  <2> QED BY <1>2, <2>1, <2>2
<1>5. ASSUME NEW j \in 1..(Len(s) - 1)
      PROVE  /\ (a \o b)[j] = s[IF j < i THEN j ELSE j + 1]
             /\ (IF j < i THEN j ELSE j + 1) \in DOMAIN s \ {i}
  <2>1. CASE j < i
    <3>1. j \in 1..(i - 1) /\ j <= i - 1
      BY <1>1, <2>1
    <3> QED BY <1>1, <1>2, <1>4, <2>1, <3>1
  <2>2. CASE ~(j < i)
    <3>1. ~(j <= i - 1) /\ j - (i - 1) \in 1..(Len(s) - i) /\ i + (j - (i - 1)) = j + 1
      BY <1>1, <2>2
    <3>2. (a \o b)[j] = b[j - (i - 1)]
      BY <1>4, <3>1
    <3>3. b[j - (i - 1)] = s[i + (j - (i - 1))]
      BY <1>2, <3>1
    <3>4. (a \o b)[j] = s[j + 1]
      BY <3>1, <3>2, <3>3
    <3> QED BY <1>1, <2>2, <3>4
  <2> QED BY <2>1, <2>2
<1>6. DOMAIN (a \o b) = 1..(Len(s) - 1)
  BY <1>4, LenProperties
<1> QED BY <1>3, <1>4, <1>5, <1>6

(* What of a channel every pair of PDUs has, the rest has as well.         *)
LEMMA RemovedPairs ==
  ASSUME NEW T, NEW s \in Seq(T), NEW i \in DOMAIN s, NEW new, new = RemoveAt(s, i)
  PROVE  /\ new \in Seq(T)
         /\ Elems(new) \subseteq Elems(s)
         /\ \A j \in DOMAIN new : \E k \in DOMAIN s : k # i /\ new[j] = s[k]
         /\ \A j, k \in DOMAIN new : j < k =>
              \E m, n \in DOMAIN s : m < n /\ m # i /\ n # i /\ new[j] = s[m] /\ new[k] = s[n]
<1> DEFINE at(j) == IF j < i THEN j ELSE j + 1
<1>1. /\ new \in Seq(T) /\ DOMAIN new = 1..(Len(s) - 1)
      /\ \A j \in DOMAIN new : new[j] = s[at(j)] /\ at(j) \in DOMAIN s \ {i}
  BY Removed
<1>2. \A j, k \in DOMAIN new : j < k => at(j) < at(k)
  BY <1>1
<1> HIDE DEF at
<1>3. Elems(new) \subseteq Elems(s)
  BY <1>1 DEF Elems
<1> QED BY <1>1, <1>2, <1>3

(* Everything of the bearer but the channels, t-PollRetransmit and what    *)
(* the invariant does not speak of                                         *)
endVars == <<tx_next_ack, tx_next, tx_window, tx_sdu_queue, tx_enabled, written, discarded,
             notified, delivered, rx_next, rx_next_highest, rx_window>>

(* A PDU less in flight, lost or refused by the receiver.                  *)
LEMMA DataGone ==
  ASSUME AmInv, NEW i \in DOMAIN data_ch, data_ch' = RemoveAt(data_ch, i),
         UNCHANGED <<endVars, pollVars, retx_queue, sdu_under_segmentation_sn,
                     poll_expired, failed, status_ch>>,
         ReceiverOK'
  PROVE  AmInv'
<1>1. /\ data_ch' \in Seq(WholePdu)
      /\ InData' \subseteq InData
      /\ \A j, k \in DOMAIN data_ch' : j < k =>
           \E m, n \in DOMAIN data_ch : m < n /\ data_ch'[j] = data_ch[m] /\ data_ch'[k] = data_ch[n]
  <2>1. data_ch \in Seq(WholePdu)
    BY DEF AmInv, WholeTypes
  <2> QED BY <2>1, RemovedPairs DEF InData
<1>2. \A x : place(x)' = place(x) /\ rx_mod_base_nr(x)' = rx_mod_base_nr(x) /\ (Done(x)' <=> Done(x))
  BY DEF place, rx_mod_base_nr, Done, received, endVars
<1>3. WholeTypes' /\ WindowOK' /\ SdusOK'
  <2>1. WholeTypes'
    BY <1>1 DEF AmInv, WholeTypes, endVars, pollVars
  <2>2. WindowOK'
    BY DEF AmInv, WindowOK, Window, tx_mod_base_nr, endVars
  <2>3. SdusOK'
    BY DEF AmInv, SdusOK, Window, Live, Queued, WindowSdus, Delivered, Notified, endVars
  <2> QED BY <2>1, <2>2, <2>3
<1>4. DataOK'
  <2>1. Live' = Live /\ Queued' = Queued /\ Delivered' = Delivered
    BY DEF Live, Queued, Delivered, endVars
  <2>2. rx_mod_base_nr(rx_next_highest)' = rx_mod_base_nr(rx_next_highest)
    BY DEF rx_mod_base_nr, endVars
  <2>3. DataOK
    BY DEF AmInv
  <2>4. ASSUME NEW j \in DOMAIN data_ch', NEW k \in DOMAIN data_ch', j < k
        PROVE  (place(data_ch[j].sn) < place(data_ch[k].sn) + AM_Window_Size)'
    <3>1. PICK m \in DOMAIN data_ch, n \in DOMAIN data_ch :
            m < n /\ data_ch'[j] = data_ch[m] /\ data_ch'[k] = data_ch[n]
      BY <1>1, <2>4
    <3>2. place(data_ch[m].sn) < place(data_ch[n].sn) + AM_Window_Size
      BY <2>3, <3>1 DEF DataOK
    <3> QED BY <3>1, <3>2 DEF place, rx_mod_base_nr, endVars
  <2>5. \A q \in InData' : /\ q.sdu \in Live' \ Queued'
                           /\ rx_mod_base_nr(rx_next_highest)' <= place(q.sn)'
                           /\ ~Done(q.sn)' => q.sdu \notin Delivered'
    <3> SUFFICES ASSUME NEW q \in InData'
                 PROVE  /\ q.sdu \in Live' \ Queued'
                        /\ rx_mod_base_nr(rx_next_highest)' <= place(q.sn)'
                        /\ ~Done(q.sn)' => q.sdu \notin Delivered'
      OBVIOUS
    <3>1. q \in InData
      BY <1>1
    <3>2. /\ q.sdu \in Live \ Queued /\ rx_mod_base_nr(rx_next_highest) <= place(q.sn)
          /\ ~Done(q.sn) => q.sdu \notin Delivered
      BY <2>3, <3>1 DEF DataOK
    <3>3. place(q.sn)' = place(q.sn) /\ (Done(q.sn)' <=> Done(q.sn))
      BY DEF place, rx_mod_base_nr, Done, received, endVars
    <3> QED BY <2>1, <2>2, <3>2, <3>3
  <2>6. \A p, q \in InData' : p.sdu = q.sdu => p.sn = q.sn
    BY <1>1, <2>3 DEF DataOK
  <2> QED BY <2>4, <2>5, <2>6 DEF DataOK
<1>5. LinkOK'
  <2> SUFFICES ASSUME tx_enabled PROVE LinkOK'
    BY DEF LinkOK, endVars
  <2>1. LinkOK
    BY DEF AmInv
  <2>2. \A q \in InData' : place(q.sn)' < AM_Window_Size + tx_mod_base_nr(tx_next)' - tx_mod_base_nr(rx_next)'
    <3> SUFFICES ASSUME NEW q \in InData'
                 PROVE  place(q.sn)' < AM_Window_Size + tx_mod_base_nr(tx_next)' - tx_mod_base_nr(rx_next)'
      OBVIOUS
    <3>1. place(q.sn) < AM_Window_Size + tx_mod_base_nr(tx_next) - tx_mod_base_nr(rx_next)
      BY <1>1, <2>1 DEF LinkOK
    <3> QED BY <3>1 DEF place, rx_mod_base_nr, tx_mod_base_nr, endVars
  <2>3. \A q \in InData', sn \in Window' : q.sdu = tx_window'[sn].sdu <=> q.sn = sn
    BY <1>1, <2>1 DEF LinkOK, Window, endVars
  <2>4. \A sn \in Window' : Done(sn)' <=> tx_window'[sn].sdu \in Delivered'
    BY <2>1 DEF LinkOK, Window, Done, place, rx_mod_base_nr, received, Delivered, endVars
  <2>5. tx_mod_base_nr(rx_next)' + rx_mod_base_nr(rx_next_highest)' <= tx_mod_base_nr(tx_next)'
    BY <2>1 DEF LinkOK, tx_mod_base_nr, rx_mod_base_nr, endVars
  <2> QED BY <2>2, <2>3, <2>4, <2>5 DEF LinkOK
<1>6. ReportsOK'
  BY DEF AmInv, ReportsOK, tx_mod_base_nr, endVars
<1> QED BY <1>3, <1>4, <1>5, <1>6 DEF AmInv

(* The MAC loses a PDU.                                                    *)
LEMMA LoseDataPreserves ==
  ASSUME AmInv, NEW i \in Channel, LoseData(i)
  PROVE  AmInv'
<1>1. /\ i \in DOMAIN data_ch /\ data_ch' = RemoveAt(data_ch, i)
      /\ UNCHANGED <<endVars, pollVars, retx_queue, sdu_under_segmentation_sn,
                     poll_expired, failed, status_ch>>
  BY DEF LoseData, endVars, rxVars, rxState, upperVars
<1>2. UNCHANGED rxVars
  BY DEF LoseData
<1>3. ReceiverOK'
  BY <1>2, ReceiverStays DEF AmInv
<1> QED BY <1>1, <1>3, DataGone

(* The receiver gets the PDU that was sent first of those in flight and    *)
(* takes its SDU.                                                          *)
LEMMA ReceiveDataAccepted ==
  ASSUME AmInv, ReceiveData(1), accepted(data_ch[1])
  PROVE  /\ AmInv' /\ delivered' = Append(delivered, data_ch[1].sdu)
         /\ data_ch[1].sdu \in Live \ Delivered
<1> DEFINE p == data_ch[1]
           delta == rx_mod_base_nr(rx_next')
<1>1. /\ 1 \in DOMAIN data_ch /\ handle_data_pdu(p) /\ accepted(p)
      /\ delivered' = delivered \o reassembled(p)
      /\ data_ch' = RemoveAt(data_ch, 1)
      /\ UNCHANGED <<tx_next_ack, tx_next, pollVars, tx_window, retx_queue, tx_sdu_queue,
                     sdu_under_segmentation_sn, poll_expired, tx_enabled, upperVars, status_ch>>
  BY DEF ReceiveData, Next_of
<1>2. /\ data_ch \in Seq(WholePdu) /\ p \in WholePdu /\ p \in InData
      /\ p.sn \in SNs /\ p.si = "full" /\ p.sdu \in Sdus
      /\ \A q \in InData : q.sn \in SNs
  <2>1. data_ch \in Seq(WholePdu)
    BY DEF AmInv, WholeTypes
  <2>2. \A j \in DOMAIN data_ch : data_ch[j] \in WholePdu
    BY <2>1
  <2> QED BY <1>1, <2>1, <2>2 DEF InData, Elems, WholePdu, DataPdu
<1>3. reassembled(p) = <<p.sdu>>
  BY <1>1, <1>2 DEF reassembled, stored_sdu, NoRxSdu
<1>4. delivered \in Seq(Sdus) /\ delivered' = Append(delivered, p.sdu)
  BY <1>1, <1>2, <1>3 DEF AmInv, WholeTypes
<1>5. /\ ReceiverOK' /\ rx_next' \in SNs
      /\ rx_mod_base_nr(rx_next_highest') =
           IF rx_mod_base_nr(p.sn) >= rx_mod_base_nr(rx_next_highest)
           THEN rx_mod_base_nr(p.sn) + 1 ELSE rx_mod_base_nr(rx_next_highest)
      /\ delta <= rx_mod_base_nr(rx_next_highest')
  BY <1>1, <1>2, AcceptedWhole DEF AmInv
<1>6. /\ rx_next \in SNs /\ rx_next_highest \in SNs /\ rx_next_highest' \in SNs
      /\ rx_mod_base_nr(rx_next_highest) \in Nat
      /\ rx_mod_base_nr(rx_next_highest) <= AM_Window_Size
      /\ delta \in Nat /\ rx_mod_base_nr(rx_next_highest') \in Nat
      /\ \A x \in SNs : rx_mod_base_nr(x) \in Nat /\ rx_mod_base_nr(x) < mod_nr
      /\ \A x \in SNs : place(x) \in Nat
      /\ tx_next \in SNs /\ tx_next_ack \in SNs
      /\ \A x \in SNs : tx_mod_base_nr(x) \in Nat
      /\ AM_Window_Size \in Nat \ {0} /\ mod_nr = 2 * AM_Window_Size
  <2>1. tx_next \in SNs /\ tx_next_ack \in SNs
    BY DEF AmInv, WholeTypes
  <2>2. rx_next_highest' \in SNs
    BY <1>5 DEF ReceiverOK, RxInv, RxTypeOK
  <2>3. \A x \in SNs : tx_mod_base_nr(x) \in Nat
    BY <2>1, Distance DEF tx_mod_base_nr
  <2>4. \A x \in SNs : rx_mod_base_nr(x) \in Nat
    BY ReceiverNumbers DEF AmInv
  <2>5. \A x \in SNs : place(x) \in Nat
    BY <2>4, Place, TypesAssumption DEF place
  <2> QED BY <1>5, <2>1, <2>2, <2>3, <2>4, <2>5, ReceiverNumbers, TypesAssumption DEF AmInv
<1>7. /\ rx_mod_base_nr(p.sn) < AM_Window_Size /\ ~received(rx_window, p.sn)
      /\ place(p.sn) = rx_mod_base_nr(p.sn) + AM_Window_Size
      /\ rx_mod_base_nr(rx_next_highest') <= AM_Window_Size
      /\ ~Done(p.sn)
  <2>1. rx_mod_base_nr(p.sn) < AM_Window_Size /\ ~received(rx_window, p.sn)
    BY <1>1 DEF accepted, inside_rx_window
  <2>2. place(p.sn) = rx_mod_base_nr(p.sn) + AM_Window_Size
    BY <1>2, <1>6, <2>1, Place DEF place, rx_mod_base_nr
  <2>3. rx_mod_base_nr(p.sn) \in Nat
    BY <1>2, <1>6
  <2> HIDE DEF p, delta
  <2>4. rx_mod_base_nr(rx_next_highest') <= AM_Window_Size
    BY <1>5, <1>6, <2>1, <2>3
  <2>5. ~(place(p.sn) < AM_Window_Size)
    BY <1>6, <2>2, <2>3
  <2> QED BY <2>1, <2>2, <2>4, <2>5 DEF Done
<1>8. /\ data_ch' \in Seq(WholePdu)
      /\ InData' \subseteq InData
      /\ \A j \in DOMAIN data_ch' : \E k \in DOMAIN data_ch : 1 < k /\ data_ch'[j] = data_ch[k]
      /\ \A j, k \in DOMAIN data_ch' : j < k =>
           \E m, n \in DOMAIN data_ch :
             /\ m < n /\ 1 < m /\ 1 < n
             /\ data_ch'[j] = data_ch[m] /\ data_ch'[k] = data_ch[n]
  <2>1. /\ data_ch' \in Seq(WholePdu)
        /\ Elems(data_ch') \subseteq Elems(data_ch)
        /\ \A j \in DOMAIN data_ch' : \E k \in DOMAIN data_ch : k # 1 /\ data_ch'[j] = data_ch[k]
        /\ \A j, k \in DOMAIN data_ch' : j < k =>
             \E m, n \in DOMAIN data_ch :
               /\ m < n /\ m # 1 /\ n # 1
               /\ data_ch'[j] = data_ch[m] /\ data_ch'[k] = data_ch[n]
    BY <1>1, <1>2, RemovedPairs
  <2>2. \A k \in DOMAIN data_ch : k # 1 => 1 < k
    BY <1>2
  <2> QED BY <2>1, <2>2 DEF InData
(* What was sent after this PDU has its place at RX_Next_Highest or later. *)
<1>9. \A k \in DOMAIN data_ch : 1 < k => rx_mod_base_nr(rx_next_highest') <= place(data_ch[k].sn)
  <2> SUFFICES ASSUME NEW k \in DOMAIN data_ch, 1 < k
               PROVE  rx_mod_base_nr(rx_next_highest') <= place(data_ch[k].sn)
    OBVIOUS
  <2>1. place(p.sn) < place(data_ch[k].sn) + AM_Window_Size
    BY <1>1 DEF AmInv, DataOK
  <2>2. data_ch[k] \in InData
    BY DEF InData, Elems
  <2>3. rx_mod_base_nr(rx_next_highest) <= place(data_ch[k].sn)
    BY <2>2 DEF AmInv, DataOK
  <2>4. place(data_ch[k].sn) \in Nat /\ rx_mod_base_nr(p.sn) \in Nat
    BY <1>2, <1>6, <2>2
  <2> HIDE DEF delta, p
  <2> QED BY <1>5, <1>6, <1>7, <2>1, <2>3, <2>4
<1>10. \A x \in SNs : delta <= place(x) => /\ place(x)' = place(x) - delta
                                           /\ Done(x)' <=> Done(x) \/ x = p.sn
  BY <1>1, <1>2, PlaceAfter DEF AmInv
<1>11. rx_mod_base_nr(rx_next_highest)' = rx_mod_base_nr(rx_next_highest') - delta
  <2>1. mod_base(rx_next_highest', rx_next') =
          mod_base(rx_next_highest', rx_next) - mod_base(rx_next', rx_next)
    <3>1. mod_base(rx_next_highest', rx_next) >= mod_base(rx_next', rx_next)
      BY <1>5, <1>6 DEF rx_mod_base_nr
    <3> QED BY <1>5, <1>6, <3>1, Rebase
  <2> QED BY <2>1 DEF rx_mod_base_nr
<1>12. /\ Delivered' = Delivered \cup {p.sdu} /\ p.sdu \in (Live \ Queued) \ Delivered
       /\ Live' = Live /\ Queued' = Queued
       /\ Window' = Window /\ WindowSdus' = WindowSdus /\ Notified' = Notified
  <2>1. Elems(Append(delivered, p.sdu)) = Elems(delivered) \cup {p.sdu}
    <3>1. /\ DOMAIN delivered = 1..Len(delivered) /\ Len(delivered) \in Nat
          /\ DOMAIN Append(delivered, p.sdu) = 1..(Len(delivered) + 1)
          /\ \A k \in 1..Len(delivered) : Append(delivered, p.sdu)[k] = delivered[k]
          /\ Append(delivered, p.sdu)[Len(delivered) + 1] = p.sdu
      BY <1>2, <1>4
    <3> HIDE DEF p
    <3> QED BY <3>1 DEF Elems
  <2>2. Delivered' = Delivered \cup {p.sdu}
    BY <1>4, <2>1 DEF Delivered
  <2>3. p.sdu \in (Live \ Queued) \ Delivered
    BY <1>2, <1>7 DEF AmInv, DataOK
  <2>4. /\ Live' = Live /\ Queued' = Queued
        /\ Window' = Window /\ WindowSdus' = WindowSdus /\ Notified' = Notified
    BY <1>1 DEF Live, Queued, Window, WindowSdus, Notified, upperVars
  <2> QED BY <2>2, <2>3, <2>4
<1>13. ASSUME tx_enabled
       PROVE  /\ tx_mod_base_nr(rx_next) + rx_mod_base_nr(rx_next_highest') <= tx_mod_base_nr(tx_next)
              /\ tx_mod_base_nr(rx_next)' = tx_mod_base_nr(rx_next) + delta
  <2>1. tx_mod_base_nr(rx_next) + rx_mod_base_nr(rx_next_highest) <= tx_mod_base_nr(tx_next)
        /\ tx_mod_base_nr(tx_next) <= AM_Window_Size
    BY <1>13 DEF AmInv, LinkOK, WindowOK
  <2>2. place(p.sn) < AM_Window_Size + tx_mod_base_nr(tx_next) - tx_mod_base_nr(rx_next)
    BY <1>2, <1>13 DEF AmInv, LinkOK
  <2>3. tx_mod_base_nr(rx_next) + rx_mod_base_nr(rx_next_highest') <= tx_mod_base_nr(tx_next)
    <3>1. rx_mod_base_nr(p.sn) \in Nat /\ tx_mod_base_nr(rx_next) \in Nat /\ tx_mod_base_nr(tx_next) \in Nat
      BY <1>2, <1>6
    <3> HIDE DEF p, delta
    <3> QED BY <1>5, <1>6, <1>7, <2>1, <2>2, <3>1
  <2>4. tx_mod_base_nr(rx_next)' = tx_mod_base_nr(rx_next) + delta
    <3> DEFINE a == mod_base(rx_next', tx_next_ack)
               b == mod_base(rx_next, tx_next_ack)
    <3>1. mod_base(rx_next', rx_next) = IF a >= b THEN a - b ELSE a - b + mod_nr
      BY <1>5, <1>6, Rebase
    <3>2. a \in Nat /\ b \in Nat /\ b + delta <= AM_Window_Size
      <4>1. a \in Nat /\ b \in Nat
        BY <1>5, <1>6, Distance
      <4>2. b + rx_mod_base_nr(rx_next_highest') <= AM_Window_Size
        <5>1. tx_mod_base_nr(tx_next) \in Nat
          BY <1>6
        <5> QED BY <1>6, <2>1, <2>3, <4>1, <5>1 DEF tx_mod_base_nr
      <4> QED BY <1>5, <1>6, <4>1, <4>2
    <3>3. delta = IF a >= b THEN a - b ELSE a - b + mod_nr
      BY <3>1 DEF rx_mod_base_nr
    <3>4. a = b + delta
      <4> HIDE DEF a, b, delta
      <4> QED BY <1>6, <3>2, <3>3
    <3> QED BY <1>1, <3>4 DEF tx_mod_base_nr
  <2> QED BY <2>3, <2>4
<1>20. WholeTypes'
  <2>1. Append(delivered, p.sdu) \in Seq(Sdus)
    BY <1>2, <1>4
  <2> QED BY <1>1, <1>4, <1>8, <2>1 DEF AmInv, WholeTypes, pollVars, upperVars
<1>21. WindowOK'
  BY <1>1 DEF AmInv, WindowOK, Window, tx_mod_base_nr
<1>22. SdusOK'
  <2>1. SdusOK
    BY DEF AmInv
  <2>2. Distinct(delivered')
    <3>1. /\ DOMAIN delivered = 1..Len(delivered) /\ Len(delivered) \in Nat
          /\ DOMAIN delivered' = 1..(Len(delivered) + 1)
          /\ \A k \in 1..Len(delivered) : delivered'[k] = delivered[k]
          /\ delivered'[Len(delivered) + 1] = p.sdu
      BY <1>2, <1>4
    <3>2. \A k \in DOMAIN delivered : delivered[k] # p.sdu
      BY <1>12 DEF Delivered, Elems
    <3>3. Distinct(delivered)
      BY <2>1 DEF SdusOK
    <3> HIDE DEF p
    <3> QED BY <3>1, <3>2, <3>3 DEF Distinct
  <2>3. written' = written /\ discarded' = discarded /\ notified' = notified
        /\ tx_window' = tx_window /\ tx_sdu_queue' = tx_sdu_queue /\ tx_enabled' = tx_enabled
    BY <1>1 DEF upperVars
  <2> HIDE DEF p, delta
  <2> QED BY <1>12, <2>1, <2>2, <2>3 DEF SdusOK
<1>23. DataOK'
  <2>1. \A j, k \in DOMAIN data_ch' :
          j < k => place(data_ch[j].sn)' < place(data_ch[k].sn)' + AM_Window_Size
    <3> SUFFICES ASSUME NEW j \in DOMAIN data_ch', NEW k \in DOMAIN data_ch', j < k
                 PROVE  (place(data_ch[j].sn) < place(data_ch[k].sn) + AM_Window_Size)'
      OBVIOUS
    <3>1. PICK m \in DOMAIN data_ch, n \in DOMAIN data_ch :
            m < n /\ 1 < m /\ 1 < n /\ data_ch'[j] = data_ch[m] /\ data_ch'[k] = data_ch[n]
      BY <1>8
    <3> DEFINE x == data_ch[m].sn
               y == data_ch[n].sn
    <3>2. place(x) < place(y) + AM_Window_Size
      BY <3>1 DEF AmInv, DataOK
    <3>3. x \in SNs /\ y \in SNs
      BY <1>2 DEF InData, Elems
    <3>4. delta <= place(x) /\ delta <= place(y)
      <4>1. /\ rx_mod_base_nr(rx_next_highest') <= place(x)
            /\ rx_mod_base_nr(rx_next_highest') <= place(y)
        BY <1>9, <3>1
      <4> QED BY <1>5, <1>6, <3>3, <4>1
    <3>5. same_slot(data_ch[j].sn)' = same_slot(x) /\ same_slot(data_ch[k].sn)' = same_slot(y)
      BY <3>1
    <3>6. place(data_ch[j].sn)' = place(x) - delta /\ place(data_ch[k].sn)' = place(y) - delta
      <4>1. \A z \in SNs : delta <= place(z) => mod_base(same_slot(z), rx_next') = place(z) - delta
        BY <1>10 DEF place, rx_mod_base_nr
      <4>2. /\ mod_base(same_slot(x), rx_next') = place(x) - delta
            /\ mod_base(same_slot(y), rx_next') = place(y) - delta
        <5> HIDE DEF x, y, delta
        <5> QED BY <3>3, <3>4, <4>1
      <4>3. /\ place(data_ch[j].sn)' = mod_base(same_slot(data_ch'[j].sn), rx_next')
            /\ place(data_ch[k].sn)' = mod_base(same_slot(data_ch'[k].sn), rx_next')
        BY DEF place, rx_mod_base_nr
      <4> QED BY <3>1, <4>2, <4>3
    <3>7. place(x) \in Nat /\ place(y) \in Nat
      BY <1>6, <3>3
    <3> HIDE DEF x, y, delta
    <3> QED BY <1>6, <3>2, <3>6, <3>7
  <2>2. \A q \in InData' : /\ q.sdu \in Live' \ Queued'
                           /\ rx_mod_base_nr(rx_next_highest)' <= place(q.sn)'
                           /\ ~Done(q.sn)' => q.sdu \notin Delivered'
    <3> SUFFICES ASSUME NEW q \in InData'
                 PROVE  /\ q.sdu \in Live' \ Queued'
                        /\ rx_mod_base_nr(rx_next_highest)' <= place(q.sn)'
                        /\ ~Done(q.sn)' => q.sdu \notin Delivered'
      OBVIOUS
    <3>1. q \in InData /\ q.sn \in SNs
      BY <1>2, <1>8
    <3>2. rx_mod_base_nr(rx_next_highest') <= place(q.sn)
      <4>1. PICK j \in DOMAIN data_ch' : q = data_ch'[j]
        BY DEF InData, Elems
      <4> QED BY <1>8, <1>9, <4>1
    <3>3. delta <= place(q.sn) /\ place(q.sn) \in Nat
      BY <1>5, <1>6, <3>1, <3>2
    <3>4. place(q.sn)' = place(q.sn) - delta /\ (Done(q.sn)' <=> Done(q.sn) \/ q.sn = p.sn)
      BY <1>10, <3>1, <3>3
    <3>5. q.sdu \in Live \ Queued /\ (~Done(q.sn) => q.sdu \notin Delivered)
          /\ (q.sdu = p.sdu => q.sn = p.sn)
      BY <1>2, <3>1 DEF AmInv, DataOK
    <3>6. rx_mod_base_nr(rx_next_highest)' <= place(q.sn)'
      <4> HIDE DEF p, delta
      <4> QED BY <1>6, <1>11, <3>2, <3>3, <3>4
    <3>7. ~Done(q.sn)' => q.sdu \notin Delivered'
      BY <1>12, <3>4, <3>5
    <3> QED BY <1>12, <3>5, <3>6, <3>7
  <2>3. \A a, b \in InData' : a.sdu = b.sdu => a.sn = b.sn
    BY <1>8 DEF AmInv, DataOK
  <2> QED BY <2>1, <2>2, <2>3 DEF DataOK
<1>24. LinkOK'
  <2> SUFFICES ASSUME tx_enabled PROVE LinkOK'
    BY <1>1 DEF LinkOK
  <2>1. tx_mod_base_nr(tx_next) <= AM_Window_Size
    BY DEF AmInv, WindowOK
  <2>3. /\ tx_mod_base_nr(rx_next) + rx_mod_base_nr(rx_next_highest') <= tx_mod_base_nr(tx_next)
        /\ tx_mod_base_nr(rx_next)' = tx_mod_base_nr(rx_next) + delta
    BY <1>13
  <2>5. tx_mod_base_nr(rx_next)' + rx_mod_base_nr(rx_next_highest)' <= tx_mod_base_nr(tx_next)'
    <3>1. tx_mod_base_nr(tx_next)' = tx_mod_base_nr(tx_next)
      BY <1>1 DEF tx_mod_base_nr
    <3>2. tx_mod_base_nr(rx_next) \in Nat /\ tx_mod_base_nr(tx_next) \in Nat
      BY <1>6
    <3> HIDE DEF p, delta
    <3> QED BY <1>5, <1>6, <1>11, <2>3, <3>1, <3>2
  <2>6. \A q \in InData' :
          place(q.sn)' < AM_Window_Size + tx_mod_base_nr(tx_next)' - tx_mod_base_nr(rx_next)'
    <3> SUFFICES ASSUME NEW q \in InData'
                 PROVE  place(q.sn)' < AM_Window_Size + tx_mod_base_nr(tx_next)' - tx_mod_base_nr(rx_next)'
      OBVIOUS
    <3>1. q \in InData /\ q.sn \in SNs
      BY <1>2, <1>8
    <3>2. delta <= place(q.sn)
      <4>1. PICK j \in DOMAIN data_ch' : q = data_ch'[j]
        BY DEF InData, Elems
      <4>2. rx_mod_base_nr(rx_next_highest') <= place(q.sn)
        BY <1>8, <1>9, <4>1
      <4> QED BY <1>5, <1>6, <3>1, <4>2
    <3>3. place(q.sn)' = place(q.sn) - delta
      BY <1>10, <3>1, <3>2
    <3>4. place(q.sn) < AM_Window_Size + tx_mod_base_nr(tx_next) - tx_mod_base_nr(rx_next)
      BY <3>1 DEF AmInv, LinkOK
    <3>5. tx_mod_base_nr(tx_next)' = tx_mod_base_nr(tx_next)
      BY <1>1 DEF tx_mod_base_nr
    <3>6. tx_mod_base_nr(rx_next) \in Nat /\ tx_mod_base_nr(tx_next) \in Nat /\ place(q.sn) \in Nat
      BY <1>6, <3>1
    <3> HIDE DEF p, delta
    <3> QED BY <1>6, <2>3, <3>3, <3>4, <3>5, <3>6
  <2>7. \A q \in InData', sn \in Window' : q.sdu = tx_window'[sn].sdu <=> q.sn = sn
    BY <1>1, <1>8, <1>12 DEF AmInv, LinkOK
  <2>8. \A sn \in Window' : Done(sn)' <=> tx_window'[sn].sdu \in Delivered'
    <3> SUFFICES ASSUME NEW sn \in Window PROVE Done(sn)' <=> tx_window[sn].sdu \in Delivered'
      BY <1>1, <1>12
    <3>1. sn \in SNs /\ tx_mod_base_nr(sn) < tx_mod_base_nr(tx_next)
      BY DEF AmInv, WindowOK
    <3>2. tx_mod_base_nr(rx_next) <= AM_Window_Size /\ tx_mod_base_nr(sn) < tx_mod_base_nr(rx_next) + AM_Window_Size
      <4>1. tx_mod_base_nr(rx_next) \in Nat /\ tx_mod_base_nr(tx_next) \in Nat /\ tx_mod_base_nr(sn) \in Nat
        BY <1>6, <3>1
      <4> HIDE DEF p, delta
      <4> QED BY <1>6, <2>1, <2>3, <3>1, <4>1
    <3>3. place(sn) = AM_Window_Size + tx_mod_base_nr(sn) - tx_mod_base_nr(rx_next)
      BY <1>6, <3>1, <3>2, PlaceFromSender DEF tx_mod_base_nr, place, rx_mod_base_nr
    <3>4. delta <= place(sn)
      <4>1. tx_mod_base_nr(rx_next) \in Nat /\ tx_mod_base_nr(tx_next) \in Nat /\ tx_mod_base_nr(sn) \in Nat
        BY <1>6, <3>1
      <4> HIDE DEF p, delta
      <4> QED BY <1>5, <1>6, <2>1, <2>3, <3>3, <4>1
    <3>5. Done(sn)' <=> Done(sn) \/ sn = p.sn
      BY <1>10, <3>1, <3>4
    <3>6. Done(sn) <=> tx_window[sn].sdu \in Delivered
      BY DEF AmInv, LinkOK
    <3>7. p.sdu = tx_window[sn].sdu <=> p.sn = sn
      BY <1>2 DEF AmInv, LinkOK
    <3> QED BY <1>12, <3>5, <3>6, <3>7
  <2> QED BY <2>5, <2>6, <2>7, <2>8 DEF LinkOK
<1>25. ReportsOK'
  <2> SUFFICES ASSUME tx_enabled PROVE ReportsOK'
    BY <1>1 DEF ReportsOK
  <2>1. \A k \in DOMAIN status_ch : stop_of(status_ch[k]) \in SNs
    <3> SUFFICES ASSUME NEW k \in DOMAIN status_ch PROVE stop_of(status_ch[k]) \in SNs
      OBVIOUS
    <3>1. status_ch[k] \in Report
      BY DEF AmInv, WholeTypes
    <3>2. status_ch[k].ack_sn \in SNs /\ status_ch[k].nacks \in Seq(WholeNacks)
      BY <3>1 DEF Report
    <3>3. CASE status_ch[k].nacks = <<>>
      BY <3>2, <3>3 DEF stop_of
    <3>4. CASE status_ch[k].nacks # <<>>
      <4>1. status_ch[k].nacks[1] \in WholeNacks
        BY <3>2, <3>4
      <4> QED BY <3>4, <4>1 DEF stop_of, WholeNacks, Nack
    <3> QED BY <3>3, <3>4
  <2>2. tx_mod_base_nr(rx_next)' = tx_mod_base_nr(rx_next) + delta
    BY <1>13
  <2>3. \A k \in DOMAIN status_ch :
          /\ tx_mod_base_nr(stop_of(status_ch[k])) \in Nat
          /\ tx_mod_base_nr(stop_of(status_ch[k])) <= tx_mod_base_nr(rx_next)
          /\ tx_mod_base_nr(stop_of(status_ch[k]))' = tx_mod_base_nr(stop_of(status_ch[k]))
    BY <1>1, <1>6, <2>1 DEF AmInv, ReportsOK, tx_mod_base_nr
  <2>4. \A k \in DOMAIN status_ch' :
          tx_mod_base_nr(stop_of(status_ch[k]))' <= tx_mod_base_nr(rx_next)'
    <3>1. tx_mod_base_nr(rx_next) \in Nat
      BY <1>6
    <3> SUFFICES ASSUME NEW k \in DOMAIN status_ch'
                 PROVE  tx_mod_base_nr(stop_of(status_ch[k]))' <= tx_mod_base_nr(rx_next)'
      OBVIOUS
    <3>2. k \in DOMAIN status_ch
      BY <1>1
    <3> HIDE DEF delta, p
    <3> QED BY <1>6, <2>2, <2>3, <3>1, <3>2
  <2>5. \A j, k \in DOMAIN status_ch' : j <= k =>
          tx_mod_base_nr(stop_of(status_ch[j]))' <= tx_mod_base_nr(stop_of(status_ch[k]))'
    BY <1>1, <2>3 DEF AmInv, ReportsOK
  <2> QED BY <2>4, <2>5 DEF ReportsOK
<1> QED BY <1>4, <1>5, <1>12, <1>20, <1>21, <1>22, <1>23, <1>24, <1>25 DEF AmInv

(* The receiver gets a PDU: the channel keeps their order.                 *)
LEMMA ReceiveDataPreserves ==
  ASSUME ChannelsInOrder, AmInv, NEW i \in Channel, ReceiveData(i)
  PROVE  /\ AmInv'
         /\ \/ UNCHANGED delivered
            \/ \E sdu \in Live \ Delivered : delivered' = Append(delivered, sdu)
<1>1. i = 1 /\ 1 \in DOMAIN data_ch
  BY DEF ReceiveData, Next_of, ChannelsInOrder
<1>2. CASE accepted(data_ch[1])
  BY <1>1, <1>2, ReceiveDataAccepted
<1>3. CASE ~accepted(data_ch[1])
  <2>1. /\ handle_data_pdu(data_ch[1])
        /\ delivered' = delivered \o reassembled(data_ch[1])
        /\ data_ch' = RemoveAt(data_ch, 1)
        /\ UNCHANGED <<tx_next_ack, tx_next, pollVars, tx_window, retx_queue, tx_sdu_queue,
                       sdu_under_segmentation_sn, poll_expired, tx_enabled, upperVars, status_ch>>
    BY <1>1 DEF ReceiveData
  <2>2. delivered' = delivered
    BY <1>3, <2>1 DEF reassembled, AmInv, WholeTypes
  <2>3. /\ UNCHANGED <<rxState, rx_window, reassembly_timer, sdu_removed, rx_abort,
                       status_prohibit_timer>>
        /\ do_status' = (do_status \/ data_ch[1].p)
    BY <1>3, <2>1 DEF handle_data_pdu
  <2>4. ReceiverOK'
    <3>1. do_status' \in BOOLEAN /\ status_prohibit_timer' \in BOOLEAN
      BY <2>3 DEF AmInv, ReceiverOK, RxInv, RxTypeOK
    <3> QED BY <2>3, <3>1, ReceiverUnchanged DEF AmInv
  <2>5. UNCHANGED endVars
    BY <2>1, <2>2, <2>3 DEF endVars, upperVars, rxState
  <2>6. UNCHANGED <<pollVars, retx_queue, sdu_under_segmentation_sn, poll_expired, failed, status_ch>>
    BY <2>1 DEF upperVars
  <2> QED BY <1>1, <2>1, <2>2, <2>4, <2>5, <2>6, DataGone
<1> QED BY <1>2, <1>3

(* The receiver finds no buffer for a PDU: as if it had been lost.         *)
LEMMA NoBufferKeeps ==
  ASSUME AmInv, NEW i \in Channel, ReceiveDataNoBuffer(i)
  PROVE  AmInv'
<1> DEFINE p == data_ch[i]
<1>1. /\ i \in DOMAIN data_ch /\ handle_data_pdu_no_buffer(p) /\ accepted(p)
      /\ data_ch' = RemoveAt(data_ch, i)
      /\ UNCHANGED <<tx_next_ack, tx_next, pollVars, tx_window, retx_queue, tx_sdu_queue,
                     sdu_under_segmentation_sn, poll_expired, tx_enabled, upperVars,
                     status_ch, delivered>>
  BY DEF ReceiveDataNoBuffer, Next_of, handle_data_pdu_no_buffer
<1>2. p \in DataPdu /\ p.si = "full"
  <2>1. data_ch \in Seq(WholePdu)
    BY DEF AmInv, WholeTypes
  <2>2. p \in WholePdu
    BY <1>1, <2>1
  <2> QED BY <2>2 DEF WholePdu
<1>3. /\ ReceiverOK /\ RxInv /\ p.sn \in SNs /\ rx_next \in SNs
      /\ rx_window \in [SNs -> RxSdu]
  BY <1>2, StoredSdu DEF AmInv, ReceiverOK, RxInv, RxTypeOK
<1> HIDE DEF p
<1>4. /\ rx_window' = [rx_window EXCEPT ![same_slot(p.sn)] = NoRxSdu, ![p.sn] = NoRxSdu]
      /\ sdu_removed' = (sdu_removed \/ rx_window[p.sn].present)
      /\ do_status' = (do_status \/ p.p)
      /\ UNCHANGED <<rxState, status_prohibit_timer, reassembly_timer, rx_abort>>
  <2>1. sdus_without_buffer(p) = {NoRxSdu}
    BY <1>2 DEF sdus_without_buffer
  <2>2. PICK sdu \in {NoRxSdu} :
          /\ rx_window' = [rx_window EXCEPT ![same_slot(p.sn)] = NoRxSdu, ![p.sn] = sdu]
          /\ sdu_removed' = (sdu_removed \/ (rx_window[p.sn].present /\ ~sdu.present))
    BY <1>1, <2>1 DEF handle_data_pdu_no_buffer, p
  <2>3. sdu = NoRxSdu /\ ~sdu.present
    BY <2>2 DEF NoRxSdu
  <2>4. /\ do_status' = (do_status \/ p.p)
        /\ UNCHANGED <<rxState, status_prohibit_timer, reassembly_timer, rx_abort>>
    BY <1>1 DEF handle_data_pdu_no_buffer, p
  <2>5. sdu_removed' = (sdu_removed \/ rx_window[p.sn].present)
    BY <2>2, <2>3
  <2> QED BY <2>2, <2>3, <2>4, <2>5
<1>5. \A sn \in SNs : ~received(rx_window, sn) => rx_window[sn] = NoRxSdu
  BY <1>3 DEF ReceiverOK
<1>6. rx_window[p.sn] = NoRxSdu
  BY <1>1, <1>3, <1>5 DEF accepted, p
<1>7. same_slot(p.sn) \in SNs /\ rx_window[same_slot(p.sn)] = NoRxSdu
  <2>1. mod_base(p.sn, rx_next) < AM_Window_Size /\ mod_base(p.sn, rx_next) \in Nat
    BY <1>1, <1>3, Distance DEF accepted, inside_rx_window, rx_mod_base_nr, p
  <2>2. /\ same_slot(p.sn) \in SNs
        /\ mod_base(same_slot(p.sn), rx_next) = mod_base(p.sn, rx_next) + AM_Window_Size
    BY <1>3, <2>1, Place
  <2>3. ~(mod_base(same_slot(p.sn), rx_next) < AM_Window_Size)
    BY <2>1, <2>2, TypesAssumption
  <2>4. ~rx_window[same_slot(p.sn)].present
    BY <1>3, <2>2, <2>3 DEF RxInv, RxStateOrdered, inside_rx_window, rx_mod_base_nr
  <2> QED BY <1>5, <2>2, <2>4 DEF received
<1>8. rx_window' = rx_window /\ sdu_removed' = sdu_removed
  <2>1. ~rx_window[p.sn].present /\ ~sdu_removed /\ sdu_removed \in BOOLEAN
    BY <1>3, <1>6 DEF NoRxSdu, ReceiverOK, RxInv, RxTypeOK
  <2> QED BY <1>3, <1>4, <1>6, <1>7, <2>1
<1>9. ReceiverOK'
  <2>1. do_status' \in BOOLEAN /\ status_prohibit_timer' \in BOOLEAN
    BY <1>3, <1>4 DEF RxInv, RxTypeOK
  <2> QED BY <1>3, <1>4, <1>8, <2>1, ReceiverUnchanged
<1>10. UNCHANGED endVars
  BY <1>1, <1>4, <1>8 DEF endVars, upperVars, rxState
<1>11. UNCHANGED <<pollVars, retx_queue, sdu_under_segmentation_sn, poll_expired, failed, status_ch>>
  BY <1>1 DEF upperVars
<1> QED BY <1>1, <1>9, <1>10, <1>11, DataGone

-----------------------------------------------------------------------------
(* Status reports on their way                                             *)

(* What is appended to a list leaves its first entry.                      *)
LEMMA ConcatFirst ==
  ASSUME NEW T, NEW u \in Seq(T), NEW v \in Seq(T), u # <<>>
  PROVE  u \o v # <<>> /\ (u \o v)[1] = u[1]
<1>1. Len(u) \in Nat \ {0} /\ Len(v) \in Nat
  OBVIOUS
<1>2. 1 \in 1..(Len(u) + Len(v)) /\ 1 <= Len(u)
  BY <1>1
<1>3. (u \o v)[1] = u[1] /\ Len(u \o v) = Len(u) + Len(v)
  BY <1>2, ConcatProperties
<1> QED BY <1>1, <1>3

(* A NACK that has taken in the next one starts where it did.              *)
LEMMA Extended ==
  ASSUME NEW b \in WholeNacks, NEW a \in WholeNacks
  PROVE  extended(b, a) \in WholeNacks /\ extended(b, a).nack_sn = b.nack_sn
<1> DEFINE r == (b.range + a.range) % NackRangeMod
           h == b.has_so \/ a.has_so
           e == [b EXCEPT !.has_range = TRUE, !.range = r, !.has_so = h, !.so_end = a.so_end]
<1>1. b \in Nack /\ a \in Nack /\ ~b.has_so /\ ~a.has_so
  BY DEF WholeNacks
<1>2. r \in 0..(NackRangeMod - 1)
  BY <1>1, TypesAssumption DEF Nack
<1>3. h = FALSE
  BY <1>1, Zenon
<1>4. extended(b, a) = e
  BY DEF extended
<1> HIDE DEF r, h
<1>5. e \in Nack /\ e.has_so = FALSE /\ e.nack_sn = b.nack_sn
  BY <1>1, <1>2, <1>3 DEF Nack
<1> QED BY <1>4, <1>5 DEF WholeNacks

(* Merging NACKs into ranges keeps the first missing SN.                   *)
LEMMA MergedNacks ==
  ASSUME NEW nacks \in Seq(WholeNacks), NEW m, m = FoldLeft(push_nack, <<>>, nacks)
  PROVE  /\ m \in Seq(WholeNacks)
         /\ nacks = <<>> => m = <<>>
         /\ nacks # <<>> => m # <<>> /\ m[1].nack_sn = nacks[1].nack_sn
<1>1. ASSUME NEW q \in Seq(WholeNacks), NEW a \in WholeNacks
      PROVE  /\ push_nack(q, a) \in Seq(WholeNacks)
             /\ push_nack(q, a) # <<>>
             /\ q # <<>> => push_nack(q, a)[1].nack_sn = q[1].nack_sn
             /\ q = <<>> => push_nack(q, a)[1].nack_sn = a.nack_sn
  <2>1. CASE q # <<>> /\ is_continuous_sequence(Last(q), a)
    <3> DEFINE n == Len(q)
               x == extended(q[n], a)
    <3>1. n \in Nat /\ n > 0 /\ q[n] \in WholeNacks
      BY <2>1
    <3>2. x \in WholeNacks /\ x.nack_sn = q[n].nack_sn
      BY <3>1, Extended
    <3>3. push_nack(q, a) = [q EXCEPT ![n] = x]
      BY <2>1 DEF push_nack, Last
    <3> HIDE DEF x
    <3> QED BY <2>1, <3>1, <3>2, <3>3
  <2>2. CASE ~(q # <<>> /\ is_continuous_sequence(Last(q), a))
    <3>1. push_nack(q, a) = Append(q, a)
      BY <2>2 DEF push_nack
    <3> QED BY <3>1, AppendProperties
  <2> QED BY <2>1, <2>2
<1>2. PICK f \in [0..Len(nacks) -> Seq(WholeNacks)] :
        /\ f[0] = <<>> /\ f[Len(nacks)] = FoldLeft(push_nack, <<>>, nacks)
        /\ \A k \in 1..Len(nacks) : f[k] = push_nack(f[k - 1], nacks[k])
  <2>1. \A q \in Seq(WholeNacks), a \in WholeNacks : push_nack(q, a) \in Seq(WholeNacks)
    BY <1>1
  <2> QED BY <2>1, PushSteps
<1>3. Len(nacks) \in Nat /\ (nacks = <<>> <=> Len(nacks) = 0)
      /\ \A k \in 1..Len(nacks) : nacks[k] \in WholeNacks
  OBVIOUS
<1>4. m \in Seq(WholeNacks) /\ (nacks = <<>> => m = <<>>)
  BY <1>2, <1>3
<1>5. ASSUME nacks # <<>> PROVE m # <<>> /\ m[1].nack_sn = nacks[1].nack_sn
  <2> DEFINE S == {k \in 0..Len(nacks) : k > 0 => f[k] # <<>> /\ f[k][1].nack_sn = nacks[1].nack_sn}
  <2>1. 0 \in S
    BY <1>3
  <2>2. ASSUME NEW k \in 1..Len(nacks), k - 1 \in S PROVE k \in S
    <3>1. f[k] = push_nack(f[k - 1], nacks[k]) /\ f[k - 1] \in Seq(WholeNacks) /\ nacks[k] \in WholeNacks
      BY <1>2, <1>3, <2>2
    <3>2. f[k] # <<>> /\ f[k][1].nack_sn = nacks[1].nack_sn
      <4> DEFINE q == f[k - 1]
                 a == nacks[k]
      <4>0. /\ f[k] # <<>>
            /\ q # <<>> => f[k][1].nack_sn = q[1].nack_sn
            /\ q = <<>> => f[k][1].nack_sn = a.nack_sn
        <5>1. q \in Seq(WholeNacks) /\ a \in WholeNacks /\ f[k] = push_nack(q, a)
          BY <3>1
        <5> HIDE DEF q, a
        <5> QED BY <1>1, <5>1
      <4>1. CASE k = 1
        <5>1. q = <<>> /\ a = nacks[1]
          BY <1>2, <4>1
        <5> QED BY <4>0, <5>1
      <4>2. CASE k # 1
        <5>1. q # <<>> /\ q[1].nack_sn = nacks[1].nack_sn
          BY <2>2, <4>2
        <5> HIDE DEF q
        <5> QED BY <4>0, <5>1
      <4> QED BY <4>1, <4>2
    <3> QED BY <3>2
  <2> HIDE DEF S
  <2>3. \A k \in 0..Len(nacks) : k \in S
    BY <1>3, <2>1, <2>2, Induction
  <2> QED BY <1>2, <1>3, <1>5, <2>3 DEF S
<1> QED BY <1>4, <1>5

(* A report, as it is sent and as it is read.                              *)
LEMMA StopOf ==
  ASSUME NEW s \in Report
  PROVE  /\ stop_of(s) \in SNs
         /\ rlc_am_nr_read_status_pdu(s) \in Report
         /\ rlc_am_nr_read_status_pdu(s).ack_sn = s.ack_sn
         /\ stop_of(rlc_am_nr_read_status_pdu(s)) = stop_of(s)
<1> DEFINE m == FoldLeft(push_nack, <<>>, s.nacks)
<1>1. s.ack_sn \in SNs /\ s.nacks \in Seq(WholeNacks)
  BY DEF Report
<1>2. /\ m \in Seq(WholeNacks)
      /\ s.nacks = <<>> => m = <<>>
      /\ s.nacks # <<>> => m # <<>> /\ m[1].nack_sn = s.nacks[1].nack_sn
  BY <1>1, MergedNacks
<1>3. rlc_am_nr_read_status_pdu(s) = [ack_sn |-> s.ack_sn, nacks |-> m]
  BY DEF rlc_am_nr_read_status_pdu, Report
<1>4. stop_of(s) \in SNs
  <2>1. s.nacks # <<>> => s.nacks[1] \in WholeNacks
    BY <1>1
  <2> QED BY <1>1, <2>1 DEF stop_of, WholeNacks, Nack
<1> HIDE DEF m
<1> QED BY <1>1, <1>2, <1>3, <1>4 DEF stop_of, Report

(* Trimming a report moves ACK_SN back to the first NACK, or keeps that.   *)
LEMMA TrimmedReport ==
  ASSUME NEW s \in Report, NEW max_len
  PROVE  trim(s, max_len) \in Report /\ stop_of(trim(s, max_len)) = stop_of(s)
<1>1. s.ack_sn \in SNs /\ s.nacks \in Seq(WholeNacks) /\ Len(s.nacks) \in Nat
  BY DEF Report
<1> DEFINE n == Len(s.nacks)
           Fit == {k \in 1..n : /\ packed_size(SubSeq(s.nacks, 1, k)) <= max_len
                                /\ s.nacks[k].nack_sn # ack_sn_of(s, k)}
           kept == Max({0} \cup Fit)
<1>2. kept \in 0..n
  <2>1. {0} \cup Fit \in SUBSET (0..n) /\ {0} \cup Fit # {}
    BY <1>1
  <2> HIDE DEF Fit
  <2> QED BY <1>1, <2>1, GreatestIn
<1>3. trim(s, max_len) = s \/ trim(s, max_len) = [ack_sn |-> ack_sn_of(s, kept), nacks |-> SubSeq(s.nacks, 1, kept)]
  BY DEF trim
<1> HIDE DEF kept
<1>4. /\ SubSeq(s.nacks, 1, kept) \in Seq(WholeNacks)
      /\ kept = 0 => SubSeq(s.nacks, 1, kept) = <<>>
      /\ kept > 0 => SubSeq(s.nacks, 1, kept) # <<>> /\ SubSeq(s.nacks, 1, kept)[1] = s.nacks[1]
  BY <1>1, <1>2
<1>5. ack_sn_of(s, kept) \in SNs
  <2>1. kept # n => s.nacks[kept + 1] \in WholeNacks
    BY <1>1, <1>2
  <2> QED BY <1>1, <2>1 DEF ack_sn_of, WholeNacks, Nack
<1>6. ASSUME trim(s, max_len) = [ack_sn |-> ack_sn_of(s, kept), nacks |-> SubSeq(s.nacks, 1, kept)]
      PROVE  trim(s, max_len) \in Report /\ stop_of(trim(s, max_len)) = stop_of(s)
  <2>1. trim(s, max_len) \in Report
    BY <1>4, <1>5, <1>6 DEF Report
  <2>2. CASE kept = 0
    <3>1. stop_of(trim(s, max_len)) = ack_sn_of(s, 0)
      BY <1>4, <1>6, <2>2 DEF stop_of
    <3>2. n = 0 <=> s.nacks = <<>>
      BY <1>1
    <3> QED BY <2>1, <3>1, <3>2 DEF ack_sn_of, stop_of
  <2>3. CASE kept > 0
    <3>1. s.nacks # <<>>
      BY <1>1, <1>2, <2>3
    <3> QED BY <1>4, <1>6, <2>1, <2>3, <3>1 DEF stop_of
  <2> QED BY <1>2, <2>1, <2>2, <2>3
<1> QED BY <1>3, <1>6

(* The receiver reports whole SDUs only, and the first of them is RX_Next. *)
LEMMA FullStatus ==
  ASSUME ReceiverOK
  PROVE  /\ missing_nacks \in Seq({nack_sdu(x) : x \in SNs})
         /\ full_status \in Report
         /\ stop_of(full_status) = rx_next
<1> DEFINE N0 == {nack_sdu(x) : x \in SNs}
           n == rx_mod_base_nr(rx_highest_status)
           seqs == [i \in 1..n |-> nacks_of((rx_next + i - 1) % mod_nr)]
<1>1. /\ rx_next \in SNs /\ rx_highest_status \in SNs /\ n \in Nat /\ n < mod_nr
      /\ ~received(rx_window, rx_next)
  BY ReceiverNumbers DEF ReceiverOK, RxInv, RxStateOrdered
<1>2. \A x \in SNs : nacks_of(x) = IF received(rx_window, x) THEN <<>> ELSE <<nack_sdu(x)>>
  BY DEF nacks_of, received, ReceiverOK, NoRxSdu
<1>3. \A i \in 1..n : (rx_next + i - 1) % mod_nr \in SNs
  <2> SUFFICES ASSUME NEW i \in 1..n PROVE (rx_next + i - 1) % mod_nr \in SNs
    OBVIOUS
  <2>1. i - 1 \in Nat /\ i - 1 < mod_nr /\ rx_next + (i - 1) = rx_next + i - 1
    BY <1>1, TypesAssumption DEF SNs
  <2> HIDE DEF n
  <2>2. (rx_next + (i - 1)) % mod_nr \in SNs
    BY <1>1, <2>1, AtDistance
  <2> QED BY <2>1, <2>2
<1>4. seqs \in Seq(Seq(N0)) /\ Len(seqs) = n
  <2>1. ASSUME NEW x \in SNs PROVE nacks_of(x) \in Seq(N0)
    <3>1. nack_sdu(x) \in N0
      OBVIOUS
    <3> HIDE DEF N0
    <3>2. <<nack_sdu(x)>> \in Seq(N0) /\ <<>> \in Seq(N0)
      BY <3>1
    <3> QED BY <1>2, <3>2
  <2>2. \A i \in 1..n : nacks_of((rx_next + i - 1) % mod_nr) \in Seq(N0)
    BY <1>3, <2>1
  <2> HIDE DEF N0, n
  <2> QED BY <1>1, <2>2
<1>5. n > 0 => seqs[1] = <<nack_sdu(rx_next)>>
  <2> SUFFICES ASSUME n > 0 PROVE nacks_of((rx_next + 1 - 1) % mod_nr) = <<nack_sdu(rx_next)>>
    BY <1>1
  <2>1. (rx_next + 1 - 1) % mod_nr = rx_next
    BY <1>1, TypesAssumption DEF SNs
  <2> QED BY <1>1, <1>2, <2>1
<1>6. missing_nacks = FlattenSeq(seqs)
  BY DEF missing_nacks
<1> HIDE DEF seqs
<1>7. PICK f \in [0..n -> Seq(N0)] :
        /\ f[0] = <<>> /\ f[n] = FlattenSeq(seqs)
        /\ \A k \in 1..n : f[k] = f[k - 1] \o seqs[k]
  <2> HIDE DEF N0, n
  <2>1. \E f \in [0..Len(seqs) -> Seq(N0)] :
          /\ f[0] = <<>> /\ f[Len(seqs)] = FlattenSeq(seqs)
          /\ \A k \in 1..Len(seqs) : f[k] = f[k - 1] \o seqs[k]
    BY <1>4, FlattenSteps
  <2> QED BY <1>4, <2>1
<1>8. /\ missing_nacks \in Seq(N0)
      /\ n = 0 => missing_nacks = <<>>
      /\ n > 0 => missing_nacks # <<>> /\ missing_nacks[1] = nack_sdu(rx_next)
  <2> DEFINE S == {k \in 0..n : k > 0 => f[k] # <<>> /\ f[k][1] = nack_sdu(rx_next)}
  <2>1. 0 \in S
    BY <1>1
  <2>2. ASSUME NEW k \in 1..n, k - 1 \in S PROVE k \in S
    <3>1. /\ f[k] = f[k - 1] \o seqs[k] /\ f[k - 1] \in Seq(N0) /\ seqs[k] \in Seq(N0)
      <4>1. k \in 1..Len(seqs) /\ k - 1 \in 0..n
        BY <1>1, <1>4, <2>2
      <4> HIDE DEF N0, n, S
      <4>2. seqs[k] \in Seq(N0)
        BY <1>4, <4>1
      <4>3. f[k - 1] \in Seq(N0)
        BY <1>7, <4>1
      <4> QED BY <1>7, <4>2, <4>3
    <3>2. f[k] # <<>> /\ f[k][1] = nack_sdu(rx_next)
      <4> HIDE DEF N0, n
      <4>1. CASE k = 1
        <5>1. f[k - 1] = <<>> /\ seqs[k] = <<nack_sdu(rx_next)>>
          <6>1. k - 1 = 0 /\ n > 0
            BY <1>1, <4>1
          <6> QED BY <1>5, <1>7, <4>1, <6>1
        <5>2. f[k] = <<nack_sdu(rx_next)>>
          BY <3>1, <5>1, ConcatEmptySeq
        <5> QED BY <5>2
      <4>2. CASE k # 1
        <5>1. f[k - 1] # <<>> /\ f[k - 1][1] = nack_sdu(rx_next)
          BY <2>2, <4>2
        <5>2. f[k - 1] \o seqs[k] # <<>> /\ (f[k - 1] \o seqs[k])[1] = f[k - 1][1]
          BY <3>1, <5>1, ConcatFirst
        <5> QED BY <3>1, <5>1, <5>2
      <4> QED BY <4>1, <4>2
    <3> QED BY <3>2
  <2> HIDE DEF S, N0
  <2>3. \A k \in 0..n : k \in S
    BY <1>1, <2>1, <2>2, Induction
  <2> QED BY <1>1, <1>6, <1>7, <2>3 DEF S
<1>9. N0 \subseteq WholeNacks /\ missing_nacks \in Seq(WholeNacks)
  <2>1. \A x \in SNs : nack_sdu(x) \in WholeNacks
    BY TypesAssumption DEF nack_sdu, WholeNacks, Nack, so_end_of_sdu
  <2>2. N0 \subseteq WholeNacks
    BY <2>1
  <2> HIDE DEF N0
  <2> QED BY <1>8, <2>2
<1> DEFINE m == FoldLeft(push_nack, <<>>, missing_nacks)
<1>10. /\ m \in Seq(WholeNacks)
       /\ missing_nacks = <<>> => m = <<>>
       /\ missing_nacks # <<>> => m # <<>> /\ m[1].nack_sn = missing_nacks[1].nack_sn
  BY <1>9, MergedNacks
<1>11. full_status = [ack_sn |-> rx_highest_status, nacks |-> m]
  BY DEF full_status
<1> HIDE DEF m
<1>12. full_status \in Report
  BY <1>1, <1>10, <1>11 DEF Report
<1>13. stop_of(full_status) = rx_next
  <2>1. CASE n = 0
    <3>1. mod_base(rx_highest_status, rx_next) = mod_base(rx_next, rx_next)
      BY <1>1, <2>1, BaseDistance DEF rx_mod_base_nr
    <3>2. rx_highest_status = rx_next
      BY <1>1, <3>1, SameDistance
    <3> QED BY <1>8, <1>10, <1>11, <2>1, <3>2 DEF stop_of
  <2>2. CASE n # 0
    <3>1. m # <<>> /\ m[1].nack_sn = nack_sdu(rx_next).nack_sn
      BY <1>1, <1>8, <1>10, <2>2
    <3> QED BY <1>11, <3>1 DEF stop_of, nack_sdu
  <2> QED BY <2>1, <2>2
<1> QED BY <1>8, <1>12, <1>13

(* What does not touch the two ends and the PDUs in flight keeps what      *)
(* relates them.                                                           *)
LEMMA EndsStay ==
  ASSUME AmInv, UNCHANGED <<endVars, data_ch>>
  PROVE  WindowOK' /\ SdusOK' /\ DataOK' /\ LinkOK'
<1>1. WindowOK'
  BY DEF AmInv, WindowOK, Window, tx_mod_base_nr, endVars
<1>2. SdusOK'
  BY DEF AmInv, SdusOK, Window, Live, Queued, WindowSdus, Delivered, Notified, endVars
<1>3. DataOK'
  BY DEF AmInv, DataOK, InData, Live, Queued, Delivered, Done, place, rx_mod_base_nr, received, endVars
<1>4. LinkOK'
  BY DEF AmInv, LinkOK, InData, Window, Delivered, Done, place, rx_mod_base_nr, tx_mod_base_nr,
         received, endVars
<1> QED BY <1>1, <1>2, <1>3, <1>4

(* Nor does it change what the reports say.                                *)
LEMMA ReportsStay ==
  ASSUME ReportsOK, UNCHANGED <<endVars, status_ch>>
  PROVE  ReportsOK'
BY DEF ReportsOK, tx_mod_base_nr, endVars

(* Where the reports in flight end                                         *)
LEMMA Stops ==
  ASSUME AmInv
  PROVE  /\ status_ch \in Seq(Report)
         /\ \A k \in DOMAIN status_ch : /\ status_ch[k] \in Report
                                        /\ stop_of(status_ch[k]) \in SNs
                                        /\ tx_mod_base_nr(stop_of(status_ch[k])) \in Nat
         /\ tx_mod_base_nr(rx_next) \in Nat
<1>1. status_ch \in Seq(Report) /\ tx_next_ack \in SNs
  BY DEF AmInv, WholeTypes
<1>2. \A k \in DOMAIN status_ch : status_ch[k] \in Report
  BY <1>1
<1>3. \A k \in DOMAIN status_ch : stop_of(status_ch[k]) \in SNs
  BY <1>2, StopOf
<1>4. rx_next \in SNs
  BY ReceiverNumbers DEF AmInv
<1> QED BY <1>1, <1>2, <1>3, <1>4, Distance DEF tx_mod_base_nr

(* The receiver sends a report, if it fits into the grant.                 *)
LEMMA StatusGrantPreserves ==
  ASSUME AmInv, NEW max_len, StatusGrant(max_len)
  PROVE  AmInv'
<1> DEFINE r == trim(full_status, max_len)
<1>1. /\ build_status_pdu(max_len)
      /\ status_ch' = status_ch \/ status_ch' = Append(status_ch, r)
      /\ UNCHANGED <<txVars, delivered>>
  <2>1. status_ch' = status_ch \o status_pdus(max_len) /\ status_ch \in Seq(Report)
    BY DEF StatusGrant, AmInv, WholeTypes
  <2>2. status_ch \o <<>> = status_ch
    BY <2>1, ConcatEmptySeq
  <2>3. status_ch \o <<r>> = Append(status_ch, r)
    BY <2>1
  <2>4. status_pdus(max_len) = <<>> \/ status_pdus(max_len) = <<r>>
    BY DEF status_pdus
  <2> HIDE DEF r
  <2> QED BY <2>1, <2>2, <2>3, <2>4 DEF StatusGrant
<1>2. /\ UNCHANGED <<rxState, rx_window, reassembly_timer, sdu_removed, rx_abort>>
      /\ do_status' \in BOOLEAN /\ status_prohibit_timer' \in BOOLEAN
  <2>1. ~nack_so_reversed
    BY DEF AmInv, ReceiverOK, received, NoRxSdu, nack_so_reversed
  <2> QED BY <1>1, <2>1 DEF build_status_pdu
<1>3. ReceiverOK'
  BY <1>2, ReceiverUnchanged DEF AmInv
<1>4. UNCHANGED <<endVars, data_ch, pollVars, retx_queue, sdu_under_segmentation_sn,
                  poll_expired, failed>>
  BY <1>1, <1>2 DEF endVars, txVars, upperVars, rxState
<1>5. full_status \in Report /\ stop_of(full_status) = rx_next
  BY FullStatus DEF AmInv
<1>6. r \in Report /\ stop_of(r) = rx_next
  BY <1>5, TrimmedReport
<1> HIDE DEF r
<1>7. status_ch' \in Seq(Report)
  BY <1>1, <1>6, Stops
<1>8. WholeTypes'
  BY <1>4, <1>7 DEF AmInv, WholeTypes, endVars, pollVars
<1>9. ReportsOK'
  <2>1. CASE status_ch' = status_ch
    BY <1>4, <2>1, ReportsStay DEF AmInv
  <2>2. CASE status_ch' = Append(status_ch, r)
    <3> SUFFICES ASSUME tx_enabled PROVE ReportsOK'
      BY <1>4 DEF ReportsOK, endVars
    <3> DEFINE at(k) == tx_mod_base_nr(stop_of(status_ch[k]))
               n == Len(status_ch)
    <3>1. /\ n \in Nat /\ DOMAIN status_ch = 1..n /\ DOMAIN status_ch' = 1..(n + 1)
          /\ \A k \in 1..n : status_ch'[k] = status_ch[k]
          /\ status_ch'[n + 1] = r
      BY <1>6, <2>2, Stops
    <3>2. /\ \A k \in 1..n : at(k) \in Nat /\ at(k) <= tx_mod_base_nr(rx_next)
          /\ \A j, k \in 1..n : j <= k => at(j) <= at(k)
          /\ tx_mod_base_nr(rx_next) \in Nat
      BY <3>1, Stops DEF AmInv, ReportsOK
    <3>3. tx_mod_base_nr(rx_next)' = tx_mod_base_nr(rx_next)
      BY <1>4 DEF tx_mod_base_nr, endVars
    <3>4. \A k \in 1..(n + 1) : at(k)' = IF k = n + 1 THEN tx_mod_base_nr(rx_next) ELSE at(k)
      <4> SUFFICES ASSUME NEW k \in 1..(n + 1)
                   PROVE  at(k)' = IF k = n + 1 THEN tx_mod_base_nr(rx_next) ELSE at(k)
        OBVIOUS
      <4>1. at(k)' = mod_base(stop_of(status_ch'[k]), tx_next_ack)
        BY <1>4 DEF tx_mod_base_nr, endVars, stop_of
      <4>2. status_ch'[k] = IF k = n + 1 THEN r ELSE status_ch[k]
        BY <3>1
      <4> QED BY <1>6, <4>1, <4>2 DEF tx_mod_base_nr
    <3> HIDE DEF at, n
    <3>5. \A k \in 1..(n + 1) : at(k)' <= tx_mod_base_nr(rx_next)'
      BY <3>1, <3>2, <3>3, <3>4
    <3>6. \A j, k \in 1..(n + 1) : j <= k => at(j)' <= at(k)'
      BY <3>1, <3>2, <3>4
    <3> QED BY <3>1, <3>5, <3>6 DEF ReportsOK, at
  <2> QED BY <1>1, <2>1, <2>2
<1> QED BY <1>3, <1>4, <1>8, <1>9, EndsStay DEF AmInv

(* A report less in flight, lost or ignored by the sender.                 *)
LEMMA StatusGone ==
  ASSUME AmInv, NEW i \in DOMAIN status_ch, status_ch' = RemoveAt(status_ch, i),
         UNCHANGED <<txVars, rxVars, delivered>>
  PROVE  AmInv'
<1>1. UNCHANGED <<endVars, data_ch, pollVars, retx_queue, sdu_under_segmentation_sn,
                  poll_expired, failed>>
  BY DEF endVars, txVars, upperVars, rxVars, rxState
<1>2. ReceiverOK'
  BY ReceiverStays DEF AmInv
<1>3. /\ status_ch' \in Seq(Report)
      /\ \A j \in DOMAIN status_ch' : \E k \in DOMAIN status_ch : status_ch'[j] = status_ch[k]
      /\ \A j, k \in DOMAIN status_ch' : j < k =>
           \E m, n \in DOMAIN status_ch : m < n /\ status_ch'[j] = status_ch[m] /\ status_ch'[k] = status_ch[n]
  BY Stops, RemovedPairs
<1>4. WholeTypes'
  BY <1>1, <1>3 DEF AmInv, WholeTypes, endVars, pollVars
<1>5. ReportsOK'
  <2> SUFFICES ASSUME tx_enabled PROVE ReportsOK'
    BY <1>1 DEF ReportsOK, endVars
  <2> DEFINE at(k) == tx_mod_base_nr(stop_of(status_ch[k]))
  <2>1. tx_mod_base_nr(rx_next)' = tx_mod_base_nr(rx_next)
    BY <1>1 DEF tx_mod_base_nr, endVars
  <2>2. \A j, k : status_ch'[j] = status_ch[k] => at(j)' = at(k)
    BY <1>1 DEF tx_mod_base_nr, stop_of, endVars
  <2>3. /\ \A k \in DOMAIN status_ch : at(k) \in Nat /\ at(k) <= tx_mod_base_nr(rx_next)
        /\ \A j, k \in DOMAIN status_ch : j <= k => at(j) <= at(k)
    BY Stops DEF AmInv, ReportsOK
  <2>4. DOMAIN status_ch \subseteq Nat /\ DOMAIN status_ch' \subseteq Nat
    BY <1>3, Stops
  <2> HIDE DEF at
  <2>5. \A k \in DOMAIN status_ch' : at(k)' <= tx_mod_base_nr(rx_next)' /\ at(k)' \in Nat
    BY <1>3, <2>1, <2>2, <2>3
  <2>6. \A j, k \in DOMAIN status_ch' : j <= k => at(j)' <= at(k)'
    <3> SUFFICES ASSUME NEW j \in DOMAIN status_ch', NEW k \in DOMAIN status_ch', j <= k
                 PROVE  at(j)' <= at(k)'
      OBVIOUS
    <3>1. CASE j = k
      BY <2>5, <3>1
    <3>2. CASE j # k
      <4>1. j < k
        BY <2>4, <3>2
      <4>2. PICK m \in DOMAIN status_ch, n \in DOMAIN status_ch :
              m < n /\ status_ch'[j] = status_ch[m] /\ status_ch'[k] = status_ch[n]
        BY <1>3, <4>1
      <4>3. m <= n
        BY <2>4, <4>2
      <4> QED BY <2>2, <2>3, <4>2, <4>3
    <3> QED BY <3>1, <3>2
  <2> QED BY <2>5, <2>6 DEF ReportsOK, at
<1> QED BY <1>1, <1>2, <1>4, <1>5, EndsStay DEF AmInv

(* The MAC loses a report.                                                 *)
LEMMA LoseStatusPreserves ==
  ASSUME AmInv, NEW i \in Channel, LoseStatus(i)
  PROVE  AmInv'
BY StatusGone DEF LoseStatus

-----------------------------------------------------------------------------
(* A status report reaches the sender                                      *)

(* A set of numbers up to n that is not empty has a least one.             *)
LEMMA LeastIn ==
  ASSUME NEW n \in Nat, NEW s \in SUBSET (1..n), s # {}
  PROVE  Min(s) \in s
<1>1. s \in SUBSET Nat
  OBVIOUS
<1>2. \E m \in s : \A k \in s : m <= k
  BY <1>1, LeastNumber
<1> QED BY <1>2 DEF Min

(* Retransmissions taken from the queue leave a queue of retransmissions.  *)
LEMMA RemovedRetx ==
  ASSUME NEW q \in Seq(WholeRetx), NEW sn
  PROVE  remove_sn(q, sn) \in Seq(WholeRetx)
<1> DEFINE I == {i \in 1..Len(q) : q[i].sn = sn}
<1>1. CASE I = {}
  <2>1. remove_sn(q, sn) = q
    BY <1>1 DEF remove_sn, RemoveFirstMatch
  <2> QED BY <2>1
<1>2. CASE I # {}
  <2>1. Min(I) \in 1..Len(q)
    <3>1. Len(q) \in Nat /\ I \in SUBSET (1..Len(q))
      OBVIOUS
    <3> HIDE DEF I
    <3> QED BY <1>2, <3>1, LeastIn
  <2>2. remove_sn(q, sn) = RemoveAt(q, Min(I))
    BY <1>2 DEF remove_sn, RemoveFirstMatch, SelectInSeq
  <2> HIDE DEF I
  <2>3. Min(I) \in DOMAIN q
    BY <2>1
  <2> QED BY <2>2, <2>3, Removed
<1> QED BY <1>1, <1>2

(* The loop over the acknowledged SNs does that.                           *)
LEMMA RemoveSteps ==
  ASSUME NEW q \in Seq(WholeRetx), NEW sns \in Seq(SNs)
  PROVE  FoldLeft(remove_sn, q, sns) \in Seq(WholeRetx)
<1> DEFINE n == Len(sns)
           T == Seq(WholeRetx)
           P(h) == h = [x \in SUBSET (1..n) |-> IF x = {} THEN q ELSE remove_sn(h[x \ {Max(x)}], sns[Max(x)])]
           F == [y \in T \X (1..n) |-> remove_sn(y[1], sns[y[2]])]
           h == CHOOSE h : P(h)
<1>1. n \in Nat /\ q \in T /\ DOMAIN sns = 1..n
  OBVIOUS
<1>2. F \in [T \X (1..n) -> T]
  BY RemovedRetx
<1>3. PICK g \in [SUBSET (1..n) -> T] : Iterates(g, n, q, F)
  <2> HIDE DEF F, T, n
  <2> QED BY <1>1, <1>2, IterExists
<1>4. P(g)
  <2> SUFFICES ASSUME NEW s \in SUBSET (1..n), s # {}
               PROVE  F[<<g[s \ {Max(s)}], Max(s)>>] = remove_sn(g[s \ {Max(s)}], sns[Max(s)])
    BY <1>3 DEF Iterates
  <2>1. Max(s) \in 1..n
    <3>1. s \in SUBSET (0..n)
      OBVIOUS
    <3>2. Max(s) \in s
      BY <1>1, <3>1, GreatestIn
    <3> QED BY <3>2
  <2>2. g[s \ {Max(s)}] \in T
    BY <1>3
  <2>3. ASSUME NEW a \in T, NEW m \in 1..n PROVE F[<<a, m>>] = remove_sn(a, sns[m])
    OBVIOUS
  <2> HIDE DEF F
  <2> QED BY <2>1, <2>2, <2>3
<1>5. P(h)
  <2> HIDE DEF P
  <2> QED BY <1>4
<1>6. \A x \in SUBSET (1..n) : h[x] = IF x = {} THEN q ELSE remove_sn(h[x \ {Max(x)}], sns[Max(x)])
  <2> HIDE DEF h
  <2> QED BY <1>5
<1>7. FoldLeft(remove_sn, q, sns) = h[1..n]
  <2>1. FoldLeft(remove_sn, q, sns) = h[DOMAIN sns]
    BY <1>1 DEF FoldLeft, MapThenFoldSet
  <2> QED BY <1>1, <2>1
<1> HIDE DEF h
<1>8. \A k \in 0..n : h[1..k] \in T
  <2> DEFINE S == {k \in 0..n : h[1..k] \in T}
  <2> HIDE DEF n, T
  <2>1. 0 \in S
    <3>1. 1..0 = {} /\ {} \in SUBSET (1..n) /\ 0 \in 0..n
      BY <1>1
    <3> QED BY <1>1, <1>6, <3>1
  <2>2. ASSUME NEW k \in 1..n, k - 1 \in S PROVE k \in S
    <3>1. /\ Max(1..k) = k /\ (1..k) \ {Max(1..k)} = 1..(k - 1) /\ 1..k # {}
          /\ 1..k \in SUBSET (1..n) /\ k \in 0..n /\ k - 1 \in 0..n
      BY <1>1, PrefixMax
    <3>2. h[1..k] = remove_sn(h[(1..k) \ {Max(1..k)}], sns[Max(1..k)])
      BY <1>6, <3>1, Zenon
    <3>3. h[1..k] = remove_sn(h[1..(k - 1)], sns[k]) /\ h[1..(k - 1)] \in T
      BY <2>2, <3>1, <3>2
    <3> QED BY <3>1, <3>3, RemovedRetx DEF T
  <2> HIDE DEF S
  <2>3. \A k \in 0..n : k \in S
    BY <1>1, <2>1, <2>2, Induction
  <2> QED BY <2>3 DEF S
<1>9. h[1..n] \in T
  <2> HIDE DEF T, n
  <2>1. n \in 0..n
    BY <1>1
  <2> QED BY <1>8, <2>1
<1> QED BY <1>7, <1>9

(* The NACKs of a report, one for each SDU; range_sn may leave the SNs.    *)
SingleNacks == {n \in [nack_sn : Nat, has_so : BOOLEAN, so_start : Nat, so_end : Int,
                       has_range : BOOLEAN, range : 0..(NackRangeMod - 1)] : ~n.has_so}

(* A range of missing SDUs is taken apart into whole SDUs.                 *)
LEMMA ExpandedNack ==
  ASSUME NEW nack \in WholeNacks
  PROVE  expand_nack(nack) \in Seq(SingleNacks)
<1>1. /\ nack.nack_sn \in Nat /\ ~nack.has_so /\ nack.has_range \in BOOLEAN
      /\ nack.range \in 0..(NackRangeMod - 1) /\ nack \in SingleNacks
  BY TypesAssumption DEF WholeNacks, Nack, SingleNacks, SNs
<1>2. CASE ~nack.has_range
  <2>1. expand_nack(nack) = <<nack>>
    BY <1>2 DEF expand_nack
  <2> HIDE DEF SingleNacks
  <2> QED BY <1>1, <2>1
<1>3. CASE nack.has_range
  <2> DEFINE single(i) == [nack_sdu(nack.nack_sn + i - 1) EXCEPT
                             !.has_so = 0 # 0 \/ so_end_of_sdu # so_end_of_sdu,
                             !.so_start = 0, !.so_end = so_end_of_sdu]
  <2>1. expand_nack(nack) = [i \in 1..nack.range |-> single(i)]
    BY <1>1, <1>3 DEF expand_nack
  <2>2. ASSUME NEW i \in 1..nack.range PROVE single(i) \in SingleNacks
    <3> DEFINE x == nack.nack_sn + i - 1
               h == 0 # 0 \/ so_end_of_sdu # so_end_of_sdu
    <3>1. x \in Nat /\ so_end_of_sdu \in Int /\ 1 \in 0..(NackRangeMod - 1)
      BY <1>1, TypesAssumption DEF so_end_of_sdu
    <3>2. h = FALSE
      OBVIOUS
    <3>3. single(i) = [nack_sdu(x) EXCEPT !.has_so = h, !.so_start = 0, !.so_end = so_end_of_sdu]
      OBVIOUS
    <3> HIDE DEF x, h, single
    <3>4. single(i) = [nack_sn |-> x, has_so |-> FALSE, so_start |-> 0, so_end |-> so_end_of_sdu,
                       has_range |-> FALSE, range |-> 1]
      BY <3>2, <3>3 DEF nack_sdu
    <3> QED BY <3>1, <3>4 DEF SingleNacks
  <2> HIDE DEF single, SingleNacks
  <2>3. nack.range \in Nat
    BY <1>1, TypesAssumption
  <2> QED BY <2>1, <2>2, <2>3
<1> QED BY <1>1, <1>2, <1>3

(* The list handle_control_pdu() works on has one NACK per number.         *)
LEMMA ExpandedNacks ==
  ASSUME NEW nacks \in Seq(WholeNacks)
  PROVE  expand_nacks(nacks) \in Seq(SingleNacks)
<1> DEFINE seqs == [i \in DOMAIN nacks |-> expand_nack(nacks[i])]
<1>1. /\ DOMAIN nacks = 1..Len(nacks) /\ Len(nacks) \in Nat
      /\ \A i \in DOMAIN nacks : nacks[i] \in WholeNacks
  OBVIOUS
<1>2. seqs \in Seq(Seq(SingleNacks))
  <2>1. \A i \in DOMAIN nacks : expand_nack(nacks[i]) \in Seq(SingleNacks)
    BY <1>1, ExpandedNack
  <2> HIDE DEF SingleNacks
  <2> QED BY <1>1, <2>1
<1>3. expand_nacks(nacks) = FlattenSeq(seqs)
  BY DEF expand_nacks
<1> HIDE DEF seqs, SingleNacks
<1>4. PICK f \in [0..Len(seqs) -> Seq(SingleNacks)] : f[Len(seqs)] = FlattenSeq(seqs)
  BY <1>2, FlattenSteps
<1>5. Len(seqs) \in 0..Len(seqs)
  BY <1>2
<1> QED BY <1>3, <1>4, <1>5

(* What the loop over the NACKs works on                                   *)
Handled(w) == [q : Seq(WholeRetx), sns : SUBSET {sn \in SNs : w[sn].sdu # None}]

(* A NACK puts whole SDUs of the window into the queue only.               *)
LEMMA HandledNack ==
  ASSUME NEW w \in [SNs -> WholeTxPdu], NEW acc \in Handled(w), NEW nack \in SingleNacks, NEW base
  PROVE  handle_nack(acc, nack, base, w) \in Handled(w)
<1> DEFINE sn == nack.nack_sn
           q == acc.q \o (CASE queued(acc.q, sn) -> <<>>
                            [] ~queued(acc.q, sn) /\ w[sn].segment_list = <<>> -> <<retx_sdu(sn)>>
                            [] OTHER -> segment_entries(sn, w[sn].segment_list))
           new == [q |-> q, sns |-> IF q # acc.q THEN acc.sns \cup {sn} ELSE acc.sns]
<1>1. ~nack.has_so /\ acc.q \in Seq(WholeRetx) /\ acc.sns \in SUBSET {x \in SNs : w[x].sdu # None}
  BY DEF SingleNacks, Handled
<1>2. handle_nack(acc, nack, base, w) =
        IF /\ mod_base(sn, base) <= mod_base(tx_next, base)
           /\ sn \in SNs /\ w[sn].sdu # None
        THEN new ELSE acc
  BY <1>1 DEF handle_nack
<1>3. ASSUME sn \in SNs, w[sn].sdu # None PROVE new \in Handled(w)
  <2>1. w[sn].segment_list = <<>>
    BY <1>3 DEF WholeTxPdu
  <2>2. q = acc.q \/ q = acc.q \o <<retx_sdu(sn)>>
    BY <1>1, <2>1, ConcatEmptySeq
  <2>3. retx_sdu(sn) \in WholeRetx
    BY <1>3 DEF WholeRetx
  <2>4. q \in Seq(WholeRetx)
    <3> HIDE DEF q, sn
    <3>1. <<retx_sdu(sn)>> \in Seq(WholeRetx)
      BY <2>3
    <3>2. acc.q \o <<retx_sdu(sn)>> \in Seq(WholeRetx)
      BY <1>1, <3>1, ConcatProperties
    <3> QED BY <1>1, <2>2, <3>2
  <2>5. acc.sns \cup {sn} \in SUBSET {x \in SNs : w[x].sdu # None}
    BY <1>1, <1>3
  <2> HIDE DEF q, sn
  <2> QED BY <1>1, <2>4, <2>5 DEF Handled
<1> HIDE DEF new
<1> QED BY <1>2, <1>3

(* The NACK loop leaves a queue of whole SDUs to retransmit, and the SNs   *)
(* it counts a retransmission of are in the window.                        *)
LEMMA HandleSteps ==
  ASSUME NEW w \in [SNs -> WholeTxPdu], NEW q \in Seq(WholeRetx),
         NEW nacks \in Seq(SingleNacks), NEW base
  PROVE  handle_nacks(q, nacks, base, w) \in Handled(w)
<1> DEFINE n == Len(nacks)
           T == Handled(w)
           b == [q |-> q, sns |-> {}]
           Step(acc, nack) == handle_nack(acc, nack, base, w)
           P(h) == h = [x \in SUBSET (1..n) |-> IF x = {} THEN b ELSE Step(h[x \ {Max(x)}], nacks[Max(x)])]
           F == [y \in T \X (1..n) |-> Step(y[1], nacks[y[2]])]
           h == CHOOSE h : P(h)
<1>1. n \in Nat /\ b \in T /\ DOMAIN nacks = 1..n /\ \A k \in 1..n : nacks[k] \in SingleNacks
  <2>1. b \in T
    BY DEF Handled
  <2> HIDE DEF SingleNacks
  <2> QED BY <2>1
<1>2. F \in [T \X (1..n) -> T]
  <2> SUFFICES ASSUME NEW y \in T \X (1..n) PROVE Step(y[1], nacks[y[2]]) \in T
    OBVIOUS
  <2>1. y[1] \in Handled(w) /\ nacks[y[2]] \in SingleNacks
    BY <1>1
  <2> QED BY <2>1, HandledNack
<1>3. PICK g \in [SUBSET (1..n) -> T] : Iterates(g, n, b, F)
  <2> HIDE DEF F, T, n, b
  <2> QED BY <1>1, <1>2, IterExists
<1>4. P(g)
  <2> SUFFICES ASSUME NEW s \in SUBSET (1..n), s # {}
               PROVE  F[<<g[s \ {Max(s)}], Max(s)>>] = Step(g[s \ {Max(s)}], nacks[Max(s)])
    BY <1>3 DEF Iterates
  <2>1. Max(s) \in 1..n
    <3>1. s \in SUBSET (0..n)
      OBVIOUS
    <3>2. Max(s) \in s
      BY <1>1, <3>1, GreatestIn
    <3> QED BY <3>2
  <2>2. g[s \ {Max(s)}] \in T
    BY <1>3
  <2>3. ASSUME NEW a \in T, NEW m \in 1..n PROVE F[<<a, m>>] = Step(a, nacks[m])
    OBVIOUS
  <2> HIDE DEF F
  <2> QED BY <2>1, <2>2, <2>3
<1>5. P(h)
  <2> HIDE DEF P
  <2> QED BY <1>4
<1>6. \A x \in SUBSET (1..n) : h[x] = IF x = {} THEN b ELSE Step(h[x \ {Max(x)}], nacks[Max(x)])
  <2> HIDE DEF h
  <2> QED BY <1>5
<1>7. handle_nacks(q, nacks, base, w) = h[1..n]
  <2>1. handle_nacks(q, nacks, base, w) = h[DOMAIN nacks]
    BY <1>1 DEF handle_nacks, FoldLeft, MapThenFoldSet
  <2> QED BY <1>1, <2>1
<1> HIDE DEF h
<1>8. \A k \in 0..n : h[1..k] \in T
  <2> DEFINE S == {k \in 0..n : h[1..k] \in T}
  <2> HIDE DEF n, T, b
  <2>1. 0 \in S
    <3>1. 1..0 = {} /\ {} \in SUBSET (1..n) /\ 0 \in 0..n
      BY <1>1
    <3> QED BY <1>1, <1>6, <3>1
  <2>2. ASSUME NEW k \in 1..n, k - 1 \in S PROVE k \in S
    <3>1. /\ Max(1..k) = k /\ (1..k) \ {Max(1..k)} = 1..(k - 1) /\ 1..k # {}
          /\ 1..k \in SUBSET (1..n) /\ k \in 0..n /\ k - 1 \in 0..n
      BY <1>1, PrefixMax
    <3> HIDE DEF Step
    <3>2. h[1..k] = Step(h[(1..k) \ {Max(1..k)}], nacks[Max(1..k)])
      BY <1>6, <3>1, Zenon
    <3>3. h[1..k] = Step(h[1..(k - 1)], nacks[k]) /\ h[1..(k - 1)] \in T /\ nacks[k] \in SingleNacks
      BY <1>1, <2>2, <3>1, <3>2
    <3> QED BY <3>1, <3>3, HandledNack DEF T, Step
  <2> HIDE DEF S
  <2>3. \A k \in 0..n : k \in S
    BY <1>1, <2>1, <2>2, Induction
  <2> QED BY <2>3 DEF S
<1>9. h[1..n] \in T
  <2> HIDE DEF T, n
  <2>1. n \in 0..n
    BY <1>1
  <2> QED BY <1>8, <2>1
<1> QED BY <1>7, <1>9

(* The ACK loop takes the SNs from TX_Next_Ack up to where the report ends.*)
LEMMA AckedSns ==
  ASSUME AmInv, NEW stop \in SNs, tx_mod_base_nr(stop) <= tx_mod_base_nr(tx_next),
         NEW acks, acks = acked_sns(stop)
  PROVE  /\ acks \in Seq(SNs) /\ DOMAIN acks = 1..tx_mod_base_nr(stop)
         /\ \A k \in DOMAIN acks : tx_mod_base_nr(acks[k]) = k - 1 /\ acks[k] \in Window
         /\ \A sn \in SNs : (\E k \in DOMAIN acks : acks[k] = sn) <=>
                              tx_mod_base_nr(sn) < tx_mod_base_nr(stop)
         /\ (tx_next_ack + Len(acks)) % mod_nr = stop
<1> DEFINE to == tx_mod_base_nr(stop)
           sn_at(k) == (tx_next_ack + k) % mod_nr
           Gone(k) == k < mod_nr /\ tx_has_sn((tx_next_ack + k) % mod_nr)
           n == CHOOSE n \in 0..to : /\ \A k \in 0..(n - 1) : Gone(k)
                                     /\ n = to \/ ~Gone(n)
<1>1. /\ tx_next_ack \in SNs /\ tx_next \in SNs /\ to \in Nat /\ to <= AM_Window_Size
      /\ AM_Window_Size \in Nat \ {0} /\ mod_nr = 2 * AM_Window_Size
      /\ \A sn \in SNs : tx_mod_base_nr(sn) \in Nat
  <2>1. tx_next_ack \in SNs /\ tx_next \in SNs
    BY DEF AmInv, WholeTypes
  <2>2. \A sn \in SNs : tx_mod_base_nr(sn) \in Nat
    BY <2>1, Distance DEF tx_mod_base_nr
  <2>3. tx_mod_base_nr(tx_next) <= AM_Window_Size
    BY DEF AmInv, WindowOK
  <2> QED BY <2>1, <2>2, <2>3, TypesAssumption
<1>2. \A k \in 0..to : sn_at(k) \in SNs /\ tx_mod_base_nr(sn_at(k)) = k
  BY <1>1, AtDistance DEF tx_mod_base_nr
<1>3. \A k \in 0..to : k < to => sn_at(k) \in Window
  <2> SUFFICES ASSUME NEW k \in 0..to, k < to PROVE sn_at(k) \in Window
    OBVIOUS
  <2>1. sn_at(k) \in SNs /\ tx_mod_base_nr(sn_at(k)) < tx_mod_base_nr(tx_next)
    BY <1>1, <1>2
  <2> HIDE DEF sn_at
  <2> QED BY <2>1 DEF AmInv, WindowOK
<1>4. \A k \in 0..to : k < to => Gone(k)
  <2> SUFFICES ASSUME NEW k \in 0..to, k < to PROVE Gone(k)
    OBVIOUS
  <2>1. sn_at(k) \in Window /\ k < mod_nr
    BY <1>1, <1>3
  <2> QED BY <2>1 DEF tx_has_sn, Window, Outstanding
<1> HIDE DEF Gone
<1>5. n = to
  <2>1. to \in 0..to /\ \A k \in 0..(to - 1) : k \in 0..to /\ k < to
    BY <1>1
  <2>2. \A k \in 0..(to - 1) : Gone(k)
    BY <1>4, <2>1
  <2>3. \A m \in 0..to : m = to \/ m < to
    BY <1>1
  <2>4. \A m \in 0..to : (m = to \/ ~Gone(m)) => m = to
    BY <1>4, <2>3
  <2> HIDE DEF to
  <2> QED BY <2>1, <2>2, <2>4
<1>6. acks = [k \in 1..n |-> (tx_next_ack + k - 1) % mod_nr]
  BY DEF acked_sns, Gone
<1> HIDE DEF n
<1>7. acks = [k \in 1..to |-> sn_at(k - 1)]
  <2>1. \A k \in 1..to : tx_next_ack + k - 1 = tx_next_ack + (k - 1)
    BY <1>1 DEF SNs
  <2> HIDE DEF to
  <2> QED BY <1>5, <1>6, <2>1
<1>8. \A k \in 1..to : k - 1 \in 0..to /\ k - 1 < to
  BY <1>1
<1> HIDE DEF sn_at
<1>9. /\ acks \in Seq(SNs) /\ DOMAIN acks = 1..to /\ Len(acks) = to
      /\ \A k \in 1..to : tx_mod_base_nr(acks[k]) = k - 1 /\ acks[k] \in Window
  <2>1. \A k \in 1..to : /\ acks[k] = sn_at(k - 1) /\ sn_at(k - 1) \in SNs
                         /\ tx_mod_base_nr(sn_at(k - 1)) = k - 1 /\ sn_at(k - 1) \in Window
    BY <1>2, <1>3, <1>7, <1>8
  <2>2. \A k \in 1..to : tx_mod_base_nr(acks[k]) = k - 1 /\ acks[k] \in Window /\ acks[k] \in SNs
    BY <2>1
  <2>3. to \in Nat
    BY <1>1
  <2> HIDE DEF to
  <2>4. DOMAIN acks = 1..to /\ acks = [k \in 1..to |-> acks[k]]
    BY <1>7
  <2>5. acks \in Seq(SNs) /\ Len(acks) = to
    BY <2>2, <2>3, <2>4
  <2> QED BY <2>2, <2>4, <2>5
<1>10. ASSUME NEW sn \in SNs
       PROVE  (\E k \in DOMAIN acks : acks[k] = sn) <=> tx_mod_base_nr(sn) < to
  <2>1. ASSUME NEW k \in DOMAIN acks, acks[k] = sn PROVE tx_mod_base_nr(sn) < to
    BY <1>8, <1>9, <2>1
  <2>2. ASSUME tx_mod_base_nr(sn) < to PROVE \E k \in DOMAIN acks : acks[k] = sn
    <3> DEFINE k == tx_mod_base_nr(sn) + 1
    <3>1. k \in 1..to
      BY <1>1, <2>2
    <3>2. tx_mod_base_nr(acks[k]) = tx_mod_base_nr(sn) /\ acks[k] \in SNs
      BY <1>1, <1>9, <3>1
    <3> HIDE DEF k
    <3>3. acks[k] = sn
      BY <1>1, <3>2, SameDistance DEF tx_mod_base_nr
    <3> QED BY <1>9, <3>1, <3>3
  <2> QED BY <2>1, <2>2
<1>11. (tx_next_ack + to) % mod_nr = stop
  <2>1. sn_at(to) \in SNs /\ tx_mod_base_nr(sn_at(to)) = tx_mod_base_nr(stop)
    BY <1>1, <1>2
  <2>2. sn_at(to) = stop
    BY <1>1, <2>1, SameDistance DEF tx_mod_base_nr
  <2> QED BY <2>2 DEF sn_at
<1> QED BY <1>9, <1>10, <1>11

(* An SDU the sender retransmits once more is still the same one.          *)
LEMMA CountRetx ==
  ASSUME NEW pdu \in WholeTxPdu
  PROVE  count_retx(pdu) \in WholeTxPdu /\ count_retx(pdu).sdu = pdu.sdu
<1> DEFINE c == IF pdu.retx_count > max_retx_thresh THEN pdu.retx_count ELSE pdu.retx_count + 1
<1>1. pdu.retx_count \in NOT_STARTED..(max_retx_thresh + 1) /\ max_retx_thresh \in Nat \ {0}
  BY TxAssumption DEF WholeTxPdu
<1>2. c \in NOT_STARTED..(max_retx_thresh + 1)
  BY <1>1 DEF NOT_STARTED
<1>3. count_retx(pdu) = [pdu EXCEPT !.retx_count = c]
  BY DEF count_retx
<1> HIDE DEF c
<1> QED BY <1>2, <1>3 DEF WholeTxPdu

(* What handle_control_pdu() does with a report on whole SDUs.             *)
LEMMA ControlPdu ==
  ASSUME AmInv, 1 \in DOMAIN status_ch, handle_control_pdu(status_ch[1]),
         NEW stop, stop = stop_of(status_ch[1]), NEW acks, acks = acked_sns(stop)
  PROVE  /\ tx_enabled
         /\ stop \in SNs /\ tx_mod_base_nr(stop) <= tx_mod_base_nr(rx_next)
         /\ tx_mod_base_nr(rx_next) <= tx_mod_base_nr(tx_next)
         /\ tx_next_ack' = stop
         /\ tx_window' \in [SNs -> WholeTxPdu]
         /\ \A sn \in SNs : tx_window'[sn].sdu =
              IF tx_mod_base_nr(sn) < tx_mod_base_nr(stop) THEN None ELSE tx_window[sn].sdu
         /\ retx_queue' \in Seq(WholeRetx)
         /\ notified' = notified \o [k \in DOMAIN acks |-> tx_window[acks[k]].sdu]
         /\ failed' \subseteq Sdus
         /\ poll_retransmit_timer' \in BOOLEAN
<1> DEFINE s == status_ch[1]
           status == rlc_am_nr_read_status_pdu(s)
           w == [sn \in SNs |-> IF \E k \in DOMAIN acks : acks[k] = sn
                                THEN NoTxPdu ELSE tx_window[sn]]
           q == FoldLeft(remove_sn, retx_queue, acks)
           base == (tx_next_ack + Len(acks)) % mod_nr
           retx == handle_nacks(q, expand_nacks(status.nacks), base, w)
           MaxRetx == {sn \in retx.sns : count_retx(w[sn]).retx_count = max_retx_thresh}
<1>1. s \in Report /\ stop \in SNs
  BY Stops
<1>2. status \in Report /\ stop_of(status) = stop
  BY <1>1, StopOf
<1>3. /\ tx_enabled
      /\ poll_retransmit_timer' =
           (poll_retransmit_timer /\ tx_mod_base_nr(poll_sn) >= tx_mod_base_nr(status.ack_sn))
      /\ tx_next_ack' = base
      /\ tx_window' = [sn \in SNs |-> IF sn \in retx.sns THEN count_retx(w[sn]) ELSE w[sn]]
      /\ retx_queue' = retx.q
      /\ notified' = notified \o [k \in DOMAIN acks |-> tx_window[acks[k]].sdu]
      /\ failed' = failed \cup {w[sn].sdu : sn \in MaxRetx}
  <2> DEFINE a1 == acked_sns(IF status.nacks = <<>> THEN status.ack_sn ELSE status.nacks[1].nack_sn)
             w1 == [sn \in SNs |-> IF \E k \in DOMAIN a1 : a1[k] = sn
                                   THEN NoTxPdu ELSE tx_window[sn]]
             q1 == FoldLeft(remove_sn, retx_queue, a1)
             base1 == (tx_next_ack + Len(a1)) % mod_nr
             retx1 == handle_nacks(q1, expand_nacks(status.nacks), base1, w1)
             Max1 == {sn \in retx1.sns : count_retx(w1[sn]).retx_count = max_retx_thresh}
  <2>1. /\ tx_enabled
        /\ poll_retransmit_timer' =
             (poll_retransmit_timer /\ tx_mod_base_nr(poll_sn) >= tx_mod_base_nr(status.ack_sn))
        /\ tx_next_ack' = base1
        /\ tx_window' = [sn \in SNs |-> IF sn \in retx1.sns THEN count_retx(w1[sn]) ELSE w1[sn]]
        /\ retx_queue' = retx1.q
        /\ notified' = notified \o [k \in DOMAIN a1 |-> tx_window[a1[k]].sdu]
        /\ failed' = failed \cup {w1[sn].sdu : sn \in Max1}
    BY Zenon DEF handle_control_pdu
  <2>2. a1 = acks
    BY <1>2 DEF stop_of
  <2> HIDE DEF a1, status
  <2>3. w1 = w /\ base1 = base
    BY <2>2
  <2>4. q1 = q
    BY <2>2, Zenon
  <2> HIDE DEF q1, q, w1, w, base1, base
  <2>5. retx1 = retx
    BY <2>3, <2>4
  <2> HIDE DEF retx1, retx
  <2>6. Max1 = MaxRetx
    BY <2>3, <2>5
  <2> HIDE DEF Max1, MaxRetx
  <2>7. tx_window' = [sn \in SNs |-> IF sn \in retx.sns THEN count_retx(w[sn]) ELSE w[sn]]
    BY <2>1, <2>3, <2>5
  <2>8. notified' = notified \o [k \in DOMAIN acks |-> tx_window[acks[k]].sdu]
    BY <2>1, <2>2
  <2>9. failed' = failed \cup {w[sn].sdu : sn \in MaxRetx}
    BY <2>1, <2>3, <2>6
  <2> QED BY <2>1, <2>3, <2>5, <2>7, <2>8, <2>9
<1> HIDE DEF status, base
<1>4. /\ tx_mod_base_nr(stop) <= tx_mod_base_nr(rx_next)
      /\ tx_mod_base_nr(rx_next) <= tx_mod_base_nr(tx_next)
      /\ tx_mod_base_nr(stop) <= tx_mod_base_nr(tx_next)
  <2>1. tx_mod_base_nr(stop) <= tx_mod_base_nr(rx_next)
    BY <1>3 DEF AmInv, ReportsOK
  <2>2. tx_mod_base_nr(rx_next) + rx_mod_base_nr(rx_next_highest) <= tx_mod_base_nr(tx_next)
    BY <1>3 DEF AmInv, LinkOK
  <2>3. /\ tx_next_ack \in SNs /\ tx_next \in SNs /\ rx_next \in SNs
        /\ rx_mod_base_nr(rx_next_highest) \in Nat
    BY ReceiverNumbers DEF AmInv, WholeTypes
  <2>4. tx_mod_base_nr(stop) \in Nat /\ tx_mod_base_nr(rx_next) \in Nat /\ tx_mod_base_nr(tx_next) \in Nat
    BY <1>1, <2>3, Distance DEF tx_mod_base_nr
  <2> QED BY <2>1, <2>2, <2>3, <2>4
<1>5. /\ acks \in Seq(SNs)
      /\ \A sn \in SNs : (\E k \in DOMAIN acks : acks[k] = sn) <=>
                           tx_mod_base_nr(sn) < tx_mod_base_nr(stop)
      /\ base = stop
  BY <1>1, <1>4, AckedSns DEF base
<1>6. tx_window \in [SNs -> WholeTxPdu] /\ retx_queue \in Seq(WholeRetx) /\ failed \subseteq Sdus
  BY DEF AmInv, WholeTypes
<1>7. NoTxPdu \in WholeTxPdu /\ NoTxPdu.sdu = None
  BY TxAssumption DEF NoTxPdu, WholeTxPdu, NOT_STARTED
<1>8. /\ w \in [SNs -> WholeTxPdu]
      /\ \A sn \in SNs : w[sn].sdu =
           IF tx_mod_base_nr(sn) < tx_mod_base_nr(stop) THEN None ELSE tx_window[sn].sdu
  BY <1>5, <1>6, <1>7
<1>9. retx \in Handled(w)
  <2>1. q \in Seq(WholeRetx)
    BY <1>5, <1>6, RemoveSteps
  <2>2. expand_nacks(status.nacks) \in Seq(SingleNacks)
    BY <1>2, ExpandedNacks DEF Report
  <2> HIDE DEF q, w
  <2> QED BY <1>8, <2>1, <2>2, HandleSteps
<1> HIDE DEF retx, w, q
<1>10. retx.q \in Seq(WholeRetx) /\ retx.sns \subseteq SNs /\ \A sn \in retx.sns : w[sn].sdu # None
  BY <1>9 DEF Handled
<1>11. \A sn \in SNs : count_retx(w[sn]) \in WholeTxPdu /\ count_retx(w[sn]).sdu = w[sn].sdu
  BY <1>8, CountRetx
<1>12. /\ tx_window' \in [SNs -> WholeTxPdu]
       /\ \A sn \in SNs : tx_window'[sn].sdu = w[sn].sdu
  BY <1>3, <1>8, <1>11
<1>13. failed' \subseteq Sdus
  <2>1. \A sn \in retx.sns : w[sn].sdu \in Sdus
    BY <1>8, <1>10 DEF WholeTxPdu
  <2> QED BY <1>3, <1>6, <2>1
<1>14. poll_retransmit_timer' \in BOOLEAN
  BY <1>3
<1> QED BY <1>1, <1>3, <1>4, <1>5, <1>8, <1>10, <1>12, <1>13, <1>14

(* What the sender's window says when it moves up to stop                  *)
LEMMA WindowMoves ==
  ASSUME AmInv, tx_enabled,
         NEW stop, stop \in SNs, tx_mod_base_nr(stop) <= tx_mod_base_nr(rx_next),
         tx_mod_base_nr(rx_next) <= tx_mod_base_nr(tx_next),
         tx_next_ack' = stop, tx_next' = tx_next, rx_next' = rx_next,
         \A sn \in SNs : tx_window'[sn].sdu =
           IF tx_mod_base_nr(sn) < tx_mod_base_nr(stop) THEN None ELSE tx_window[sn].sdu
  PROVE  /\ \A sn \in SNs : tx_mod_base_nr(stop) <= tx_mod_base_nr(sn) =>
              tx_mod_base_nr(sn)' = tx_mod_base_nr(sn) - tx_mod_base_nr(stop)
         /\ Window' = {sn \in Window : tx_mod_base_nr(stop) <= tx_mod_base_nr(sn)}
         /\ \A sn \in Window' : tx_window'[sn].sdu = tx_window[sn].sdu
         /\ WindowOK'
<1> DEFINE d(sn) == tx_mod_base_nr(sn)
<1>1. /\ tx_next_ack \in SNs /\ tx_next \in SNs /\ rx_next \in SNs
      /\ AM_Window_Size \in Nat /\ mod_nr = 2 * AM_Window_Size
  BY ReceiverNumbers, TypesAssumption DEF AmInv, WholeTypes
<1>2. \A sn \in SNs : /\ d(sn) \in Nat /\ d(sn) < mod_nr
                      /\ d(sn)' = IF d(sn) >= d(stop) THEN d(sn) - d(stop)
                                  ELSE d(sn) - d(stop) + mod_nr
  <2> SUFFICES ASSUME NEW sn \in SNs
               PROVE  /\ d(sn) \in Nat /\ d(sn) < mod_nr
                      /\ d(sn)' = IF d(sn) >= d(stop) THEN d(sn) - d(stop)
                                  ELSE d(sn) - d(stop) + mod_nr
    OBVIOUS
  <2>1. (tx_mod_base_nr(sn))' = mod_base(sn, stop)
    BY DEF tx_mod_base_nr
  <2>2. mod_base(sn, stop) = IF d(sn) >= d(stop) THEN d(sn) - d(stop)
                             ELSE d(sn) - d(stop) + mod_nr
    BY <1>1, Rebase DEF tx_mod_base_nr
  <2>3. d(sn) \in Nat /\ d(sn) < mod_nr
    BY <1>1, Distance DEF tx_mod_base_nr
  <2> QED BY <2>1, <2>2, <2>3
<1>3. d(tx_next) <= AM_Window_Size /\ Window = {sn \in SNs : d(sn) < d(tx_next)}
  BY DEF AmInv, WindowOK
<1>4. d(tx_next)' = d(tx_next) - d(stop) /\ d(stop) <= d(tx_next)
  <2>1. d(stop) <= d(tx_next)
    BY <1>1, <1>2
  <2>2. (tx_mod_base_nr(tx_next))' = mod_base(tx_next, stop)
    BY DEF tx_mod_base_nr
  <2>3. mod_base(tx_next, stop) = IF d(tx_next) >= d(stop) THEN d(tx_next) - d(stop)
                                  ELSE d(tx_next) - d(stop) + mod_nr
    BY <1>1, Rebase DEF tx_mod_base_nr
  <2> QED BY <1>1, <1>2, <2>1, <2>2, <2>3
<1>5. Window' = {sn \in Window : d(stop) <= d(sn)}
  <2>1. \A sn \in SNs : sn \in Window' <=> sn \in Window /\ ~(d(sn) < d(stop))
    BY DEF Window, Outstanding
  <2>2. Window' \subseteq SNs /\ Window \subseteq SNs
    BY DEF Window, Outstanding
  <2>3. \A sn \in SNs : ~(d(sn) < d(stop)) <=> d(stop) <= d(sn)
    BY <1>2
  <2> HIDE DEF d
  <2> QED BY <2>1, <2>2, <2>3
<1> HIDE DEF d
<1>6. \A sn \in SNs : sn \in Window' <=> d(sn)' < d(tx_next)'
  <2> SUFFICES ASSUME NEW sn \in SNs PROVE sn \in Window' <=> d(sn)' < d(tx_next)'
    OBVIOUS
  <2>1. sn \in Window' <=> d(sn) < d(tx_next) /\ d(stop) <= d(sn)
    BY <1>3, <1>5
  <2>2. d(sn)' = IF d(sn) >= d(stop) THEN d(sn) - d(stop) ELSE d(sn) - d(stop) + mod_nr
    BY <1>2
  <2>3. d(sn) \in Nat /\ d(stop) \in Nat /\ d(tx_next) \in Nat /\ d(tx_next) <= mod_nr
    BY <1>1, <1>2, <1>3
  <2> QED BY <1>1, <1>4, <2>1, <2>2, <2>3
<1>7. Window' = {sn \in SNs : tx_mod_base_nr(sn)' < tx_mod_base_nr(tx_next)'}
  <2>1. Window' \subseteq SNs
    BY DEF Window, Outstanding
  <2> QED BY <1>6, <2>1 DEF d
<1>8. tx_mod_base_nr(tx_next)' <= AM_Window_Size
  <2>1. d(stop) \in Nat /\ d(tx_next) \in Nat
    BY <1>1, <1>2
  <2> QED BY <1>1, <1>3, <1>4, <2>1 DEF d
<1>9. WindowOK'
  BY <1>7, <1>8 DEF WindowOK
<1>10. \A sn \in Window' : tx_window'[sn].sdu = tx_window[sn].sdu
  <2> SUFFICES ASSUME NEW sn \in Window' PROVE tx_window'[sn].sdu = tx_window[sn].sdu
    OBVIOUS
  <2>1. sn \in SNs /\ tx_window'[sn].sdu # None
    BY DEF Window, Outstanding
  <2> QED BY <2>1
<1> QED BY <1>2, <1>5, <1>9, <1>10 DEF d

(* An SDU in the window below RX_Next has been delivered.                  *)
LEMMA BelowRxNext ==
  ASSUME AmInv, tx_enabled, NEW sn \in Window, tx_mod_base_nr(sn) < tx_mod_base_nr(rx_next)
  PROVE  tx_window[sn].sdu \in Delivered
<1>1. /\ sn \in SNs /\ tx_next_ack \in SNs /\ tx_next \in SNs /\ rx_next \in SNs
      /\ rx_mod_base_nr(rx_next_highest) \in Nat
  BY ReceiverNumbers DEF AmInv, WholeTypes, Window, Outstanding
<1>2. /\ tx_mod_base_nr(sn) \in Nat /\ tx_mod_base_nr(rx_next) \in Nat
      /\ tx_mod_base_nr(tx_next) \in Nat /\ AM_Window_Size \in Nat
  BY <1>1, Distance, TypesAssumption DEF tx_mod_base_nr
<1>3. tx_mod_base_nr(rx_next) <= AM_Window_Size
  <2>1. tx_mod_base_nr(rx_next) + rx_mod_base_nr(rx_next_highest) <= tx_mod_base_nr(tx_next)
    BY DEF AmInv, LinkOK
  <2>2. tx_mod_base_nr(tx_next) <= AM_Window_Size
    BY DEF AmInv, WindowOK
  <2> QED BY <1>1, <1>2, <2>1, <2>2
<1>4. place(sn) = AM_Window_Size + tx_mod_base_nr(sn) - tx_mod_base_nr(rx_next)
  <2>1. mod_base(sn, tx_next_ack) < mod_base(rx_next, tx_next_ack) + AM_Window_Size
    BY <1>2 DEF tx_mod_base_nr
  <2> QED BY <1>1, <1>3, <2>1, PlaceFromSender DEF place, rx_mod_base_nr, tx_mod_base_nr
<1>5. Done(sn)
  BY <1>2, <1>4 DEF Done
<1> QED BY <1>5 DEF AmInv, LinkOK

(* The sender takes a report: the SDUs it tells the PDCP of are delivered, *)
(* and none of them twice.                                                 *)
LEMMA ReceiveStatusHandled ==
  ASSUME AmInv, 1 \in DOMAIN status_ch, handle_control_pdu(status_ch[1]),
         status_ch' = RemoveAt(status_ch, 1), UNCHANGED <<rxVars, delivered>>
  PROVE  AmInv' /\ Notified \subseteq Notified'
<1> DEFINE s == status_ch[1]
           d(sn) == tx_mod_base_nr(sn)
<1>1. PICK stop, acks : stop = stop_of(s) /\ acks = acked_sns(stop)
  OBVIOUS
<1>2. /\ tx_enabled
      /\ stop \in SNs /\ d(stop) <= d(rx_next) /\ d(rx_next) <= d(tx_next)
      /\ tx_next_ack' = stop
      /\ tx_window' \in [SNs -> WholeTxPdu]
      /\ \A sn \in SNs : tx_window'[sn].sdu = IF d(sn) < d(stop) THEN None ELSE tx_window[sn].sdu
      /\ retx_queue' \in Seq(WholeRetx)
      /\ notified' = notified \o [k \in DOMAIN acks |-> tx_window[acks[k]].sdu]
      /\ failed' \subseteq Sdus
      /\ poll_retransmit_timer' \in BOOLEAN
  BY <1>1, ControlPdu
<1>3. UNCHANGED <<tx_next, poll_sn, pdu_without_poll, byte_without_poll, tx_sdu_queue,
                  sdu_under_segmentation_sn, poll_expired, tx_enabled, data_ch,
                  written, discarded, delivered>> /\ UNCHANGED rxVars
  BY DEF handle_control_pdu
<1>4. rx_next' = rx_next /\ rx_next_highest' = rx_next_highest /\ rx_window' = rx_window
  BY <1>3 DEF rxVars, rxState
<1>5. /\ \A sn \in SNs : d(stop) <= d(sn) => d(sn)' = d(sn) - d(stop)
      /\ Window' = {sn \in Window : d(stop) <= d(sn)}
      /\ \A sn \in Window' : tx_window'[sn].sdu = tx_window[sn].sdu
      /\ WindowOK'
  BY <1>2, <1>3, <1>4, WindowMoves
<1>6. /\ tx_next_ack \in SNs /\ tx_next \in SNs /\ rx_next \in SNs
      /\ \A sn \in SNs : d(sn) \in Nat
  <2>1. tx_next_ack \in SNs /\ tx_next \in SNs /\ rx_next \in SNs
    BY ReceiverNumbers DEF AmInv, WholeTypes
  <2> QED BY <2>1, Distance DEF tx_mod_base_nr
<1>7. d(stop) <= d(tx_next)
  BY <1>2, <1>6
<1>8. /\ acks \in Seq(SNs) /\ DOMAIN acks = 1..d(stop)
      /\ \A k \in DOMAIN acks : d(acks[k]) = k - 1 /\ acks[k] \in Window
      /\ \A sn \in SNs : (\E k \in DOMAIN acks : acks[k] = sn) <=> d(sn) < d(stop)
  BY <1>1, <1>2, <1>7, AckedSns
<1> DEFINE new == [k \in DOMAIN acks |-> tx_window[acks[k]].sdu]
<1>9. \A sn \in Window : d(sn) < d(stop) => tx_window[sn].sdu \in Delivered
  <2> SUFFICES ASSUME NEW sn \in Window, d(sn) < d(stop) PROVE tx_window[sn].sdu \in Delivered
    OBVIOUS
  <2>1. sn \in SNs
    BY DEF Window, Outstanding
  <2>2. d(sn) < d(rx_next)
    BY <1>2, <1>6, <2>1
  <2> QED BY <1>2, <2>2, BelowRxNext
<1>10. /\ DOMAIN new = 1..d(stop) /\ new \in Seq(Sdus)
       /\ \A k \in 1..d(stop) : new[k] \in Delivered \cap WindowSdus
       /\ \A j, k \in 1..d(stop) : new[j] = new[k] => j = k
  <2>1. \A k \in 1..d(stop) : new[k] = tx_window[acks[k]].sdu /\ acks[k] \in Window /\ d(acks[k]) = k - 1
    BY <1>8
  <2>2. \A k \in 1..d(stop) : k - 1 < d(stop)
    BY <1>2, <1>6
  <2>3. \A k \in 1..d(stop) : new[k] \in Delivered \cap WindowSdus
    BY <1>9, <2>1, <2>2 DEF WindowSdus
  <2>4. ASSUME NEW j \in 1..d(stop), NEW k \in 1..d(stop), new[j] = new[k] PROVE j = k
    <3>1. acks[j] = acks[k]
      BY <2>1, <2>4 DEF AmInv, SdusOK
    <3>2. j - 1 = k - 1
      BY <2>1, <3>1
    <3> QED BY <3>2
  <2>5. Delivered \subseteq Sdus
    BY DEF AmInv, SdusOK, WholeTypes, Live
  <2>6. DOMAIN new = 1..d(stop) /\ d(stop) \in Nat
    BY <1>2, <1>6, <1>8
  <2> HIDE DEF new, d
  <2>7. new \in Seq(Sdus)
    <3>1. new = [k \in 1..d(stop) |-> new[k]]
      BY <2>6 DEF new
    <3>2. \A k \in 1..d(stop) : new[k] \in Sdus
      BY <2>3, <2>5
    <3> QED BY <2>6, <3>1, <3>2
  <2> QED BY <2>3, <2>4, <2>6, <2>7
<1>11. notified' = notified \o new /\ notified \in Seq(Sdus)
  BY <1>2 DEF AmInv, WholeTypes
<1> HIDE DEF new
<1>12. /\ notified' \in Seq(Sdus) /\ Distinct(notified)'
       /\ Notified \subseteq Notified' /\ Notified' \subseteq Delivered
       /\ \A x \in Notified' : x \in Notified \/ \E k \in 1..d(stop) : new[k] = x
  <2> DEFINE m == Len(notified)
             n == Len(new)
  <2>1. /\ m \in Nat /\ n \in Nat /\ DOMAIN notified = 1..m /\ DOMAIN new = 1..n
        /\ n = d(stop) /\ DOMAIN notified' = 1..(m + n) /\ notified' \in Seq(Sdus)
        /\ \A j \in 1..(m + n) : notified'[j] = IF j <= m THEN notified[j] ELSE new[j - m]
    <3>1. n = d(stop) /\ d(stop) \in Nat
      BY <1>2, <1>6, <1>10
    <3> HIDE DEF d
    <3> QED BY <1>10, <1>11, <3>1
  <2>2. /\ Distinct(notified) /\ Notified \subseteq Delivered
        /\ \A x \in WindowSdus : x \notin Notified
    BY DEF AmInv, SdusOK
  <2> HIDE DEF m, n
  <2>3. \A j \in 1..(m + n) : \/ j \in 1..m /\ notified'[j] = notified[j]
                              \/ j - m \in 1..n /\ notified'[j] = new[j - m]
    BY <2>1
  <2>4. \A j \in 1..m : j \in 1..(m + n) /\ notified'[j] = notified[j]
    BY <2>1
  <2>5. \A j \in 1..m, k \in 1..n : notified[j] # new[k]
    BY <1>10, <2>1, <2>2 DEF Notified, Elems
  <2>6. \A j, k \in 1..(m + n) : notified'[j] = notified'[k] => j = k
    <3> SUFFICES ASSUME NEW j \in 1..(m + n), NEW k \in 1..(m + n), notified'[j] = notified'[k]
                 PROVE  j = k
      OBVIOUS
    <3>1. CASE j \in 1..m /\ k \in 1..m
      BY <2>1, <2>2, <2>4, <3>1 DEF Distinct
    <3>2. CASE j - m \in 1..n /\ k - m \in 1..n /\ notified'[j] = new[j - m] /\ notified'[k] = new[k - m]
      <4>1. j - m = k - m
        BY <1>10, <2>1, <3>2
      <4> QED BY <2>1, <4>1
    <3> QED BY <2>3, <2>5, <3>1, <3>2
  <2>7. Notified \subseteq Notified'
    BY <2>1, <2>4 DEF Notified, Elems
  <2>8. \A x \in Notified' : x \in Notified \/ \E k \in 1..n : new[k] = x
    BY <2>1, <2>3 DEF Notified, Elems
  <2>9. Notified' \subseteq Delivered
    BY <1>10, <2>1, <2>2, <2>8
  <2> QED BY <2>1, <2>6, <2>7, <2>8, <2>9 DEF Distinct
<1>13. status_ch' \in Seq(Report) /\ ReceiverOK'
  BY <1>3, Stops, RemovedPairs, ReceiverStays DEF AmInv
<1>14. WholeTypes'
  BY <1>2, <1>3, <1>12, <1>13 DEF AmInv, WholeTypes
<1>15. WindowSdus' \subseteq WindowSdus
  BY <1>5 DEF WindowSdus
<1>16. Queued' = Queued /\ Live' = Live /\ Delivered' = Delivered /\ InData' = InData
  BY <1>3 DEF Queued, Live, Delivered, InData
<1>17. SdusOK'
  <2>1. SdusOK
    BY DEF AmInv
  <2>2. \A a, b \in Window' : tx_window'[a].sdu = tx_window'[b].sdu => a = b
    BY <1>5, <2>1 DEF SdusOK
  <2>3. WindowSdus' \subseteq Live \ (Queued \cup Notified')
    <3> SUFFICES ASSUME NEW a \in Window' PROVE tx_window[a].sdu \in Live \ (Queued \cup Notified')
      BY <1>5 DEF WindowSdus
    <3>1. a \in Window /\ d(stop) <= d(a) /\ a \in SNs
      BY <1>5 DEF Window, Outstanding
    <3>2. tx_window[a].sdu \in WindowSdus
      BY <3>1 DEF WindowSdus
    <3>3. tx_window[a].sdu \in Live \ (Queued \cup Notified)
      BY <2>1, <3>2 DEF SdusOK
    <3>4. ASSUME NEW k \in 1..d(stop), new[k] = tx_window[a].sdu PROVE FALSE
      <4>1. new[k] = tx_window[acks[k]].sdu /\ acks[k] \in Window /\ d(acks[k]) = k - 1
        BY <1>8 DEF new
      <4>2. acks[k] = a
        BY <2>1, <3>1, <3>4, <4>1 DEF SdusOK
      <4>3. d(a) \in Nat /\ d(stop) \in Nat
        BY <1>2, <1>6, <3>1
      <4>4. d(a) = k - 1
        BY <4>1, <4>2
      <4> HIDE DEF d
      <4> QED BY <3>1, <4>3, <4>4
    <3> QED BY <1>12, <3>3, <3>4
  <2>4. \A i, j \in DOMAIN tx_sdu_queue' :
          tx_sdu_queue'[i] = tx_sdu_queue'[j] /\ tx_sdu_queue'[i] # None => i = j
    BY <1>3, <2>1 DEF SdusOK
  <2>5. written \subseteq discarded \cup Queued \cup WindowSdus' \cup Delivered
    <3>1. \A x \in WindowSdus : x \in WindowSdus' \/ x \in Delivered
      <4> SUFFICES ASSUME NEW a \in Window
                   PROVE  tx_window[a].sdu \in WindowSdus' \/ tx_window[a].sdu \in Delivered
        BY DEF WindowSdus
      <4>1. a \in SNs /\ d(a) \in Nat /\ d(stop) \in Nat
        BY <1>2, <1>6 DEF Window, Outstanding
      <4>2. CASE d(a) < d(stop)
        BY <1>9, <4>2
      <4>3. CASE d(stop) <= d(a)
        BY <1>5, <4>3 DEF WindowSdus
      <4> HIDE DEF d
      <4>4. d(a) < d(stop) \/ d(stop) <= d(a)
        BY <4>1
      <4> QED BY <4>2, <4>3, <4>4
    <3> QED BY <1>2, <2>1, <3>1 DEF SdusOK
  <2>6. /\ Queued \subseteq Live \ Delivered /\ Delivered \subseteq Live /\ Distinct(delivered)
        /\ discarded \subseteq written
    BY <2>1 DEF SdusOK
  <2>7. Distinct(delivered)' /\ Distinct(notified)'
    BY <1>3, <1>12, <2>6 DEF Distinct
  <2>8. written' = written /\ discarded' = discarded
    BY <1>3
  <2>9. Delivered' = Delivered
    BY <1>16
  <2> QED BY <1>12, <1>16, <2>2, <2>3, <2>4, <2>5, <2>6, <2>7, <2>8 DEF SdusOK
<1>18. DataOK'
  <2>1. \A q : place(q.sn)' = place(q.sn) /\ (Done(q.sn)' <=> Done(q.sn))
    BY <1>4 DEF place, rx_mod_base_nr, Done, received
  <2>2. rx_mod_base_nr(rx_next_highest)' = rx_mod_base_nr(rx_next_highest)
    BY <1>4 DEF rx_mod_base_nr
  <2>3. \A i, j \in DOMAIN data_ch' :
          i < j => (place(data_ch[i].sn) < place(data_ch[j].sn) + AM_Window_Size)'
    BY <1>3, <1>4 DEF AmInv, DataOK, place, rx_mod_base_nr
  <2> QED BY <1>16, <2>1, <2>2, <2>3 DEF AmInv, DataOK
<1>19. LinkOK'
  <2>1. LinkOK
    BY DEF AmInv
  <2>2. d(rx_next)' = d(rx_next) - d(stop) /\ d(tx_next)' = d(tx_next) - d(stop)
    <3>1. (d(rx_next))' = (mod_base(rx_next, tx_next_ack))' /\ (d(tx_next))' = (mod_base(tx_next, tx_next_ack))'
      BY DEF tx_mod_base_nr
    <3>2. \A sn \in SNs : d(stop) <= d(sn) => mod_base(sn, stop) = d(sn) - d(stop)
      BY <1>2, <1>5 DEF tx_mod_base_nr
    <3> QED BY <1>2, <1>3, <1>4, <1>6, <1>7, <3>1, <3>2
  <2>3. /\ rx_mod_base_nr(rx_next_highest)' = rx_mod_base_nr(rx_next_highest)
        /\ rx_mod_base_nr(rx_next_highest) \in Nat
    BY <1>4, ReceiverNumbers DEF AmInv, rx_mod_base_nr
  <2>4. d(stop) \in Nat /\ d(rx_next) \in Nat /\ d(tx_next) \in Nat /\ AM_Window_Size \in Nat
    BY <1>2, <1>6, TypesAssumption
  <2>5. (tx_mod_base_nr(rx_next) + rx_mod_base_nr(rx_next_highest) <= tx_mod_base_nr(tx_next))'
    <3>1. d(rx_next) + rx_mod_base_nr(rx_next_highest) <= d(tx_next)
      BY <1>2, <2>1 DEF LinkOK
    <3> HIDE DEF d
    <3>2. d(rx_next)' + rx_mod_base_nr(rx_next_highest)' <= d(tx_next)'
      BY <2>2, <2>3, <2>4, <3>1
    <3> QED BY <3>2 DEF d
  <2>6. \A q \in InData' :
          (place(q.sn) < AM_Window_Size + tx_mod_base_nr(tx_next) - tx_mod_base_nr(rx_next))'
    <3> SUFFICES ASSUME NEW q \in InData
                 PROVE  (place(q.sn) < AM_Window_Size + tx_mod_base_nr(tx_next) - tx_mod_base_nr(rx_next))'
      BY <1>16
    <3>1. place(q.sn) < AM_Window_Size + d(tx_next) - d(rx_next)
      BY <1>2, <2>1 DEF LinkOK
    <3>2. place(q.sn)' = place(q.sn)
      BY <1>4 DEF place, rx_mod_base_nr
    <3> HIDE DEF d
    <3>3. place(q.sn)' < AM_Window_Size + d(tx_next)' - d(rx_next)'
      BY <2>2, <2>4, <3>1, <3>2
    <3> QED BY <3>3 DEF d
  <2>7. \A q \in InData', sn \in Window' : q.sdu = tx_window'[sn].sdu <=> q.sn = sn
    BY <1>2, <1>5, <1>16, <2>1 DEF LinkOK
  <2>8. \A sn \in Window' : Done(sn)' <=> tx_window'[sn].sdu \in Delivered'
    <3>1. \A sn : Done(sn)' <=> Done(sn)
      BY <1>4 DEF Done, place, rx_mod_base_nr, received
    <3> QED BY <1>2, <1>5, <1>16, <2>1, <3>1 DEF LinkOK
  <2> QED BY <2>5, <2>6, <2>7, <2>8 DEF LinkOK
<1>20. ReportsOK'
  <2> DEFINE at(k) == tx_mod_base_nr(stop_of(status_ch[k]))
  <2>1. /\ \A j \in DOMAIN status_ch' : \E k \in DOMAIN status_ch : k # 1 /\ status_ch'[j] = status_ch[k]
        /\ \A j, k \in DOMAIN status_ch' : j < k =>
             \E m, n \in DOMAIN status_ch : m < n /\ m # 1 /\ n # 1 /\ status_ch'[j] = status_ch[m] /\ status_ch'[k] = status_ch[n]
    BY Stops, RemovedPairs
  <2>2. /\ \A k \in DOMAIN status_ch : at(k) \in Nat /\ at(k) <= d(rx_next) /\ d(stop) <= at(k)
        /\ \A j, k \in DOMAIN status_ch : j <= k => at(j) <= at(k)
    <3>1. \A k \in DOMAIN status_ch : 1 <= k
      BY Stops
    <3>2. /\ \A k \in DOMAIN status_ch : at(k) \in Nat /\ at(k) <= d(rx_next)
          /\ \A j, k \in DOMAIN status_ch : j <= k => at(j) <= at(k)
      BY <1>2, Stops DEF AmInv, ReportsOK
    <3>3. at(1) = d(stop)
      BY <1>1
    <3> HIDE DEF at, d
    <3>4. \A k \in DOMAIN status_ch : d(stop) <= at(k)
      BY <3>1, <3>2, <3>3
    <3> QED BY <3>2, <3>4
  <2>3. \A j : \A k \in DOMAIN status_ch : status_ch'[j] = status_ch[k] => at(j)' = at(k) - d(stop)
    <3> SUFFICES ASSUME NEW j, NEW k \in DOMAIN status_ch, status_ch'[j] = status_ch[k]
                 PROVE  at(j)' = at(k) - d(stop)
      OBVIOUS
    <3> DEFINE x == stop_of(status_ch[k])
    <3>1. x \in SNs /\ stop_of(status_ch'[j]) = x
      BY Stops
    <3>2. at(j)' = (mod_base(stop_of(status_ch[j]), tx_next_ack))'
      BY DEF tx_mod_base_nr
    <3>3. (mod_base(stop_of(status_ch[j]), tx_next_ack))' = mod_base(x, stop)
      BY <1>2, <3>1 DEF stop_of
    <3>4. d(stop) <= d(x)
      BY <2>2
    <3>5. \A sn \in SNs : d(stop) <= d(sn) => mod_base(sn, stop) = d(sn) - d(stop)
      BY <1>2, <1>5 DEF tx_mod_base_nr
    <3> HIDE DEF x
    <3>6. mod_base(x, stop) = d(x) - d(stop)
      BY <3>1, <3>4, <3>5
    <3>7. at(k) = d(x)
      BY DEF x
    <3> QED BY <3>2, <3>3, <3>6, <3>7
  <2>4. d(rx_next)' = d(rx_next) - d(stop) /\ d(stop) \in Nat /\ d(rx_next) \in Nat
    <3>1. (d(rx_next))' = mod_base(rx_next, stop)
      BY <1>2, <1>4 DEF tx_mod_base_nr
    <3>2. \A sn \in SNs : d(stop) <= d(sn) => mod_base(sn, stop) = d(sn) - d(stop)
      BY <1>2, <1>5 DEF tx_mod_base_nr
    <3> QED BY <1>2, <1>6, <3>1, <3>2
  <2>5. DOMAIN status_ch \subseteq Nat /\ DOMAIN status_ch' \subseteq Nat
    BY <1>13, Stops
  <2> HIDE DEF at, d
  <2>6. \A k \in DOMAIN status_ch' : at(k)' <= d(rx_next)' /\ at(k)' \in Nat
    BY <2>1, <2>2, <2>3, <2>4
  <2>7. \A j, k \in DOMAIN status_ch' : j <= k => at(j)' <= at(k)'
    <3> SUFFICES ASSUME NEW j \in DOMAIN status_ch', NEW k \in DOMAIN status_ch', j <= k
                 PROVE  at(j)' <= at(k)'
      OBVIOUS
    <3>1. CASE j = k
      BY <2>6, <3>1
    <3>2. CASE j # k
      <4>1. j < k
        BY <2>5, <3>2
      <4>2. PICK m \in DOMAIN status_ch, n \in DOMAIN status_ch :
              m < n /\ status_ch'[j] = status_ch[m] /\ status_ch'[k] = status_ch[n]
        BY <2>1, <4>1
      <4>3. m <= n
        BY <2>5, <4>2
      <4>4. at(m) <= at(n) /\ at(j)' = at(m) - d(stop) /\ at(k)' = at(n) - d(stop)
        BY <2>2, <2>3, <4>2, <4>3
      <4>5. at(m) \in Nat /\ at(n) \in Nat
        BY <2>2
      <4> QED BY <2>4, <4>4, <4>5
    <3> QED BY <3>1, <3>2
  <2> QED BY <2>6, <2>7 DEF ReportsOK, at, d
<1> QED BY <1>5, <1>12, <1>13, <1>14, <1>17, <1>18, <1>19, <1>20 DEF AmInv

(* A report reaches the sender, which takes or ignores it.                 *)
LEMMA ReceiveStatusPreserves ==
  ASSUME ChannelsInOrder, AmInv, NEW i \in Channel, ReceiveStatus(i)
  PROVE  AmInv' /\ UNCHANGED <<written, discarded, delivered>> /\ Notified \subseteq Notified'
<1>1. /\ i = 1 /\ 1 \in DOMAIN status_ch
      /\ status_ch' = RemoveAt(status_ch, 1) /\ UNCHANGED <<rxVars, delivered>>
      /\ handle_control_pdu(status_ch[1]) \/ UNCHANGED txVars
  BY DEF ReceiveStatus, Next_of, ChannelsInOrder
<1>2. CASE handle_control_pdu(status_ch[1])
  BY <1>1, <1>2, ReceiveStatusHandled DEF handle_control_pdu
<1>3. CASE UNCHANGED txVars
  BY <1>1, <1>3, StatusGone DEF txVars, upperVars, Notified
<1> QED BY <1>1, <1>2, <1>3

-----------------------------------------------------------------------------
(* The sender between two reports                                          *)

(* What does not touch the two ends and the channels, and keeps its types. *)
LEMMA RestPreserves ==
  ASSUME AmInv, UNCHANGED <<endVars, data_ch, status_ch, failed, sdu_under_segmentation_sn,
                            poll_sn, pdu_without_poll, byte_without_poll>>,
         retx_queue' \in Seq(WholeRetx),
         poll_retransmit_timer' \in BOOLEAN, poll_expired' \in BOOLEAN,
         ReceiverOK'
  PROVE  AmInv'
<1>1. WholeTypes'
  BY DEF AmInv, WholeTypes, endVars
<1>2. ReportsOK'
  BY ReportsStay DEF AmInv
<1> QED BY <1>1, <1>2, EndsStay DEF AmInv

(* t-PollRetransmit only asks for the poll of its callback.                *)
LEMMA PollTimerPreserves ==
  ASSUME AmInv, PollTimer
  PROVE  AmInv' /\ UNCHANGED <<written, discarded, delivered, notified>>
<1>1. /\ UNCHANGED <<endVars, data_ch, status_ch, failed, sdu_under_segmentation_sn,
                     poll_sn, pdu_without_poll, byte_without_poll, retx_queue>>
      /\ UNCHANGED rxVars
      /\ poll_retransmit_timer' = FALSE /\ poll_expired' = TRUE
  BY DEF PollTimer, poll_timer_expires, endVars, upperVars, rxVars, rxState
<1>2. ReceiverOK' /\ retx_queue' \in Seq(WholeRetx)
  BY <1>1, ReceiverStays DEF AmInv, WholeTypes
<1> QED BY <1>1, <1>2, RestPreserves DEF endVars

(* What expires t-PollRetransmit may be queued again, still whole SDUs.    *)
LEMMA PollCallbackPreserves ==
  ASSUME AmInv, PollCallback
  PROVE  AmInv' /\ UNCHANGED <<written, discarded, delivered, notified>>
<1>1. /\ UNCHANGED <<endVars, data_ch, status_ch, failed, sdu_under_segmentation_sn,
                     poll_sn, pdu_without_poll, byte_without_poll, poll_retransmit_timer>>
      /\ UNCHANGED rxVars
      /\ poll_expired' = FALSE
  BY DEF PollCallback, poll_timer_expired, endVars, upperVars, rxVars, rxState, pollVars
<1>2. /\ tx_window[tx_next_ack].segment_list = <<>> /\ tx_next_ack \in SNs
      /\ retx_queue \in Seq(WholeRetx) /\ poll_retransmit_timer \in BOOLEAN
  BY DEF AmInv, WholeTypes, WholeTxPdu
<1>3. retx_queue' = retx_queue \/ retx_queue' = Append(retx_queue, retx_sdu(tx_next_ack))
  BY <1>2 DEF PollCallback, poll_timer_expired
<1>4. retx_queue' \in Seq(WholeRetx)
  BY <1>2, <1>3 DEF WholeRetx
<1>5. ReceiverOK' /\ poll_retransmit_timer' \in BOOLEAN
  BY <1>1, <1>2, ReceiverStays DEF AmInv
<1> QED BY <1>1, <1>4, <1>5, RestPreserves DEF endVars

(* t-Reassembly moves RX_Highest_Status: neither the window of the receiver*)
(* nor what it has delivered changes.                                      *)
LEMMA ReassemblyKeeps ==
  ASSUME AmInv, Reassembly
  PROVE  AmInv' /\ UNCHANGED <<written, discarded, delivered, notified>>
<1>1. /\ UNCHANGED <<endVars, data_ch, status_ch, failed, sdu_under_segmentation_sn,
                     poll_sn, pdu_without_poll, byte_without_poll, poll_retransmit_timer,
                     poll_expired, retx_queue>>
      /\ rx_window' = rx_window /\ sdu_removed' = sdu_removed
  BY DEF Reassembly, reassembly_expired, endVars, txVars, upperVars, pollVars
<1>2. RxInv'
  BY ReassemblyPreserves DEF AmInv, ReceiverOK, Reassembly
<1>3. rx_abort' = "none"
  <2>1. rx_abort' \in {"none", "highest_status_outside"}
    BY DEF AmInv, ReceiverOK, Reassembly, reassembly_expired
  <2> QED BY <1>2, <2>1 DEF RxInv, StateAssertionsHold
<1>4. ReceiverOK'
  BY <1>1, <1>2, <1>3 DEF AmInv, ReceiverOK, received
<1>5. retx_queue' \in Seq(WholeRetx) /\ poll_retransmit_timer' \in BOOLEAN /\ poll_expired' \in BOOLEAN
  BY <1>1 DEF AmInv, WholeTypes
<1> QED BY <1>1, <1>4, <1>5, RestPreserves DEF endVars

(* The end of t-StatusProhibit is no business of the sender or the PDCPs.  *)
LEMMA StatusAllowedPreserves ==
  ASSUME AmInv, StatusAllowed
  PROVE  AmInv' /\ UNCHANGED <<written, discarded, delivered, notified>>
<1>1. /\ UNCHANGED <<endVars, data_ch, status_ch, failed, sdu_under_segmentation_sn,
                     poll_sn, pdu_without_poll, byte_without_poll, poll_retransmit_timer,
                     poll_expired, retx_queue>>
      /\ UNCHANGED <<rxState, rx_window, reassembly_timer, sdu_removed, rx_abort>>
      /\ do_status' = do_status /\ status_prohibit_timer' = FALSE
  BY DEF StatusAllowed, status_prohibit_expired, endVars, txVars, upperVars, pollVars, rxState
<1>2. do_status' \in BOOLEAN
  BY <1>1 DEF AmInv, ReceiverOK, RxInv, RxTypeOK
<1>3. ReceiverOK'
  BY <1>1, <1>2, ReceiverUnchanged DEF AmInv
<1>4. retx_queue' \in Seq(WholeRetx) /\ poll_retransmit_timer' \in BOOLEAN /\ poll_expired' \in BOOLEAN
  BY <1>1 DEF AmInv, WholeTypes
<1> QED BY <1>1, <1>3, <1>4, RestPreserves DEF endVars

(* What is written, discarded or read from the queue, the windows, the     *)
(* numbers and the channels being as they were.                            *)
LEMMA QueuePreserves ==
  ASSUME AmInv,
         UNCHANGED <<tx_next_ack, tx_next, pollVars, tx_window, retx_queue,
                     sdu_under_segmentation_sn, poll_expired, tx_enabled, data_ch,
                     notified, failed, rxVars, status_ch, delivered>>,
         tx_sdu_queue' \in Seq(Sdus \cup {None}),
         \A i, j \in DOMAIN tx_sdu_queue' :
           tx_sdu_queue'[i] = tx_sdu_queue'[j] /\ tx_sdu_queue'[i] # None => i = j,
         written' \subseteq Sdus, discarded' \subseteq written',
         WindowSdus \cap Queued' = {}, Queued' \subseteq Live' \ Delivered,
         \A x \in Live \ Queued : x \in Live' \ Queued',
         tx_enabled => written' \subseteq discarded' \cup Queued' \cup WindowSdus \cup Delivered
  PROVE  AmInv'
<1>1. UNCHANGED rxVars /\ ReceiverOK'
  BY ReceiverStays DEF AmInv
<1>2. WholeTypes'
  BY DEF AmInv, WholeTypes, pollVars
<1>3. /\ Window' = Window /\ WindowSdus' = WindowSdus /\ Delivered' = Delivered
      /\ Notified' = Notified /\ InData' = InData
  BY DEF Window, WindowSdus, Delivered, Notified, InData
<1>4. WindowOK'
  BY <1>3 DEF AmInv, WindowOK, tx_mod_base_nr
<1>5. SdusOK'
  <2>1. SdusOK
    BY DEF AmInv
  <2>2. \A a, b \in Window' : tx_window'[a].sdu = tx_window'[b].sdu => a = b
    BY <1>3, <2>1 DEF SdusOK
  <2>3. /\ WindowSdus' \subseteq Live' \ (Queued' \cup Notified')
        /\ Delivered' \subseteq Live' /\ Notified' \subseteq Delivered'
    BY <1>3, <2>1 DEF SdusOK
  <2>4. Distinct(delivered)' /\ Distinct(notified)'
    BY <2>1 DEF SdusOK, Distinct
  <2>5. tx_enabled' => written' \subseteq discarded' \cup Queued' \cup WindowSdus' \cup Delivered'
    BY <1>3
  <2>6. Queued' \subseteq Live' \ Delivered'
    BY <1>3
  <2> HIDE DEF WindowSdus, Live, Queued, Notified, Delivered, Window
  <2> QED BY <2>2, <2>3, <2>4, <2>5, <2>6 DEF SdusOK
<1>6. /\ \A x : place(x)' = place(x) /\ (Done(x)' <=> Done(x))
      /\ rx_mod_base_nr(rx_next_highest)' = rx_mod_base_nr(rx_next_highest)
      /\ \A x : tx_mod_base_nr(x)' = tx_mod_base_nr(x)
      /\ tx_mod_base_nr(rx_next)' = tx_mod_base_nr(rx_next)
      /\ tx_mod_base_nr(tx_next)' = tx_mod_base_nr(tx_next)
  BY DEF place, Done, rx_mod_base_nr, tx_mod_base_nr, received, rxVars, rxState
<1>7. DataOK'
  <2>1. DataOK
    BY DEF AmInv
  <2>2. \A i, j \in DOMAIN data_ch' :
          i < j => (place(data_ch[i].sn) < place(data_ch[j].sn) + AM_Window_Size)'
    BY <2>1 DEF DataOK, place, rx_mod_base_nr, rxVars, rxState
  <2>3. \A q \in InData' : q.sdu \in Live' \ Queued'
    BY <1>3, <2>1 DEF DataOK
  <2> QED BY <1>3, <1>6, <2>1, <2>2, <2>3 DEF DataOK
<1>8. LinkOK'
  <2> SUFFICES ASSUME tx_enabled PROVE LinkOK'
    BY DEF LinkOK
  <2>1. LinkOK
    BY DEF AmInv
  <2>2. \A q \in InData' :
          (place(q.sn) < AM_Window_Size + tx_mod_base_nr(tx_next) - tx_mod_base_nr(rx_next))'
    BY <1>3, <2>1 DEF LinkOK, place, rx_mod_base_nr, tx_mod_base_nr, rxVars, rxState
  <2>3. \A q \in InData', sn \in Window' : q.sdu = tx_window'[sn].sdu <=> q.sn = sn
    BY <1>3, <2>1 DEF LinkOK
  <2>4. \A sn \in Window' : Done(sn)' <=> tx_window'[sn].sdu \in Delivered'
    BY <1>3, <1>6, <2>1 DEF LinkOK
  <2>5. (tx_mod_base_nr(rx_next) + rx_mod_base_nr(rx_next_highest) <= tx_mod_base_nr(tx_next))'
    BY <1>6, <2>1 DEF LinkOK
  <2> QED BY <2>2, <2>3, <2>4, <2>5 DEF LinkOK
<1>9. ReportsOK'
  BY DEF AmInv, ReportsOK, tx_mod_base_nr, rxVars, rxState
<1> QED BY <1>1, <1>2, <1>4, <1>5, <1>7, <1>8, <1>9 DEF AmInv

(* write_sdu() puts a new SDU into the queue.                              *)
LEMMA WritePreserves ==
  ASSUME AmInv, NEW sdu \in Sdus, Write(sdu)
  PROVE  /\ AmInv' /\ sdu \notin written /\ written' = written \cup {sdu}
         /\ UNCHANGED <<discarded, delivered, notified>>
<1>1. /\ tx_enabled /\ sdu \notin written
      /\ tx_sdu_queue' = Append(tx_sdu_queue, sdu) /\ written' = written \cup {sdu}
      /\ UNCHANGED <<tx_next_ack, tx_next, pollVars, tx_window, retx_queue,
                     sdu_under_segmentation_sn, poll_expired, tx_enabled, data_ch,
                     discarded, notified, failed, rxVars, status_ch, delivered>>
  BY DEF Write, write_sdu
<1>2. /\ tx_sdu_queue \in Seq(Sdus \cup {None}) /\ written \subseteq Sdus /\ discarded \subseteq Sdus
      /\ None \notin Sdus
  BY TypesAssumption DEF AmInv, WholeTypes, None
<1>3. SdusOK
  BY DEF AmInv
<1> DEFINE n == Len(tx_sdu_queue)
<1>4. /\ n \in Nat /\ DOMAIN tx_sdu_queue = 1..n /\ DOMAIN tx_sdu_queue' = 1..(n + 1)
      /\ \A j \in 1..(n + 1) : tx_sdu_queue'[j] = IF j = n + 1 THEN sdu ELSE tx_sdu_queue[j]
      /\ tx_sdu_queue' \in Seq(Sdus \cup {None})
  BY <1>1, <1>2
<1> HIDE DEF n
<1>5. Queued' = Queued \cup {sdu}
  <2>1. \A j \in 1..n : j \in 1..(n + 1) /\ j # n + 1 /\ tx_sdu_queue'[j] = tx_sdu_queue[j]
    BY <1>4
  <2>2. n + 1 \in 1..(n + 1) /\ tx_sdu_queue'[n + 1] = sdu
    BY <1>4
  <2>3. \A j \in 1..(n + 1) : j = n + 1 \/ j \in 1..n
    BY <1>4
  <2> QED BY <1>2, <1>4, <2>1, <2>2, <2>3 DEF Queued, Elems
<1>6. sdu \notin Queued
  BY <1>1, <1>3 DEF SdusOK, Live
<1>7. \A i, j \in DOMAIN tx_sdu_queue' :
        tx_sdu_queue'[i] = tx_sdu_queue'[j] /\ tx_sdu_queue'[i] # None => i = j
  <2> SUFFICES ASSUME NEW i \in 1..(n + 1), NEW j \in 1..(n + 1),
                      tx_sdu_queue'[i] = tx_sdu_queue'[j], tx_sdu_queue'[i] # None
               PROVE  i = j
    BY <1>4
  <2>1. \A k \in 1..(n + 1) : k # n + 1 => k \in 1..n
    BY <1>4
  <2>2. \A k \in 1..n : tx_sdu_queue[k] # sdu
    BY <1>2, <1>4, <1>6 DEF Queued, Elems
  <2>3. CASE i # n + 1 /\ j # n + 1
    BY <1>3, <1>4, <2>1, <2>3 DEF SdusOK
  <2> QED BY <1>4, <2>1, <2>2, <2>3
<1>8. /\ WindowSdus \subseteq Live \ (Queued \cup Notified) /\ Queued \subseteq Live \ Delivered
      /\ Delivered \subseteq Live /\ discarded \subseteq written
      /\ tx_enabled => written \subseteq discarded \cup Queued \cup WindowSdus \cup Delivered
  BY <1>3 DEF SdusOK
<1>9. Live' = Live \cup {sdu} /\ sdu \notin Live
  BY <1>1, <1>8 DEF Live
<1>10. WindowSdus \cap Queued' = {} /\ Queued' \subseteq Live' \ Delivered
  BY <1>5, <1>8, <1>9
<1>11. \A x \in Live \ Queued : x \in Live' \ Queued'
  BY <1>5, <1>9
<1>12. /\ written' \subseteq Sdus /\ discarded' \subseteq written'
       /\ tx_enabled => written' \subseteq discarded' \cup Queued' \cup WindowSdus \cup Delivered
  BY <1>1, <1>2, <1>5, <1>8
<1>13. AmInv'
  BY <1>1, <1>4, <1>7, <1>10, <1>11, <1>12, QueuePreserves
<1> QED BY <1>1, <1>13

(* discard_sdu() takes back an SDU that has not been sent.                 *)
LEMMA DiscardPreserves ==
  ASSUME AmInv, NEW sdu \in Sdus, Discard(sdu)
  PROVE  /\ AmInv' /\ sdu \in Live \ Delivered /\ discarded' = discarded \cup {sdu}
         /\ UNCHANGED <<written, delivered, notified>>
<1>1. PICK at \in DOMAIN tx_sdu_queue :
        tx_sdu_queue[at] = sdu /\ tx_sdu_queue' = [tx_sdu_queue EXCEPT ![at] = None]
  BY DEF Discard, discard_sdu
<1>2. /\ discarded' = discarded \cup {sdu}
      /\ UNCHANGED <<tx_next_ack, tx_next, pollVars, tx_window, retx_queue,
                     sdu_under_segmentation_sn, poll_expired, tx_enabled, data_ch,
                     written, notified, failed, rxVars, status_ch, delivered>>
  BY DEF Discard, discard_sdu
<1>3. /\ tx_sdu_queue \in Seq(Sdus \cup {None}) /\ written \subseteq Sdus
      /\ None \notin Sdus
  BY TypesAssumption DEF AmInv, WholeTypes, None
<1>4. /\ \A a, b \in DOMAIN tx_sdu_queue :
           tx_sdu_queue[a] = tx_sdu_queue[b] /\ tx_sdu_queue[a] # None => a = b
      /\ WindowSdus \subseteq Live \ (Queued \cup Notified) /\ Queued \subseteq Live \ Delivered
      /\ Delivered \subseteq Live /\ discarded \subseteq written
      /\ tx_enabled => written \subseteq discarded \cup Queued \cup WindowSdus \cup Delivered
  BY DEF AmInv, SdusOK
<1>5. /\ DOMAIN tx_sdu_queue' = DOMAIN tx_sdu_queue
      /\ \A j \in DOMAIN tx_sdu_queue : tx_sdu_queue'[j] = IF j = at THEN None ELSE tx_sdu_queue[j]
      /\ tx_sdu_queue' \in Seq(Sdus \cup {None})
  BY <1>1, <1>3
<1>6. sdu \in Queued
  BY <1>1, <1>3 DEF Queued, Elems
<1>7. Queued' = Queued \ {sdu}
  BY <1>1, <1>3, <1>4, <1>5 DEF Queued, Elems
<1>8. Live' = Live \ {sdu}
  BY <1>2 DEF Live
<1>9. \A a, b \in DOMAIN tx_sdu_queue' :
        tx_sdu_queue'[a] = tx_sdu_queue'[b] /\ tx_sdu_queue'[a] # None => a = b
  BY <1>4, <1>5
<1>10. /\ WindowSdus \cap Queued' = {} /\ Queued' \subseteq Live' \ Delivered
       /\ \A x \in Live \ Queued : x \in Live' \ Queued'
       /\ sdu \in Live \ Delivered
  BY <1>4, <1>6, <1>7, <1>8
<1>11. written' \subseteq Sdus /\ discarded' \subseteq written'
  BY <1>2, <1>3, <1>4, <1>10 DEF Live
<1>12. tx_enabled => written' \subseteq discarded' \cup Queued' \cup WindowSdus \cup Delivered
  BY <1>2, <1>4, <1>7
<1>13. AmInv'
  BY <1>2, <1>5, <1>9, <1>10, <1>11, <1>12, QueuePreserves
<1> QED BY <1>2, <1>10, <1>13

(* The sender stops: nothing is left of it but what is in flight.          *)
LEMMA ReestablishKeeps ==
  ASSUME AmInv, Reestablish
  PROVE  AmInv' /\ UNCHANGED <<written, discarded, delivered, notified>>
<1>1. /\ tx_next_ack' = 0 /\ tx_next' = 0 /\ poll_sn' = 0
      /\ pdu_without_poll' = 0 /\ byte_without_poll' = 0
      /\ tx_window' = [sn \in SNs |-> NoTxPdu]
      /\ retx_queue' = <<>> /\ tx_sdu_queue' = <<>>
      /\ sdu_under_segmentation_sn' = None
      /\ poll_retransmit_timer' = FALSE /\ tx_enabled' = FALSE
      /\ UNCHANGED <<poll_expired, data_ch, written, discarded, notified, failed,
                     status_ch, delivered>>
      /\ UNCHANGED rxVars
  BY DEF Reestablish, tx_reestablish, upperVars
<1>2. 0 \in SNs /\ mod_base(0, 0) = 0 /\ AM_Window_Size \in Nat
  <2>1. 0 \in SNs
    BY TypesAssumption DEF SNs
  <2>2. mod_base(0, 0) = IF 0 >= 0 THEN 0 - 0 ELSE 0 - 0 + mod_nr
    BY <2>1, ModBase
  <2> QED BY <2>1, <2>2, TypesAssumption
<1>3. ReceiverOK'
  BY <1>1, ReceiverStays DEF AmInv
<1>4. NoTxPdu \in WholeTxPdu /\ NoTxPdu.sdu = None
  BY TxAssumption DEF NoTxPdu, WholeTxPdu, NOT_STARTED
<1>5. WholeTypes'
  <2>1. tx_window' \in [SNs -> WholeTxPdu]
    BY <1>1, <1>4
  <2>2. 0 \in 0..PollPdu /\ 0 \in 0..PollByte
    BY TxAssumption
  <2>3. retx_queue' \in Seq(WholeRetx) /\ tx_sdu_queue' \in Seq(Sdus \cup {None})
    BY <1>1
  <2> QED BY <1>1, <1>2, <2>1, <2>2, <2>3 DEF AmInv, WholeTypes
<1>6. Window' = {} /\ WindowSdus' = {} /\ Queued' = {}
  BY <1>1, <1>4 DEF Window, Outstanding, WindowSdus, Queued, Elems
<1>7. WindowOK'
  <2>1. tx_mod_base_nr(tx_next)' = 0
    BY <1>1, <1>2 DEF tx_mod_base_nr
  <2>2. \A sn \in SNs : tx_mod_base_nr(sn)' \in Nat
    BY <1>1, <1>2, Distance DEF tx_mod_base_nr
  <2>3. {sn \in SNs : tx_mod_base_nr(sn)' < tx_mod_base_nr(tx_next)'} = {}
    BY <2>1, <2>2
  <2> QED BY <1>2, <1>6, <2>1, <2>3 DEF WindowOK
<1>8. Live' = Live /\ Delivered' = Delivered /\ Notified' = Notified /\ InData' = InData
  BY <1>1 DEF Live, Delivered, Notified, InData
<1>9. SdusOK'
  <2>1. SdusOK
    BY DEF AmInv
  <2>2. Distinct(delivered)' /\ Distinct(notified)'
    BY <1>1, <2>1 DEF SdusOK, Distinct
  <2>3. Delivered' \subseteq Live' /\ Notified' \subseteq Delivered' /\ discarded' \subseteq written'
    BY <1>1, <1>8, <2>1 DEF SdusOK
  <2>4. DOMAIN tx_sdu_queue' = {}
    BY <1>1
  <2> QED BY <1>1, <1>6, <2>2, <2>3, <2>4 DEF SdusOK
<1>10. DataOK'
  <2>1. DataOK
    BY DEF AmInv
  <2>2. /\ \A x : place(x)' = place(x) /\ (Done(x)' <=> Done(x))
        /\ rx_mod_base_nr(rx_next_highest)' = rx_mod_base_nr(rx_next_highest)
    BY <1>1 DEF place, Done, rx_mod_base_nr, received, rxVars, rxState
  <2>3. \A i, j \in DOMAIN data_ch' :
          i < j => (place(data_ch[i].sn) < place(data_ch[j].sn) + AM_Window_Size)'
    BY <1>1, <2>1 DEF DataOK, place, rx_mod_base_nr, rxVars, rxState
  <2>4. \A q \in InData' : q.sdu \in Live' \ Queued'
    BY <1>6, <1>8, <2>1 DEF DataOK
  <2> QED BY <1>8, <2>1, <2>2, <2>3, <2>4 DEF DataOK
<1>11. LinkOK' /\ ReportsOK'
  BY <1>1 DEF LinkOK, ReportsOK
<1> QED BY <1>1, <1>3, <1>5, <1>7, <1>9, <1>10, <1>11 DEF AmInv

-----------------------------------------------------------------------------
(* The sender sends                                                        *)

(* A PDU of the window is sent behind what is in flight.                   *)
LEMMA Sent ==
  ASSUME AmInv, tx_enabled, tx_enabled', NEW p \in WholePdu,
         data_ch' = Append(data_ch, p),
         UNCHANGED <<tx_next_ack, notified, delivered, written, discarded, rxVars>>,
         tx_next' \in SNs, tx_mod_base_nr(tx_next) <= tx_mod_base_nr(tx_next'),
         WindowOK', SdusOK',
         p.sn \in Window', p.sdu = tx_window'[p.sn].sdu,
         \A q \in InData : q.sdu \notin Queued',
         \A q \in InData, sn \in Window' : q.sdu = tx_window'[sn].sdu <=> q.sn = sn,
         \A sn \in Window' : Done(sn) <=> tx_window'[sn].sdu \in Delivered
  PROVE  DataOK' /\ LinkOK'
<1> DEFINE W == AM_Window_Size
           dr == tx_mod_base_nr(rx_next)
           dn == tx_mod_base_nr(tx_next)
           en == tx_mod_base_nr(tx_next')
           dh == rx_mod_base_nr(rx_next_highest)
<1>1. /\ tx_next_ack \in SNs /\ tx_next \in SNs /\ rx_next \in SNs
      /\ dr \in Nat /\ dn \in Nat /\ en \in Nat /\ dh \in Nat /\ W \in Nat
      /\ \A sn \in SNs : tx_mod_base_nr(sn) \in Nat
  <2>1. tx_next_ack \in SNs /\ tx_next \in SNs /\ rx_next \in SNs /\ dh \in Nat
    BY ReceiverNumbers DEF AmInv, WholeTypes
  <2> QED BY <2>1, Distance, TypesAssumption DEF tx_mod_base_nr
<1>2. /\ \A x : tx_mod_base_nr(x)' = tx_mod_base_nr(x)
      /\ tx_mod_base_nr(tx_next)' = en /\ tx_mod_base_nr(rx_next)' = dr
      /\ rx_next' = rx_next /\ rx_next_highest' = rx_next_highest /\ rx_window' = rx_window
      /\ \A x : place(x)' = place(x) /\ (Done(x)' <=> Done(x))
      /\ dh' = dh
  BY DEF tx_mod_base_nr, place, Done, rx_mod_base_nr, received, rxVars, rxState
<1>3. /\ LinkOK /\ DataOK /\ dr + dh <= dn /\ dn <= en /\ en <= W
      /\ tx_mod_base_nr(p.sn) < en /\ p.sn \in SNs
  <2>1. LinkOK /\ DataOK
    BY DEF AmInv
  <2>2. dr + dh <= dn
    BY <2>1 DEF LinkOK
  <2>3. /\ (tx_mod_base_nr(tx_next))' <= W
        /\ p.sn \in SNs /\ (tx_mod_base_nr(p.sn))' < (tx_mod_base_nr(tx_next))'
    BY DEF WindowOK
  <2>4. (tx_mod_base_nr(p.sn))' = tx_mod_base_nr(p.sn)
    BY DEF tx_mod_base_nr
  <2> QED BY <1>2, <2>1, <2>2, <2>3, <2>4
<1>4. place(p.sn) = W + tx_mod_base_nr(p.sn) - dr /\ tx_mod_base_nr(p.sn) \in Nat
  <2>1. mod_base(rx_next, tx_next_ack) <= AM_Window_Size
    BY <1>1, <1>3 DEF tx_mod_base_nr
  <2>2. mod_base(p.sn, tx_next_ack) < mod_base(rx_next, tx_next_ack) + AM_Window_Size
    BY <1>1, <1>3 DEF tx_mod_base_nr
  <2> QED BY <1>1, <1>3, <2>1, <2>2, PlaceFromSender DEF place, rx_mod_base_nr, tx_mod_base_nr
<1>5. \A q \in InData : place(q.sn) \in Nat /\ place(q.sn) < W + dn - dr /\ dh <= place(q.sn)
  <2> SUFFICES ASSUME NEW q \in InData
               PROVE  place(q.sn) \in Nat /\ place(q.sn) < W + dn - dr /\ dh <= place(q.sn)
    OBVIOUS
  <2>1. q.sn \in SNs
    BY DEF AmInv, WholeTypes, InData, Elems, WholePdu, DataPdu
  <2>2. place(q.sn) \in Nat
    BY <1>1, <2>1, Place, Distance DEF place, rx_mod_base_nr
  <2> QED BY <1>3, <2>2 DEF LinkOK, DataOK
<1> DEFINE n == Len(data_ch)
<1>6. /\ n \in Nat /\ DOMAIN data_ch = 1..n /\ DOMAIN data_ch' = 1..(n + 1)
      /\ \A j \in 1..n : data_ch'[j] = data_ch[j] /\ data_ch[j] \in InData
      /\ data_ch'[n + 1] = p /\ InData' = InData \cup {p}
  <2>1. data_ch \in Seq(WholePdu)
    BY DEF AmInv, WholeTypes
  <2> HIDE DEF WholePdu
  <2>2. /\ n \in Nat /\ DOMAIN data_ch = 1..n /\ DOMAIN data_ch' = 1..(n + 1)
        /\ \A j \in 1..n : data_ch'[j] = data_ch[j]
        /\ data_ch'[n + 1] = p
    BY <2>1
  <2> HIDE DEF n
  <2>3. \A j \in 1..(n + 1) : j = n + 1 \/ j \in 1..n
    BY <2>2
  <2>4. n + 1 \in 1..(n + 1) /\ \A j \in 1..n : j \in 1..(n + 1)
    BY <2>2
  <2> QED BY <2>2, <2>3, <2>4 DEF InData, Elems
<1> HIDE DEF W, dr, dn, en, dh, n
<1>7. Live' = Live /\ Delivered' = Delivered
  BY DEF Live, Delivered
<1>8. p.sdu \in Live' \ Queued'
  <2>1. p.sdu \in WindowSdus'
    BY DEF WindowSdus
  <2> QED BY <2>1 DEF SdusOK
<1>9. \A q \in InData : p.sdu = q.sdu <=> p.sn = q.sn
  OBVIOUS
<1>10. dh <= place(p.sn) /\ place(p.sn) < W + en - dr /\ place(p.sn) \in Nat
  BY <1>1, <1>3, <1>4
<1>11. \A q \in InData : place(q.sn) < place(p.sn) + W /\ place(q.sn) < W + en - dr
  BY <1>1, <1>3, <1>4, <1>5
<1>12. DataOK'
  <2>1. \A q \in InData' : q.sdu \in Live' \ Queued'
    BY <1>3, <1>6, <1>7, <1>8 DEF DataOK
  <2>2. \A q \in InData' : (rx_mod_base_nr(rx_next_highest) <= place(q.sn))'
    <3> SUFFICES ASSUME NEW q \in InData' PROVE dh' <= place(q.sn)'
      BY DEF dh
    <3>1. place(q.sn)' = place(q.sn)
      BY <1>2
    <3> QED BY <1>2, <1>5, <1>6, <1>10, <3>1
  <2>3. \A q \in InData' : ~Done(q.sn)' => q.sdu \notin Delivered'
    <3>1. \A q \in InData : ~Done(q.sn) => q.sdu \notin Delivered
      BY <1>3 DEF DataOK
    <3>2. ~Done(p.sn) => p.sdu \notin Delivered
      OBVIOUS
    <3>3. \A q : Done(q.sn)' <=> Done(q.sn)
      BY <1>2
    <3> QED BY <1>6, <1>7, <3>1, <3>2, <3>3
  <2>4. \A i, j \in DOMAIN data_ch' :
          i < j => (place(data_ch[i].sn) < place(data_ch[j].sn) + AM_Window_Size)'
    <3> SUFFICES ASSUME NEW i \in 1..(n + 1), NEW j \in 1..(n + 1), i < j
                 PROVE  (place(data_ch[i].sn) < place(data_ch[j].sn) + AM_Window_Size)'
      BY <1>6
    <3>1. i \in 1..n /\ data_ch'[i] = data_ch[i] /\ data_ch[i] \in InData
      BY <1>6
    <3>2. place(data_ch[i].sn)' = place(data_ch[i].sn)
      BY <1>2, <3>1 DEF place, rx_mod_base_nr
    <3>3. CASE j = n + 1
      <4>1. place(data_ch[j].sn)' = place(p.sn)
        BY <1>2, <1>6, <3>3 DEF place, rx_mod_base_nr
      <4>2. place(data_ch[i].sn) < place(p.sn) + W
        BY <1>11, <3>1
      <4> QED BY <3>2, <4>1, <4>2 DEF W
    <3>4. CASE j # n + 1
      <4>1. j \in 1..n /\ data_ch'[j] = data_ch[j]
        BY <1>6, <3>4
      <4>2. place(data_ch[j].sn)' = place(data_ch[j].sn)
        BY <1>2, <4>1 DEF place, rx_mod_base_nr
      <4>3. place(data_ch[i].sn) < place(data_ch[j].sn) + AM_Window_Size
        BY <1>3, <1>6, <3>1, <4>1 DEF DataOK
      <4> QED BY <3>2, <4>2, <4>3
    <3> QED BY <3>3, <3>4
  <2>5. \A a, b \in InData' : a.sdu = b.sdu => a.sn = b.sn
    <3>1. \A a, b \in InData : a.sdu = b.sdu => a.sn = b.sn
      BY <1>3 DEF DataOK
    <3> QED BY <1>6, <1>9, <3>1
  <2> QED BY <2>1, <2>2, <2>3, <2>4, <2>5 DEF DataOK
<1>13. LinkOK'
  <2>1. (tx_mod_base_nr(rx_next) + rx_mod_base_nr(rx_next_highest) <= tx_mod_base_nr(tx_next))'
    <3>1. dr + dh <= en
      BY <1>1, <1>3
    <3> QED BY <1>2, <3>1 DEF dr, dh, en
  <2>2. \A q \in InData' :
          (place(q.sn) < AM_Window_Size + tx_mod_base_nr(tx_next) - tx_mod_base_nr(rx_next))'
    <3> SUFFICES ASSUME NEW q \in InData'
                 PROVE  (place(q.sn) < AM_Window_Size + tx_mod_base_nr(tx_next) - tx_mod_base_nr(rx_next))'
      OBVIOUS
    <3>1. place(q.sn)' = place(q.sn)
      BY <1>2
    <3>2. place(q.sn) < W + en - dr
      BY <1>6, <1>10, <1>11
    <3> QED BY <1>2, <3>1, <3>2 DEF W
  <2>3. \A q \in InData', sn \in Window' : q.sdu = tx_window'[sn].sdu <=> q.sn = sn
    <3>1. \A sn \in Window' : p.sdu = tx_window'[sn].sdu <=> p.sn = sn
      BY DEF SdusOK
    <3> QED BY <1>6, <3>1
  <2>4. \A sn \in Window' : Done(sn)' <=> tx_window'[sn].sdu \in Delivered'
    <3>1. \A sn : Done(sn)' <=> Done(sn)
      BY <1>2
    <3> QED BY <1>7, <3>1
  <2> QED BY <2>1, <2>2, <2>3, <2>4 DEF LinkOK
<1> QED BY <1>12, <1>13

(* The polling counters stay below where a poll is due.                    *)
LEMMA PollNumbers ==
  ASSUME WholeTypes, NEW sn \in SNs, NEW is_retx \in BOOLEAN, NEW bytes \in Nat,
         NEW queue, NEW retx, NEW segm_sn, NEW w, NEW poll,
         poll = poll_due(is_retx, bytes, queue, retx, segm_sn, w),
         get_pdu_poll(sn, is_retx, bytes, poll)
  PROVE  /\ poll \in BOOLEAN
         /\ poll_sn' \in SNs
         /\ pdu_without_poll' \in 0..PollPdu /\ byte_without_poll' \in 0..PollByte
         /\ poll_retransmit_timer' \in BOOLEAN
<1>1. poll \in BOOLEAN
  BY DEF poll_due
<1>2. /\ poll_sn \in SNs /\ pdu_without_poll \in 0..PollPdu /\ byte_without_poll \in 0..PollByte
      /\ poll_retransmit_timer \in BOOLEAN
  BY DEF WholeTypes
<1>3. poll_sn' \in SNs
  <2>1. poll_sn' = sn \/ poll_sn' = poll_sn
    BY DEF get_pdu_poll
  <2> QED BY <1>2, <2>1
<1>4. /\ ~poll /\ ~is_retx /\ PollPdu > 0 => pdu_without_poll + 1 < PollPdu
      /\ ~poll /\ ~is_retx /\ PollByte > 0 => byte_without_poll + bytes < PollByte
  <2>1. /\ ~poll /\ ~is_retx /\ PollPdu > 0 => ~(pdu_without_poll + 1 >= PollPdu)
        /\ ~poll /\ ~is_retx /\ PollByte > 0 => ~(byte_without_poll + bytes >= PollByte)
    BY DEF poll_due
  <2>2. /\ ~(pdu_without_poll + 1 >= PollPdu) => pdu_without_poll + 1 < PollPdu
        /\ ~(byte_without_poll + bytes >= PollByte) => byte_without_poll + bytes < PollByte
    BY <1>2, TxAssumption
  <2> QED BY <2>1, <2>2
<1>5. pdu_without_poll' \in 0..PollPdu
  <2>1. \/ pdu_without_poll' = 0 \/ pdu_without_poll' = pdu_without_poll
        \/ /\ ~poll /\ PollPdu # 0 /\ ~is_retx
           /\ pdu_without_poll' = pdu_without_poll + 1
    BY DEF get_pdu_poll
  <2>2. PollPdu # 0 => PollPdu > 0
    BY TxAssumption
  <2> QED BY <1>2, <1>4, <2>1, <2>2, TxAssumption
<1>6. byte_without_poll' \in 0..PollByte
  <2>1. \/ byte_without_poll' = 0 \/ byte_without_poll' = byte_without_poll
        \/ /\ ~poll /\ PollByte # 0 /\ ~is_retx
           /\ byte_without_poll' = byte_without_poll + bytes
    BY DEF get_pdu_poll
  <2>2. PollByte # 0 => PollByte > 0
    BY TxAssumption
  <2> QED BY <1>2, <1>4, <2>1, <2>2, TxAssumption
<1>7. poll_retransmit_timer' \in BOOLEAN
  BY DEF get_pdu_poll
<1> QED BY <1>1, <1>3, <1>5, <1>6, <1>7

(* The retransmission at the front is of an SDU of the window.             *)
LEMMA LiveRetx ==
  ASSUME AmInv, live_retx_queue # <<>>
  PROVE  /\ Tail(live_retx_queue) \in Seq(WholeRetx)
         /\ \E sn \in Window : Head(live_retx_queue) = retx_sdu(sn)
<1> DEFINE live == {i \in DOMAIN retx_queue : tx_has_sn(retx_queue[i].sn)}
           n == Len(retx_queue)
           m == Min(live)
<1>1. /\ retx_queue \in Seq(WholeRetx) /\ n \in Nat /\ DOMAIN retx_queue = 1..n
      /\ live \in SUBSET (1..n)
  BY DEF AmInv, WholeTypes
<1>2. live # {} /\ live_retx_queue = SubSeq(retx_queue, m, n)
  BY DEF live_retx_queue
<1>3. m \in live
  <2> HIDE DEF live
  <2> QED BY <1>1, <1>2, LeastIn
<1>4. m \in 1..n /\ tx_has_sn(retx_queue[m].sn) /\ retx_queue[m] \in WholeRetx
  <2>1. m \in 1..n /\ tx_has_sn(retx_queue[m].sn)
    BY <1>1, <1>3
  <2> HIDE DEF live, m
  <2> QED BY <1>1, <2>1
<1> HIDE DEF m, live
<1>5. /\ SubSeq(retx_queue, m, n) \in Seq(WholeRetx)
      /\ Len(SubSeq(retx_queue, m, n)) = n - m + 1
      /\ SubSeq(retx_queue, m, n)[1] = retx_queue[m]
  BY <1>1, <1>4
<1>6. Tail(live_retx_queue) \in Seq(WholeRetx) /\ Head(live_retx_queue) = retx_queue[m]
  BY <1>1, <1>2, <1>4, <1>5
<1>7. PICK sn \in SNs : retx_queue[m] = retx_sdu(sn)
  BY <1>4 DEF WholeRetx
<1>8. retx_queue[m].sn = sn
  BY <1>7 DEF retx_sdu
<1>9. sn \in Window
  BY <1>4, <1>8 DEF tx_has_sn, Window, Outstanding
<1> QED BY <1>6, <1>7, <1>9

(* A grant as large as an SDU with its header needs no segmentation.       *)
LEMMA NoSegmentation ==
  ASSUME WholeGrants, NEW nof_bytes \in Grants, NEW sn
  PROVE  ~is_retx_segmentation_required(retx_sdu(sn), nof_bytes)
<1>1. retx_payload_len(retx_sdu(sn)) = N_bytes /\ retx_hdr_len(retx_sdu(sn)) = min_hdr_size
  BY DEF retx_payload_len, retx_hdr_len, retx_sdu
<1> DEFINE a == N_bytes + min_hdr_size
<1>2. /\ a \in Nat /\ LenMod \in Nat \ {0} /\ nof_bytes \in Nat /\ nof_bytes >= a
  BY TypesAssumption, TxAssumption DEF WholeGrants
<1> HIDE DEF a
<1>3. a % LenMod <= a /\ a % LenMod \in Nat
  <2>1. CASE a < LenMod
    BY <1>2, <2>1
  <2>2. CASE a >= LenMod
    BY <1>2, <2>2
  <2> QED BY <1>2, <2>1, <2>2
<1>4. ~(nof_bytes < a % LenMod)
  BY <1>2, <1>3
<1> QED BY <1>1, <1>4 DEF is_retx_segmentation_required, a

(* An SDU of the window is sent once more.                                 *)
LEMMA RetxPreserves ==
  ASSUME WholeGrants, AmInv, NEW nof_bytes \in Grants, tx_enabled,
         build_retx_pdu_without_segmentation(nof_bytes), UNCHANGED <<rxVars, status_ch, delivered>>
  PROVE  AmInv'
<1> DEFINE retx == Head(live_retx_queue)
           len == retx_payload_len(retx)
           si == CASE ~retx.is_segment -> "full"
                   [] retx.is_segment /\ retx.current_so = 0 -> "first"
                   [] retx.is_segment /\ retx.current_so > 0 /\ retx.current_so + len < N_bytes -> "middle"
                   [] OTHER -> "last"
           poll == poll_due(TRUE, 0, tx_sdu_queue, Tail(live_retx_queue),
                            sdu_under_segmentation_sn, tx_window)
<1>1. /\ live_retx_queue # <<>>
      /\ retx_queue' = Tail(live_retx_queue)
      /\ get_pdu_poll(retx.sn, TRUE, 0, poll)
      /\ UNCHANGED tx_window
      /\ data_ch' = Append(data_ch, Pdu(retx.sn, si, retx.current_so, len, poll))
      /\ UNCHANGED <<tx_next_ack, tx_next, tx_sdu_queue, sdu_under_segmentation_sn,
                     poll_expired, tx_enabled, upperVars>>
  BY Zenon DEF build_retx_pdu_without_segmentation, Send
<1>2. PICK sn \in Window : retx = retx_sdu(sn)
  BY <1>1, LiveRetx
<1>3. sn \in SNs /\ retx.sn = sn /\ retx.current_so = 0 /\ ~retx.is_segment /\ len = N_bytes
  BY <1>2 DEF Window, Outstanding, retx_sdu, retx_payload_len
<1>4. si = "full"
  BY <1>3
<1> HIDE DEF si, len, retx
<1>5. /\ poll \in BOOLEAN /\ poll_sn' \in SNs
      /\ pdu_without_poll' \in 0..PollPdu /\ byte_without_poll' \in 0..PollByte
      /\ poll_retransmit_timer' \in BOOLEAN
  <2>1. get_pdu_poll(sn, TRUE, 0, poll) /\ 0 \in Nat /\ TRUE \in BOOLEAN /\ WholeTypes
    BY <1>1, <1>3 DEF AmInv
  <2> HIDE DEF poll
  <2>2. poll = poll_due(TRUE, 0, tx_sdu_queue, Tail(live_retx_queue),
                        sdu_under_segmentation_sn, tx_window)
    BY DEF poll
  <2> QED BY <1>3, <2>1, <2>2, PollNumbers
<1> HIDE DEF poll
<1> DEFINE p == [sn |-> sn, si |-> "full", so |-> 0, len |-> N_bytes, p |-> poll,
                 sdu |-> tx_window[sn].sdu]
<1>6. data_ch' = Append(data_ch, p)
  BY <1>1, <1>3, <1>4 DEF Pdu
<1>7. tx_window[sn].sdu \in Sdus
  BY <1>2, <1>3 DEF Window, Outstanding, AmInv, WholeTypes, WholeTxPdu
<1>8. p \in WholePdu /\ p.sn = sn /\ p.sdu = tx_window[sn].sdu
  BY <1>3, <1>5, <1>7, TypesAssumption DEF WholePdu, DataPdu, SI
<1> HIDE DEF p
<1>9. UNCHANGED endVars /\ UNCHANGED <<written, discarded, notified, failed>>
  BY <1>1 DEF endVars, upperVars, rxVars, rxState
<1>10. WindowOK' /\ SdusOK'
  <2>1. WindowOK'
    BY <1>9 DEF AmInv, WindowOK, Window, tx_mod_base_nr, endVars
  <2>2. SdusOK'
    BY <1>9 DEF AmInv, SdusOK, Window, Live, Queued, WindowSdus, Delivered, Notified, endVars
  <2> QED BY <2>1, <2>2
<1>11. ReceiverOK' /\ ReportsOK'
  BY <1>9, ReceiverStays, ReportsStay DEF AmInv
<1>12. WholeTypes'
  <2>1. data_ch' \in Seq(WholePdu)
    <3>1. data_ch \in Seq(WholePdu)
      BY DEF AmInv, WholeTypes
    <3> QED BY <1>6, <1>8, <3>1
  <2>2. retx_queue' \in Seq(WholeRetx)
    BY <1>1, LiveRetx
  <2> QED BY <1>1, <1>5, <1>9, <2>1, <2>2 DEF AmInv, WholeTypes
<1>13. DataOK' /\ LinkOK'
  <2>1. DataOK /\ LinkOK
    BY DEF AmInv
  <2>2. Window' = Window /\ Queued' = Queued
    BY <1>1 DEF Window, Queued
  <2>3. /\ \A q \in InData : q.sdu \notin Queued'
        /\ \A q \in InData, x \in Window' : q.sdu = tx_window'[x].sdu <=> q.sn = x
        /\ \A x \in Window' : Done(x) <=> tx_window'[x].sdu \in Delivered
    BY <1>1, <2>1, <2>2 DEF DataOK, LinkOK
  <2>4. tx_next' \in SNs /\ tx_mod_base_nr(tx_next) <= tx_mod_base_nr(tx_next') /\ tx_enabled'
    <3>1. tx_next' = tx_next /\ tx_next \in SNs /\ tx_next_ack \in SNs
      BY <1>1 DEF AmInv, WholeTypes
    <3>2. tx_mod_base_nr(tx_next) \in Nat
      BY <3>1, Distance DEF tx_mod_base_nr
    <3> QED BY <1>1, <3>1, <3>2
  <2>5. p.sn \in Window' /\ p.sdu = tx_window'[p.sn].sdu
    BY <1>1, <1>2, <1>8, <2>2
  <2> QED BY <1>1, <1>6, <1>8, <1>9, <1>10, <2>3, <2>4, <2>5, Sent
<1> QED BY <1>10, <1>11, <1>12, <1>13 DEF AmInv

(* TX_Next is free when the window is not full: the receiver does not have *)
(* it, and nothing in flight is of it.                                     *)
LEMMA FreshNext ==
  ASSUME AmInv, tx_enabled, ~full(tx_window)
  PROVE  /\ tx_next \in SNs \ Window
         /\ tx_mod_base_nr(tx_next) < AM_Window_Size
         /\ ~Done(tx_next)
         /\ \A q \in InData : q.sn # tx_next
<1> DEFINE W == AM_Window_Size
           dr == tx_mod_base_nr(rx_next)
           dn == tx_mod_base_nr(tx_next)
           dh == rx_mod_base_nr(rx_next_highest)
<1>1. /\ tx_next_ack \in SNs /\ tx_next \in SNs /\ rx_next \in SNs /\ dh \in Nat
      /\ dr \in Nat /\ dn \in Nat /\ W \in Nat /\ mod_nr = 2 * W
      /\ \A sn \in SNs : rx_mod_base_nr(sn) \in Nat
      /\ \A x \in SNs : received(rx_window, x) => rx_mod_base_nr(x) < dh
  <2>1. tx_next_ack \in SNs /\ tx_next \in SNs /\ rx_next \in SNs /\ dh \in Nat
    BY ReceiverNumbers DEF AmInv, WholeTypes
  <2> QED BY <2>1, Distance, ReceiverNumbers, TypesAssumption DEF tx_mod_base_nr, AmInv
<1>2. dn <= W /\ Window = {sn \in SNs : tx_mod_base_nr(sn) < dn} /\ dr + dh <= dn
  BY DEF AmInv, WindowOK, LinkOK
<1>3. dn < W
  <2>1. Cardinality(Window) = dn
    <3>1. dn <= mod_nr
      BY <1>1, <1>2
    <3>2. Cardinality({sn \in SNs : mod_base(sn, tx_next_ack) < dn}) = dn
      <4> HIDE DEF dn
      <4> QED BY <1>1, <3>1, WindowCardinality
    <3> QED BY <1>2, <3>2 DEF tx_mod_base_nr
  <2>2. dn # W
    BY <2>1 DEF full, Window
  <2> QED BY <1>1, <1>2, <2>2
<1>4. place(tx_next) = W + dn - dr
  <2>1. mod_base(rx_next, tx_next_ack) <= AM_Window_Size
    BY <1>1, <1>2 DEF tx_mod_base_nr
  <2>2. mod_base(tx_next, tx_next_ack) < mod_base(rx_next, tx_next_ack) + AM_Window_Size
    BY <1>1, <1>3 DEF tx_mod_base_nr
  <2> QED BY <1>1, <2>1, <2>2, PlaceFromSender DEF place, rx_mod_base_nr, tx_mod_base_nr
<1>5. rx_mod_base_nr(tx_next) = dn - dr
  <2>1. rx_mod_base_nr(tx_next) = IF dn >= dr THEN dn - dr ELSE dn - dr + mod_nr
    BY <1>1, Rebase DEF rx_mod_base_nr, tx_mod_base_nr
  <2> HIDE DEF dn, dr
  <2> QED BY <1>1, <1>2, <2>1
<1>6. tx_next \notin Window
  BY <1>1, <1>2
<1>7. ~Done(tx_next)
  <2>1. ~received(rx_window, tx_next)
    <3>1. received(rx_window, tx_next) => dn - dr < dh
      BY <1>1, <1>5
    <3> HIDE DEF dn, dr, dh
    <3> QED BY <1>1, <1>2, <3>1
  <2>2. ~(place(tx_next) < W)
    <3> HIDE DEF dn, dr, dh
    <3> QED BY <1>1, <1>2, <1>4
  <2> QED BY <2>1, <2>2 DEF Done
<1>8. \A q \in InData : q.sn # tx_next
  <2> SUFFICES ASSUME NEW q \in InData, q.sn = tx_next PROVE FALSE
    OBVIOUS
  <2>1. place(tx_next) < W + dn - dr
    BY DEF AmInv, LinkOK
  <2> HIDE DEF dn, dr, W
  <2> QED BY <1>1, <1>4, <2>1
<1> QED BY <1>1, <1>3, <1>6, <1>7, <1>8

(* The queue has a first SDU, if it has one.                               *)
LEMMA FirstSdu ==
  ASSUME AmInv, \E j \in DOMAIN tx_sdu_queue : tx_sdu_queue[j] # None
  PROVE  \E i \in DOMAIN tx_sdu_queue : /\ tx_sdu_queue[i] # None
                                        /\ \A j \in 1..(i - 1) : tx_sdu_queue[j] = None
<1> DEFINE n == Len(tx_sdu_queue)
           S == {j \in 1..n : tx_sdu_queue[j] # None}
<1>1. n \in Nat /\ DOMAIN tx_sdu_queue = 1..n
  BY DEF AmInv, WholeTypes
<1>2. PICK m \in S : \A j \in S : m <= j
  <2>1. S \in SUBSET Nat /\ S # {}
    BY <1>1
  <2> HIDE DEF S
  <2> QED BY <2>1, LeastNumber
<1>3. \A j \in 1..(m - 1) : j \in 1..n /\ ~(m <= j)
  BY <1>1, <1>2
<1>4. m \in 1..n /\ tx_sdu_queue[m] # None /\ \A j \in 1..(m - 1) : tx_sdu_queue[j] = None
  BY <1>2, <1>3
<1> QED BY <1>1, <1>4

(* It is taken from the queue.                                             *)
LEMMA FirstOfQueue ==
  ASSUME AmInv, NEW i \in DOMAIN tx_sdu_queue, tx_sdu_queue[i] # None,
         \A j \in 1..(i - 1) : tx_sdu_queue[j] = None,
         NEW rest, rest = SubSeq(tx_sdu_queue, i + 1, Len(tx_sdu_queue))
  PROVE  /\ tx_sdu_queue[i] \in Queued
         /\ rest \in Seq(Sdus \cup {None})
         /\ Elems(rest) \ {None} = Queued \ {tx_sdu_queue[i]}
         /\ \A j, k \in DOMAIN rest : rest[j] = rest[k] /\ rest[j] # None => j = k
<1> DEFINE q == tx_sdu_queue
           n == Len(q)
<1>1. q \in Seq(Sdus \cup {None}) /\ n \in Nat /\ DOMAIN q = 1..n
  BY DEF AmInv, WholeTypes
<1>2. \A a, b \in 1..n : q[a] = q[b] /\ q[a] # None => a = b
  BY <1>1 DEF AmInv, SdusOK
<1>3. i \in 1..n /\ q[i] # None /\ \A j \in 1..(i - 1) : q[j] = None
  BY <1>1
<1> HIDE DEF q, n
<1>4. /\ rest \in Seq(Sdus \cup {None}) /\ DOMAIN rest = 1..(n - i)
      /\ \A j \in 1..(n - i) : rest[j] = q[i + j] /\ i + j \in 1..n /\ i + j # i
  <2>1. rest = SubSeq(q, i + 1, n) /\ i \in Int
    BY <1>1, <1>3 DEF q, n
  <2>2. \A j \in (i + 1)..n : j \in 1..n /\ q[j] \in Sdus \cup {None}
    BY <1>1, <1>3
  <2>3. rest = [j \in 1..(n - i) |-> q[i + j]]
    <3> DEFINE m == i + 1
    <3>1. m \in Int /\ n \in Int /\ n - m + 1 = n - i /\ m <= n + 1
      BY <1>1, <1>3
    <3>2. \A j \in m..n : q[j] \in Sdus \cup {None}
      BY <2>2
    <3> HIDE DEF m
    <3>3. /\ SubSeq(q, m, n) \in Seq(Sdus \cup {None})
          /\ Len(SubSeq(q, m, n)) = IF m <= n THEN n - m + 1 ELSE 0
          /\ \A j \in 1..(n - m + 1) : SubSeq(q, m, n)[j] = q[m + j - 1]
      BY <3>1, <3>2, SubSeqProperties
    <3> DEFINE sub == SubSeq(q, m, n)
               hi == n - m + 1
               len == IF m <= n THEN hi ELSE 0
    <3>4. rest = sub
      BY <2>1 DEF m
    <3>5. hi = n - i /\ len = n - i
      BY <1>1, <1>3, <3>1
    <3>6. \A j \in 1..(n - i) : m + j - 1 = i + j
      BY <1>1, <1>3 DEF m
    <3>7. /\ sub \in Seq(Sdus \cup {None}) /\ Len(sub) = len
          /\ \A j \in 1..hi : sub[j] = q[m + j - 1]
      BY <3>3
    <3> HIDE DEF sub, hi, len
    <3>8. DOMAIN sub = 1..(n - i) /\ sub = [j \in DOMAIN sub |-> sub[j]]
      BY <3>5, <3>7, LenProperties
    <3>9. \A j \in 1..(n - i) : sub[j] = q[i + j]
      BY <3>5, <3>6, <3>7, Zenon
    <3>10. sub = [j \in 1..(n - i) |-> q[i + j]]
      BY <3>8, <3>9, Zenon
    <3> QED BY <3>4, <3>10
  <2>4. \A j \in 1..(n - i) : i + j \in (i + 1)..n /\ i + j # i
    BY <1>1, <1>3
  <2>5. \A j \in 1..(n - i) : i + j \in 1..n
    BY <2>2, <2>4
  <2>6. rest \in Seq(Sdus \cup {None})
    <3>1. i + 1 \in Int /\ n \in Int
      BY <1>1, <1>3
    <3>2. SubSeq(q, i + 1, n) \in Seq(Sdus \cup {None})
      BY <2>2, <3>1, SubSeqProperties, Zenon
    <3> QED BY <2>1, <3>2
  <2> QED BY <2>3, <2>4, <2>5, <2>6
<1>5. \A j \in 1..n : j = i \/ q[j] = None \/ (j - i \in 1..(n - i) /\ rest[j - i] = q[j])
  <2> SUFFICES ASSUME NEW j \in 1..n, j # i, q[j] # None
               PROVE  j - i \in 1..(n - i) /\ rest[j - i] = q[j]
    OBVIOUS
  <2>1. ~(j \in 1..(i - 1))
    BY <1>3
  <2>2. j - i \in 1..(n - i) /\ i + (j - i) = j
    BY <1>1, <1>3, <2>1
  <2> QED BY <1>4, <2>2
<1>6. q[i] \in Queued
  BY <1>1, <1>3 DEF Queued, Elems, q
<1>7. Elems(rest) \ {None} = Queued \ {q[i]}
  <2>1. ASSUME NEW x \in Elems(rest) \ {None} PROVE x \in Queued \ {q[i]}
    <3>1. PICK j \in 1..(n - i) : rest[j] = x
      BY <1>4 DEF Elems
    <3>2. x = q[i + j] /\ i + j \in 1..n /\ i + j # i /\ x # None
      BY <1>4, <3>1
    <3> QED BY <1>1, <1>2, <1>3, <3>2 DEF Queued, Elems, q
  <2>2. ASSUME NEW x \in Queued \ {q[i]} PROVE x \in Elems(rest) \ {None}
    <3>1. PICK j \in 1..n : q[j] = x /\ x # None
      BY <1>1 DEF Queued, Elems, q
    <3>2. j - i \in 1..(n - i) /\ rest[j - i] = x
      BY <1>5, <3>1
    <3> QED BY <1>4, <3>1, <3>2 DEF Elems
  <2> QED BY <2>1, <2>2
<1>8. \A j, k \in DOMAIN rest : rest[j] = rest[k] /\ rest[j] # None => j = k
  <2> SUFFICES ASSUME NEW j \in 1..(n - i), NEW k \in 1..(n - i), rest[j] = rest[k], rest[j] # None
               PROVE  j = k
    <3>1. DOMAIN rest = 1..(n - i)
      BY <1>4
    <3> QED BY <3>1, Zenon
  <2>1. i + j = i + k
    BY <1>2, <1>4
  <2> QED BY <1>3, <2>1
<1> QED BY <1>4, <1>6, <1>7, <1>8 DEF q

(* A new SDU is sent and put into the window.                              *)
LEMMA NewPduPreserves ==
  ASSUME WholeGrants, AmInv, NEW nof_bytes \in Grants, tx_enabled,
         build_new_pdu(nof_bytes), UNCHANGED <<rxVars, status_ch, delivered>>
  PROVE  AmInv'
<1> DEFINE i == CHOOSE i \in DOMAIN tx_sdu_queue :
                  /\ tx_sdu_queue[i] # None
                  /\ \A j \in 1..(i - 1) : tx_sdu_queue[j] = None
           queue == SubSeq(tx_sdu_queue, i + 1, Len(tx_sdu_queue))
           whole == N_bytes + min_hdr_size <= nof_bytes
           len == IF whole THEN N_bytes ELSE nof_bytes - min_hdr_size
           segm == IF whole THEN None ELSE tx_next
           w == [tx_window EXCEPT ![same_slot(tx_next)] = NoTxPdu,
                  ![tx_next] = [NoTxPdu EXCEPT !.sdu = tx_sdu_queue[i],
                                  !.segment_list = IF whole THEN <<>>
                                                   ELSE <<[so |-> 0, len |-> len]>>]]
           poll == poll_due(FALSE, len, queue, retx_queue, segm, w)
<1>1. /\ ~full(tx_window)
      /\ \E j \in DOMAIN tx_sdu_queue : tx_sdu_queue[j] # None
      /\ tx_sdu_queue' = queue
      /\ tx_window' = w
      /\ sdu_under_segmentation_sn' = segm
      /\ get_pdu_poll(tx_next, FALSE, len, poll)
      /\ tx_next' = tx_next_after(whole)
      /\ data_ch' = Append(data_ch, Pdu(tx_next, IF whole THEN "full" ELSE "first", 0, len, poll))
      /\ UNCHANGED <<tx_next_ack, retx_queue, poll_expired, tx_enabled, upperVars>>
  BY Zenon DEF build_new_pdu, Send
<1>2. whole
  BY TypesAssumption, TxAssumption DEF WholeGrants
<1> HIDE DEF whole, poll
<1>3. len = N_bytes /\ segm = None /\ tx_next' = next_sn(tx_next)
  BY <1>1, <1>2 DEF tx_next_after
<1> HIDE DEF len, segm
<1> DEFINE sdu == tx_sdu_queue[i]
           x == [NoTxPdu EXCEPT !.sdu = sdu, !.segment_list = <<>>]
<1>4. w = [tx_window EXCEPT ![same_slot(tx_next)] = NoTxPdu, ![tx_next] = x]
  BY <1>2
<1> HIDE DEF w, x, sdu
<1>5. /\ sdu \in Queued /\ queue \in Seq(Sdus \cup {None})
      /\ Elems(queue) \ {None} = Queued \ {sdu}
      /\ \A j, k \in DOMAIN queue : queue[j] = queue[k] /\ queue[j] # None => j = k
  <2>1. /\ i \in DOMAIN tx_sdu_queue /\ tx_sdu_queue[i] # None
        /\ \A j \in 1..(i - 1) : tx_sdu_queue[j] = None
    <3>1. \E k \in DOMAIN tx_sdu_queue : /\ tx_sdu_queue[k] # None
                                         /\ \A j \in 1..(k - 1) : tx_sdu_queue[j] = None
      BY <1>1, FirstSdu
    <3> QED BY <3>1, Zenon
  <2> HIDE DEF i
  <2> QED BY <2>1, FirstOfQueue DEF sdu
<1> HIDE DEF queue, i
<1>6. /\ tx_next \in SNs \ Window /\ tx_mod_base_nr(tx_next) < AM_Window_Size
      /\ ~Done(tx_next) /\ \A q \in InData : q.sn # tx_next
  BY <1>1, FreshNext
<1>7. /\ SdusOK /\ LinkOK /\ DataOK /\ WholeTypes /\ WindowOK
      /\ WindowSdus \subseteq Live \ (Queued \cup Notified) /\ Queued \subseteq Live \ Delivered
      /\ Notified \subseteq Delivered
      /\ written \subseteq Sdus /\ sdu \in Sdus
  BY <1>5 DEF AmInv, SdusOK, WholeTypes, Live
<1>8. /\ tx_next_ack \in SNs /\ \A sn \in SNs : tx_mod_base_nr(sn) \in Nat
      /\ tx_window \in [SNs -> WholeTxPdu] /\ AM_Window_Size \in Nat \ {0}
      /\ mod_nr = 2 * AM_Window_Size
  BY <1>7, Distance, TypesAssumption DEF WholeTypes, tx_mod_base_nr
<1>9. /\ next_sn(tx_next) \in SNs
      /\ tx_mod_base_nr(next_sn(tx_next)) = tx_mod_base_nr(tx_next) + 1
      /\ same_slot(tx_next) \in SNs
      /\ tx_mod_base_nr(same_slot(tx_next)) = tx_mod_base_nr(tx_next) + AM_Window_Size
  <2>1. mod_base(tx_next, tx_next_ack) < mod_nr - 1
    BY <1>6, <1>8 DEF tx_mod_base_nr
  <2> QED BY <1>6, <1>8, <2>1, NextDistance, SlotDistance DEF tx_mod_base_nr
<1>10. same_slot(tx_next) \notin Window /\ same_slot(tx_next) # tx_next
  <2>1. ~(tx_mod_base_nr(same_slot(tx_next)) < tx_mod_base_nr(tx_next))
    BY <1>6, <1>8, <1>9
  <2>2. tx_mod_base_nr(same_slot(tx_next)) # tx_mod_base_nr(tx_next)
    BY <1>6, <1>8, <1>9
  <2> QED BY <1>7, <2>1, <2>2 DEF WindowOK
<1>11. NoTxPdu.sdu = None /\ NoTxPdu \in WholeTxPdu /\ None \notin Sdus
  BY TxAssumption, TypesAssumption DEF NoTxPdu, WholeTxPdu, NOT_STARTED, None
<1>12. x \in WholeTxPdu /\ x.sdu = sdu
  BY <1>7, <1>11 DEF x, WholeTxPdu, NoTxPdu
<1>13. /\ tx_window' \in [SNs -> WholeTxPdu]
       /\ \A sn \in SNs : tx_window'[sn].sdu = IF sn = tx_next THEN sdu ELSE tx_window[sn].sdu
  <2>1. tx_window' = [tx_window EXCEPT ![same_slot(tx_next)] = NoTxPdu, ![tx_next] = x]
    BY <1>1, <1>4
  <2>2. tx_window[same_slot(tx_next)].sdu = None
    BY <1>9, <1>10 DEF Window, Outstanding
  <2>3. \A sn \in SNs : tx_window'[sn] = IF sn = tx_next THEN x
                                         ELSE IF sn = same_slot(tx_next) THEN NoTxPdu ELSE tx_window[sn]
    BY <1>6, <1>8, <1>9, <2>1
  <2>4. tx_window' \in [SNs -> WholeTxPdu]
    BY <1>8, <1>11, <1>12, <2>1
  <2> QED BY <1>11, <1>12, <2>2, <2>3, <2>4
<1>14. Window' = Window \cup {tx_next}
  <2>1. \A sn \in SNs : sn \in Window' <=> sn \in Window \/ sn = tx_next
    BY <1>6, <1>7, <1>11, <1>13 DEF Window, Outstanding
  <2> QED BY <1>6, <2>1 DEF Window, Outstanding
<1>15. /\ tx_next' \in SNs /\ (tx_mod_base_nr(tx_next))' = tx_mod_base_nr(tx_next) + 1
       /\ \A sn : (tx_mod_base_nr(sn))' = tx_mod_base_nr(sn)
       /\ tx_mod_base_nr(tx_next') = tx_mod_base_nr(tx_next) + 1
  BY <1>1, <1>3, <1>9 DEF tx_mod_base_nr
<1>16. WindowOK'
  <2>1. \A sn \in SNs : tx_mod_base_nr(sn) < tx_mod_base_nr(tx_next) + 1 <=>
                           tx_mod_base_nr(sn) < tx_mod_base_nr(tx_next) \/ sn = tx_next
    <3> SUFFICES ASSUME NEW sn \in SNs
                 PROVE  tx_mod_base_nr(sn) < tx_mod_base_nr(tx_next) + 1 <=>
                          tx_mod_base_nr(sn) < tx_mod_base_nr(tx_next) \/ sn = tx_next
      OBVIOUS
    <3>1. tx_mod_base_nr(sn) = tx_mod_base_nr(tx_next) => sn = tx_next
      BY <1>6, <1>8, SameDistance DEF tx_mod_base_nr
    <3>2. tx_mod_base_nr(sn) \in Nat /\ tx_mod_base_nr(tx_next) \in Nat
      BY <1>6, <1>8
    <3> QED BY <3>1, <3>2
  <2>2. (tx_mod_base_nr(tx_next))' <= AM_Window_Size
    BY <1>6, <1>8, <1>15
  <2>3. Window' = {sn \in SNs : tx_mod_base_nr(sn) < tx_mod_base_nr(tx_next) + 1}
    BY <1>6, <1>7, <1>14, <2>1 DEF WindowOK
  <2>4. {sn \in SNs : tx_mod_base_nr(sn) < tx_mod_base_nr(tx_next) + 1} =
          {sn \in SNs : (tx_mod_base_nr(sn))' < (tx_mod_base_nr(tx_next))'}
    BY <1>15
  <2> QED BY <2>2, <2>3, <2>4 DEF WindowOK
<1>17. /\ WindowSdus' = WindowSdus \cup {sdu} /\ Queued' = Queued \ {sdu}
       /\ Live' = Live /\ Delivered' = Delivered /\ Notified' = Notified
       /\ \A sn \in Window : sn # tx_next /\ sn \in SNs /\ tx_window'[sn].sdu = tx_window[sn].sdu
       /\ tx_window'[tx_next].sdu = sdu
  <2>1. \A sn \in Window : sn # tx_next /\ sn \in SNs /\ tx_window'[sn].sdu = tx_window[sn].sdu
    BY <1>6, <1>13 DEF Window, Outstanding
  <2>2. tx_window'[tx_next].sdu = sdu
    BY <1>6, <1>13
  <2>3. WindowSdus' = WindowSdus \cup {sdu}
    BY <1>14, <2>1, <2>2 DEF WindowSdus
  <2>4. Queued' = Queued \ {sdu}
    BY <1>1, <1>5 DEF Queued
  <2> QED BY <1>1, <2>1, <2>2, <2>3, <2>4 DEF Live, Delivered, Notified, upperVars
<1>18. SdusOK'
  <2>1. \A a, b \in Window' : tx_window'[a].sdu = tx_window'[b].sdu => a = b
    <3>1. \A a \in Window : tx_window[a].sdu # sdu
      BY <1>5, <1>7 DEF WindowSdus
    <3>2. \A a, b \in Window : tx_window[a].sdu = tx_window[b].sdu => a = b
      BY <1>7 DEF SdusOK
    <3> QED BY <1>14, <1>17, <3>1, <3>2
  <2>2. \A j, k \in DOMAIN tx_sdu_queue' :
          tx_sdu_queue'[j] = tx_sdu_queue'[k] /\ tx_sdu_queue'[j] # None => j = k
    BY <1>1, <1>5
  <2>3. WindowSdus' \subseteq Live' \ (Queued' \cup Notified')
    BY <1>5, <1>7, <1>17
  <2>4. Queued' \subseteq Live' \ Delivered'
    BY <1>7, <1>17
  <2>5. /\ Delivered' \subseteq Live' /\ Notified' \subseteq Delivered' /\ discarded' \subseteq written'
        /\ Distinct(delivered)' /\ Distinct(notified)'
    BY <1>1, <1>7, <1>17 DEF SdusOK, Distinct, upperVars
  <2>6. written' \subseteq discarded' \cup Queued' \cup WindowSdus' \cup Delivered'
    <3>1. written \subseteq discarded \cup Queued \cup WindowSdus \cup Delivered
      BY <1>7 DEF SdusOK
    <3> QED BY <1>1, <1>17, <3>1 DEF upperVars
  <2> QED BY <2>1, <2>2, <2>3, <2>4, <2>5, <2>6 DEF SdusOK
<1>19. /\ poll \in BOOLEAN /\ poll_sn' \in SNs
       /\ pdu_without_poll' \in 0..PollPdu /\ byte_without_poll' \in 0..PollByte
       /\ poll_retransmit_timer' \in BOOLEAN
  <2>1. get_pdu_poll(tx_next, FALSE, len, poll) /\ len \in Nat /\ FALSE \in BOOLEAN
    BY <1>1, <1>3, TypesAssumption
  <2>2. poll = poll_due(FALSE, len, queue, retx_queue, segm, w)
    BY DEF poll
  <2> QED BY <1>6, <1>7, <2>1, <2>2, PollNumbers
<1> DEFINE p == [sn |-> tx_next, si |-> "full", so |-> 0, len |-> N_bytes, p |-> poll, sdu |-> sdu]
<1>20. data_ch' = Append(data_ch, p)
  BY <1>1, <1>2, <1>3, <1>17 DEF Pdu
<1>21. p \in WholePdu /\ p.sn = tx_next /\ p.sdu = sdu
  BY <1>6, <1>7, <1>19, TypesAssumption DEF WholePdu, DataPdu, SI
<1> HIDE DEF p
<1>22. WholeTypes'
  <2>1. data_ch' \in Seq(WholePdu)
    BY <1>7, <1>20, <1>21 DEF WholeTypes
  <2>2. /\ tx_sdu_queue' \in Seq(Sdus \cup {None}) /\ sdu_under_segmentation_sn' = None
        /\ delivered' = delivered /\ status_ch' = status_ch
    BY <1>1, <1>3, <1>5
  <2> QED BY <1>1, <1>7, <1>13, <1>15, <1>19, <2>1, <2>2 DEF WholeTypes, upperVars
<1>23. ReceiverOK' /\ ReportsOK'
  <2>1. ReceiverOK'
    BY ReceiverStays DEF AmInv
  <2>2. ReportsOK'
    BY <1>1 DEF AmInv, ReportsOK, tx_mod_base_nr, rxVars, rxState
  <2> QED BY <2>1, <2>2
<1>24. DataOK' /\ LinkOK'
  <2>1. \A q \in InData : q.sdu \notin Queued' /\ q.sdu # sdu
    BY <1>5, <1>7, <1>17 DEF DataOK
  <2>2. \A q \in InData, sn \in Window' : q.sdu = tx_window'[sn].sdu <=> q.sn = sn
    <3>1. \A q \in InData, sn \in Window : q.sdu = tx_window[sn].sdu <=> q.sn = sn
      BY <1>7 DEF LinkOK
    <3> QED BY <1>6, <1>14, <1>17, <2>1, <3>1
  <2>3. \A sn \in Window' : Done(sn) <=> tx_window'[sn].sdu \in Delivered
    <3>1. \A sn \in Window : Done(sn) <=> tx_window[sn].sdu \in Delivered
      BY <1>7 DEF LinkOK
    <3>2. sdu \notin Delivered
      BY <1>5, <1>7
    <3> QED BY <1>6, <1>14, <1>17, <3>1, <3>2
  <2>4. tx_mod_base_nr(tx_next) <= tx_mod_base_nr(tx_next')
    BY <1>6, <1>8, <1>15
  <2>5. p.sn \in Window' /\ p.sdu = tx_window'[p.sn].sdu
    BY <1>14, <1>17, <1>21
  <2>6. /\ UNCHANGED <<tx_next_ack, notified, delivered, written, discarded, rxVars>>
        /\ tx_enabled' /\ tx_next' \in SNs
    BY <1>1, <1>15 DEF upperVars
  <2> QED BY <1>16, <1>18, <1>20, <1>21, <2>1, <2>2, <2>3, <2>4, <2>5, <2>6, Sent
<1> QED BY <1>16, <1>18, <1>22, <1>23, <1>24 DEF AmInv

(* The MAC gives the sender a grant.                                       *)
LEMMA GrantPreserves ==
  ASSUME WholeGrants, SenderHasBuffers, AmInv, NEW n \in Grants, Grant(n)
  PROVE  AmInv' /\ UNCHANGED <<written, discarded, delivered, notified>>
<1>1. read_pdu(n) /\ UNCHANGED <<rxVars, status_ch, delivered>> /\ tx_enabled
  BY DEF Grant, read_pdu
<1>2. sdu_under_segmentation_sn = None /\ WholeTypes /\ SdusOK
  BY DEF AmInv, WholeTypes
<1>3. CASE drop_acked_retx
  <2>1. /\ UNCHANGED <<endVars, data_ch, status_ch, failed, sdu_under_segmentation_sn,
                       poll_sn, pdu_without_poll, byte_without_poll, poll_retransmit_timer,
                       poll_expired>>
        /\ retx_queue' = <<>>
    BY <1>1, <1>3 DEF drop_acked_retx, endVars, upperVars, pollVars, rxVars, rxState
  <2>2. /\ retx_queue' \in Seq(WholeRetx) /\ poll_retransmit_timer' \in BOOLEAN
        /\ poll_expired' \in BOOLEAN /\ ReceiverOK'
    BY <1>1, <1>2, <2>1, ReceiverStays DEF AmInv, WholeTypes
  <2> QED BY <2>1, <2>2, RestPreserves DEF endVars
<1>4. CASE build_retx_pdu_without_segmentation(n)
  <2>1. UNCHANGED <<written, discarded, delivered, notified>>
    BY <1>1, <1>4 DEF build_retx_pdu_without_segmentation, upperVars
  <2> QED BY <1>1, <1>4, <2>1, RetxPreserves
<1>5. ~build_retx_pdu_with_segmentation(n)
  <2> SUFFICES ASSUME build_retx_pdu_with_segmentation(n) PROVE FALSE
    OBVIOUS
  <2>1. /\ live_retx_queue # <<>>
        /\ is_retx_segmentation_required(Head(live_retx_queue), n)
    BY Zenon DEF build_retx_pdu_with_segmentation
  <2>2. PICK sn \in Window : Head(live_retx_queue) = retx_sdu(sn)
    BY <2>1, LiveRetx
  <2> QED BY <2>1, <2>2, NoSegmentation
<1>6. CASE build_new_pdu(n)
  <2>1. UNCHANGED <<written, discarded, notified>>
    BY <1>6 DEF build_new_pdu, upperVars
  <2> QED BY <1>1, <1>6, <2>1, NewPduPreserves
<1>7. CASE read_null_sdus(n)
  <2>1. /\ \A j \in DOMAIN tx_sdu_queue : tx_sdu_queue[j] = None
        /\ tx_sdu_queue' = <<>>
        /\ UNCHANGED <<tx_next_ack, tx_next, pollVars, tx_window, retx_queue,
                     sdu_under_segmentation_sn, poll_expired, tx_enabled, data_ch, upperVars>>
    BY <1>7 DEF read_null_sdus
  <2>2. Queued = {} /\ Queued' = {}
    BY <2>1 DEF Queued, Elems
  <2>3. /\ tx_sdu_queue' \in Seq(Sdus \cup {None}) /\ DOMAIN tx_sdu_queue' = {}
        /\ written' = written /\ discarded' = discarded /\ Live' = Live
    BY <2>1 DEF upperVars, Live
  <2>4. /\ written' \subseteq Sdus /\ discarded' \subseteq written'
        /\ written' \subseteq discarded' \cup Queued' \cup WindowSdus \cup Delivered
    BY <1>1, <1>2, <2>2, <2>3 DEF WholeTypes, SdusOK
  <2>5. \A i, j \in DOMAIN tx_sdu_queue' :
           tx_sdu_queue'[i] = tx_sdu_queue'[j] /\ tx_sdu_queue'[i] # None => i = j
    BY <2>3
  <2>6. UNCHANGED <<tx_next_ack, tx_next, pollVars, tx_window, retx_queue,
                    sdu_under_segmentation_sn, poll_expired, tx_enabled, data_ch,
                    notified, failed, rxVars, status_ch, delivered>>
    BY <1>1, <2>1 DEF upperVars
  <2>7. AmInv'
    BY <2>2, <2>3, <2>4, <2>5, <2>6, QueuePreserves
  <2> QED BY <1>1, <2>1, <2>7 DEF upperVars
<1> QED BY <1>1, <1>2, <1>3, <1>4, <1>5, <1>6, <1>7 DEF read_pdu, SenderHasBuffers

-----------------------------------------------------------------------------
(* The invariant                                                           *)

(* Two ends that have just been created.                                   *)
LEMMA InitAmInv == Init => AmInv
<1> SUFFICES ASSUME Init PROVE AmInv
  OBVIOUS
<1>1. TxInit /\ RxInit /\ status_ch = <<>> /\ delivered = <<>>
  BY DEF Init
<1>2. 0 \in SNs /\ mod_base(0, 0) = 0 /\ AM_Window_Size \in Nat /\ mod_nr = 2 * AM_Window_Size
  <2>1. 0 \in SNs
    BY TypesAssumption DEF SNs
  <2> QED BY <2>1, BaseDistance, TypesAssumption
<1>3. NoTxPdu \in WholeTxPdu /\ NoTxPdu.sdu = None
  BY TxAssumption DEF NoTxPdu, WholeTxPdu, NOT_STARTED
<1>4. WholeTypes
  <2>1. tx_window \in [SNs -> WholeTxPdu]
    BY <1>1, <1>3 DEF TxInit
  <2>2. 0 \in 0..PollPdu /\ 0 \in 0..PollByte
    BY TxAssumption
  <2>3. /\ retx_queue \in Seq(WholeRetx) /\ tx_sdu_queue \in Seq(Sdus \cup {None})
        /\ data_ch \in Seq(WholePdu) /\ status_ch \in Seq(Report)
        /\ notified \in Seq(Sdus) /\ delivered \in Seq(Sdus)
    BY <1>1 DEF TxInit
  <2> QED BY <1>1, <1>2, <2>1, <2>2, <2>3 DEF TxInit, WholeTypes
<1>5. /\ Window = {} /\ WindowSdus = {} /\ Queued = {} /\ Delivered = {} /\ Notified = {}
      /\ InData = {}
  BY <1>1, <1>3 DEF TxInit, Window, Outstanding, WindowSdus, Queued, Delivered, Notified, InData, Elems
<1>6. tx_mod_base_nr(tx_next) = 0 /\ tx_mod_base_nr(rx_next) = 0 /\ rx_mod_base_nr(rx_next_highest) = 0
  BY <1>1, <1>2 DEF TxInit, RxInit, tx_mod_base_nr, rx_mod_base_nr
<1>7. WindowOK
  <2>1. \A sn \in SNs : tx_mod_base_nr(sn) \in Nat
    BY <1>1, <1>2, Distance DEF TxInit, tx_mod_base_nr
  <2>2. {sn \in SNs : tx_mod_base_nr(sn) < tx_mod_base_nr(tx_next)} = {}
    BY <1>6, <2>1
  <2> QED BY <1>2, <1>5, <1>6, <2>2 DEF WindowOK
<1>8. SdusOK
  <2>1. /\ DOMAIN tx_sdu_queue = {} /\ DOMAIN delivered = {} /\ DOMAIN notified = {}
        /\ written = {} /\ discarded = {}
    BY <1>1 DEF TxInit
  <2> QED BY <1>5, <2>1 DEF SdusOK, Distinct
<1>9. ReceiverOK
  <2>1. RxInv
    BY <1>1, InitEstablishes
  <2>2. \A sn \in SNs : rx_window[sn] = NoRxSdu
    BY <1>1 DEF RxInit
  <2> QED BY <1>1, <2>1, <2>2 DEF ReceiverOK, RxInit
<1>10. DataOK /\ LinkOK /\ ReportsOK
  <2>1. DOMAIN data_ch = {} /\ DOMAIN status_ch = {}
    BY <1>1 DEF TxInit
  <2> QED BY <1>5, <1>6, <2>1 DEF DataOK, LinkOK, ReportsOK
<1> QED BY <1>4, <1>7, <1>8, <1>9, <1>10 DEF AmInv

(* What a step of the bearer does to what the two PDCPs see of it          *)
PdcpStep ==
  \/ UNCHANGED <<written, discarded, delivered, notified>>
  \/ \E sdu \in Sdus \ written :
       written' = written \cup {sdu} /\ UNCHANGED <<discarded, delivered, notified>>
  \/ \E sdu \in Live \ Delivered :
       discarded' = discarded \cup {sdu} /\ UNCHANGED <<written, delivered, notified>>
  \/ \E sdu \in Live \ Delivered :
       delivered' = Append(delivered, sdu) /\ UNCHANGED <<written, discarded, notified>>
  \/ UNCHANGED <<written, discarded, delivered>> /\ Notified \subseteq Notified'

(* Every step keeps the invariant and is one the PDCPs may see.            *)
LEMMA NextPreservesAm ==
  ASSUME WholeGrants, ChannelsInOrder, SenderHasBuffers, AmInv, [Next]_vars
  PROVE  AmInv' /\ PdcpStep
<1>1. ASSUME NEW sdu \in Sdus, Write(sdu) PROVE AmInv' /\ PdcpStep
  BY <1>1, WritePreserves DEF PdcpStep
<1>2. ASSUME NEW sdu \in Sdus, Discard(sdu) PROVE AmInv' /\ PdcpStep
  BY <1>2, DiscardPreserves DEF PdcpStep
<1>3. ASSUME NEW n \in Grants, Grant(n) PROVE AmInv' /\ PdcpStep
  BY <1>3, GrantPreserves DEF PdcpStep
<1>4. ASSUME NEW n \in StatusGrants, StatusGrant(n) PROVE AmInv' /\ PdcpStep
  BY <1>4, StatusGrantPreserves DEF PdcpStep, StatusGrant, txVars, upperVars
<1>5. ASSUME NEW i \in Channel, ReceiveData(i) PROVE AmInv' /\ PdcpStep
  <2>1. UNCHANGED <<written, discarded, notified>>
    BY <1>5 DEF ReceiveData, upperVars
  <2> QED BY <1>5, <2>1, ReceiveDataPreserves DEF PdcpStep
<1>6. ASSUME NEW i \in Channel, ReceiveStatus(i) PROVE AmInv' /\ PdcpStep
  BY <1>6, ReceiveStatusPreserves DEF PdcpStep
<1>7. ASSUME NEW i \in Channel, LoseData(i) PROVE AmInv' /\ PdcpStep
  BY <1>7, LoseDataPreserves DEF PdcpStep, LoseData, upperVars
<1>8. ASSUME NEW i \in Channel, LoseStatus(i) PROVE AmInv' /\ PdcpStep
  BY <1>8, LoseStatusPreserves DEF PdcpStep, LoseStatus, txVars, upperVars
<1>9. CASE PollTimer
  BY <1>9, PollTimerPreserves DEF PdcpStep
<1>10. CASE PollCallback
  BY <1>10, PollCallbackPreserves DEF PdcpStep
<1>11. CASE Reassembly
  BY <1>11, ReassemblyKeeps DEF PdcpStep
<1>12. CASE StatusAllowed
  BY <1>12, StatusAllowedPreserves DEF PdcpStep
<1>13. CASE Reestablish
  BY <1>13, ReestablishKeeps DEF PdcpStep
<1>14. CASE UNCHANGED vars
  <2>1. UNCHANGED <<endVars, data_ch, status_ch, failed, sdu_under_segmentation_sn,
                    poll_sn, pdu_without_poll, byte_without_poll, poll_retransmit_timer,
                    poll_expired, retx_queue>> /\ UNCHANGED rxVars
    BY <1>14 DEF vars, endVars, txVars, upperVars, pollVars, rxVars, rxState
  <2>2. /\ retx_queue' \in Seq(WholeRetx) /\ poll_retransmit_timer' \in BOOLEAN
        /\ poll_expired' \in BOOLEAN /\ ReceiverOK'
    BY <2>1, ReceiverStays DEF AmInv, WholeTypes
  <2> QED BY <2>1, <2>2, RestPreserves DEF endVars, PdcpStep
<1>15. ASSUME NEW i \in Channel, ReceiveDataNoBuffer(i) PROVE AmInv' /\ PdcpStep
  BY <1>15, NoBufferKeeps DEF PdcpStep, ReceiveDataNoBuffer, upperVars
<1> QED BY <1>1, <1>2, <1>3, <1>4, <1>5, <1>6, <1>7, <1>8, <1>9, <1>10, <1>11, <1>12, <1>13,
           <1>14, <1>15
        DEF Next

(* The invariant that carries the bearer's properties: the window of the   *)
(* sender, the place of every PDU and report in flight and the window of   *)
(* the receiver fit together, for every window size.                       *)
THEOREM AmInvariance ==
  WholeGrants /\ ChannelsInOrder /\ SenderHasBuffers /\ Safety => []AmInv
<1> SUFFICES ASSUME WholeGrants, ChannelsInOrder, SenderHasBuffers PROVE Safety => []AmInv
  OBVIOUS
<1>1. AmInv /\ [Next]_vars => AmInv'
  BY NextPreservesAm
<1> QED BY <1>1, InitAmInv, PTL DEF Safety

-----------------------------------------------------------------------------
(* What it says of the two ends                                            *)

(* The window has as many SDUs as the distance between its ends.           *)
LEMMA WindowSize ==
  ASSUME AmInv
  PROVE  Cardinality(Window) = tx_mod_base_nr(tx_next)
<1>1. /\ tx_next_ack \in SNs /\ tx_next \in SNs /\ AM_Window_Size \in Nat
      /\ mod_nr = 2 * AM_Window_Size
  BY TypesAssumption DEF AmInv, WholeTypes
<1> DEFINE k == tx_mod_base_nr(tx_next)
<1>2. k \in Nat /\ k <= AM_Window_Size /\ Window = {sn \in SNs : tx_mod_base_nr(sn) < k}
  BY <1>1, Distance DEF tx_mod_base_nr, AmInv, WindowOK
<1> HIDE DEF k
<1>3. k <= mod_nr
  BY <1>1, <1>2
<1>4. Cardinality({sn \in SNs : mod_base(sn, tx_next_ack) < k}) = k
  BY <1>1, <1>2, <1>3, WindowCardinality
<1> QED BY <1>2, <1>4 DEF tx_mod_base_nr, k

(* What the receiver has numbered lies within what the sender has sent.    *)
LEMMA AmInvAgrees ==
  ASSUME AmInv
  PROVE  WindowsAgree
<1> SUFFICES ASSUME tx_enabled
             PROVE  /\ tx_mod_base_nr(rx_next) <= tx_mod_base_nr(tx_next)
                    /\ tx_mod_base_nr(rx_next) <= tx_mod_base_nr(rx_next_highest)
                    /\ tx_mod_base_nr(rx_next_highest) <= Cardinality(Outstanding(tx_window))
  BY DEF WindowsAgree
<1> DEFINE dr == tx_mod_base_nr(rx_next)
           dn == tx_mod_base_nr(tx_next)
           dx == tx_mod_base_nr(rx_next_highest)
           dh == rx_mod_base_nr(rx_next_highest)
<1>1. /\ tx_next_ack \in SNs /\ tx_next \in SNs /\ rx_next \in SNs /\ rx_next_highest \in SNs
      /\ dh \in Nat
  BY ReceiverNumbers DEF AmInv, WholeTypes
<1>2. dr \in Nat /\ dn \in Nat /\ dx \in Nat /\ AM_Window_Size \in Nat \ {0} /\ mod_nr = 2 * AM_Window_Size
  BY <1>1, Distance, TypesAssumption DEF tx_mod_base_nr
<1>3. dh = IF dx >= dr THEN dx - dr ELSE dx - dr + mod_nr
  BY <1>1, Rebase DEF tx_mod_base_nr, rx_mod_base_nr
<1>4. dr + dh <= dn /\ dn <= AM_Window_Size
  BY DEF AmInv, LinkOK, WindowOK
<1>5. Cardinality(Outstanding(tx_window)) = dn
  BY WindowSize DEF Window
<1> HIDE DEF dr, dn, dx, dh
<1>6. dr <= dn /\ dr <= dx /\ dx <= dn
  BY <1>1, <1>2, <1>3, <1>4
<1> QED BY <1>5, <1>6 DEF dr, dn, dx

(* The invariant implies what the runs check of both ends together.        *)
LEMMA AmInvConsistent ==
  ASSUME AmInv
  PROVE  BearerConsistent
<1>1. WholeTypes /\ WindowOK /\ SdusOK /\ ReceiverOK
  BY DEF AmInv
<1>2. TypeOK
  <2>1. \A sn \in SNs : /\ tx_window[sn].sdu \in Sdus \cup {None}
                        /\ tx_window[sn].retx_count \in NOT_STARTED..(max_retx_thresh + 1)
    BY <1>1 DEF WholeTypes, WholeTxPdu
  <2>2. \A i \in DOMAIN retx_queue : retx_queue[i].sn \in SNs
    <3>1. \A i \in DOMAIN retx_queue : retx_queue[i] \in WholeRetx
      BY <1>1 DEF WholeTypes
    <3> QED BY <3>1 DEF WholeRetx, retx_sdu
  <2>3. \A i \in DOMAIN tx_sdu_queue : tx_sdu_queue[i] \in Sdus \cup {None}
    BY <1>1 DEF WholeTypes
  <2>4. \A i \in DOMAIN data_ch : data_ch[i] \in DataPdu
    <3>1. \A i \in DOMAIN data_ch : data_ch[i] \in WholePdu
      BY <1>1 DEF WholeTypes
    <3> QED BY <3>1 DEF WholePdu
  <2>5. \A i \in DOMAIN status_ch : status_ch[i].ack_sn \in SNs
    <3>1. \A i \in DOMAIN status_ch : status_ch[i] \in Report
      BY <1>1 DEF WholeTypes
    <3> QED BY <3>1 DEF Report
  <2>6. RxTypeOK
    BY <1>1 DEF ReceiverOK, RxInv
  <2>7. written \cup discarded \cup failed \subseteq Sdus
    BY <1>1 DEF WholeTypes
  <2>8. /\ tx_next_ack \in SNs /\ tx_next \in SNs /\ poll_sn \in SNs
        /\ pdu_without_poll \in 0..PollPdu /\ byte_without_poll \in 0..PollByte
        /\ sdu_under_segmentation_sn \in SNs \cup {None}
        /\ poll_retransmit_timer \in BOOLEAN /\ poll_expired \in BOOLEAN /\ tx_enabled \in BOOLEAN
    BY <1>1 DEF WholeTypes
  <2> QED BY <2>1, <2>2, <2>3, <2>4, <2>5, <2>6, <2>7, <2>8 DEF TypeOK
<1>3. TxWindowContiguous
  <2>1. sdu_under_segmentation_sn = None /\ tx_window[tx_next].sdu \in Sdus \cup {None}
    BY <1>1 DEF WholeTypes, WholeTxPdu
  <2>2. tx_window[tx_next].sdu # Corrupt
    BY <2>1, TypesAssumption DEF Corrupt, None
  <2> QED BY <1>1, <2>1, <2>2 DEF TxWindowContiguous, WindowOK, Window
<1>4. NoSduForgotten
  <2>1. WindowSdus \subseteq {tx_window[sn].sdu : sn \in SNs}
    BY DEF WindowSdus, Window, Outstanding
  <2> QED BY <1>1, <2>1 DEF NoSduForgotten, SdusOK, Queued, Delivered
<1>5. ExactlyOnce
  <2>1. Corrupt \notin Elems(delivered)
    <3>1. Corrupt \notin Sdus
      BY TypesAssumption DEF Corrupt
    <3>2. Delivered \subseteq Sdus
      BY <1>1 DEF SdusOK, WholeTypes, Live
    <3> QED BY <3>1, <3>2 DEF Delivered
  <2> QED BY <1>1, <2>1 DEF ExactlyOnce, DeliveredOnce, AckedWereDelivered, SdusOK, Delivered, Notified
<1>6. RxAssertionsHold
  BY <1>1 DEF RxAssertionsHold, StateAssertionsHold, ReceiverOK
<1> QED BY <1>2, <1>3, <1>4, <1>5, <1>6, AmInvAgrees DEF BearerConsistent

(* With grants that hold an SDU, channels that keep the order and a sender *)
(* that finds buffers, the two ends of rlc_am_nr fit together              *)
(* (BearerConsistent), for every window size and whatever is lost,         *)
(* discarded, retransmitted or re-established, or finds no buffer at the   *)
(* receiver.                                                               *)
THEOREM BearerAlwaysConsistent ==
  WholeGrants /\ ChannelsInOrder /\ SenderHasBuffers /\ Safety => []BearerConsistent
<1>1. AmInv => BearerConsistent
  BY AmInvConsistent
<1> QED BY <1>1, AmInvariance, PTL

(* Under the same conditions every SDU reaches the PDCP of the peer at     *)
(* most once and whole, and the own PDCP is told of it once and not before.*)
THEOREM DeliveredExactlyOnce ==
  WholeGrants /\ ChannelsInOrder /\ SenderHasBuffers /\ Safety => []ExactlyOnce
<1>1. AmInv => ExactlyOnce
  BY AmInvConsistent DEF BearerConsistent
<1> QED BY <1>1, AmInvariance, PTL

-----------------------------------------------------------------------------
(* The bearer keeps what Bearer promises                                   *)

(* An SDU of a sequence without repetitions is there once.                 *)
LEMMA OnceIn ==
  ASSUME NEW s, Distinct(s), NEW sdu
  PROVE  Cardinality({i \in DOMAIN s : s[i] = sdu}) = IF sdu \in Elems(s) THEN 1 ELSE 0
<1> DEFINE at == {i \in DOMAIN s : s[i] = sdu}
<1>1. CASE sdu \in Elems(s)
  <2>1. PICK i \in DOMAIN s : s[i] = sdu
    BY <1>1 DEF Elems
  <2>2. at = {i}
    BY <2>1 DEF Distinct
  <2> QED BY <1>1, <2>2, FS_Singleton
<1>2. CASE sdu \notin Elems(s)
  <2>1. at = {}
    BY <1>2 DEF Elems
  <2> QED BY <1>2, <2>1, FS_EmptySet
<1> QED BY <1>1, <1>2

(* Nothing has been handed over at first.                                  *)
LEMMA PromisedInit == Init => Promised!BearerInit
<1> SUFFICES ASSUME Init PROVE Promised!BearerInit
  OBVIOUS
<1>1. written = {} /\ discarded = {} /\ notified = <<>> /\ delivered = <<>>
  BY DEF Init, TxInit
<1>2. Elems(notified) = {} /\ Elems(delivered) = {} /\ Distinct(delivered)
  BY <1>1 DEF Elems, Distinct
<1>3. \A sdu \in Sdus : Occurrences(sdu) = 0
  BY <1>2, OnceIn DEF Occurrences
<1> QED BY <1>1, <1>2, <1>3 DEF Promised!BearerInit

(* A step the PDCPs may see is one of Bearer, or none.                     *)
LEMMA PromisedNext ==
  ASSUME AmInv, AmInv', PdcpStep
  PROVE  [Promised!BearerNext]_Promised!bearerVars
<1> DEFINE handed == [sdu \in Sdus |-> Occurrences(sdu)]
<1>1. /\ handed = [sdu \in Sdus |-> IF sdu \in Delivered THEN 1 ELSE 0]
      /\ handed' = [sdu \in Sdus |-> IF sdu \in Delivered' THEN 1 ELSE 0]
  <2>1. Distinct(delivered) /\ Distinct(delivered')
    BY DEF AmInv, SdusOK, Distinct
  <2>2. \A sdu \in Sdus : Occurrences(sdu) = IF sdu \in Delivered THEN 1 ELSE 0
    BY <2>1, OnceIn DEF Occurrences, Delivered
  <2>3. \A sdu \in Sdus : Occurrences(sdu)' = IF sdu \in Delivered' THEN 1 ELSE 0
    BY <2>1, OnceIn DEF Occurrences, Delivered, Elems
  <2> QED BY <2>2, <2>3
<1>2. /\ Delivered \subseteq Live /\ Live \subseteq Sdus
      /\ Notified' \subseteq Delivered'
      /\ delivered \in Seq(Sdus)
  BY DEF AmInv, SdusOK, WholeTypes, Live
<1>3. /\ {sdu \in Sdus : handed[sdu] > 0} = Delivered
      /\ Live \ Delivered = written \ (discarded \cup Delivered)
  <2>1. \A sdu \in Sdus : handed[sdu] > 0 <=> sdu \in Delivered
    BY <1>1
  <2> QED BY <1>2, <2>1 DEF Live
<1>4. Promised!GivenToPeer = Delivered /\ Promised!Pending = Live \ Delivered
  BY <1>3 DEF Promised!GivenToPeer, Promised!Pending
<1>5. CASE UNCHANGED <<written, discarded, delivered, notified>>
  <2>1. Elems(notified)' = Elems(notified) /\ Delivered' = Delivered
    BY <1>5 DEF Elems, Delivered
  <2> QED BY <1>1, <1>5, <2>1 DEF Promised!bearerVars
<1>6. ASSUME NEW sdu \in Sdus \ written, written' = written \cup {sdu},
             UNCHANGED <<discarded, delivered, notified>>
      PROVE  Promised!BearerNext
  <2>1. Elems(notified)' = Elems(notified) /\ Delivered' = Delivered
    BY <1>6 DEF Elems, Delivered
  <2> QED BY <1>1, <1>6, <2>1 DEF Promised!BearerNext, Promised!Take
<1>7. ASSUME NEW sdu \in Live \ Delivered, discarded' = discarded \cup {sdu},
             UNCHANGED <<written, delivered, notified>>
      PROVE  Promised!BearerNext
  <2>1. Elems(notified)' = Elems(notified) /\ Delivered' = Delivered
    BY <1>7 DEF Elems, Delivered
  <2>2. Promised!GiveUp(sdu)
    BY <1>1, <1>4, <1>7, <2>1 DEF Promised!GiveUp
  <2> QED BY <1>2, <2>2 DEF Promised!BearerNext
<1>8. ASSUME NEW sdu \in Live \ Delivered, delivered' = Append(delivered, sdu),
             UNCHANGED <<written, discarded, notified>>
      PROVE  Promised!BearerNext
  <2>1. Delivered' = Delivered \cup {sdu}
    <3> DEFINE longer == Append(delivered, sdu)
    <3>0. /\ DOMAIN delivered = 1..Len(delivered) /\ Len(delivered) \in Nat
          /\ DOMAIN longer = 1..(Len(delivered) + 1)
          /\ \A i \in 1..Len(delivered) : longer[i] = delivered[i]
          /\ longer[Len(delivered) + 1] = sdu
      BY <1>2, AppendProperties
    <3> HIDE DEF longer
    <3>1. Elems(longer) = Elems(delivered) \cup {sdu}
      <4>1. \A i \in DOMAIN longer : i \in DOMAIN delivered \/ i = Len(delivered) + 1
        BY <3>0
      <4>2. DOMAIN delivered \subseteq DOMAIN longer /\ Len(delivered) + 1 \in DOMAIN longer
        BY <3>0
      <4> QED BY <3>0, <4>1, <4>2 DEF Elems
    <3> QED BY <1>8, <3>1 DEF Delivered, Elems, longer
  <2>2. Elems(notified)' = Elems(notified)
    BY <1>8 DEF Elems
  <2>3. handed' = [handed EXCEPT ![sdu] = @ + 1]
    BY <1>1, <1>2, <2>1
  <2>4. Promised!HandOver(sdu)
    BY <1>4, <1>8, <2>2, <2>3 DEF Promised!HandOver
  <2> QED BY <1>2, <2>4 DEF Promised!BearerNext
<1>9. CASE UNCHANGED <<written, discarded, delivered>> /\ Notified \subseteq Notified'
  <2> DEFINE told == Elems(notified)' \ Elems(notified)
  <2>1. Delivered' = Delivered
    BY <1>9 DEF Elems, Delivered
  <2>2. /\ Elems(notified)' = Elems(notified) \cup told
        /\ told \subseteq Delivered \ Elems(notified)
    BY <1>2, <1>9, <2>1 DEF Notified
  <2>3. CASE told = {}
    BY <1>1, <1>9, <2>1, <2>2, <2>3 DEF Promised!bearerVars
  <2>4. CASE told # {}
    <3>1. handed' = handed
      BY <1>1, <2>1
    <3> HIDE DEF told
    <3>2. Promised!Acknowledge(told)
      BY <1>4, <1>9, <2>2, <2>4, <3>1 DEF Promised!Acknowledge
    <3> QED BY <1>4, <2>2, <3>2 DEF Promised!BearerNext
  <2> QED BY <2>3, <2>4
<1> QED BY <1>5, <1>6, <1>7, <1>8, <1>9 DEF PdcpStep

(* The two ends of rlc_am_nr implement what an acknowledged bearer         *)
(* promises (Bearer) under the same conditions: whatever is lost,          *)
(* retransmitted, discarded or re-established, an SDU is handed over at    *)
(* most once, never after it was taken back, and acknowledged only after   *)
(* it was handed over.                                                     *)
THEOREM BearerImplemented ==
  WholeGrants /\ ChannelsInOrder /\ SenderHasBuffers /\ Safety => ImplementsBearer
<1> SUFFICES ASSUME WholeGrants, ChannelsInOrder, SenderHasBuffers
             PROVE  Safety => ImplementsBearer
  OBVIOUS
<1>1. AmInv /\ [Next]_vars => AmInv' /\ [Promised!BearerNext]_Promised!bearerVars
  BY NextPreservesAm, PromisedNext
<1> QED BY <1>1, InitAmInv, PromisedInit, PTL DEF Safety, ImplementsBearer, Promised!BearerSpec
=============================================================================
