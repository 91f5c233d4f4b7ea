------------------------ MODULE PdcpNrBearer_proofs ------------------------
(***************************************************************************)
(* Two pdcp_entity_nr over any bearer that keeps the promises of Bearer,   *)
(* for every length of the SN and of the HFN, every configuration and any  *)
(* number of SDUs: no COUNT is used twice and the receiver delivers in the *)
(* order of the COUNTs it works out, whatever arrives; and until the       *)
(* sender has got half the space of the SNs ahead, these are the COUNTs of *)
(* the sender, and the receiver passes up all it gets.                     *)
(***************************************************************************)
EXTENDS PdcpNrBearer, WellFoundedInduction, TLAPS

-----------------------------------------------------------------------------
(* COUNTs                                                                  *)

(* The constants as numbers.                                               *)
LEMMA Constants ==
  /\ SnMod \in Nat \ {0} /\ HfnMod \in Nat \ {0} /\ CountMod \in Nat \ {0}
  /\ window_size \in Nat \ {0} /\ SnMod = 2 * window_size
  /\ Sdus = Counts /\ Counts = 0..(CountMod - 1)
<1>1. SnMod \in Nat \ {0} /\ HfnMod \in Nat \ {0} /\ window_size \in Nat /\ SnMod = 2 * window_size
  BY PdcpAssumption DEF window_size
<1>2. SnMod * HfnMod \in Nat \ {0} BY <1>1
<1> QED BY <1>1, <1>2, BearerAssumption DEF CountMod, Counts

(* A number and its parts with respect to the length of the SN.            *)
LEMMA DivMod ==
  ASSUME NEW m \in Nat \ {0}, NEW a \in Nat
  PROVE  a \div m \in Nat /\ a % m \in 0..(m - 1) /\ a = (a \div m) * m + (a % m)
OBVIOUS

(* The quotient of a number below a product.                               *)
LEMMA DivBelow ==
  ASSUME NEW m \in Nat \ {0}, NEW n \in Nat \ {0}, NEW a \in 0..(m * n - 1)
  PROVE  a \div m < n
OBVIOUS

(* The remainder of a number at most one modulus too large.                *)
LEMMA SmallMod ==
  ASSUME NEW m \in Nat \ {0}, NEW a \in 0..(m - 1)
  PROVE  a % m = a /\ (a + m) % m = a
OBVIOUS

(* A COUNT is its HFN and its SN.                                          *)
LEMMA CountParts ==
  ASSUME NEW c \in Counts
  PROVE  /\ HFN(c) \in 0..(HfnMod - 1) /\ SN(c) \in 0..(SnMod - 1)
         /\ c = HFN(c) * SnMod + SN(c)
<1>1. c \in Nat /\ c < SnMod * HfnMod BY Constants DEF CountMod
<1>2. HFN(c) \in Nat /\ SN(c) \in 0..(SnMod - 1) /\ c = HFN(c) * SnMod + SN(c)
  BY <1>1, Constants, DivMod DEF HFN, SN
<1>3. HFN(c) < HfnMod BY Constants, DivBelow DEF HFN, CountMod
<1> QED BY <1>2, <1>3, Constants

(* The receiver works out the COUNT of every SN it may get: one less than  *)
(* a window ahead of RX_DELIV, at most a window behind it.                 *)
LEMMA CountRecovered ==
  ASSUME rx_deliv \in Counts, NEW c \in Counts,
         c < rx_deliv + window_size, rx_deliv <= c + window_size
  PROVE  rcvd_count(SN(c)) = c
<1> DEFINE h == HFN(c)  s == SN(c)  H == HFN(rx_deliv)  S == SN(rx_deliv)
<1>1. /\ h \in 0..(HfnMod - 1) /\ s \in 0..(SnMod - 1) /\ c = h * SnMod + s
      /\ H \in 0..(HfnMod - 1) /\ S \in 0..(SnMod - 1) /\ rx_deliv = H * SnMod + S
  BY CountParts
<1> HIDE DEF h, s, H, S
<1>2. h - H \in {-1, 0, 1}
  <2>1. (h - H) * SnMod < window_size + SnMod /\ -(window_size + SnMod) < (h - H) * SnMod
    BY <1>1, Constants
  <2>2. window_size < SnMod BY Constants
  <2>3. (h - H) * SnMod < 2 * SnMod /\ (-2) * SnMod < (h - H) * SnMod
    <3> DEFINE x == (h - H) * SnMod
    <3>1. x \in Int BY <1>1, Constants
    <3> HIDE DEF x
    <3> QED BY <2>1, <2>2, <3>1, Constants DEF x
  <2>4. h - H < 2 /\ -2 < h - H
    BY <1>1, <2>3, Constants
  <2> QED BY <1>1, <2>4, Constants
<1>3. CASE h = H
  <2>1. s < S + window_size /\ S <= s + window_size
    BY <1>1, <1>3, Constants
  <2>2. rcvd_hfn(s) = H
    BY <2>1, <1>1, Constants DEF rcvd_hfn, S, H
  <2>3. H % HfnMod = H BY <1>1, Constants, SmallMod
  <2> QED BY <1>1, <1>3, <2>2, <2>3 DEF rcvd_count, COUNT, s
<1>4. CASE h = H + 1
  <2>0. c = H * SnMod + SnMod + s BY <1>1, <1>4, Constants
  <2>1. s + window_size < S
    <3> DEFINE x == H * SnMod
    <3>1. x \in Int /\ c = x + SnMod + s /\ rx_deliv = x + S BY <1>1, <2>0, Constants
    <3> HIDE DEF x
    <3> QED BY <3>1, <1>1, Constants
  <2>2. rcvd_hfn(s) = h
    BY <2>1, <1>1, <1>4, Constants DEF rcvd_hfn, S, H
  <2>3. h % HfnMod = h BY <1>1, Constants, SmallMod
  <2> QED BY <1>1, <2>2, <2>3 DEF rcvd_count, COUNT, s
<1>5. CASE h = H - 1
  <2>0. rx_deliv = h * SnMod + SnMod + S BY <1>1, <1>5, Constants
  <2>1. s >= S + window_size
    <3> DEFINE x == h * SnMod
    <3>1. x \in Int /\ c = x + s /\ rx_deliv = x + SnMod + S BY <1>1, <2>0, Constants
    <3> HIDE DEF x
    <3> QED BY <3>1, <1>1, Constants
  <2>2. ~(s + window_size < S) BY <2>1, <1>1, Constants
  <2>3. rcvd_hfn(s) = H + HfnMod - 1
    BY <2>1, <2>2 DEF rcvd_hfn, S, H
  <2>4. rcvd_hfn(s) = h + HfnMod BY <2>3, <1>1, <1>5, Constants
  <2>5. (h + HfnMod) % HfnMod = h BY <1>1, Constants, SmallMod
  <2> QED BY <1>1, <2>4, <2>5 DEF rcvd_count, COUNT, s
<1> QED BY <1>1, <1>2, <1>3, <1>4, <1>5, Constants

-----------------------------------------------------------------------------
(* Delivery of consecutive COUNTs                                          *)

(* A set of naturals that is not empty has a least element.                *)
LEMMA LeastOf ==
  ASSUME NEW S \in SUBSET Nat, S # {}
  PROVE  \E x \in S : \A y \in S : x <= y
<1> DEFINE Less == OpToRel(<, Nat)
<1>1. \A m, n \in Nat : <<n, m>> \in Less <=> n < m
  <2>1. Less = {p \in Nat \X Nat : p[1] < p[2]} BY DEF OpToRel
  <2> HIDE DEF Less
  <2> QED BY <2>1
<1>2. PICK x \in S : \A y \in S : ~(<<y, x>> \in Less)
  <2>1. IsWellFoundedOn(Less, Nat) BY NatLessThanWellFounded, Zenon
  <2> HIDE DEF Less
  <2> QED BY <2>1, WFMin, Zenon
<1> SUFFICES ASSUME NEW y \in S PROVE x <= y BY <1>2
<1>3. x \in Nat /\ y \in Nat OBVIOUS
<1>4. ~(y < x)
  <2> HIDE DEF Less
  <2> QED BY <1>1, <1>2, <1>3, Zenon
<1> QED BY <1>3, <1>4

(* end_of_run() is the first COUNT from deliv on that is not held.         *)
LEMMA EndOfRun ==
  ASSUME NEW queue, NEW deliv \in 0..CountMod, CountMod \notin held(queue),
         NEW e, e = end_of_run(queue, deliv)
  PROVE  /\ e \in deliv..CountMod /\ e \notin held(queue)
         /\ \A c \in deliv..(e - 1) : c \in held(queue)
<1> DEFINE Missing == {x \in deliv..CountMod : x \notin held(queue)}
           IsEnd(x) == /\ \A c \in deliv..(x - 1) : c \in held(queue)
                       /\ x \notin held(queue)
<1>1. Missing \in SUBSET Nat /\ CountMod \in Missing BY Constants
<1>2. PICK x \in Missing : \A y \in Missing : x <= y BY <1>1, LeastOf
<1>3. IsEnd(x)
  <2> SUFFICES ASSUME NEW c \in deliv..(x - 1), c \notin held(queue) PROVE FALSE
    BY <1>2
  <2>1. c \in Missing /\ c < x BY <1>1, <1>2, Constants
  <2> QED BY <1>1, <1>2, <2>1
<1>4. \E y \in deliv..CountMod : IsEnd(y) BY <1>2, <1>3
<1>5. e = CHOOSE y \in deliv..CountMod : IsEnd(y) BY DEF end_of_run
<1> HIDE DEF IsEnd
<1>6. e \in deliv..CountMod /\ IsEnd(e) BY <1>4, <1>5
<1> QED BY <1>6 DEF IsEnd

(* What deliver_from() passes up, keeps, and makes of RX_DELIV.            *)
LEMMA DeliverFrom ==
  ASSUME NEW queue \in SUBSET Entry, NEW deliv \in 0..CountMod, deliver_from(queue, deliv)
  PROVE  \E e \in deliv..CountMod :
           /\ e \notin held(queue) /\ (e > deliv => e - 1 \in held(queue))
           /\ upper' = below(queue, e) /\ reorder_queue' = queue \ below(queue, e)
           /\ rx_overflow' = (e = CountMod)
           /\ rx_deliv' = (IF e = CountMod THEN 0 ELSE e) /\ rx_deliv' \in Counts
           /\ \A c \in held(reorder_queue') : c \in held(queue) /\ e < c
           /\ \A c \in held(queue) : e <= c => c \in held(reorder_queue')
           /\ e = CountMod => reorder_queue' = {}
<1> DEFINE e == end_of_run(queue, deliv)
<1>1. \A c \in held(queue) : c \in Counts BY DEF held, Entry
<1>2. CountMod \notin held(queue) BY <1>1, Constants
<1>3. /\ e \in deliv..CountMod /\ e \notin held(queue)
      /\ \A c \in deliv..(e - 1) : c \in held(queue)
  BY <1>2, EndOfRun
<1>4. /\ upper' = below(queue, e) /\ reorder_queue' = queue \ below(queue, e)
      /\ rx_deliv' = e % CountMod /\ rx_overflow' = (e = CountMod)
  BY DEF deliver_from
<1> HIDE DEF e
<1>5. e > deliv => e - 1 \in held(queue) BY <1>3, Constants
<1>6. rx_deliv' = (IF e = CountMod THEN 0 ELSE e) /\ rx_deliv' \in Counts
  <2>1. CASE e = CountMod
    <3>1. CountMod % CountMod = 0 BY Constants
    <3> QED BY <2>1, <3>1, <1>4, Constants
  <2>2. CASE e # CountMod
    <3>1. e \in 0..(CountMod - 1) BY <1>3, <2>2, Constants
    <3> QED BY <3>1, <2>2, <1>4, Constants, SmallMod
  <2> QED BY <2>1, <2>2
<1>7. \A c \in held(reorder_queue') : c \in held(queue) /\ e < c
  <2> SUFFICES ASSUME NEW x \in reorder_queue' PROVE x.count \in held(queue) /\ e < x.count
    BY DEF held
  <2>1. x \in queue /\ ~(x.count < e) BY <1>4 DEF below
  <2>2. x.count \in held(queue) BY <2>1 DEF held
  <2>3. x.count \in Nat /\ e \in Nat /\ x.count # e BY <1>1, <1>3, <2>2, Constants
  <2> QED BY <2>1, <2>2, <2>3
<1>8. \A c \in held(queue) : e <= c => c \in held(reorder_queue')
  <2> SUFFICES ASSUME NEW x \in queue, e <= x.count PROVE x \in reorder_queue'
    BY DEF held
  <2>1. x.count \in Nat /\ e \in Nat BY <1>1, <1>3, Constants DEF held
  <2> QED BY <1>4, <2>1 DEF below
<1>9. e = CountMod => reorder_queue' = {}
  <2>1. \A x \in queue : x.count \in Counts BY DEF Entry
  <2> QED BY <2>1, <1>4, Constants DEF below
<1> QED BY <1>3, <1>4, <1>5, <1>6, <1>7, <1>8, <1>9

-----------------------------------------------------------------------------
(* The inductive invariant                                                 *)

(* The number of COUNTs used so far                                        *)
TxCount == IF tx_overflow THEN CountMod ELSE tx_next

(* The sender and its bearer: the COUNTs before TX_NEXT have been written, *)
(* each once, and what was handed over is neither discarded nor new.       *)
BearerInv ==
  /\ cfg \in Config
  /\ tx_next \in Counts /\ tx_overflow \in BOOLEAN
  /\ written = 0..(TxCount - 1)
  /\ discarded \subseteq written
  /\ handed \in [Sdus -> {0, 1}]
  /\ GivenToPeer \subseteq written \ discarded
  /\ acked \subseteq GivenToPeer
  /\ sent = [c \in Sdus |-> IF c \in written THEN 1 ELSE 0]
  /\ DiscardTimersMatch /\ out_of_reach \in BOOLEAN

ReceiverType ==
  /\ rx_next \in Counts /\ rx_deliv \in Counts /\ rx_reord \in Counts
  /\ rx_overflow \in BOOLEAN /\ reordering_timer \in BOOLEAN
  /\ reorder_queue \subseteq Entry /\ upper \subseteq Entry

(* What the receiver sees to by itself, whatever arrives.                  *)
ReceiverInv ==
  /\ reordering_timer => rx_deliv < rx_reord
  /\ rx_overflow => reorder_queue = {}
  /\ ~rx_overflow => \A c \in held(reorder_queue) : rx_deliv < c

(* The receiver behind the sender: it has not got past what was written,   *)
(* what it holds was handed over and what was handed over from RX_DELIV on *)
(* it holds, and nothing that may still come is out of its window.         *)
LinkedInv ==
  /\ CountsAgree
  /\ rx_next <= TxCount /\ rx_reord <= TxCount
  /\ ~rx_overflow =>
       /\ rx_deliv <= TxCount
       /\ \A c \in held(reorder_queue) : handed[c] > 0
       /\ \A c \in GivenToPeer : rx_deliv <= c => c \in held(reorder_queue)
       /\ \A c \in outstanding : TxCount <= c + window_size

PInv == /\ BearerInv /\ ReceiverType /\ ReceiverInv /\ WindowTimed
        /\ ~out_of_reach => LinkedInv

(* What a step may do, as DeliveredInOrder and NothingLost have it         *)
InOrderStep ==
  /\ rx_deliv <= rx_deliv' \/ rx_overflow'
  /\ \A e \in upper' : rx_deliv <= e.count /\ (e.count < rx_deliv' \/ rx_overflow')
KeepsAllStep ==
  ~out_of_reach /\ ~rx_overflow =>
    {c \in GivenToPeer' : c >= rx_deliv} \subseteq {e.count : e \in reorder_queue' \cup upper'}

Goal == PInv' /\ InOrderStep /\ KeepsAllStep

(* How far next_count() counts.                                            *)
LEMMA NextCount ==
  ASSUME NEW c \in Counts
  PROVE  next_count(c) = (IF c + 1 = CountMod THEN 0 ELSE c + 1) /\ next_count(c) \in Counts
<1>1. CASE c + 1 = CountMod
  <2>1. CountMod % CountMod = 0 BY Constants
  <2> QED BY <1>1, <2>1, Constants DEF next_count
<1>2. CASE c + 1 # CountMod
  <2>1. c + 1 \in 0..(CountMod - 1) BY <1>2, Constants
  <2> QED BY <1>2, <2>1, Constants, SmallMod DEF next_count
<1> QED BY <1>1, <1>2

(* The sender's count as a number.                                         *)
LEMMA TxCountType ==
  ASSUME BearerInv
  PROVE  TxCount \in 0..CountMod /\ (tx_overflow \/ TxCount = tx_next)
BY Constants DEF BearerInv, TxCount

(* Both ends start with nothing outstanding.                               *)
LEMMA InitPInv == Init => PInv
<1> SUFFICES ASSUME Init PROVE PInv OBVIOUS
<1> USE DEF Init, PdcpInit, PdcpTxInit, PdcpRxInit
<1>1. StartCount \in Nat /\ StartCount < CountMod /\ TxCount = StartCount
  BY PdcpAssumption, Constants DEF TxCount
<1>2. GivenToPeer = written
  <2>1. \A c \in Sdus : handed[c] > 0 <=> c < StartCount BY <1>1
  <2> QED BY <1>1, <2>1, Constants DEF GivenToPeer
<1>3. BearerInv
  <2>1. cfg \in Config /\ tx_next \in Counts /\ tx_overflow \in BOOLEAN
    BY PdcpAssumption
  <2>2. sent = [c \in Sdus |-> IF c \in written THEN 1 ELSE 0]
    <3>1. \A c \in Sdus : c < StartCount <=> c \in written BY <1>1, Constants
    <3> QED BY <3>1
  <2>3. handed \in [Sdus -> {0, 1}] /\ acked \subseteq written BY <1>1
  <2> QED BY <1>1, <1>2, <2>1, <2>2, <2>3 DEF BearerInv, DiscardTimersMatch
<1>4. ReceiverType /\ CountsAgree
  <2>1. StartCount \in Counts /\ 0 \in Counts BY <1>1, Constants
  <2>2. ReceiverType BY <2>1 DEF ReceiverType
  <2>3. CountsAgree BY DEF CountsAgree
  <2> QED BY <2>2, <2>3
<1>5. held(reorder_queue) = {} BY DEF held
<1>6. outstanding \subseteq {rx_deliv}
  BY <1>2 DEF outstanding, Pending
<1>7. ReceiverInv BY <1>5 DEF ReceiverInv
<1>8. LinkedInv
  <2>1. \A c \in GivenToPeer : ~(rx_deliv <= c) BY <1>1, <1>2
  <2> QED BY <1>1, <1>4, <1>5, <1>6, <2>1, Constants DEF LinkedInv
<1>9. WindowTimed BY <1>1, <1>5 DEF WindowTimed
<1> QED BY <1>3, <1>4, <1>7, <1>8, <1>9 DEF PInv

(* A step that does not reach the receiver keeps what it knows when all    *)
(* that is then outstanding is in reach.                                   *)
LEMMA ReceiverIdle ==
  ASSUME PInv, receiver_idle, BearerInv', UNCHANGED handed, TxCount <= TxCount',
         out_of_reach => out_of_reach',
         ~out_of_reach' /\ ~rx_overflow => \A c \in outstanding' : TxCount' <= c + window_size
  PROVE  Goal
<1> USE DEF receiver_idle, rxState, PInv
<1>1. GivenToPeer' = GivenToPeer BY DEF GivenToPeer
<1>2. held(reorder_queue)' = held(reorder_queue) BY DEF held
<1>3. ReceiverType' BY DEF ReceiverType
<1>4. ReceiverInv' BY <1>2 DEF ReceiverInv
<1>5. ASSUME ~out_of_reach' PROVE LinkedInv'
  <2>0. LinkedInv BY <1>5
  <2>1. TxCount \in Nat /\ TxCount' \in Nat BY TxCountType, Constants DEF BearerInv, TxCount
  <2>2. rx_next \in Nat /\ rx_reord \in Nat /\ rx_deliv \in Nat BY Constants DEF ReceiverType
  <2>3. CountsAgree' BY <2>0 DEF LinkedInv, CountsAgree
  <2> QED BY <1>1, <1>2, <1>5, <2>0, <2>1, <2>2, <2>3 DEF LinkedInv
<1>6. WindowTimed' BY <1>2 DEF WindowTimed
<1>7. InOrderStep
  <2>1. rx_deliv \in Nat BY Constants DEF ReceiverType
  <2> QED BY <2>1 DEF InOrderStep
<1>8. KeepsAllStep
  <2>1. \A c \in GivenToPeer : c >= rx_deliv /\ ~rx_overflow /\ ~out_of_reach => c \in held(reorder_queue)
    <3>1. \A c \in GivenToPeer : c \in Nat BY Constants DEF GivenToPeer
    <3>2. rx_deliv \in Nat BY Constants DEF ReceiverType
    <3> QED BY <3>1, <3>2 DEF LinkedInv
  <2> QED BY <1>1, <2>1 DEF KeepsAllStep, held
<1> QED BY <1>3, <1>4, <1>5, <1>6, <1>7, <1>8 DEF Goal

(* A written SDU takes the next COUNT, which no other SDU has.             *)
LEMMA WritePInv == PInv /\ Write => Goal
<1> SUFFICES ASSUME PInv, Write PROVE Goal OBVIOUS
<1> USE DEF PInv, Write, write_sdu
<1>1. /\ tx_next \in Nat /\ tx_next < CountMod /\ ~tx_overflow /\ TxCount = tx_next
      /\ TxCount' = tx_next + 1 /\ tx_next' \in Counts /\ tx_overflow' \in BOOLEAN
  <2>1. tx_next \in Counts /\ ~tx_overflow BY DEF BearerInv
  <2>2. tx_next' = (IF tx_next + 1 = CountMod THEN 0 ELSE tx_next + 1) /\ tx_next' \in Counts
    BY <2>1, NextCount
  <2>3. tx_next + 1 = CountMod => TxCount' = tx_next + 1 BY DEF TxCount
  <2>4. tx_next + 1 # CountMod => TxCount' = tx_next + 1 BY <2>2 DEF TxCount
  <2>5. TxCount = tx_next BY <2>1 DEF TxCount
  <2> QED BY <2>1, <2>2, <2>3, <2>4, <2>5, Constants
<1>2. written = 0..(tx_next - 1) /\ written' = 0..tx_next /\ tx_next \notin written
  BY <1>1 DEF BearerInv
<1>3. GivenToPeer' = GivenToPeer BY DEF GivenToPeer
<1>4. cfg' = cfg BY DEF receiver_idle
<1>5. BearerInv'
  <2>1. written' = 0..(TxCount' - 1) BY <1>1, <1>2
  <2>2. sent' = [c \in Sdus |-> IF c \in written' THEN 1 ELSE 0]
    BY <1>2 DEF BearerInv
  <2>3. DiscardTimersMatch'
    BY <1>2, <1>4 DEF BearerInv, DiscardTimersMatch, with_discard_timer
  <2> QED BY <1>1, <1>2, <1>3, <1>4, <2>1, <2>2, <2>3 DEF BearerInv
<1>6. ASSUME ~out_of_reach', ~rx_overflow, NEW c \in outstanding'
      PROVE  TxCount' <= c + window_size
  <2>1. rx_deliv' = rx_deliv BY DEF receiver_idle, rxState
  <2>2. c \in outstanding \/ c = tx_next
    BY <1>3, <1>4, <2>1 DEF outstanding, Pending
  <2>3. c \in outstanding => tx_next < c + window_size BY <1>6 DEF within_reach
  <2>4. c \in Nat
    BY <2>2, <1>1, Constants DEF outstanding, Pending, GivenToPeer, BearerInv, ReceiverType
  <2> QED BY <1>1, <2>2, <2>3, <2>4, Constants
<1>7. out_of_reach => out_of_reach' OBVIOUS
<1> QED BY <1>1, <1>5, <1>6, <1>7, ReceiverIdle

(* What the bearer gives up is no longer waited for.                       *)
LEMMA GiveUpPInv ==
  ASSUME PInv, NEW c \in Sdus, GiveUp(c), receiver_idle, UNCHANGED <<tx_next, tx_overflow, sent, out_of_reach>>,
         discard_timers' \subseteq discard_timers
  PROVE  Goal
<1> USE DEF PInv, GiveUp, receiver_idle
<1>1. GivenToPeer' = GivenToPeer /\ TxCount' = TxCount /\ TxCount \in Nat
  BY TxCountType, Constants DEF GivenToPeer, TxCount
<1>2. BearerInv' BY <1>1 DEF BearerInv, DiscardTimersMatch, Pending
<1>3. outstanding' \subseteq outstanding BY <1>1 DEF outstanding, Pending, rxState
<1>4. ~out_of_reach' /\ ~rx_overflow => \A x \in outstanding' : TxCount' <= x + window_size
  BY <1>1, <1>3 DEF LinkedInv
<1> QED BY <1>1, <1>2, <1>4, ReceiverIdle

(* A loss in unacknowledged mode.                                          *)
LEMMA LosePInv == ASSUME PInv, NEW c \in Sdus, Lose(c) PROVE Goal
BY GiveUpPInv DEF Lose, pdcpTxVars

(* The expiry of a discard timer, whether or not the RLC gives up the SDU. *)
LEMMA DiscardTimerPInv == ASSUME PInv, NEW c \in Sdus, DiscardTimer(c) PROVE Goal
<1>0. /\ UNCHANGED <<tx_next, tx_overflow, sent, out_of_reach>> /\ receiver_idle
      /\ discard_timers' \subseteq discard_timers
  BY DEF DiscardTimer, discard_callback
<1>1. CASE GiveUp(c) BY <1>0, <1>1, GiveUpPInv
<1>2. CASE UNCHANGED bearerVars
  <2> USE <1>0, <1>2 DEF PInv, bearerVars, receiver_idle
  <2>1. GivenToPeer' = GivenToPeer /\ TxCount' = TxCount /\ TxCount \in Nat
    BY TxCountType, Constants DEF GivenToPeer, TxCount
  <2>2. BearerInv' BY <2>1 DEF BearerInv, DiscardTimersMatch
  <2>3. outstanding' = outstanding BY <2>1 DEF outstanding, Pending, rxState
  <2> QED BY <2>1, <2>2, <2>3, ReceiverIdle DEF LinkedInv
<1> QED BY <1>1, <1>2 DEF DiscardTimer

(* The delivery of SDUs is reported.                                       *)
LEMMA NotifyPInv == ASSUME PInv, NEW cs, Notify(cs) PROVE Goal
<1> USE DEF PInv, Notify, Acknowledge, notify_delivery, receiver_idle
<1>1. GivenToPeer' = GivenToPeer /\ TxCount' = TxCount /\ TxCount \in Nat
  BY TxCountType, Constants DEF GivenToPeer, TxCount
<1>2. BearerInv' BY <1>1 DEF BearerInv, DiscardTimersMatch
<1>3. outstanding' \subseteq outstanding BY <1>1 DEF outstanding, Pending, rxState
<1>4. ~out_of_reach' /\ ~rx_overflow => \A x \in outstanding' : TxCount' <= x + window_size
  BY <1>1, <1>3 DEF LinkedInv
<1> QED BY <1>1, <1>2, <1>4, ReceiverIdle

(* Delivery from a COUNT no earlier than RX_DELIV, out of a queue that     *)
(* holds all that was handed over from RX_DELIV on: what goes up is in     *)
(* order, nothing is lost, and RX_DELIV moves to the first COUNT that is   *)
(* not held, or past the last COUNT of all.                                *)
LEMMA AfterDelivery ==
  ASSUME NEW queue \in SUBSET Entry, NEW deliv \in Counts, rx_deliv \in Counts,
         rx_deliv <= deliv, deliver_from(queue, deliv),
         \A x \in held(queue) : rx_deliv <= x,
         ~out_of_reach => \A x \in GivenToPeer' : rx_deliv <= x => x \in held(queue),
         GivenToPeer' \subseteq Counts
  PROVE  /\ InOrderStep /\ KeepsAllStep
         /\ reorder_queue' \subseteq queue /\ upper' \subseteq queue
         /\ rx_deliv' \in Counts /\ rx_overflow' \in BOOLEAN
         /\ rx_overflow' => reorder_queue' = {} /\ rx_deliv' = 0
         /\ ~rx_overflow' =>
              /\ deliv <= rx_deliv' /\ rx_deliv' \notin held(queue)
              /\ rx_deliv' > deliv => rx_deliv' - 1 \in held(queue)
              /\ \A x \in held(reorder_queue') : x \in held(queue) /\ rx_deliv' < x
              /\ \A x \in held(queue) : rx_deliv' <= x => x \in held(reorder_queue')
<1>1. deliv \in 0..CountMod /\ deliv \in Nat /\ rx_deliv \in Nat /\ CountMod \in Nat
  BY Constants
<1>2. PICK e \in deliv..CountMod :
           /\ e \notin held(queue) /\ (e > deliv => e - 1 \in held(queue))
           /\ upper' = below(queue, e) /\ reorder_queue' = queue \ below(queue, e)
           /\ rx_overflow' = (e = CountMod)
           /\ rx_deliv' = (IF e = CountMod THEN 0 ELSE e) /\ rx_deliv' \in Counts
           /\ \A c \in held(reorder_queue') : c \in held(queue) /\ e < c
           /\ \A c \in held(queue) : e <= c => c \in held(reorder_queue')
           /\ e = CountMod => reorder_queue' = {}
  BY <1>1, DeliverFrom
<1>3. InOrderStep
  <2>1. \A x \in upper' : x.count \in held(queue) /\ x.count < e
    BY <1>2 DEF below, held
  <2>2. CASE e = CountMod BY <1>2, <2>1, <2>2 DEF InOrderStep
  <2>3. CASE e # CountMod
    <3>1. rx_deliv' = e /\ rx_deliv <= e BY <1>1, <1>2, <2>3
    <3> QED BY <1>2, <2>1, <3>1 DEF InOrderStep
  <2> QED BY <2>2, <2>3
<1>4. KeepsAllStep
  <2>1. reorder_queue' \cup upper' = queue BY <1>2 DEF below
  <2>2. \A x \in GivenToPeer' : x >= rx_deliv => rx_deliv <= x BY <1>1, Constants
  <2> QED BY <2>1, <2>2 DEF KeepsAllStep, held
<1>5. reorder_queue' \subseteq queue /\ upper' \subseteq queue BY <1>2 DEF below
<1>6. rx_overflow' \in BOOLEAN BY <1>2
<1>7. rx_overflow' => reorder_queue' = {} /\ rx_deliv' = 0 BY <1>2
<1>8. ASSUME ~rx_overflow'
      PROVE  /\ deliv <= rx_deliv' /\ rx_deliv' \notin held(queue)
             /\ rx_deliv' > deliv => rx_deliv' - 1 \in held(queue)
             /\ \A x \in held(reorder_queue') : x \in held(queue) /\ rx_deliv' < x
             /\ \A x \in held(queue) : rx_deliv' <= x => x \in held(reorder_queue')
  <2>1. rx_deliv' = e BY <1>2, <1>8
  <2>2. deliv <= e BY <1>1
  <2> QED BY <1>2, <2>1, <2>2
<1> QED BY <1>2, <1>3, <1>4, <1>5, <1>6, <1>7, <1>8

(* What follows for the two ends from a delivery out of a queue that holds *)
(* what was handed over, when both are in reach of one another.            *)
LEMMA LinkedAfterDelivery ==
  ASSUME BearerInv, BearerInv', ReceiverType, LinkedInv, ~rx_overflow, TxCount' = TxCount,
         rx_deliv' \in Counts, NEW queue, NEW deliv \in Counts,
         rx_deliv <= deliv, deliv <= TxCount,
         CountsAgree',
         rx_next' <= TxCount, rx_reord' <= TxCount,
         GivenToPeer \subseteq GivenToPeer', Pending' \subseteq Pending,
         \A x \in held(queue) : x \in GivenToPeer',
         \A x \in GivenToPeer' : rx_deliv <= x => x \in held(queue),
         ~rx_overflow' =>
           /\ deliv <= rx_deliv' /\ (rx_deliv' > deliv => rx_deliv' - 1 \in held(queue))
           /\ \A x \in held(reorder_queue') : x \in held(queue)
           /\ \A x \in held(queue) : rx_deliv' <= x => x \in held(reorder_queue')
  PROVE  LinkedInv'
<1>1. /\ rx_deliv \in Nat /\ rx_deliv' \in Nat /\ deliv \in Nat /\ TxCount \in Nat
      /\ window_size \in Nat /\ GivenToPeer' \subseteq Counts
  BY TxCountType, Constants DEF ReceiverType, GivenToPeer
<1>2. \A x \in GivenToPeer' : x < TxCount /\ x \in Nat
  <2>1. written' = 0..(TxCount - 1) /\ GivenToPeer' \subseteq written' BY DEF BearerInv
  <2> QED BY <1>1, <2>1
<1>3. ASSUME ~rx_overflow' PROVE rx_deliv' <= TxCount
  <2>1. CASE rx_deliv' = deliv BY <2>1
  <2>2. CASE rx_deliv' # deliv
    <3>1. rx_deliv' - 1 \in held(queue) BY <1>1, <1>3, <2>2
    <3> QED BY <3>1, <1>1, <1>2
  <2> QED BY <2>1, <2>2
<1>4. ASSUME ~rx_overflow', NEW x \in outstanding' PROVE TxCount <= x + window_size
  <2>1. rx_deliv + window_size >= TxCount BY <1>1 DEF LinkedInv, outstanding
  <2>2. x \in outstanding \/ x = rx_deliv' BY DEF outstanding
  <2>3. x \in outstanding => TxCount <= x + window_size BY DEF LinkedInv
  <2>4. rx_deliv <= rx_deliv' BY <1>1, <1>4
  <2> QED BY <1>1, <2>1, <2>2, <2>3, <2>4
<1>5. ~rx_overflow' => \A x \in held(reorder_queue') : handed'[x] > 0
  BY DEF GivenToPeer
<1>6. ASSUME ~rx_overflow', NEW x \in GivenToPeer', rx_deliv' <= x PROVE x \in held(reorder_queue')
  <2>1. rx_deliv <= x BY <1>1, <1>2, <1>6
  <2> QED BY <1>6, <2>1
<1>7. held(reorder_queue)' = held(reorder_queue') BY DEF held
<1> QED BY <1>3, <1>4, <1>5, <1>6, <1>7 DEF LinkedInv

(* t-Reordering expires: RX_DELIV jumps to RX_REORD or beyond.             *)
LEMMA ReorderingPInv == PInv /\ Reordering => Goal
<1> SUFFICES ASSUME PInv, Reordering PROVE Goal OBVIOUS
<1> USE DEF PInv, Reordering, pdcpTxVars, bearerVars
<1>1. /\ GivenToPeer' = GivenToPeer /\ TxCount' = TxCount /\ TxCount \in 0..CountMod
      /\ GivenToPeer \subseteq Counts /\ TxCount \in Nat /\ Pending' = Pending
  BY TxCountType, Constants DEF GivenToPeer, TxCount, Pending
<1>2. BearerInv' BY <1>1 DEF BearerInv, DiscardTimersMatch
<1>3. /\ reordering_timer /\ UNCHANGED <<rx_next, integrity_error, out_of_reach>>
      /\ reordering_timer' = (rx_deliv' < rx_next)
      /\ rx_reord' = IF reordering_timer' THEN rx_next ELSE rx_reord
  BY DEF reordering_callback
<1>4. /\ rx_next \in Counts /\ rx_next \in Nat /\ rx_reord \in Counts /\ rx_reord \in Nat
      /\ rx_deliv \in Counts /\ rx_deliv \in Nat /\ CountMod \in Nat
      /\ rx_deliv < rx_reord
  BY <1>3, Constants DEF ReceiverType, ReceiverInv
<1>5. rx_reord' \in {rx_reord, rx_next} /\ reordering_timer' \in BOOLEAN
      /\ (reordering_timer' => rx_deliv' < rx_reord') /\ rx_reord' \in Counts
  <2>1. CASE rx_deliv' < rx_next
    <3>1. reordering_timer' /\ rx_reord' = rx_next BY <1>3, <2>1
    <3> QED BY <1>3, <1>4, <2>1, <3>1
  <2>2. CASE ~(rx_deliv' < rx_next)
    <3>1. ~reordering_timer' /\ rx_reord' = rx_reord BY <1>3, <2>2
    <3> QED BY <1>3, <1>4, <3>1
  <2> QED BY <2>1, <2>2
<1>6. ~out_of_reach => /\ rx_next' <= TxCount /\ rx_reord' <= TxCount /\ rx_reord <= TxCount
  BY <1>3, <1>5 DEF LinkedInv
<1>7. CASE rx_overflow
  <2>1. reorder_queue = {} BY <1>7 DEF ReceiverInv
  <2>2. upper' = {} /\ reorder_queue' = {} /\ rx_deliv' = rx_reord /\ rx_overflow'
    BY <1>7, <2>1 DEF reordering_callback, below
  <2>3. ReceiverType' BY <1>3, <1>4, <1>5, <1>7, <2>2 DEF ReceiverType, reordering_callback
  <2>4. ReceiverInv' BY <1>5, <2>2 DEF ReceiverInv
  <2>5. ~out_of_reach => LinkedInv'
    <3>1. ~out_of_reach => CountsAgree' BY <1>3, <2>2 DEF CountsAgree, LinkedInv
    <3> QED BY <1>1, <1>6, <2>2, <3>1 DEF LinkedInv
  <2>6. WindowTimed' BY <2>2 DEF WindowTimed
  <2>7. InOrderStep /\ KeepsAllStep BY <1>7, <2>2 DEF InOrderStep, KeepsAllStep
  <2> QED BY <1>2, <1>3, <2>3, <2>4, <2>5, <2>6, <2>7 DEF Goal
<1>8. CASE ~rx_overflow
  <2>1. deliver_from(reorder_queue, rx_reord) BY <1>8 DEF reordering_callback
  <2>2. /\ \A x \in held(reorder_queue) : rx_deliv < x /\ x \in Counts
        /\ ~out_of_reach => /\ \A x \in held(reorder_queue) : x \in GivenToPeer'
                            /\ \A x \in GivenToPeer' : rx_deliv <= x => x \in held(reorder_queue)
    <3>1. \A x \in held(reorder_queue) : x \in Counts BY DEF ReceiverType, held, Entry
    <3> QED BY <1>1, <1>8, <3>1, Constants DEF ReceiverInv, LinkedInv, GivenToPeer
  <2>3. /\ InOrderStep /\ KeepsAllStep
        /\ reorder_queue' \subseteq reorder_queue /\ upper' \subseteq reorder_queue
        /\ rx_deliv' \in Counts /\ rx_overflow' \in BOOLEAN
        /\ rx_overflow' => reorder_queue' = {} /\ rx_deliv' = 0
        /\ ~rx_overflow' =>
              /\ rx_reord <= rx_deliv' /\ rx_deliv' \notin held(reorder_queue)
              /\ rx_deliv' > rx_reord => rx_deliv' - 1 \in held(reorder_queue)
              /\ \A x \in held(reorder_queue') : x \in held(reorder_queue) /\ rx_deliv' < x
              /\ \A x \in held(reorder_queue) : rx_deliv' <= x => x \in held(reorder_queue')
    <3>1. reorder_queue \in SUBSET Entry /\ rx_deliv <= rx_reord BY <1>4 DEF ReceiverType
    <3>2. \A x \in held(reorder_queue) : rx_deliv <= x BY <1>4, <2>2, Constants
    <3> QED BY <1>1, <1>4, <2>1, <2>2, <3>1, <3>2, AfterDelivery
  <2>4. rx_deliv' \in Nat BY <2>3, Constants
  <2>5. ReceiverType' BY <1>3, <1>4, <1>5, <2>3 DEF ReceiverType
  <2>6. ReceiverInv'
    <3>1. held(reorder_queue)' = held(reorder_queue') BY DEF held
    <3> QED BY <1>5, <2>3, <3>1 DEF ReceiverInv
  <2>7. ~out_of_reach => LinkedInv'
    <3> SUFFICES ASSUME ~out_of_reach PROVE LinkedInv' OBVIOUS
    <3>1. CountsAgree' BY <1>3, <2>3 DEF CountsAgree, LinkedInv
    <3>2. rx_deliv <= rx_reord /\ rx_reord <= TxCount /\ rx_next' <= TxCount /\ rx_reord' <= TxCount
      BY <1>4, <1>6
    <3> QED BY <1>1, <1>2, <1>4, <1>8, <2>2, <2>3, <3>1, <3>2, LinkedAfterDelivery
  <2>8. WindowTimed'
    <3> SUFFICES ASSUME CountMod - 1 \notin held(reorder_queue'), ~rx_overflow'
                 PROVE  /\ rx_deliv' <= rx_next'
                        /\ \A c \in held(reorder_queue') : rx_deliv' < c /\ c < rx_next'
                        /\ reordering_timer' => rx_deliv' < rx_reord' /\ rx_reord' <= rx_next'
                        /\ ~reordering_timer' /\ cfg'.t_reordering # "infinity" => rx_deliv' = rx_next'
      BY DEF WindowTimed, held
    <3>1. CountMod - 1 \notin held(reorder_queue)
      <4>1. rx_deliv' <= CountMod - 1 BY <2>3, Constants
      <4> QED BY <4>1, <2>3
    <3>2. (\A c \in held(reorder_queue) : c < rx_next) /\ rx_reord <= rx_next
      BY <3>1, <1>3, <1>8 DEF WindowTimed
    <3>3. rx_deliv' <= rx_next
      <4>1. CASE rx_deliv' = rx_reord BY <4>1, <3>2
      <4>2. CASE rx_deliv' # rx_reord
        <5>1. rx_deliv' - 1 \in held(reorder_queue) BY <1>4, <2>3, <2>4, <4>2
        <5> QED BY <5>1, <1>4, <2>4, <3>2
      <4> QED BY <4>1, <4>2
    <3>4. \A c \in held(reorder_queue') : rx_deliv' < c /\ c < rx_next' BY <1>3, <2>3, <3>2
    <3>5. CASE rx_deliv' < rx_next
      <4>1. reordering_timer' /\ rx_reord' = rx_next BY <1>3, <3>5
      <4> QED BY <1>3, <1>4, <3>3, <3>4, <3>5, <4>1
    <3>6. CASE ~(rx_deliv' < rx_next)
      <4>1. ~reordering_timer' BY <1>3, <3>6
      <4>2. rx_deliv' = rx_next BY <1>4, <2>4, <3>3, <3>6
      <4> QED BY <1>3, <3>3, <3>4, <4>1, <4>2
    <3> QED BY <3>5, <3>6
  <2> QED BY <1>2, <1>3, <2>3, <2>5, <2>6, <2>7, <2>8 DEF Goal
<1> QED BY <1>7, <1>8

(* The bearer's part of a receipt.                                         *)
LEMMA HandOverInv ==
  ASSUME PInv, NEW c \in Sdus, Receive(c)
  PROVE  /\ BearerInv' /\ TxCount' = TxCount /\ c < TxCount /\ c \in Pending
         /\ GivenToPeer' = GivenToPeer \cup {c} /\ handed[c] = 0
         /\ Pending' \subseteq Pending /\ acked' = acked /\ cfg' = cfg
         /\ out_of_reach' = out_of_reach
         /\ \A x \in GivenToPeer' : handed'[x] > 0
<1> USE DEF PInv, Receive, HandOver, pdcpTxVars
<1>1. TxCount' = TxCount /\ TxCount \in Nat
  BY TxCountType, Constants DEF TxCount
<1>2. c \in written /\ c \notin discarded /\ c \notin GivenToPeer BY DEF Pending
<1>3. handed[c] = 0 /\ handed' = [handed EXCEPT ![c] = 1] /\ handed' \in [Sdus -> {0, 1}]
  <2>1. handed \in [Sdus -> {0, 1}] BY DEF BearerInv
  <2>2. handed[c] = 0
    <3>1. handed[c] \in {0, 1} /\ ~(handed[c] > 0) BY <1>2, <2>1 DEF GivenToPeer
    <3> QED BY <3>1
  <2> QED BY <2>1, <2>2
<1>4. GivenToPeer' = GivenToPeer \cup {c} BY <1>3 DEF BearerInv, GivenToPeer
<1>5. BearerInv' BY <1>1, <1>2, <1>3, <1>4 DEF BearerInv, DiscardTimersMatch
<1>6. Pending' \subseteq Pending BY <1>4 DEF Pending
<1>7. c < TxCount BY <1>1, <1>2 DEF BearerInv
<1>8. \A x \in GivenToPeer' : handed'[x] > 0 BY DEF GivenToPeer
<1> QED BY <1>1, <1>3, <1>4, <1>5, <1>6, <1>7, <1>8

(* A PDU that is not wanted any more, or whose MAC-I does not fit, leaves  *)
(* the receiver as it was.                                                 *)
LEMMA ReceiveDropped ==
  ASSUME PInv, NEW c \in Sdus, Receive(c), upper' = {}, UNCHANGED rxState,
         integrity_error' \in BOOLEAN \/ integrity_error' = integrity_error,
         ~out_of_reach => /\ integrity_error' = integrity_error
                          /\ rx_overflow \/ c < rx_deliv
  PROVE  Goal
<1> USE DEF PInv, rxState
<1>1. /\ BearerInv' /\ TxCount' = TxCount /\ c < TxCount /\ c \in Pending
      /\ GivenToPeer' = GivenToPeer \cup {c} /\ handed[c] = 0
      /\ Pending' \subseteq Pending /\ acked' = acked /\ cfg' = cfg
      /\ out_of_reach' = out_of_reach
      /\ \A x \in GivenToPeer' : handed'[x] > 0
  BY HandOverInv
<1>2. held(reorder_queue)' = held(reorder_queue) BY DEF held
<1>3. c \in Nat /\ rx_deliv \in Nat BY Constants DEF ReceiverType
<1>4. ReceiverType' BY DEF ReceiverType
<1>5. outstanding' \subseteq outstanding BY <1>1 DEF outstanding
<1>6. ReceiverInv' BY <1>2 DEF ReceiverInv
<1>7. ~out_of_reach => LinkedInv'
  <2> SUFFICES ASSUME ~out_of_reach PROVE LinkedInv' OBVIOUS
  <2>0. integrity_error' = integrity_error /\ (rx_overflow \/ c < rx_deliv) OBVIOUS
  <2>1. ~rx_overflow => \A x \in held(reorder_queue) : handed'[x] > 0
    BY <1>1 DEF LinkedInv, GivenToPeer, ReceiverType, held, Entry, BearerInv, Receive, HandOver
  <2>2. ~rx_overflow => \A x \in GivenToPeer' : rx_deliv <= x => x \in held(reorder_queue)
    BY <1>1, <1>3, <2>0 DEF LinkedInv
  <2>3. CountsAgree' BY <2>0 DEF CountsAgree, LinkedInv
  <2> QED BY <1>1, <1>2, <1>5, <2>1, <2>2, <2>3 DEF LinkedInv
<1>8. WindowTimed' BY <1>1, <1>2 DEF WindowTimed
<1>9. InOrderStep BY <1>3 DEF InOrderStep
<1>10. KeepsAllStep
  <2>1. \A x \in GivenToPeer' : x >= rx_deliv /\ ~rx_overflow /\ ~out_of_reach => x \in held(reorder_queue)
    <3>1. \A x \in GivenToPeer' : x \in Nat BY Constants DEF GivenToPeer
    <3> QED BY <1>1, <1>3, <3>1 DEF LinkedInv
  <2> QED BY <2>1 DEF KeepsAllStep, held
<1> QED BY <1>1, <1>4, <1>6, <1>7, <1>8, <1>9, <1>10 DEF Goal

(* Stopping and starting t-Reordering leaves it running for a COUNT ahead  *)
(* of RX_DELIV that RX_NEXT has reached.                                   *)
LEMMA UpdateReordering ==
  ASSUME update_reordering, rx_next' \in Counts, rx_reord \in Counts
  PROVE  /\ rx_reord' \in Counts /\ rx_reord' \in {rx_reord, rx_next'}
         /\ reordering_timer' \in BOOLEAN
         /\ reordering_timer' => rx_deliv' < rx_reord'
         /\ reordering_timer' => \/ rx_reord' = rx_next'
                                 \/ reordering_timer /\ rx_reord' = rx_reord
         /\ ~reordering_timer' /\ cfg.t_reordering # "infinity" => ~(rx_deliv' < rx_next')
<1> DEFINE running == reordering_timer /\ rx_deliv' < rx_reord
           start   == cfg.t_reordering # "infinity" /\ ~running /\ rx_deliv' < rx_next'
<1>1. reordering_timer' = (running \/ start) /\ rx_reord' = IF start THEN rx_next' ELSE rx_reord
  BY DEF update_reordering
<1>2. CASE start
  <2>1. reordering_timer' = TRUE /\ rx_reord' = rx_next' /\ rx_deliv' < rx_next' BY <1>1, <1>2
  <2> QED BY <2>1
<1>3. CASE ~start
  <2>1. reordering_timer' = running /\ rx_reord' = rx_reord BY <1>1, <1>3
  <2>2. CASE running BY <2>1, <2>2
  <2>3. CASE ~running BY <1>3, <2>1, <2>3
  <2> QED BY <2>2, <2>3
<1> QED BY <1>2, <1>3

(* A PDU that is wanted is queued under the COUNT the receiver works out,  *)
(* and delivered with what follows it when it is the one waited for.       *)
LEMMA ReceiveQueued ==
  ASSUME PInv, NEW c \in Sdus, Receive(c), ~rx_overflow,
         NEW k \in Counts, rx_deliv <= k, NEW d \in Payload, ~out_of_reach => k = c /\ d = c,
         NEW queue, queue = reorder_queue \cup {[count |-> k, sdu |-> d]},
         rx_next' = IF k >= rx_next THEN next_count(k) ELSE rx_next,
         \/ k = rx_deliv /\ deliver_from(queue, rx_deliv)
         \/ /\ k # rx_deliv /\ reorder_queue' = queue /\ upper' = {}
            /\ UNCHANGED <<rx_deliv, rx_overflow>>,
         update_reordering, UNCHANGED integrity_error
  PROVE  Goal
<1> USE DEF PInv
<1>1. /\ BearerInv' /\ TxCount' = TxCount /\ c < TxCount /\ c \in Pending
      /\ GivenToPeer' = GivenToPeer \cup {c} /\ handed[c] = 0
      /\ Pending' \subseteq Pending /\ acked' = acked /\ cfg' = cfg
      /\ out_of_reach' = out_of_reach
      /\ \A x \in GivenToPeer' : handed'[x] > 0
  BY HandOverInv
<1>2. /\ k \in Nat /\ rx_deliv \in Counts /\ rx_deliv \in Nat /\ CountMod \in Nat
      /\ rx_next \in Counts /\ rx_next \in Nat /\ rx_reord \in Counts /\ rx_reord \in Nat
      /\ TxCount \in Nat /\ GivenToPeer' \subseteq Counts
  BY TxCountType, Constants DEF ReceiverType, GivenToPeer
<1>3. queue \in SUBSET Entry /\ held(queue) = held(reorder_queue) \cup {k}
  <2>1. [count |-> k, sdu |-> d] \in Entry BY DEF Entry
  <2>2. reorder_queue \subseteq Entry BY DEF ReceiverType
  <2>3. held(queue) = held(reorder_queue) \cup {[count |-> k, sdu |-> d].count} BY DEF held
  <2> QED BY <2>1, <2>2, <2>3
<1>4. /\ \A x \in held(reorder_queue) : rx_deliv < x /\ x \in Nat
      /\ ~out_of_reach => /\ \A x \in held(queue) : x \in GivenToPeer'
                          /\ \A x \in GivenToPeer' : rx_deliv <= x => x \in held(queue)
  <2>1. \A x \in held(reorder_queue) : x \in Counts BY DEF ReceiverType, held, Entry
  <2>2. \A x \in held(reorder_queue) : rx_deliv < x BY DEF ReceiverInv
  <2>3. ASSUME ~out_of_reach
        PROVE  /\ \A x \in held(queue) : x \in GivenToPeer'
               /\ \A x \in GivenToPeer' : rx_deliv <= x => x \in held(queue)
    <3>1. \A x \in held(reorder_queue) : x \in GivenToPeer
      BY <2>1, <2>3, Constants DEF LinkedInv, GivenToPeer
    <3>2. \A x \in GivenToPeer : rx_deliv <= x => x \in held(reorder_queue)
      BY <2>3 DEF LinkedInv
    <3> QED BY <1>1, <1>3, <2>3, <3>1, <3>2
  <2>4. \A x \in held(reorder_queue) : x \in Nat BY <2>1, Constants
  <2> QED BY <2>2, <2>3, <2>4
<1>5. \A x \in held(queue) : rx_deliv <= x /\ x \in Nat
  BY <1>2, <1>3, <1>4
<1>6. /\ InOrderStep /\ KeepsAllStep
      /\ reorder_queue' \subseteq queue /\ upper' \subseteq queue
      /\ rx_deliv' \in Counts /\ rx_overflow' \in BOOLEAN
      /\ rx_overflow' => reorder_queue' = {} /\ rx_deliv' = 0
      /\ ~rx_overflow' =>
           /\ rx_deliv <= rx_deliv' /\ rx_deliv' \notin held(queue)
           /\ rx_deliv' > rx_deliv => rx_deliv' - 1 \in held(queue)
           /\ \A x \in held(reorder_queue') : x \in held(queue) /\ rx_deliv' < x
           /\ \A x \in held(queue) : rx_deliv' <= x => x \in held(reorder_queue')
  <2>1. CASE k = rx_deliv /\ deliver_from(queue, rx_deliv)
    BY <1>2, <1>3, <1>4, <1>5, <2>1, AfterDelivery
  <2>2. CASE /\ k # rx_deliv /\ reorder_queue' = queue /\ upper' = {}
             /\ UNCHANGED <<rx_deliv, rx_overflow>>
    <3>1. InOrderStep BY <1>2, <2>2 DEF InOrderStep
    <3>2. KeepsAllStep
      <4>1. ~out_of_reach => \A x \in GivenToPeer' : x >= rx_deliv => x \in held(queue)
        BY <1>2, <1>4, Constants
      <4> QED BY <2>2, <4>1 DEF KeepsAllStep, held
    <3>3. \A x \in held(queue) : rx_deliv < x
      <4>1. rx_deliv < k BY <1>2, <2>2
      <4>2. \A x \in held(reorder_queue) : rx_deliv < x BY <1>4
      <4> QED BY <1>3, <4>1, <4>2
    <3>4. held(reorder_queue') = held(queue) /\ rx_deliv' = rx_deliv /\ rx_overflow' = rx_overflow
      BY <2>2
    <3>5. rx_deliv \notin held(queue) /\ rx_deliv <= rx_deliv /\ ~(rx_deliv > rx_deliv)
      BY <1>2, <3>3
    <3>6. ~rx_overflow' /\ rx_overflow' \in BOOLEAN BY <3>4 DEF ReceiverType
    <3> QED BY <1>2, <2>2, <3>1, <3>2, <3>3, <3>4, <3>5, <3>6
  <2> QED BY <2>1, <2>2
<1>7. rx_deliv' \in Nat BY <1>6, Constants
<1>8. rx_next' \in Counts /\ (~out_of_reach => rx_next' <= TxCount)
  <2>1. /\ next_count(k) \in Counts
        /\ next_count(k) = 0 \/ next_count(k) = k + 1
    BY <1>2, NextCount
  <2>2. ~out_of_reach => rx_next <= TxCount BY DEF LinkedInv
  <2> QED BY <1>1, <1>2, <2>1, <2>2
<1>9. /\ rx_reord' \in Counts /\ rx_reord' \in {rx_reord, rx_next'} /\ reordering_timer' \in BOOLEAN
      /\ reordering_timer' => rx_deliv' < rx_reord'
      /\ reordering_timer' => \/ rx_reord' = rx_next'
                              \/ reordering_timer /\ rx_reord' = rx_reord
      /\ ~reordering_timer' /\ cfg.t_reordering # "infinity" => ~(rx_deliv' < rx_next')
  BY <1>2, <1>8, UpdateReordering
<1>10. ReceiverType' BY <1>3, <1>6, <1>8, <1>9 DEF ReceiverType
<1>11. ReceiverInv'
  <2>1. held(reorder_queue)' = held(reorder_queue') BY DEF held
  <2> QED BY <1>6, <1>9, <2>1 DEF ReceiverInv
<1>12. ~out_of_reach => LinkedInv'
  <2> SUFFICES ASSUME ~out_of_reach PROVE LinkedInv' OBVIOUS
  <2>1. CountsAgree'
    <3>1. \A e \in queue : e.sdu = e.count BY DEF CountsAgree, LinkedInv
    <3> QED BY <1>6, <3>1 DEF CountsAgree, LinkedInv
  <2>2. rx_deliv <= TxCount /\ rx_next' <= TxCount /\ rx_reord' <= TxCount
    BY <1>8, <1>9 DEF LinkedInv
  <2>3. GivenToPeer \subseteq GivenToPeer' /\ Pending' \subseteq Pending /\ rx_deliv <= rx_deliv
    BY <1>1, <1>2
  <2>4. ~rx_overflow' =>
          /\ rx_deliv <= rx_deliv' /\ (rx_deliv' > rx_deliv => rx_deliv' - 1 \in held(queue))
          /\ \A x \in held(reorder_queue') : x \in held(queue)
          /\ \A x \in held(queue) : rx_deliv' <= x => x \in held(reorder_queue')
    BY <1>6
  <2>5. /\ \A x \in held(queue) : x \in GivenToPeer'
        /\ \A x \in GivenToPeer' : rx_deliv <= x => x \in held(queue)
    BY <1>4
  <2>6. BearerInv /\ ReceiverType /\ LinkedInv /\ ~rx_overflow OBVIOUS
  <2> QED BY <1>1, <1>2, <1>6, <2>1, <2>2, <2>3, <2>4, <2>5, <2>6, LinkedAfterDelivery
<1>13. WindowTimed'
  <2> SUFFICES ASSUME CountMod - 1 \notin held(reorder_queue'), ~rx_overflow'
               PROVE  /\ rx_deliv' <= rx_next'
                      /\ \A x \in held(reorder_queue') : rx_deliv' < x /\ x < rx_next'
                      /\ reordering_timer' => rx_deliv' < rx_reord' /\ rx_reord' <= rx_next'
                      /\ ~reordering_timer' /\ cfg'.t_reordering # "infinity" => rx_deliv' = rx_next'
    BY DEF WindowTimed, held
  <2>1. CountMod - 1 \notin held(queue)
    <3>1. rx_deliv' <= CountMod - 1 BY <1>6, Constants
    <3> QED BY <3>1, <1>6
  <2>2. /\ \A x \in held(reorder_queue) : x < rx_next
        /\ rx_deliv <= rx_next /\ (reordering_timer => rx_reord <= rx_next)
    BY <1>3, <2>1 DEF WindowTimed
  <2>3. rx_next' = (IF k >= rx_next THEN k + 1 ELSE rx_next) /\ rx_next' \in Nat
    <3>0. k # CountMod - 1 BY <1>3, <2>1
    <3>1. k + 1 # CountMod BY <1>2, <3>0
    <3> QED BY <1>2, <3>1, NextCount
  <2>4. rx_next <= rx_next' /\ \A x \in held(queue) : x < rx_next'
    <3>1. rx_next <= rx_next' /\ k < rx_next' BY <1>2, <2>3
    <3>2. \A x \in held(reorder_queue) : x < rx_next' BY <1>2, <1>4, <2>2, <2>3, <3>1
    <3> QED BY <1>3, <3>1, <3>2
  <2>5. rx_deliv' <= rx_next'
    <3>1. CASE rx_deliv' > rx_deliv
      <4>1. rx_deliv' - 1 \in held(queue) BY <1>6, <3>1
      <4>2. rx_deliv' - 1 < rx_next' BY <2>4, <4>1
      <4> QED BY <1>7, <2>3, <4>2
    <3>2. CASE ~(rx_deliv' > rx_deliv) BY <1>2, <1>7, <2>2, <2>3, <2>4, <3>2
    <3> QED BY <3>1, <3>2
  <2>6. \A x \in held(reorder_queue') : rx_deliv' < x /\ x < rx_next' BY <1>6, <2>4
  <2>7. reordering_timer' => rx_deliv' < rx_reord' /\ rx_reord' <= rx_next'
    BY <1>2, <1>9, <2>2, <2>3, <2>4
  <2>8. ~reordering_timer' /\ cfg'.t_reordering # "infinity" => rx_deliv' = rx_next'
    BY <1>1, <1>7, <1>9, <2>3, <2>5
  <2> QED BY <2>5, <2>6, <2>7, <2>8
<1> QED BY <1>1, <1>6, <1>10, <1>11, <1>12, <1>13 DEF Goal

(* The COUNT the receiver works out is a COUNT.                            *)
LEMMA RcvdCountType ==
  ASSUME rx_deliv \in Counts, NEW c \in Counts
  PROVE  rcvd_count(SN(c)) \in Counts
<1>1. SN(c) \in 0..(SnMod - 1) /\ HFN(rx_deliv) \in 0..(HfnMod - 1) BY CountParts
<1>2. rcvd_hfn(SN(c)) \in Nat BY <1>1, Constants DEF rcvd_hfn
<1> DEFINE h == rcvd_hfn(SN(c)) % HfnMod  s == SN(c)
<1>3. h \in 0..(HfnMod - 1) BY <1>2, Constants
<1>4. rcvd_count(SN(c)) = h * SnMod + s BY DEF rcvd_count, COUNT
<1>5. s \in 0..(SnMod - 1) BY <1>1
<1> HIDE DEF h, s
<1>6. h * SnMod + s \in Nat /\ h * SnMod + s < (h + 1) * SnMod BY <1>3, <1>5, Constants
<1>7. (h + 1) * SnMod <= HfnMod * SnMod
  <2>1. h + 1 <= HfnMod /\ h + 1 \in Nat BY <1>3, Constants
  <2> QED BY <2>1, Constants
<1>8. HfnMod * SnMod = CountMod /\ (h + 1) * SnMod \in Nat BY <1>3, Constants DEF CountMod
<1> QED BY <1>4, <1>6, <1>7, <1>8, Constants

(* write_pdu(): when both ends are in reach of one another, the COUNT is   *)
(* the one the PDU was sent under.                                         *)
LEMMA ReceivePInv == ASSUME PInv, NEW c \in Sdus, Receive(c) PROVE Goal
<1>1. c < TxCount /\ c \in Pending /\ handed[c] = 0 BY HandOverInv
<1>2. write_pdu(SN(c), c) BY DEF Receive
<1>3. c \in Counts /\ c \in Nat /\ rx_deliv \in Counts /\ rx_deliv \in Nat /\ TxCount \in Nat
  BY TxCountType, Constants DEF PInv, ReceiverType
<1> DEFINE k == rcvd_count(SN(c))  d == deciphered(k, c)
<1>4. k \in Counts /\ k \in Nat /\ d \in Payload
  <2>1. k \in Counts BY <1>3, RcvdCountType
  <2> HIDE DEF k
  <2> QED BY <1>3, <2>1, Constants DEF deciphered, Payload
<1>5. ~out_of_reach /\ ~rx_overflow => k = c /\ d = c
  <2> SUFFICES ASSUME ~out_of_reach, ~rx_overflow PROVE k = c /\ d = c OBVIOUS
  <2>1. TxCount <= c + window_size /\ TxCount <= rx_deliv + window_size /\ rx_deliv <= TxCount
    BY <1>1 DEF PInv, LinkedInv, outstanding
  <2>2. c < rx_deliv + window_size /\ rx_deliv <= c + window_size
    BY <1>1, <1>3, <2>1, Constants
  <2>3. k = c BY <1>3, <2>2, CountRecovered
  <2> QED BY <2>3 DEF deciphered
<1>6. CASE invalid_pdu(SN(c), c)
  <2>1. upper' = {} /\ UNCHANGED rxState /\ integrity_error' = TRUE BY <1>2, <1>6 DEF write_pdu
  <2>2. out_of_reach BY <1>5, <1>6 DEF invalid_pdu, integrity_verify
  <2> QED BY <2>1, <2>2, ReceiveDropped
<1>7. CASE ~invalid_pdu(SN(c), c) /\ discarded_pdu(SN(c), c)
  <2>1. upper' = {} /\ UNCHANGED rxState /\ UNCHANGED integrity_error
    BY <1>2, <1>7 DEF write_pdu
  <2>2. ~out_of_reach => rx_overflow \/ c < rx_deliv
    <3>1. ~out_of_reach /\ ~rx_overflow => c \notin held(reorder_queue)
      BY <1>1 DEF PInv, LinkedInv
    <3> QED BY <1>5, <1>7, <3>1 DEF discarded_pdu
  <2> QED BY <2>1, <2>2, ReceiveDropped
<1>8. CASE ~invalid_pdu(SN(c), c) /\ ~discarded_pdu(SN(c), c)
  <2> DEFINE queue == reorder_queue \cup {[count |-> k, sdu |-> d]}
  <2>1. /\ rx_next' = IF k >= rx_next THEN next_count(k) ELSE rx_next
        /\ \/ k = rx_deliv /\ deliver_from(queue, rx_deliv)
           \/ /\ k # rx_deliv /\ reorder_queue' = queue /\ upper' = {}
              /\ UNCHANGED <<rx_deliv, rx_overflow>>
        /\ update_reordering /\ UNCHANGED integrity_error
    BY <1>2, <1>8 DEF write_pdu
  <2>2. ~rx_overflow /\ ~(k < rx_deliv) BY <1>8 DEF discarded_pdu
  <2>3. queue = reorder_queue \cup {[count |-> k, sdu |-> d]} OBVIOUS
  <2> HIDE DEF queue, k, d
  <2>4. rx_deliv <= k BY <1>3, <1>4, <2>2
  <2> QED BY <1>4, <1>5, <2>1, <2>2, <2>3, <2>4, ReceiveQueued
<1> QED BY <1>6, <1>7, <1>8

(* Every step keeps the invariant, delivers in order and loses nothing.    *)
LEMMA NextPInv == PInv /\ Next => Goal
BY WritePInv, ReorderingPInv, ReceivePInv, LosePInv, DiscardTimerPInv, NotifyPInv DEF Next

(* A step that changes nothing keeps the invariant.                        *)
LEMMA StutterPInv == PInv /\ UNCHANGED vars => PInv'
<1> SUFFICES ASSUME PInv, UNCHANGED vars PROVE PInv' OBVIOUS
<1> USE DEF vars, pdcpVars, pdcpTxVars, pdcpRxVars, rxState, bearerVars
<1>1. TxCount' = TxCount /\ GivenToPeer' = GivenToPeer /\ held(reorder_queue)' = held(reorder_queue)
  BY DEF TxCount, GivenToPeer, held
<1>2. outstanding' = outstanding BY <1>1 DEF outstanding, Pending
<1>3. BearerInv' BY <1>1 DEF PInv, BearerInv, DiscardTimersMatch
<1>4. ReceiverType' /\ ReceiverInv' BY <1>1 DEF PInv, ReceiverType, ReceiverInv
<1>5. ~out_of_reach' => LinkedInv' BY <1>1, <1>2 DEF PInv, LinkedInv, CountsAgree
<1>6. WindowTimed' BY <1>1 DEF PInv, WindowTimed
<1> QED BY <1>3, <1>4, <1>5, <1>6 DEF PInv

(* The invariant holds in every state of two PDCP entities over a bearer.  *)
LEMMA PInvAlways == Spec => []PInv
<1>1. PInv /\ [Next]_vars => PInv' BY NextPInv, StutterPInv DEF Goal
<1> QED BY <1>1, InitPInv, PTL DEF Spec

-----------------------------------------------------------------------------
(* The theorems                                                            *)

(* No COUNT is used twice for ciphering (write_sdu() stops at the last     *)
(* one), and until the sender has got half the space of the SNs ahead of   *)
(* what is still to come, the HFN that write_pdu() puts before a received  *)
(* SN is the sender's.                                                     *)
THEOREM OneCountPerSdu == Spec => []CountsUnique
<1>1. PInv => CountsUnique BY DEF PInv, BearerInv, LinkedInv, CountsUnique, NoCountReuse
<1> QED BY <1>1, PInvAlways, PTL

(* The state variables keep their ranges, what is held back is between     *)
(* RX_DELIV and RX_NEXT and has t-Reordering running for a COUNT beyond    *)
(* it, and discard timers run only for SDUs that are the RLC's.  This does *)
(* not depend on what arrives.                                             *)
THEOREM EntityKept == Spec => []EntityConsistent
<1>1. PInv => EntityConsistent
  <2> SUFFICES ASSUME PInv PROVE EntityConsistent OBVIOUS
  <2>1. discard_timers \subseteq Counts
    <3>1. discard_timers \subseteq written BY DEF PInv, BearerInv, DiscardTimersMatch
    <3>2. \A x \in written : x \in Counts
      <4>1. TxCount \in Nat /\ TxCount <= CountMod /\ written = 0..(TxCount - 1)
        BY TxCountType, Constants DEF PInv, BearerInv
      <4> QED BY <4>1, Constants
    <3> QED BY <3>1, <3>2
  <2> QED BY <2>1 DEF PInv, BearerInv, ReceiverType, EntityConsistent, TypeOK
<1> QED BY <1>1, PInvAlways, PTL

(* The upper layer gets the SDUs in ascending order of COUNT and no COUNT  *)
(* twice: whatever arrives late, early or not at all, a call passes   *)
(* up only COUNTs from RX_DELIV on and leaves RX_DELIV behind them.        *)
THEOREM InOrder == Spec => DeliveredInOrder
<1>1. PInv /\ [Next]_vars => [InOrderStep]_vars BY NextPInv DEF Goal
<1> QED BY <1>1, PInvAlways, PTL DEF Spec, DeliveredInOrder, InOrderStep

(* Until the sender has got half the space of the SNs ahead, what the RLC  *)
(* hands over from RX_DELIV on is held until the call that passes it up.   *)
THEOREM AllKept == Spec => NothingLost
<1>1. PInv /\ [Next]_vars => [KeepsAllStep]_vars BY NextPInv DEF Goal
<1> QED BY <1>1, PInvAlways, PTL DEF Spec, NothingLost, KeepsAllStep
=============================================================================
