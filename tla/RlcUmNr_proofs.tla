--------------------------- MODULE RlcUmNr_proofs ---------------------------
(***************************************************************************)
(* RlcUmNr for every window, every SDU length and every set of grants.     *)
(* What the receiver holds is in the reassembly window and not before      *)
(* RX_Next_Reassembly, and t-Reassembly runs while it holds something, as  *)
(* long as the map was in the window's order whenever it was searched.     *)
(* With the short SN an SDU is delivered whole and at most once, the two   *)
(* ends implement the abstract bearer, and while PDUs arrive in the order  *)
(* they are sent nothing is lost in the entities.                          *)
(***************************************************************************)
EXTENDS RlcUmNr, SequenceTheorems, WellFoundedInduction, TLAPS

-----------------------------------------------------------------------------
(* Modular arithmetic                                                      *)

(* The constants as numbers.                                               *)
LEMMA Constants ==
  /\ UM_Window_Size \in Nat \ {0} /\ N_bytes \in Nat \ {0} /\ sn_bytes \in {1, 2}
  /\ mod = 2 * UM_Window_Size /\ SNs = 0..(2 * UM_Window_Size - 1)
  /\ StartSn \in SNs /\ 0 \in SNs
BY UmAssumption DEF mod, SNs

(* A number within two turns below M is brought into 0..M-1 by adding M.   *)
LEMMA TwoTurns ==
  ASSUME NEW M \in Nat \ {0}, NEW x \in Int, -(2 * M) <= x, x < M
  PROVE  x % M = IF x >= 0 THEN x ELSE IF x >= -M THEN x + M ELSE x + 2 * M
<1>1. CASE x >= 0
  BY <1>1
<1>2. CASE x < 0 /\ x >= -M
  <2>1. (x + M) \in 0..(M - 1)
    BY <1>2
  <2> QED BY <1>2, <2>1
<1>3. CASE x < -M
  <2>1. (x + 2 * M) \in 0..(M - 1)
    BY <1>3
  <2> QED BY <1>3, <2>1
<1> QED BY <1>1, <1>2, <1>3

(* The place of an SN in the window, without the modulo operator.          *)
LEMMA Base ==
  ASSUME NEW nh \in SNs, NEW x \in 0..(2 * UM_Window_Size)
  PROVE  /\ base(nh, x) = IF x >= nh + UM_Window_Size THEN x - nh - UM_Window_Size
                          ELSE IF x >= nh - UM_Window_Size THEN x - nh + UM_Window_Size
                          ELSE x - nh + 3 * UM_Window_Size
         /\ base(nh, x) \in SNs
<1> DEFINE M == 2 * UM_Window_Size  y == x - nh - UM_Window_Size
<1>1. M \in Nat \ {0} /\ y \in Int /\ -(2 * M) <= y /\ y < M
  BY Constants
<1>2. base(nh, x) = y % M
  BY Constants DEF base
<1> HIDE DEF M, y
<1>3. y % M = IF y >= 0 THEN y ELSE IF y >= -M THEN y + M ELSE y + 2 * M
  BY <1>1, TwoTurns
<1>4. base(nh, x) = IF y >= 0 THEN y ELSE IF y >= -M THEN y + M ELSE y + 2 * M
  BY <1>2, <1>3
<1> QED BY <1>4, Constants DEF M, y

(* The SN after one.                                                       *)
LEMMA NextSn ==
  ASSUME NEW sn \in SNs
  PROVE  /\ (sn + 1) % mod = IF sn = 2 * UM_Window_Size - 1 THEN 0 ELSE sn + 1
         /\ (sn + 1) % mod \in SNs
<1>1. CASE sn = 2 * UM_Window_Size - 1
  <2>1. sn + 1 = mod /\ mod \in Nat \ {0}
    BY <1>1, Constants
  <2> DEFINE M == mod
  <2> HIDE DEF M
  <2>2. M % M = 0
    BY <2>1 DEF M
  <2> QED BY <1>1, <2>1, <2>2, Constants DEF M
<1>2. CASE sn # 2 * UM_Window_Size - 1
  <2>1. sn + 1 \in 0..(mod - 1) /\ mod \in Nat \ {0}
    BY <1>2, Constants
  <2> DEFINE M == mod  y == sn + 1
  <2>2. M \in Nat \ {0} /\ y \in 0..(M - 1)
    BY <2>1
  <2> HIDE DEF M, y
  <2>3. y % M = y
    BY <2>2
  <2> QED BY <1>2, <2>1, <2>3, Constants DEF M, y
<1> QED BY <1>1, <1>2

-----------------------------------------------------------------------------
(* The window                                                              *)

(* Where an SN from RX_Next_Reassembly on is held there is something to    *)
(* wait for.                                                               *)
LEMMA HeldIsGap ==
  ASSUME NEW nh \in SNs, NEW nr \in SNs, NEW w, NEW h \in held(w),
         base(nh, nr) <= base(nh, h), base(nh, h) < UM_Window_Size
  PROVE  gap(nh, nr, w)
<1>1. h \in SNs
  BY DEF held
<1>2. nr \in 0..(2 * UM_Window_Size) /\ nr + 1 \in 0..(2 * UM_Window_Size)
      /\ h \in 0..(2 * UM_Window_Size)
  BY <1>1, Constants
<1>3. base(nh, nr) = IF nr >= nh + UM_Window_Size THEN nr - nh - UM_Window_Size
                     ELSE IF nr >= nh - UM_Window_Size THEN nr - nh + UM_Window_Size
                     ELSE nr - nh + 3 * UM_Window_Size
  BY <1>2, Base
<1>4. base(nh, h) = IF h >= nh + UM_Window_Size THEN h - nh - UM_Window_Size
                    ELSE IF h >= nh - UM_Window_Size THEN h - nh + UM_Window_Size
                    ELSE h - nh + 3 * UM_Window_Size
  BY <1>2, Base
<1> DEFINE n == nr + 1
<1>5. base(nh, n) = IF n >= nh + UM_Window_Size THEN n - nh - UM_Window_Size
                    ELSE IF n >= nh - UM_Window_Size THEN n - nh + UM_Window_Size
                    ELSE n - nh + 3 * UM_Window_Size
  <2>1. n \in 0..(2 * UM_Window_Size)
    BY <1>2
  <2> HIDE DEF n
  <2> QED BY <2>1, Base
<1>6. UM_Window_Size > base(nh, n) \/ (UM_Window_Size = base(nh, n) /\ h = nr)
  BY <1>1, <1>3, <1>4, <1>5, Constants
<1> QED BY <1>6 DEF gap

(* The SN that moves the window is the last one in it.                     *)
LEMMA NewestLast ==
  ASSUME NEW sn \in SNs
  PROVE  base((sn + 1) % mod, sn) = UM_Window_Size - 1
<1> DEFINE nh == (sn + 1) % mod
<1>1. nh = (IF sn = 2 * UM_Window_Size - 1 THEN 0 ELSE sn + 1) /\ nh \in SNs
  BY NextSn
<1>2. sn \in 0..(2 * UM_Window_Size)
  BY Constants
<1> HIDE DEF nh
<1>3. base(nh, sn) = IF sn >= nh + UM_Window_Size THEN sn - nh - UM_Window_Size
                     ELSE IF sn >= nh - UM_Window_Size THEN sn - nh + UM_Window_Size
                     ELSE sn - nh + 3 * UM_Window_Size
  BY <1>1, <1>2, Base
<1>4. base(nh, sn) = UM_Window_Size - 1
  BY <1>1, <1>3, Constants
<1> QED BY <1>4 DEF nh

(* Moving the window keeps the order of what stays in it.                  *)
LEMMA MoveKeepsOrder ==
  ASSUME NEW nh \in SNs, NEW nr \in SNs, NEW h \in SNs, NEW sn \in SNs,
         base(nh, sn) >= UM_Window_Size,
         base(nh, nr) <= base(nh, h), base(nh, h) < UM_Window_Size,
         base((sn + 1) % mod, nr) < UM_Window_Size
  PROVE  base((sn + 1) % mod, nr) <= base((sn + 1) % mod, h)
<1> DEFINE nn == (sn + 1) % mod
<1>1. nn = (IF sn = 2 * UM_Window_Size - 1 THEN 0 ELSE sn + 1) /\ nn \in SNs
  BY NextSn
<1>2. {sn, nr, h} \subseteq 0..(2 * UM_Window_Size)
  BY Constants
<1> SUFFICES ASSUME base(nn, nr) < UM_Window_Size PROVE base(nn, nr) <= base(nn, h)
  OBVIOUS
<1> HIDE DEF nn
<1>3. base(nh, sn) = IF sn >= nh + UM_Window_Size THEN sn - nh - UM_Window_Size
                     ELSE IF sn >= nh - UM_Window_Size THEN sn - nh + UM_Window_Size
                     ELSE sn - nh + 3 * UM_Window_Size
  BY <1>1, <1>2, Base
<1>4. base(nh, nr) = IF nr >= nh + UM_Window_Size THEN nr - nh - UM_Window_Size
                     ELSE IF nr >= nh - UM_Window_Size THEN nr - nh + UM_Window_Size
                     ELSE nr - nh + 3 * UM_Window_Size
  BY <1>1, <1>2, Base
<1>5. base(nh, h) = IF h >= nh + UM_Window_Size THEN h - nh - UM_Window_Size
                     ELSE IF h >= nh - UM_Window_Size THEN h - nh + UM_Window_Size
                     ELSE h - nh + 3 * UM_Window_Size
  BY <1>1, <1>2, Base
<1>6. base(nn, nr) = IF nr >= nn + UM_Window_Size THEN nr - nn - UM_Window_Size
                     ELSE IF nr >= nn - UM_Window_Size THEN nr - nn + UM_Window_Size
                     ELSE nr - nn + 3 * UM_Window_Size
  BY <1>1, <1>2, Base
<1>7. base(nn, h) = IF h >= nn + UM_Window_Size THEN h - nn - UM_Window_Size
                     ELSE IF h >= nn - UM_Window_Size THEN h - nn + UM_Window_Size
                     ELSE h - nn + 3 * UM_Window_Size
  BY <1>1, <1>2, Base
<1> QED BY <1>1, <1>3, <1>4, <1>5, <1>6, <1>7, Constants

(* A set of SNs that is not empty has a least one.                         *)
LEMMA LeastOf ==
  ASSUME NEW S \in SUBSET Nat, S # {}
  PROVE  Min(S) \in S /\ \A y \in S : Min(S) <= y
<1> DEFINE Less == OpToRel(<, Nat)
<1>1. \A m, n \in Nat : <<n, m>> \in Less <=> n < m
  <2>1. Less = {ss \in Nat \X Nat : ss[1] < ss[2]}
    BY DEF OpToRel
  <2> HIDE DEF Less
  <2> QED BY <2>1
<1>2. PICK m \in S : \A n \in S : ~(<<n, m>> \in Less)
  <2>1. IsWellFoundedOn(Less, Nat)
    BY NatLessThanWellFounded, Zenon
  <2> HIDE DEF Less
  <2> QED BY <2>1, WFMin, Zenon
<1>3. \A n \in S : m <= n
  <2> HIDE DEF Less
  <2> SUFFICES ASSUME NEW n \in S PROVE m <= n
    OBVIOUS
  <2>1. m \in Nat /\ n \in Nat
    OBVIOUS
  <2>2. ~(n < m)
    BY <1>1, <1>2, <2>1, Zenon
  <2> QED BY <2>1, <2>2
<1>4. \E x \in S : \A y \in S : x <= y
  BY <1>3, Zenon
<1> QED BY <1>4 DEF Min

(* A queue with an SDU has a first one.                                    *)
LEMMA FirstSdu ==
  ASSUME NEW q \in Seq(Sdus \cup {None}), ~only_null(q)
  PROVE  /\ first_sdu(q) \in 1..Len(q) /\ q[first_sdu(q)] \in Sdus \cup {None}
         /\ q[first_sdu(q)] # None /\ \A k \in 1..(first_sdu(q) - 1) : q[k] = None
<1> DEFINE S == {i \in 1..Len(q) : q[i] # None}
<1>1. S \in SUBSET Nat /\ S # {} /\ DOMAIN q = 1..Len(q)
  BY DEF only_null
<1>2. Min(S) \in S /\ \A y \in S : Min(S) <= y
  <2> HIDE DEF S
  <2> QED BY <1>1, LeastOf
<1> DEFINE m == Min(S)
<1> HIDE DEF m
<1>3. m \in S /\ \A y \in S : m <= y
  BY <1>2 DEF m
<1>4. \A k \in 1..(m - 1) : q[k] = None
  BY <1>3
<1>5. \E i \in DOMAIN q : q[i] # None /\ \A k \in 1..(i - 1) : q[k] = None
  BY <1>1, <1>3, <1>4
<1>6. /\ first_sdu(q) \in DOMAIN q /\ q[first_sdu(q)] # None
      /\ \A k \in 1..(first_sdu(q) - 1) : q[k] = None
  BY <1>5 DEF first_sdu
<1> QED BY <1>1, <1>6

-----------------------------------------------------------------------------
(* The inductive invariant                                                 *)

ChannelPdus ==
  [si : {"full", "first", "middle", "last"}, sn : SNs, so : 0..N_bytes, len : 0..N_bytes,
   sdu : Sdus \cup {None}, from : Int]

(* The sender: the SO and what is left of the SDU stay within its length.  *)
TxInv ==
  /\ TX_Next \in SNs /\ next_so \in 0..N_bytes
  /\ tx_sdu \in [sdu : Sdus \cup {None}, left : 0..N_bytes]
  /\ next_so + tx_sdu.left <= N_bytes
  /\ tx_sdu_queue \in Seq(Sdus \cup {None}) /\ Len(tx_sdu_queue) <= TxQueueLength
  /\ mac_grant \in Grants \cup {0}
  /\ channel \in Seq(ChannelPdus)

RxType ==
  /\ RX_Next_Reassembly \in SNs /\ RX_Timer_Trigger \in SNs /\ RX_Next_Highest \in SNs
  /\ rx_window = [sn \in SNs |-> rx_window[sn]]
  /\ reassembly_timer \in BOOLEAN /\ map_in_order \in BOOLEAN

(* What is held is in the window and from RX_Next_Reassembly on.           *)
Ordered(nh, nr, w) ==
  \A h \in held(w) : base(nh, h) < UM_Window_Size /\ base(nh, nr) <= base(nh, h)

RxOrdered ==
  map_in_order => /\ Ordered(RX_Next_Highest, RX_Next_Reassembly, rx_window)
                  /\ HeldSegmentsTimed

UmInv == TxInv /\ RxType /\ RxOrdered

(* The invariant says what the run checks.                                 *)
LEMMA UmInvConsistent == UmInv => ReceiverConsistent
<1> SUFFICES ASSUME UmInv PROVE ReceiverConsistent
  OBVIOUS
<1>1. TypeOK
  <2>1. \A i \in DOMAIN tx_sdu_queue : tx_sdu_queue[i] \in Sdus \cup {None}
    BY DEF UmInv, TxInv
  <2>2. tx_sdu.sdu \in Sdus \cup {None} /\ tx_sdu.left \in 0..N_bytes
    BY DEF UmInv, TxInv
  <2> QED BY <2>1, <2>2 DEF UmInv, TxInv, RxType, TypeOK, Elems
<1>2. ASSUME map_in_order PROVE RxWindowOrdered
  <2> SUFFICES ASSUME NEW h \in held(rx_window)
               PROVE  /\ base(RX_Next_Highest, h) < UM_Window_Size
                      /\ ~(base(RX_Next_Highest, h) < base(RX_Next_Highest, RX_Next_Reassembly))
    BY DEF RxWindowOrdered, NextReassemblyEarliest, sn_in_reassembly_window,
           sn_invalid_for_rx_buffer
  <2>1. h \in 0..(2 * UM_Window_Size) /\ RX_Next_Reassembly \in 0..(2 * UM_Window_Size)
        /\ RX_Next_Highest \in SNs
    BY Constants DEF UmInv, RxType, held
  <2>2. base(RX_Next_Highest, h) \in SNs /\ base(RX_Next_Highest, RX_Next_Reassembly) \in SNs
    BY <2>1, Base
  <2>3. base(RX_Next_Highest, h) < UM_Window_Size
        /\ base(RX_Next_Highest, RX_Next_Reassembly) <= base(RX_Next_Highest, h)
    BY <1>2 DEF UmInv, RxOrdered, Ordered
  <2> QED BY <2>2, <2>3, Constants
<1> QED BY <1>1, <1>2 DEF ReceiverConsistent, UmInv, RxOrdered

-----------------------------------------------------------------------------
(* The receiver                                                            *)

(* Every SN has a place in the window.                                     *)
LEMMA Places ==
  ASSUME NEW nh \in SNs, NEW x \in SNs
  PROVE  base(nh, x) \in SNs
<1>1. x \in 0..(2 * UM_Window_Size)
  BY Constants
<1> QED BY <1>1, Base

(* No two SNs have the same place.                                         *)
LEMMA SamePlace ==
  ASSUME NEW nh \in SNs, NEW x \in SNs, NEW y \in SNs, base(nh, x) = base(nh, y)
  PROVE  x = y
<1>1. x \in 0..(2 * UM_Window_Size) /\ y \in 0..(2 * UM_Window_Size)
  BY Constants
<1>2. base(nh, x) = IF x >= nh + UM_Window_Size THEN x - nh - UM_Window_Size
                    ELSE IF x >= nh - UM_Window_Size THEN x - nh + UM_Window_Size
                    ELSE x - nh + 3 * UM_Window_Size
  BY <1>1, Base
<1>3. base(nh, y) = IF y >= nh + UM_Window_Size THEN y - nh - UM_Window_Size
                    ELSE IF y >= nh - UM_Window_Size THEN y - nh + UM_Window_Size
                    ELSE y - nh + 3 * UM_Window_Size
  BY <1>1, Base
<1>4. x \in 0..(2 * UM_Window_Size - 1) /\ y \in 0..(2 * UM_Window_Size - 1)
      /\ nh \in 0..(2 * UM_Window_Size - 1) /\ UM_Window_Size \in Nat
  BY Constants
<1> DEFINE b(z) == IF z >= nh + UM_Window_Size THEN z - nh - UM_Window_Size
                   ELSE IF z >= nh - UM_Window_Size THEN z - nh + UM_Window_Size
                   ELSE z - nh + 3 * UM_Window_Size
<1>5. b(x) = b(y)
  BY <1>2, <1>3
<1> QED BY <1>4, <1>5

(* What the end of a handler makes of an ordered window: t-Reassembly runs *)
(* if anything is held.                                                    *)
LEMMA TimerFollows ==
  ASSUME NEW nh \in SNs, NEW nr \in SNs, NEW w, NEW running \in BOOLEAN, RxType,
         update_reassembly_timer(nh, nr, w, running)
  PROVE  /\ reassembly_timer' \in BOOLEAN /\ RX_Timer_Trigger' \in SNs
         /\ Ordered(nh, nr, w) /\ held(w) # {} => reassembly_timer'
<1>1. reassembly_timer' = (running \/ gap(nh, nr, w))
      /\ RX_Timer_Trigger' = IF ~running /\ gap(nh, nr, w) THEN nh ELSE RX_Timer_Trigger
  BY DEF update_reassembly_timer
<1>2. reassembly_timer' \in BOOLEAN /\ RX_Timer_Trigger' \in SNs
  BY <1>1, Zenon DEF RxType
<1>3. ASSUME Ordered(nh, nr, w), NEW h \in held(w) PROVE gap(nh, nr, w)
  BY <1>3, HeldIsGap DEF Ordered
<1> QED BY <1>1, <1>2, <1>3, Zenon

(* The state after handle_rx_buffer_update().                              *)
LEMMA BufferUpdated ==
  ASSUME NEW nh \in SNs, NEW nr \in SNs, NEW w, w = [sn \in SNs |-> w[sn]], RxType,
         buffer_updated(nh, nr, w), map_in_order' \in BOOLEAN,
         map_in_order' => Ordered(nh, nr, w)
  PROVE  RxType' /\ RxOrdered'
<1> DEFINE running == reassembly_timer /\ ~timer_pointless(nh, nr, w)
<1>1. RX_Next_Highest' = nh /\ RX_Next_Reassembly' = nr /\ rx_window' = w
      /\ update_reassembly_timer(nh, nr, w, running)
  BY DEF buffer_updated
<1>2. running \in BOOLEAN
  OBVIOUS
<1> HIDE DEF running
<1>3. /\ reassembly_timer' \in BOOLEAN /\ RX_Timer_Trigger' \in SNs
      /\ Ordered(nh, nr, w) /\ held(w) # {} => reassembly_timer'
  BY <1>1, <1>2, TimerFollows
<1>4. RxType'
  BY <1>1, <1>3 DEF RxType
<1>5. RxOrdered'
  <2>1. RxOrdered' = (map_in_order' =>
                        /\ Ordered(RX_Next_Highest', RX_Next_Reassembly', rx_window')
                        /\ held(rx_window') # {} => reassembly_timer')
    BY DEF RxOrdered, HeldSegmentsTimed, Ordered, held, base
  <2> QED BY <1>1, <1>3, <2>1
<1> QED BY <1>4, <1>5

(* A window with fewer SNs, or with one more that is in its place.         *)
LEMMA OrderedSubset ==
  ASSUME NEW nh \in SNs, NEW nr \in SNs, NEW w, NEW w2, NEW sn \in SNs, Ordered(nh, nr, w),
         \/ held(w2) \subseteq held(w)
         \/ /\ held(w2) \subseteq held(w) \cup {sn}
            /\ base(nh, sn) < UM_Window_Size /\ base(nh, nr) <= base(nh, sn)
  PROVE  Ordered(nh, nr, w2)
BY DEF Ordered

(* After the SDU at RX_Next_Reassembly is complete the search of the map   *)
(* finds the earliest SN, if the map is in the order of the window.        *)
LEMMA NextOrdered ==
  ASSUME NEW w, RxType, Ordered(RX_Next_Highest, RX_Next_Reassembly, w),
         RX_Next_Reassembly \notin held(w)
  PROVE  /\ next_reassembly(w) \in SNs
         /\ next_reassembly(w) = RX_Next_Reassembly \/ window_order(RX_Next_Highest, w)
              => Ordered(RX_Next_Highest, next_reassembly(w), w)
<1> DEFINE later == {sn \in held(w) : base(RX_Next_Highest, sn)
                                        > base(RX_Next_Highest, RX_Next_Reassembly)}
<1>1. next_reassembly(w) = IF held(w) = {} THEN RX_Next_Highest
                           ELSE IF later = {} THEN RX_Next_Reassembly ELSE Min(later)
  BY DEF next_reassembly
<1>2. CASE held(w) = {}
  BY <1>1, <1>2 DEF RxType, Ordered
<1>3. CASE held(w) # {} /\ later = {}
  BY <1>1, <1>3 DEF RxType
<1>4. CASE held(w) # {} /\ later # {}
  <2>1. later \in SUBSET Nat /\ later \subseteq SNs
    BY Constants DEF held
  <2> DEFINE m == Min(later)
  <2>2. m \in later /\ \A y \in later : m <= y
    <3> HIDE DEF later
    <3> QED BY <1>4, <2>1, LeastOf
  <2>3. next_reassembly(w) = m
    BY <1>1, <1>4
  <2> HIDE DEF m
  <2>4. m \in held(w) /\ m \in SNs
    BY <2>2 DEF held
  <2>5. m # RX_Next_Reassembly
    BY <2>4
  <2>6. ASSUME window_order(RX_Next_Highest, w), NEW h \in held(w)
        PROVE  base(RX_Next_Highest, m) <= base(RX_Next_Highest, h)
    <3>1. h \in SNs /\ RX_Next_Highest \in SNs /\ RX_Next_Reassembly \in SNs
      BY DEF held, RxType
    <3>2. base(RX_Next_Highest, h) \in SNs /\ base(RX_Next_Highest, m) \in SNs
          /\ base(RX_Next_Highest, RX_Next_Reassembly) \in SNs
      BY <3>1, <2>4, Places
    <3>3. base(RX_Next_Highest, RX_Next_Reassembly) <= base(RX_Next_Highest, h)
      BY DEF Ordered
    <3>4. h # RX_Next_Reassembly
      OBVIOUS
    <3>5. base(RX_Next_Highest, RX_Next_Reassembly) # base(RX_Next_Highest, h)
      BY <3>1, <3>4, SamePlace
    <3>6. h \in later
      BY <3>2, <3>3, <3>5, Constants
    <3>7. m <= h
      BY <2>2, <3>6
    <3>8. CASE m = h
      BY <3>2, <3>8, Constants
    <3>9. CASE m < h
      BY <2>4, <2>6, <3>2, <3>9, Constants DEF window_order
    <3> QED BY <3>1, <2>4, <3>7, <3>8, <3>9, Constants
  <2>7. window_order(RX_Next_Highest, w) => Ordered(RX_Next_Highest, m, w)
    BY <2>6 DEF Ordered
  <2> QED BY <2>3, <2>4, <2>5, <2>7
<1> QED BY <1>2, <1>3, <1>4

(* Wherever the search of the map ends, it ends at an SN.                  *)
LEMMA SearchesEnd ==
  ASSUME NEW w, RxType, NEW nh \in SNs
  PROVE  next_reassembly(w) \in SNs /\ reassembly_moved(nh, w) \in SNs
<1>1. ASSUME NEW S \in SUBSET held(w), S # {} PROVE Min(S) \in SNs
  <2>1. S \in SUBSET Nat /\ S \subseteq SNs
    BY Constants DEF held
  <2> QED BY <1>1, <2>1, LeastOf
<1> DEFINE later == {sn \in held(w) : base(RX_Next_Highest, sn)
                                        > base(RX_Next_Highest, RX_Next_Reassembly)}
<1>2. next_reassembly(w) = IF held(w) = {} THEN RX_Next_Highest
                           ELSE IF later = {} THEN RX_Next_Reassembly ELSE Min(later)
  BY DEF next_reassembly
<1>3. later \in SUBSET held(w) /\ held(w) \in SUBSET held(w)
  OBVIOUS
<1> HIDE DEF later
<1>4. next_reassembly(w) \in SNs
  BY <1>1, <1>2, <1>3 DEF RxType
<1>5. reassembly_moved(nh, w) \in SNs
  BY <1>1, <1>3 DEF reassembly_moved, RxType
<1> QED BY <1>4, <1>5

(* When the window moves, what stays in it is in order, and if             *)
(* RX_Next_Reassembly fell out of it the first SN of the map replaces it.  *)
LEMMA MovedOrdered ==
  ASSUME NEW w, NEW sn \in SNs, RxType, Ordered(RX_Next_Highest, RX_Next_Reassembly, rx_window),
         held(w) \subseteq held(rx_window) \cup {sn},
         ~sn_in_reassembly_window(RX_Next_Highest, sn)
  PROVE  LET nh == (sn + 1) % mod
             w2 == window_moved(nh, w)
             nr == reassembly_moved(nh, w2)
         IN  nr = RX_Next_Reassembly \/ window_order(nh, w2) => Ordered(nh, nr, w2)
<1> DEFINE nh == (sn + 1) % mod
           w2 == window_moved(nh, w)
           nr == reassembly_moved(nh, w2)
<1> SUFFICES ASSUME nr = RX_Next_Reassembly \/ window_order(nh, w2), NEW h \in held(w2)
             PROVE  base(nh, h) < UM_Window_Size /\ base(nh, nr) <= base(nh, h)
  BY DEF Ordered
<1>1. nh \in SNs /\ base(nh, sn) = UM_Window_Size - 1
  BY NextSn, NewestLast
<1>2. RX_Next_Reassembly \in SNs /\ RX_Next_Highest \in SNs
  BY DEF RxType
<1>3. base(RX_Next_Highest, sn) \in SNs /\ base(RX_Next_Highest, sn) >= UM_Window_Size
  <2>1. base(RX_Next_Highest, sn) \in SNs
    BY <1>2, Places
  <2> QED BY <2>1, Constants DEF sn_in_reassembly_window
<1>4. held(w2) \subseteq {x \in held(w) : base(nh, x) < UM_Window_Size}
  BY DEF window_moved, dropped, held, sn_in_reassembly_window
<1>5. h \in SNs /\ h \in held(rx_window) \cup {sn} /\ base(nh, h) < UM_Window_Size
  BY <1>4 DEF held
<1>6. base(nh, h) \in SNs /\ base(nh, RX_Next_Reassembly) \in SNs
  BY <1>1, <1>2, <1>5, Places
<1>7. CASE base(nh, RX_Next_Reassembly) < UM_Window_Size
  <2>1. nr = RX_Next_Reassembly
    BY <1>7 DEF reassembly_moved, sn_in_reassembly_window
  <2>2. CASE h = sn
    BY <1>1, <1>5, <1>6, <1>7, <2>1, <2>2, Constants
  <2>3. CASE h \in held(rx_window)
    <3>1. base(RX_Next_Highest, RX_Next_Reassembly) <= base(RX_Next_Highest, h)
          /\ base(RX_Next_Highest, h) < UM_Window_Size
      BY <2>3 DEF Ordered
    <3>2. base(nh, RX_Next_Reassembly) <= base(nh, h)
      BY <1>2, <1>3, <1>5, <1>7, <3>1, MoveKeepsOrder
    <3> QED BY <1>5, <2>1, <3>2
  <2> QED BY <1>5, <2>2, <2>3
<1>8. CASE ~(base(nh, RX_Next_Reassembly) < UM_Window_Size)
  <2>1. held(w2) \in SUBSET Nat /\ held(w2) # {} /\ held(w2) \subseteq SNs
    BY Constants DEF held
  <2>2. nr = Min(held(w2))
    BY <1>8, <2>1 DEF reassembly_moved, sn_in_reassembly_window
  <2>3. nr \in held(w2) /\ \A y \in held(w2) : nr <= y
    <3> HIDE DEF w2, nh, nr
    <3> QED BY <2>1, <2>2, LeastOf
  <2>4. nr # RX_Next_Reassembly
    BY <1>4, <1>8, <2>3
  <2> HIDE DEF nr
  <2>5. nr \in SNs /\ base(nh, nr) \in SNs
    <3> HIDE DEF nh, w2
    <3> QED BY <1>1, <2>1, <2>3, Places
  <2>6. nr <= h
    BY <2>3
  <2>7. nr # h => base(nh, nr) < base(nh, h)
    <3>1. window_order(nh, w2)
      BY <2>4
    <3> HIDE DEF nh, w2
    <3> QED BY <1>5, <2>3, <2>5, <2>6, <3>1, Constants DEF window_order
  <2> HIDE DEF nh, w2
  <2> QED BY <1>5, <1>6, <2>5, <2>7, Constants
<1> QED BY <1>7, <1>8

(* handle_data_pdu() with a segment.                                       *)
LEMMA SegmentHandled ==
  ASSUME RxType, RxOrdered, NEW pdu \in ChannelPdus, NEW so, handle_segment(pdu, so),
         map_in_order' = (map_in_order /\ (\/ RX_Next_Reassembly' = RX_Next_Reassembly
                                           \/ window_order(RX_Next_Highest', rx_window')))
  PROVE  RxType' /\ RxOrdered'
<1> DEFINE sn == pdu.sn
           j  == joined(place(pdu, segment(pdu, so)))
           w  == [rx_window EXCEPT ![sn] = j.pdu]
           nh == (sn + 1) % mod
<1>1. sn \in SNs /\ nh \in SNs /\ RX_Next_Reassembly \in SNs /\ RX_Next_Highest \in SNs
  <2>1. sn \in SNs
    BY DEF ChannelPdus
  <2> QED BY <2>1, NextSn DEF RxType
<1>2. /\ map_in_order' \in BOOLEAN
      /\ map_in_order' => Ordered(RX_Next_Highest, RX_Next_Reassembly, rx_window)
      /\ map_in_order' => \/ RX_Next_Reassembly' = RX_Next_Reassembly
                          \/ window_order(RX_Next_Highest', rx_window')
  BY DEF RxType, RxOrdered
<1>3. base(RX_Next_Highest, RX_Next_Reassembly) <= base(RX_Next_Highest, sn)
  <2>1. ~(base(RX_Next_Highest, sn) < base(RX_Next_Highest, RX_Next_Reassembly))
    BY DEF handle_segment, sn_invalid_for_rx_buffer
  <2>2. base(RX_Next_Highest, sn) \in SNs /\ base(RX_Next_Highest, RX_Next_Reassembly) \in SNs
    BY <1>1, Places
  <2> QED BY <2>1, <2>2, Constants
<1>4. w = [x \in SNs |-> w[x]] /\ held(w) \subseteq held(rx_window) \cup {sn}
  <2> HIDE DEF j, sn
  <2> QED BY <1>1 DEF RxType, held
<1>5. CASE j.complete
  <2> DEFINE w2 == dropped(w, {sn})
             nr == IF sn = RX_Next_Reassembly THEN next_reassembly(w2) ELSE RX_Next_Reassembly
  <2>1. buffer_updated(RX_Next_Highest, nr, w2)
    BY <1>5 DEF handle_segment
  <2>2. w2 = [x \in SNs |-> w2[x]] /\ held(w2) \subseteq held(rx_window) /\ sn \notin held(w2)
    <3> HIDE DEF j, sn, w
    <3> QED BY <1>4 DEF dropped, held
  <2>3. RX_Next_Highest' = RX_Next_Highest /\ RX_Next_Reassembly' = nr /\ rx_window' = w2
    BY <2>1 DEF buffer_updated
  <2> HIDE DEF w2, j, w, sn, nh
  <2>4. nr \in SNs
    BY <1>1, SearchesEnd
  <2>5. ASSUME map_in_order' PROVE Ordered(RX_Next_Highest, nr, w2)
    <3>1. Ordered(RX_Next_Highest, RX_Next_Reassembly, w2)
      BY <1>1, <1>2, <2>2, <2>5, OrderedSubset
    <3>2. CASE sn = RX_Next_Reassembly
      <4>1. nr = next_reassembly(w2)
        BY <3>2
      <4>2. nr = RX_Next_Reassembly \/ window_order(RX_Next_Highest, w2)
        BY <1>2, <2>3, <2>5
      <4> QED BY <2>2, <3>1, <3>2, <4>1, <4>2, NextOrdered
    <3>3. CASE sn # RX_Next_Reassembly
      BY <3>1, <3>3
    <3> QED BY <3>2, <3>3
  <2> HIDE DEF nr
  <2> QED BY <1>1, <1>2, <2>1, <2>2, <2>4, <2>5, BufferUpdated
<1>6. CASE ~j.complete /\ sn_in_reassembly_window(RX_Next_Highest, sn)
  <2>1. buffer_updated(RX_Next_Highest, RX_Next_Reassembly, w)
    BY <1>6 DEF handle_segment
  <2>2. base(RX_Next_Highest, sn) < UM_Window_Size
    BY <1>6 DEF sn_in_reassembly_window
  <2> HIDE DEF j, w, sn, nh
  <2>3. map_in_order' => Ordered(RX_Next_Highest, RX_Next_Reassembly, w)
    BY <1>1, <1>2, <1>3, <1>4, <2>2, OrderedSubset
  <2> QED BY <1>1, <1>2, <1>4, <2>1, <2>3, BufferUpdated
<1>7. CASE ~j.complete /\ ~sn_in_reassembly_window(RX_Next_Highest, sn)
  <2> DEFINE w2 == window_moved(nh, w)
             nr == reassembly_moved(nh, w2)
  <2>1. buffer_updated(nh, nr, w2)
    BY <1>7 DEF handle_segment
  <2>2. w2 = [x \in SNs |-> w2[x]]
    BY DEF window_moved, dropped
  <2>3. RX_Next_Highest' = nh /\ RX_Next_Reassembly' = nr /\ rx_window' = w2
    BY <2>1 DEF buffer_updated
  <2>4. nr \in SNs
    <3> HIDE DEF w2, j, w, sn, nh
    <3> QED BY <1>1, SearchesEnd
  <2>5. ASSUME map_in_order' PROVE Ordered(nh, nr, w2)
    <3>1. nr = RX_Next_Reassembly \/ window_order(nh, w2)
      BY <1>2, <2>3, <2>5
    <3> HIDE DEF j, w, sn
    <3>2. nr = RX_Next_Reassembly \/ window_order(nh, w2) => Ordered(nh, nr, w2)
      BY <1>1, <1>2, <1>4, <1>7, <2>5, MovedOrdered
    <3> QED BY <3>1, <3>2
  <2> HIDE DEF nr, w2, nh, w, sn, j
  <2> QED BY <1>1, <1>2, <2>1, <2>2, <2>4, <2>5, BufferUpdated
<1> QED BY <1>5, <1>6, <1>7

(* t-Reassembly expires: what is before the new RX_Next_Reassembly goes.   *)
LEMMA ExpiryHandled ==
  ASSUME RxType, RxOrdered, timer_expired, UNCHANGED map_in_order
  PROVE  RxType' /\ RxOrdered'
<1> DEFINE nr == expired_reassembly
           w2 == dropped(rx_window, expired_sns)
<1>1. /\ RX_Next_Reassembly' = nr /\ rx_window' = w2 /\ RX_Next_Highest' = RX_Next_Highest
      /\ update_reassembly_timer(RX_Next_Highest, nr, w2, FALSE)
  BY DEF timer_expired
<1>2. nr \in SNs /\ RX_Next_Highest \in SNs
  BY DEF expired_reassembly, RxType
<1>3. w2 = [sn \in SNs |-> w2[sn]] /\ held(w2) \subseteq held(rx_window) \ expired_sns
  BY DEF dropped, held
<1>4. ASSUME map_in_order PROVE Ordered(RX_Next_Highest, nr, w2)
  <2> SUFFICES ASSUME NEW h \in held(w2)
               PROVE  /\ base(RX_Next_Highest, h) < UM_Window_Size
                      /\ base(RX_Next_Highest, nr) <= base(RX_Next_Highest, h)
    BY DEF Ordered
  <2>1. base(RX_Next_Highest, h) < UM_Window_Size
    BY <1>3, <1>4 DEF RxOrdered, Ordered
  <2>2. h \in SNs
    BY DEF held
  <2>3. ~(base(RX_Next_Highest, h) < base(RX_Next_Highest, nr))
    BY <1>3 DEF expired_sns
  <2>4. base(RX_Next_Highest, h) \in SNs /\ base(RX_Next_Highest, nr) \in SNs
    <3> HIDE DEF nr
    <3> QED BY <1>2, <2>2, Places
  <2> QED BY <2>1, <2>3, <2>4, Constants
<1> HIDE DEF nr, w2
<1>5. /\ reassembly_timer' \in BOOLEAN /\ RX_Timer_Trigger' \in SNs
      /\ Ordered(RX_Next_Highest, nr, w2) /\ held(w2) # {} => reassembly_timer'
  <2> DEFINE running == FALSE
  <2>1. running \in BOOLEAN /\ update_reassembly_timer(RX_Next_Highest, nr, w2, running)
    BY <1>1
  <2> HIDE DEF running
  <2> QED BY <1>2, <2>1, TimerFollows
<1>6. RxType'
  BY <1>1, <1>2, <1>3, <1>5 DEF RxType
<1>7. RxOrdered'
  <2>1. RxOrdered' = (map_in_order' =>
                        /\ Ordered(RX_Next_Highest', RX_Next_Reassembly', rx_window')
                        /\ held(rx_window') # {} => reassembly_timer')
    BY DEF RxOrdered, HeldSegmentsTimed, Ordered, held, base
  <2> QED BY <1>1, <1>4, <1>5, <2>1
<1> QED BY <1>6, <1>7

(* A receiver that starts, or starts again.                                *)
LEMMA EmptyWindow ==
  ASSUME NEW w, w = [sn \in SNs |-> NoSegments]
  PROVE  held(w) = {} /\ w = [sn \in SNs |-> w[sn]]
BY DEF held

(* reestablish() leaves the receiver empty and in order.                   *)
LEMMA ReestablishHandled ==
  ASSUME rx_reestablish, map_in_order' = TRUE
  PROVE  RxType' /\ RxOrdered'
<1>1. /\ RX_Next_Reassembly' = 0 /\ RX_Timer_Trigger' = 0 /\ RX_Next_Highest' = 0
      /\ rx_window' = [sn \in SNs |-> NoSegments] /\ reassembly_timer' = FALSE
  BY DEF rx_reestablish
<1>2. held(rx_window') = {} /\ rx_window' = [sn \in SNs |-> rx_window'[sn]]
  BY <1>1, EmptyWindow
<1>3. RxType'
  BY <1>1, <1>2, Constants DEF RxType
<1>4. RxOrdered'
  <2>1. RxOrdered' = (map_in_order' =>
                        /\ Ordered(RX_Next_Highest', RX_Next_Reassembly', rx_window')
                        /\ held(rx_window') # {} => reassembly_timer')
    BY DEF RxOrdered, HeldSegmentsTimed, Ordered, held, base
  <2> QED BY <1>2, <2>1 DEF Ordered
<1> QED BY <1>3, <1>4

(* A step that leaves the receiver alone.                                  *)
LEMMA ReceiverAlone ==
  ASSUME RxType, RxOrdered, UNCHANGED <<umRxVars, map_in_order>>
  PROVE  RxType' /\ RxOrdered'
<1>1. UNCHANGED <<RX_Next_Reassembly, RX_Timer_Trigger, RX_Next_Highest, rx_window,
                  reassembly_timer, map_in_order>>
  BY DEF umRxVars
<1>2. RxType'
  BY <1>1 DEF RxType
<1>3. RxOrdered'
  <2>1. RxOrdered' = (map_in_order' =>
                        /\ Ordered(RX_Next_Highest', RX_Next_Reassembly', rx_window')
                        /\ held(rx_window') # {} => reassembly_timer')
    BY DEF RxOrdered, HeldSegmentsTimed, Ordered, held, base
  <2> QED BY <1>1, <2>1 DEF RxOrdered, HeldSegmentsTimed
<1> QED BY <1>2, <1>3

-----------------------------------------------------------------------------
(* The sender                                                              *)

(* The SDU a grant is for, where there is one, and what is left in the     *)
(* queue.                                                                  *)
LEMMA CurrentSdu ==
  ASSUME TxInv, ~(is_new /\ only_null(tx_sdu_queue))
  PROVE  /\ current \in [sdu : Sdus \cup {None}, left : 0..N_bytes]
         /\ so_of_next \in 0..N_bytes /\ so_of_next + current.left <= N_bytes
         /\ queue_after \in Seq(Sdus \cup {None}) /\ Len(queue_after) <= TxQueueLength
<1>1. CASE is_new
  <2> DEFINE k == first_sdu(tx_sdu_queue)
  <2>1. k \in 1..Len(tx_sdu_queue) /\ tx_sdu_queue[k] \in Sdus \cup {None}
    BY <1>1, FirstSdu DEF TxInv
  <2>2. current = [sdu |-> tx_sdu_queue[k], left |-> N_bytes] /\ so_of_next = 0
        /\ queue_after = SubSeq(tx_sdu_queue, k + 1, Len(tx_sdu_queue))
    BY <1>1 DEF current, so_of_next, queue_after
  <2> HIDE DEF k
  <2>3. tx_sdu_queue \in Seq(Sdus \cup {None}) /\ Len(tx_sdu_queue) \in Nat
        /\ Len(tx_sdu_queue) <= TxQueueLength /\ TxQueueLength \in Nat
    BY UmAssumption DEF TxInv
  <2>4. queue_after \in Seq(Sdus \cup {None}) /\ Len(queue_after) = Len(tx_sdu_queue) - k
    <3> DEFINE m == k + 1  n == Len(tx_sdu_queue)
    <3>1. m \in 1..(n + 1) /\ n \in 0..n
      BY <2>1, <2>3
    <3>2. SubSeq(tx_sdu_queue, m, n) \in Seq(Sdus \cup {None})
          /\ Len(SubSeq(tx_sdu_queue, m, n)) = IF m <= n THEN n - m + 1 ELSE 0
      BY <2>1, <2>3, <3>1
    <3> QED BY <2>1, <2>2, <2>3, <3>2
  <2> QED BY <2>1, <2>2, <2>3, <2>4, Constants
<1>2. CASE ~is_new
  BY <1>2 DEF TxInv, current, so_of_next, queue_after
<1> QED BY <1>1, <1>2

(* A PDU carries no more than is left of its SDU.                          *)
LEMMA BuiltPdu ==
  ASSUME TxInv, ~(is_new /\ only_null(tx_sdu_queue)), mac_grant # 0, ~too_small(mac_grant)
  PROVE  pdu_of(mac_grant) \in ChannelPdus /\ pdu_of(mac_grant).len <= current.left
<1>1. /\ current \in [sdu : Sdus \cup {None}, left : 0..N_bytes] /\ so_of_next \in 0..N_bytes
  BY CurrentSdu
<1>2. mac_grant \in Nat /\ si_of(mac_grant) \in {"full", "first", "middle", "last"}
  BY UmAssumption DEF TxInv, si_of
<1> DEFINE head == packed_length(si_of(mac_grant), so_of_next)
<1>3. head \in Nat
  BY Constants DEF packed_length
<1>4. payload_of(mac_grant) =
        IF mac_grant - head >= current.left THEN current.left ELSE mac_grant - head
  BY DEF payload_of
<1>5. ~(mac_grant <= head + 1)
  BY DEF too_small
<1> HIDE DEF head
<1>6. payload_of(mac_grant) \in 0..N_bytes /\ payload_of(mac_grant) <= current.left
  BY <1>1, <1>2, <1>3, <1>4, <1>5, Constants
<1>7. TX_Next \in SNs /\ current.sdu \in Sdus \cup {None} /\ N_bytes - current.left \in Int
  BY <1>1, Constants DEF TxInv
<1> HIDE DEF current, so_of_next, payload_of, si_of
<1> QED BY <1>1, <1>2, <1>6, <1>7 DEF pdu_of, ChannelPdus

(* What the sender does keeps the SO within the SDU and the queue within   *)
(* its length.                                                             *)
LEMMA SenderSteps ==
  ASSUME TxInv,
         \/ \E sdu \in Sdus : Write(sdu) \/ Discard(sdu)
         \/ \E n \in Grants : Opportunity(n)
         \/ Build \/ Blocks
  PROVE  TxInv'
<1>0. /\ tx_sdu_queue \in Seq(Sdus \cup {None}) /\ Len(tx_sdu_queue) \in Nat
      /\ channel \in Seq(ChannelPdus) /\ TxQueueLength \in Nat /\ MaxInFlight \in Nat
  BY UmAssumption DEF TxInv
<1>1. ASSUME NEW sdu \in Sdus, Write(sdu) PROVE TxInv'
  <2>1. tx_sdu_queue' = Append(tx_sdu_queue, sdu) /\ Len(tx_sdu_queue) < TxQueueLength
        /\ UNCHANGED <<TX_Next, next_so, tx_sdu, mac_grant, channel>>
    BY <1>1 DEF Write, write_sdu
  <2>2. tx_sdu_queue' \in Seq(Sdus \cup {None}) /\ Len(tx_sdu_queue') = Len(tx_sdu_queue) + 1
    BY <1>0, <2>1
  <2>3. Len(tx_sdu_queue') <= TxQueueLength
    BY <1>0, <2>1, <2>2
  <2> QED BY <2>1, <2>2, <2>3 DEF TxInv
<1>2. ASSUME NEW sdu \in Sdus, Discard(sdu) PROVE TxInv'
  <2>1. /\ tx_sdu_queue' = [i \in DOMAIN tx_sdu_queue |->
                              IF tx_sdu_queue[i] = sdu THEN None ELSE tx_sdu_queue[i]]
        /\ UNCHANGED <<TX_Next, next_so, tx_sdu, mac_grant, channel>>
    BY <1>2 DEF Discard, discard_sdu
  <2>2. tx_sdu_queue' \in Seq(Sdus \cup {None}) /\ Len(tx_sdu_queue') = Len(tx_sdu_queue)
    BY <1>0, <2>1
  <2> QED BY <2>1, <2>2 DEF TxInv
<1>3. ASSUME NEW n \in Grants, Opportunity(n) PROVE TxInv'
  <2>1. mac_grant' = n /\ UNCHANGED <<TX_Next, next_so, tx_sdu, tx_sdu_queue, channel>>
    BY <1>3 DEF Opportunity, mac_opportunity
  <2> QED BY <2>1 DEF TxInv
<1>4. CASE Blocks
  <2>1. UNCHANGED <<TX_Next, next_so, tx_sdu, tx_sdu_queue, mac_grant, channel>>
    BY <1>4 DEF Blocks, build_blocks
  <2> QED BY <2>1 DEF TxInv
<1>5. CASE build_nothing
  <2>1. tx_sdu_queue' = <<>> /\ mac_grant' = 0 /\ UNCHANGED <<TX_Next, next_so, tx_sdu, channel>>
    BY <1>5 DEF build_nothing, build_returns
  <2>2. tx_sdu_queue' \in Seq(Sdus \cup {None}) /\ Len(tx_sdu_queue') <= TxQueueLength
    BY <1>0, <2>1
  <2> QED BY <2>1, <2>2 DEF TxInv
<1>6. CASE build_too_small
  <2>1. /\ tx_sdu' = current /\ tx_sdu_queue' = queue_after /\ next_so' = so_of_next
        /\ mac_grant' = 0 /\ UNCHANGED <<TX_Next, channel>>
        /\ ~(is_new /\ only_null(tx_sdu_queue))
    BY <1>6 DEF build_too_small, build_returns
  <2>2. /\ current \in [sdu : Sdus \cup {None}, left : 0..N_bytes]
        /\ so_of_next \in 0..N_bytes /\ so_of_next + current.left <= N_bytes
        /\ queue_after \in Seq(Sdus \cup {None}) /\ Len(queue_after) <= TxQueueLength
    BY <2>1, CurrentSdu
  <2> HIDE DEF current, so_of_next, queue_after
  <2> QED BY <2>1, <2>2 DEF TxInv
<1>7. CASE build_pdu
  <2> DEFINE pdu == pdu_of(mac_grant)
             left == current.left - pdu.len
  <2>1. /\ ~(is_new /\ only_null(tx_sdu_queue)) /\ mac_grant # 0 /\ ~too_small(mac_grant)
        /\ channel' = Append(channel, pdu) /\ mac_grant' = 0 /\ tx_sdu_queue' = queue_after
        /\ tx_sdu' = IF left = 0 THEN NoSdu ELSE [current EXCEPT !.left = left]
        /\ next_so' = IF pdu.si = "last" THEN 0 ELSE so_of_next + pdu.len
        /\ TX_Next' = tx_next_after(pdu.si)
    BY <1>7 DEF build_pdu, build_returns
  <2>2. /\ current \in [sdu : Sdus \cup {None}, left : 0..N_bytes]
        /\ so_of_next \in 0..N_bytes /\ so_of_next + current.left <= N_bytes
        /\ queue_after \in Seq(Sdus \cup {None}) /\ Len(queue_after) <= TxQueueLength
    BY <2>1, CurrentSdu
  <2>3. pdu \in ChannelPdus /\ pdu.len <= current.left
    BY <2>1, BuiltPdu
  <2>4. TX_Next' \in SNs
    BY <2>1, NextSn DEF tx_next_after, TxInv
  <2> HIDE DEF pdu, current, so_of_next, queue_after
  <2>5. pdu.len \in 0..N_bytes /\ current.left \in 0..N_bytes /\ current.sdu \in Sdus \cup {None}
    BY <2>2, <2>3 DEF ChannelPdus
  <2>6. left \in 0..N_bytes /\ so_of_next + pdu.len + left <= N_bytes
    BY <2>2, <2>3, <2>5, Constants
  <2>7. channel' \in Seq(ChannelPdus)
    BY <1>0, <2>1, <2>3
  <2> HIDE DEF left
  <2>8. /\ tx_sdu' \in [sdu : Sdus \cup {None}, left : 0..N_bytes]
        /\ tx_sdu'.left = left
    BY <2>1, <2>2, <2>6, Constants DEF NoSdu
  <2>9. next_so' \in 0..N_bytes /\ next_so' + tx_sdu'.left <= N_bytes
    <3> DEFINE l == pdu.len  n == next_so'  t == tx_sdu'.left  o == so_of_next
    <3>1. /\ l \in 0..N_bytes /\ left \in 0..N_bytes /\ o \in 0..N_bytes /\ o + l + left <= N_bytes
          /\ (n = 0 \/ n = o + l) /\ t = left
      BY <2>1, <2>2, <2>5, <2>6, <2>8
    <3> HIDE DEF l, n, t, o
    <3>2. n \in 0..N_bytes /\ n + t <= N_bytes
      BY <3>1, Constants
    <3> QED BY <3>2 DEF n, t
  <2> QED BY <2>1, <2>2, <2>4, <2>7, <2>8, <2>9 DEF TxInv
<1> QED BY <1>1, <1>2, <1>3, <1>4, <1>5, <1>6, <1>7 DEF Build

(* A PDU leaves the channel.                                               *)
LEMMA ChannelStep ==
  ASSUME TxInv, NEW i \in DOMAIN channel, Channel(i)
  PROVE  TxInv' /\ channel[i] \in ChannelPdus
<1>1. channel' = RemoveAt(channel, i)
      /\ UNCHANGED <<TX_Next, next_so, tx_sdu, tx_sdu_queue, mac_grant>>
  BY DEF Channel, umTxVars
<1>2. channel \in Seq(ChannelPdus) /\ i \in 1..Len(channel) /\ Len(channel) \in Nat
  BY DEF TxInv
<1>3. SubSeq(channel, 1, i - 1) \in Seq(ChannelPdus)
      /\ SubSeq(channel, i + 1, Len(channel)) \in Seq(ChannelPdus)
  BY <1>2
<1>4. channel' \in Seq(ChannelPdus)
  BY <1>1, <1>3 DEF RemoveAt
<1>5. channel[i] \in ChannelPdus
  BY <1>2
<1> QED BY <1>1, <1>4, <1>5 DEF TxInv

-----------------------------------------------------------------------------
(* The bearer                                                              *)

(* The invariant holds in the initial state.                               *)
LEMMA UmInit == Init => UmInv
<1> SUFFICES ASSUME Init PROVE UmInv
  OBVIOUS
<1>1. TxInv
  BY Constants, UmAssumption DEF Init, TxInv, NoSdu
<1>2. held(rx_window) = {} /\ rx_window = [sn \in SNs |-> rx_window[sn]]
  BY EmptyWindow DEF Init
<1>3. RxType
  BY <1>2, Constants DEF Init, RxType
<1>4. RxOrdered
  BY <1>2 DEF RxOrdered, Ordered, HeldSegmentsTimed
<1> QED BY <1>1, <1>3, <1>4 DEF UmInv

(* Every step of the two entities and of the MAC keeps the invariant.      *)
LEMMA UmNext == UmInv /\ [Next]_vars => UmInv'
<1> SUFFICES ASSUME UmInv, [Next]_vars PROVE UmInv'
  OBVIOUS
<1>0. TxInv /\ RxType /\ RxOrdered
  BY DEF UmInv
<1>1. ASSUME \/ \E sdu \in Sdus : Write(sdu) \/ Discard(sdu)
             \/ \E n \in Grants : Opportunity(n)
             \/ Build \/ Blocks
      PROVE  UmInv'
  <2>1. TxInv'
    BY <1>0, <1>1, SenderSteps
  <2>2. UNCHANGED <<umRxVars, map_in_order>>
    BY <1>1 DEF Write, Discard, Opportunity, Build, Blocks, Tx
  <2>3. RxType' /\ RxOrdered'
    BY <1>0, <2>2, ReceiverAlone
  <2> QED BY <2>1, <2>3 DEF UmInv
<1>2. ASSUME NEW i \in DOMAIN channel, Receive(i) PROVE UmInv'
  <2>1. /\ Channel(i)
        /\ map_in_order' = (map_in_order /\ (\/ RX_Next_Reassembly' = RX_Next_Reassembly
                                             \/ window_order(RX_Next_Highest', rx_window')))
        /\ \/ handle_full(channel[i]) \/ handle_invalid_sn(channel[i])
           \/ \E so \in 0..N_bytes : handle_segment(channel[i], so)
    BY <1>2 DEF Receive
  <2>2. TxInv' /\ channel[i] \in ChannelPdus
    BY <1>0, <2>1, ChannelStep
  <2>3. CASE handle_full(channel[i]) \/ handle_invalid_sn(channel[i])
    <3>1. UNCHANGED <<RX_Next_Reassembly, RX_Timer_Trigger, RX_Next_Highest, rx_window,
                      reassembly_timer>>
      BY <2>3 DEF handle_full, handle_invalid_sn, umRxVars
    <3>2. map_in_order' = map_in_order
      BY <1>0, <2>1, <3>1 DEF RxType
    <3>3. RxType'
      BY <1>0, <3>1, <3>2 DEF RxType
    <3>4. RxOrdered'
      <4>1. RxOrdered' = (map_in_order' =>
                            /\ Ordered(RX_Next_Highest', RX_Next_Reassembly', rx_window')
                            /\ held(rx_window') # {} => reassembly_timer')
        BY DEF RxOrdered, HeldSegmentsTimed, Ordered, held, base
      <4> QED BY <1>0, <3>1, <3>2, <4>1 DEF RxOrdered, HeldSegmentsTimed
    <3> QED BY <2>2, <3>3, <3>4 DEF UmInv
  <2>4. ASSUME NEW so \in 0..N_bytes, handle_segment(channel[i], so) PROVE UmInv'
    <3>1. RxType' /\ RxOrdered'
      BY <1>0, <2>1, <2>2, <2>4, SegmentHandled
    <3> QED BY <2>2, <3>1 DEF UmInv
  <2> QED BY <2>1, <2>3, <2>4
<1>3. ASSUME NEW i \in DOMAIN channel, Lose(i) PROVE UmInv'
  <2>1. Channel(i) /\ UNCHANGED <<umRxVars, map_in_order>>
    BY <1>3 DEF Lose
  <2>2. TxInv'
    BY <1>0, <2>1, ChannelStep
  <2>3. RxType' /\ RxOrdered'
    BY <1>0, <2>1, ReceiverAlone
  <2> QED BY <2>2, <2>3 DEF UmInv
<1>4. CASE Expire
  <2>1. timer_expired /\ UNCHANGED <<umTxVars, channel, map_in_order>>
    BY <1>4 DEF Expire
  <2>2. TxInv'
    BY <1>0, <2>1 DEF TxInv, umTxVars
  <2>3. RxType' /\ RxOrdered'
    BY <1>0, <2>1, ExpiryHandled
  <2> QED BY <2>2, <2>3 DEF UmInv
<1>5. CASE Reestablish
  <2>1. tx_stop /\ rx_reestablish /\ channel' = <<>> /\ map_in_order' = TRUE
    BY <1>5 DEF Reestablish
  <2>2. TxInv'
    BY <1>0, <2>1, Constants, UmAssumption DEF TxInv, tx_stop, NoSdu
  <2>3. RxType' /\ RxOrdered'
    BY <2>1, ReestablishHandled
  <2> QED BY <2>2, <2>3 DEF UmInv
<1>6. CASE UNCHANGED vars
  <2>1. TxInv'
    BY <1>0, <1>6 DEF TxInv, vars, umTxVars
  <2>2. RxType' /\ RxOrdered'
    BY <1>0, <1>6, ReceiverAlone DEF vars
  <2> QED BY <2>1, <2>2 DEF UmInv
<1> QED BY <1>1, <1>2, <1>3, <1>4, <1>5, <1>6 DEF Next

(* rlc_um_nr_rx holds nothing outside the reassembly window or before      *)
(* RX_Next_Reassembly, and t-Reassembly runs while it holds something, for *)
(* every window size, whatever the MAC loses and reorders and whenever the *)
(* bearer is re-established; the one exception is a search of rx_window    *)
(* while the SNs in it wrap.                                               *)
THEOREM ReceiverKept == Spec => []ReceiverConsistent
<1>1. UmInv /\ [Next]_vars => UmInv'
  BY UmNext
<1> QED BY <1>1, UmInit, UmInvConsistent, PTL DEF Spec

-----------------------------------------------------------------------------
(* What is delivered                                                       *)

(* The header of a segment is as long as configure() takes it to be        *)
ShortSn == sn_bytes = 1

Segment == [so : 0..N_bytes, len : 1..N_bytes, sdu : Sdus]
UmPdu   == [si : {"full", "first", "middle", "last"}, sn : SNs, so : 0..N_bytes,
            len : 1..N_bytes, sdu : Sdus, from : 0..N_bytes]
Entry   == [segments : SUBSET Segment, sdu : Sdus \cup {None},
            next_expected_so : 0..N_bytes, total_sdu_length : {0, N_bytes}]

(* A PDU says where its bytes are, and only the first has offset 0.        *)
GoodPdu(p) ==
  /\ p.from = p.so /\ p.so + p.len <= N_bytes
  /\ p.si = "full" => p.so = 0 /\ p.len = N_bytes
  /\ p.si \in {"middle", "last"} => p.so # 0
  /\ p.si = "last" => p.so + p.len = N_bytes

(* What is held of an SDU: its first segment is joined or waits, not both. *)
GoodEntry(e) ==
  /\ e \in Entry
  /\ \A g \in e.segments : g.so + g.len <= N_bytes
  /\ \A g, h \in e.segments : g.so = h.so => g = h
  /\ e.sdu = None <=> e.next_expected_so = 0
  /\ e.sdu # None => \A g \in e.segments : g.so # 0

Live == written \ discarded

(* The SDUs with something in an entry, and the one whose first byte is    *)
InEntry(e, s) == e.sdu = s \/ \E g \in e.segments : g.sdu = s
HeadIn(e, s)  == e.sdu = s \/ \E g \in e.segments : g.so = 0 /\ g.sdu = s

Cut(p) == p.si # "full"

(* The SDU s is being sent, on its way or held under the number sn.        *)
Numbered(sn, s) ==
  \/ \E i \in DOMAIN channel : Cut(channel[i]) /\ channel[i].sn = sn /\ channel[i].sdu = s
  \/ InEntry(rx_window[sn], s)
  \/ tx_sdu # NoSdu /\ sn = TX_Next /\ tx_sdu.sdu = s

Unsent(s) ==
  /\ handed[s] = 0 /\ tx_sdu.sdu # s
  /\ \A i \in DOMAIN channel : channel[i].sdu # s
  /\ \A sn \in SNs : ~InEntry(rx_window[sn], s)

BearerTypes ==
  /\ written \subseteq Sdus /\ discarded \subseteq written
  /\ handed \in [Sdus \cup {Corrupt} -> {0, 1}] /\ handed[Corrupt] = 0
  /\ rx_window \in [SNs -> Entry] /\ \A sn \in SNs : GoodEntry(rx_window[sn])
  /\ channel \in Seq(UmPdu) /\ \A i \in DOMAIN channel : GoodPdu(channel[i])
  /\ \/ tx_sdu = NoSdu
     \/ tx_sdu \in [sdu : Sdus, left : 1..N_bytes] /\ next_so # 0 /\ next_so + tx_sdu.left = N_bytes

(* An SDU in the queue is nowhere else, and all others are live.           *)
QueueOK ==
  /\ \A k \in DOMAIN tx_sdu_queue : tx_sdu_queue[k] # None =>
       /\ tx_sdu_queue[k] \in Live /\ Unsent(tx_sdu_queue[k])
       /\ \A j \in DOMAIN tx_sdu_queue : tx_sdu_queue[j] = tx_sdu_queue[k] => j = k
  /\ \A s \in Sdus \ Live : Unsent(s)

(* One number for an SDU, and one SDU for a number.                        *)
NumbersOK ==
  \A a, b \in SNs, s, t \in Sdus : Numbered(a, s) /\ Numbered(b, t) => (a = b <=> s = t)

(* The first byte of an SDU is in one place at most.                       *)
HeadsOK ==
  /\ \A i, j \in DOMAIN channel :
       channel[i].so = 0 /\ channel[j].so = 0 /\ channel[i].sdu = channel[j].sdu => i = j
  /\ \A i \in DOMAIN channel : channel[i].so = 0 =>
       /\ handed[channel[i].sdu] = 0
       /\ \A sn \in SNs : ~HeadIn(rx_window[sn], channel[i].sdu)
  /\ \A sn \in SNs, s \in Sdus : HeadIn(rx_window[sn], s) => handed[s] = 0

(* How far behind TX_Next a number is                                      *)
age(sn) == (TX_Next - sn) % mod

(* The numbers in use are recent: none comes round again.                  *)
AgesOK ==
  /\ \A i \in DOMAIN channel : Cut(channel[i]) =>
       /\ age(channel[i].sn) <= UM_Window_Size
       /\ is_new => age(channel[i].sn) # 0
       /\ ~is_new \/ mac_grant # 0 => age(channel[i].sn) < UM_Window_Size
  /\ is_new => age(RX_Next_Highest) <= UM_Window_Size
  /\ is_new /\ mac_grant # 0 => age(RX_Next_Highest) < UM_Window_Size
  /\ ~is_new => age(RX_Next_Highest) < UM_Window_Size \/ age(RX_Next_Highest) = mod - 1
  /\ \A h \in held(rx_window) : base(RX_Next_Highest, h) < UM_Window_Size

WholeInv == BearerTypes /\ QueueOK /\ NumbersOK /\ HeadsOK /\ AgesOK

-----------------------------------------------------------------------------
(* Joining segments                                                        *)

(* Induction over the numbers up to n, for a set given as a value.         *)
LEMMA UpTo ==
  ASSUME NEW n \in Nat, NEW S, 0 \in S, \A k \in 1..n : k - 1 \in S => k \in S
  PROVE  \A k \in 0..n : k \in S
<1> DEFINE Bad == {k \in 0..n : k \notin S}
<1> SUFFICES ASSUME Bad # {} PROVE FALSE
  OBVIOUS
<1>1. Min(Bad) \in Bad /\ \A y \in Bad : Min(Bad) <= y
  <2>1. Bad \in SUBSET Nat
    OBVIOUS
  <2> HIDE DEF Bad
  <2> QED BY <2>1, LeastOf
<1> DEFINE m == Min(Bad)
<1> HIDE DEF m
<1>2. m \in Bad /\ \A y \in Bad : m <= y
  BY <1>1 DEF m
<1>3. m \in 1..n /\ m - 1 \in 0..n
  BY <1>2
<1>4. m - 1 \notin Bad
  BY <1>2, <1>3
<1> QED BY <1>2, <1>3, <1>4

(* What the loop has made of the entry w: nothing is there that was not in *)
(* w, nothing is gone that was not joined, and at the end it is a whole SDU*)
Joining(w) ==
  {acc \in [pdu : Entry, complete : BOOLEAN] :
     /\ GoodEntry(acc.pdu) /\ acc.pdu.segments \subseteq w.segments
     /\ acc.pdu.sdu # None => HeadIn(w, acc.pdu.sdu)
     /\ acc.pdu.sdu = None => acc.pdu.segments = w.segments
     /\ acc.complete => acc.pdu.sdu # None /\ acc.pdu.next_expected_so = N_bytes}

(* One turn of the loop.                                                   *)
LEMMA JoinOne ==
  ASSUME NEW w \in Entry, NEW s \in Sdus, \A t \in Sdus : InEntry(w, t) => t = s,
         NEW acc \in Joining(w), NEW so \in 0..N_bytes
  PROVE  join_one(acc, so) \in Joining(w)
<1> DEFINE e == acc.pdu
           seg == CHOOSE g \in e.segments : g.so = so
           next == so + seg.len
           new == [e EXCEPT !.segments = @ \ {seg}, !.next_expected_so = next,
                            !.sdu = IF so = 0 \/ @ = seg.sdu THEN seg.sdu ELSE Corrupt]
<1>1. CASE acc.complete \/ so # e.next_expected_so \/ ~\E g \in e.segments : g.so = so
  BY <1>1 DEF join_one
<1>2. CASE ~(acc.complete \/ so # e.next_expected_so \/ ~\E g \in e.segments : g.so = so)
  <2>1. join_one(acc, so) = [pdu |-> new, complete |-> so # 0 /\ next = e.total_sdu_length]
    BY <1>2 DEF join_one
  <2>2. seg \in e.segments /\ seg.so = so
    BY <1>2
  <2>3. e \in Entry /\ GoodEntry(e) /\ e.segments \subseteq w.segments
        /\ (e.sdu # None => HeadIn(w, e.sdu))
    BY DEF Joining
  <2> HIDE DEF seg, e
  <2>4. seg \in Segment /\ seg.sdu \in Sdus /\ seg.len \in 1..N_bytes /\ seg.so + seg.len <= N_bytes
    BY <2>2, <2>3 DEF GoodEntry, Entry, Segment
  <2>5. seg.sdu = s /\ (e.sdu # None => e.sdu = s)
    <3>1. InEntry(w, seg.sdu)
      BY <2>2, <2>3 DEF InEntry
    <3>2. e.sdu # None => e.sdu \in Sdus /\ InEntry(w, e.sdu)
      BY <2>3 DEF InEntry, HeadIn, Entry
    <3> QED BY <2>4, <3>1, <3>2
  <2>6. next \in 1..N_bytes
    BY <2>2, <2>4, Constants
  <2>7. (IF so = 0 \/ e.sdu = seg.sdu THEN seg.sdu ELSE Corrupt) = s
    <3>1. so # 0 => e.sdu # None
      BY <1>2, <2>3 DEF GoodEntry, e
    <3> QED BY <2>5, <3>1
  <2> DEFINE new2 == [segments |-> e.segments \ {seg}, sdu |-> s, next_expected_so |-> next,
                      total_sdu_length |-> e.total_sdu_length]
  <2> HIDE DEF next
  <2>8. new = new2
    <3> DEFINE v == IF so = 0 \/ e.sdu = seg.sdu THEN seg.sdu ELSE Corrupt
               gs == e.segments \ {seg}
    <3>1. new = [e EXCEPT !.segments = gs, !.next_expected_so = next, !.sdu = v]
      OBVIOUS
    <3> HIDE DEF v, gs, new
    <3>2. new = [segments |-> gs, sdu |-> v, next_expected_so |-> next,
                 total_sdu_length |-> e.total_sdu_length]
      BY <2>3, <3>1 DEF Entry
    <3> QED BY <2>7, <3>2 DEF v, gs
  <2>9. new2 \in Entry
    BY <2>3, <2>6 DEF Entry
  <2>10. s # None
    BY UmAssumption DEF None
  <2>11. \A g \in e.segments \ {seg} : g.so # 0
    <3>1. CASE so = 0
      BY <2>2, <2>3, <3>1 DEF GoodEntry
    <3>2. CASE so # 0
      BY <1>2, <2>3, <3>2 DEF GoodEntry, e
    <3> QED BY <3>1, <3>2
  <2>12. GoodEntry(new2)
    BY <2>3, <2>6, <2>9, <2>10, <2>11 DEF GoodEntry
  <2>13. HeadIn(w, s)
    <3>1. CASE so = 0
      BY <2>2, <2>3, <2>5, <3>1 DEF HeadIn
    <3>2. CASE so # 0
      BY <1>2, <2>3, <2>5, <3>2 DEF GoodEntry, e
    <3> QED BY <3>1, <3>2
  <2>14. e.total_sdu_length \in {0, N_bytes}
    BY <2>3 DEF Entry
  <2> DEFINE done == so # 0 /\ next = e.total_sdu_length
  <2>15. done => next = N_bytes
    BY <2>6, <2>14, Constants
  <2>16. done \in BOOLEAN
    OBVIOUS
  <2> HIDE DEF done
  <2>17. [pdu |-> new2, complete |-> done] \in Joining(w)
    BY <2>3, <2>9, <2>10, <2>12, <2>13, <2>15, <2>16 DEF Joining
  <2> QED BY <2>1, <2>8, <2>17 DEF done
<1> QED BY <1>1, <1>2

(* The loop has a value after every turn, and ends with that of the last.  *)
LEMMA JoinLoop ==
  ASSUME NEW w, NEW T, [pdu |-> w, complete |-> FALSE] \in T,
         \A acc \in T, so \in 0..N_bytes : join_one(acc, so) \in T
  PROVE  \E h : /\ joined(w) = h[N_bytes] /\ h[-1] = [pdu |-> w, complete |-> FALSE]
                /\ \A so \in 0..N_bytes : h[so] = join_one(h[so - 1], so)
<1> DEFINE n == N_bytes + 1
           start == [pdu |-> w, complete |-> FALSE]
           Steps(f, k) == f[-1] = start /\ \A i \in 0..(k - 1) : f[i] = join_one(f[i - 1], i)
           Good == {k \in 0..n : \E f \in [-1..(k - 1) -> T] : Steps(f, k)}
           P(h) == h = [so \in -1..N_bytes |->
                          IF so = -1 THEN [pdu |-> w, complete |-> FALSE] ELSE join_one(h[so - 1], so)]
           h == CHOOSE h : P(h)
<1>1. n \in Nat /\ N_bytes \in Nat
  BY Constants
<1>2. start \in T
  OBVIOUS
<1>3. \A acc \in T, so \in 0..N_bytes : join_one(acc, so) \in T
  OBVIOUS
<1> HIDE DEF start
<1>4. 0 \in Good
  <2> DEFINE f == [i \in -1..(0 - 1) |-> start]
  <2>1. f \in [-1..(0 - 1) -> T] /\ Steps(f, 0)
    BY <1>2
  <2> HIDE DEF f
  <2> QED BY <1>1, <2>1
<1>5. ASSUME NEW k \in 1..n, k - 1 \in Good PROVE k \in Good
  <2>1. PICK f \in [-1..(k - 1 - 1) -> T] : Steps(f, k - 1)
    BY <1>5
  <2> DEFINE g == [i \in -1..(k - 1) |-> IF i = k - 1 THEN join_one(f[k - 2], k - 1) ELSE f[i]]
  <2>2. k - 1 \in 0..N_bytes /\ k - 2 \in -1..(k - 2) /\ k - 1 - 1 = k - 2 /\ f[k - 2] \in T
    BY <1>1, <2>1
  <2>3. g \in [-1..(k - 1) -> T]
    <3> SUFFICES ASSUME NEW i \in -1..(k - 1)
                 PROVE  (IF i = k - 1 THEN join_one(f[k - 2], k - 1) ELSE f[i]) \in T
      OBVIOUS
    <3>1. i # k - 1 => i \in -1..(k - 1 - 1)
      BY <2>2
    <3> QED BY <1>3, <2>1, <2>2, <3>1
  <2>4. Steps(g, k)
    <3>1. g[-1] = start
      BY <2>1, <2>2
    <3>2. ASSUME NEW i \in 0..(k - 1) PROVE g[i] = join_one(g[i - 1], i)
      <4>1. CASE i = k - 1
        BY <2>2, <4>1
      <4>2. CASE i # k - 1
        <5>1. i \in 0..(k - 1 - 1) /\ i \in -1..(k - 1) /\ i - 1 \in -1..(k - 1) /\ i - 1 # k - 1
          BY <4>2
        <5> QED BY <2>1, <4>2, <5>1
      <4> QED BY <4>1, <4>2
    <3> QED BY <3>1, <3>2
  <2> HIDE DEF g
  <2> QED BY <2>3, <2>4
<1> HIDE DEF Good
<1>6. n \in Good
  <2>1. \A k \in 1..n : k - 1 \in Good => k \in Good
    BY <1>5
  <2> HIDE DEF n
  <2> QED BY <1>1, <1>4, <2>1, UpTo
<1>7. PICK f \in [-1..(n - 1) -> T] : Steps(f, n)
  BY <1>6 DEF Good
<1>8. P(f)
  <2>1. DOMAIN f = -1..N_bytes /\ \A i \in 0..N_bytes : i \in 0..(n - 1)
    BY <1>1, <1>7
  <2>2. f[-1] = start /\ \A i \in 0..N_bytes : f[i] = join_one(f[i - 1], i)
    BY <1>7, <2>1
  <2>3. \A i \in -1..N_bytes : f[i] = IF i = -1 THEN start ELSE join_one(f[i - 1], i)
    BY <1>1, <2>2
  <2> QED BY <1>7, <2>1, <2>3 DEF start
<1>9. P(h)
  <2> HIDE DEF P
  <2> QED BY <1>8
<1>10. joined(w) = h[N_bytes]
  BY DEF joined
<1>11. /\ h[-1] = start
       /\ \A i \in 0..N_bytes : h[i] = join_one(h[i - 1], i)
  <2>1. -1 \in -1..N_bytes /\ \A i \in 0..N_bytes : i \in -1..N_bytes /\ i # -1
    BY <1>1
  <2>2. h = [so \in -1..N_bytes |-> IF so = -1 THEN start ELSE join_one(h[so - 1], so)]
    <3> HIDE DEF h
    <3> QED BY <1>9 DEF start
  <2> HIDE DEF h, P
  <2> QED BY <2>1, <2>2
<1> HIDE DEF h
<1> QED BY <1>10, <1>11 DEF start

(* The whole loop.                                                         *)
LEMMA Joined ==
  ASSUME NEW w, GoodEntry(w), NEW s \in Sdus, \A t \in Sdus : InEntry(w, t) => t = s
  PROVE  joined(w) \in Joining(w)
<1> DEFINE n == N_bytes + 1
           start == [pdu |-> w, complete |-> FALSE]
           T == Joining(w)
<1>1. n \in Nat /\ N_bytes \in Nat /\ w \in Entry
  BY Constants DEF GoodEntry
<1>2. start \in T
  BY <1>1 DEF Joining, GoodEntry, HeadIn
<1>3. \A acc \in T, so \in 0..N_bytes : join_one(acc, so) \in T
  BY <1>1, JoinOne
<1> HIDE DEF T
<1>4. PICK h : /\ joined(w) = h[N_bytes] /\ h[-1] = start
               /\ \A so \in 0..N_bytes : h[so] = join_one(h[so - 1], so)
  BY <1>2, <1>3, JoinLoop
<1> HIDE DEF start
<1> DEFINE In == {k \in 0..n : h[k - 1] \in T}
<1>5. 0 \in In
  BY <1>1, <1>2, <1>4
<1>6. ASSUME NEW k \in 1..n, k - 1 \in In PROVE k \in In
  <2>1. k - 1 \in 0..N_bytes /\ h[(k - 1) - 1] \in T
    BY <1>1, <1>6
  <2>2. h[k - 1] = join_one(h[(k - 1) - 1], k - 1)
    BY <1>4, <2>1
  <2> QED BY <1>3, <2>1, <2>2
<1> HIDE DEF In
<1>7. n \in In
  BY <1>1, <1>5, <1>6, UpTo
<1>8. h[N_bytes] \in T
  BY <1>1, <1>7 DEF In
<1> QED BY <1>4, <1>8 DEF T

-----------------------------------------------------------------------------
(* A segment arrives                                                       *)

(* The constants that stand for something that is not an SDU.              *)
LEMMA NoSdus == None \notin Sdus /\ Corrupt \notin Sdus
BY UmAssumption DEF None, Corrupt

(* With the short header the offset of a later segment is in it.           *)
LEMMA SegmentRead ==
  ASSUME NEW p \in UmPdu, GoodPdu(p), NEW so \in so_read(p)
  PROVE  /\ so = p.so
         /\ segment(p, so) = [so |-> p.so, len |-> p.len, sdu |-> p.sdu]
         /\ segment(p, so) \in Segment
<1>1. ~so_missing(p)
  BY DEF so_missing, GoodPdu
<1>2. so = p.so
  BY <1>1 DEF so_read
<1>3. segment(p, so) = [so |-> p.so, len |-> p.len, sdu |-> p.sdu]
  BY <1>1, <1>2 DEF segment, GoodPdu
<1>4. p.so \in 0..N_bytes /\ p.len \in 1..N_bytes /\ p.sdu \in Sdus
  BY DEF UmPdu
<1> QED BY <1>2, <1>3, <1>4 DEF Segment

(* What there is of a PDU in the channel.                                  *)
LEMMA ChannelPdu ==
  ASSUME WholeInv, NEW i \in DOMAIN channel
  PROVE  /\ channel[i] \in UmPdu /\ GoodPdu(channel[i])
         /\ channel[i].sn \in SNs /\ channel[i].sdu \in Sdus
         /\ channel[i].so \in 0..N_bytes /\ channel[i].len \in 1..N_bytes
         /\ rx_window[channel[i].sn] \in Entry /\ GoodEntry(rx_window[channel[i].sn])
<1>1. channel \in Seq(UmPdu) /\ GoodPdu(channel[i])
  BY DEF WholeInv, BearerTypes
<1>2. channel[i] \in UmPdu
  BY <1>1
<1> DEFINE p == channel[i]
<1> HIDE DEF p
<1>3. p \in UmPdu
  BY <1>2 DEF p
<1>4. p.sn \in SNs /\ p.sdu \in Sdus /\ p.so \in 0..N_bytes /\ p.len \in 1..N_bytes
  BY <1>3 DEF UmPdu
<1>5. rx_window[p.sn] \in Entry /\ GoodEntry(rx_window[p.sn])
  BY <1>4 DEF WholeInv, BearerTypes
<1> QED BY <1>1, <1>2, <1>4, <1>5 DEF p

(* What is held under the number of a PDU is of the SDU of the PDU.        *)
LEMMA SameSdu ==
  ASSUME WholeInv, NEW i \in DOMAIN channel, Cut(channel[i]), NEW t \in Sdus,
         InEntry(rx_window[channel[i].sn], t)
  PROVE  t = channel[i].sdu
<1>1. channel[i] \in UmPdu /\ channel[i].sn \in SNs /\ channel[i].sdu \in Sdus
  BY ChannelPdu
<1>2. Numbered(channel[i].sn, channel[i].sdu) /\ Numbered(channel[i].sn, t)
  BY DEF Numbered
<1> QED BY <1>1, <1>2 DEF WholeInv, NumbersOK

(* The entry of the SN with the new segment.                               *)
LEMMA Placed ==
  ASSUME WholeInv, NEW i \in DOMAIN channel, Cut(channel[i]),
         NEW so \in so_read(channel[i]), NEW e, e = place(channel[i], segment(channel[i], so))
  PROVE  /\ GoodEntry(e)
         /\ \A t \in Sdus : InEntry(e, t) => t = channel[i].sdu
         /\ \A t \in Sdus : HeadIn(e, t) =>
              HeadIn(rx_window[channel[i].sn], t) \/ (channel[i].so = 0 /\ t = channel[i].sdu)
<1> DEFINE p == channel[i]
           old == rx_window[p.sn]
           seg == segment(p, so)
           more == IF \E s \in old.segments : s.so = seg.so THEN old.segments
                   ELSE old.segments \cup {seg}
           total == IF p.si = "last" THEN seg.so + seg.len ELSE old.total_sdu_length
           new == [segments |-> more, sdu |-> old.sdu, next_expected_so |-> old.next_expected_so,
                   total_sdu_length |-> total]
<1>1. /\ p \in UmPdu /\ GoodPdu(p) /\ p.sn \in SNs /\ p.sdu \in Sdus /\ p.so \in 0..N_bytes
      /\ p.len \in 1..N_bytes
      /\ old \in Entry /\ GoodEntry(old)
  BY ChannelPdu
<1>2. so = p.so /\ seg = [so |-> p.so, len |-> p.len, sdu |-> p.sdu] /\ seg \in Segment
  BY <1>1, SegmentRead
<1>3. \A t \in Sdus : InEntry(old, t) => t = p.sdu
  BY SameSdu
<1>4. p.so = 0 => old.sdu = None
  <2> SUFFICES ASSUME p.so = 0, old.sdu # None PROVE FALSE
    OBVIOUS
  <2>1. old.sdu \in Sdus
    BY <1>1 DEF Entry
  <2>2. old.sdu = p.sdu
    BY <1>3, <2>1 DEF InEntry
  <2>3. HeadIn(old, p.sdu)
    BY <2>2 DEF HeadIn
  <2> QED BY <1>1, <2>3 DEF WholeInv, HeadsOK
<1> HIDE DEF seg
<1>5. e = new
  <2>1. e = [old EXCEPT !.segments = IF \E s \in @ : s.so = seg.so THEN @ ELSE @ \cup {seg},
                        !.total_sdu_length = IF p.si = "last" THEN seg.so + seg.len ELSE @]
    BY DEF place, seg
  <2> HIDE DEF old
  <2> QED BY <1>1, <2>1 DEF Entry
<1> HIDE DEF p, old
<1>6. more \in SUBSET Segment /\ \A g \in more : g \in old.segments \/ (g = seg /\ ~\E s \in old.segments : s.so = seg.so)
  BY <1>1, <1>2 DEF Entry
<1>7. total \in {0, N_bytes}
  BY <1>1, <1>2 DEF Entry, GoodPdu
<1> HIDE DEF more, total
<1>8. new \in Entry
  BY <1>1, <1>6, <1>7 DEF Entry
<1>9. GoodEntry(new)
  <2>1. \A g \in more : g.so + g.len <= N_bytes
    BY <1>1, <1>2, <1>6 DEF GoodEntry, GoodPdu
  <2>2. \A g, h \in more : g.so = h.so => g = h
    BY <1>1, <1>6 DEF GoodEntry
  <2>3. old.sdu # None => \A g \in more : g.so # 0
    BY <1>1, <1>2, <1>4, <1>6 DEF GoodEntry
  <2> QED BY <1>1, <1>8, <2>1, <2>2, <2>3 DEF GoodEntry
<1>10. \A t \in Sdus : InEntry(new, t) => t = p.sdu
  BY <1>2, <1>3, <1>6 DEF InEntry
<1>11. \A t \in Sdus : HeadIn(new, t) => HeadIn(old, t) \/ (p.so = 0 /\ t = p.sdu)
  BY <1>2, <1>6 DEF HeadIn
<1> QED BY <1>5, <1>9, <1>10, <1>11 DEF p, old

-----------------------------------------------------------------------------
(* Steps of the receiver and of the channel                                *)

(* The channel has lost something, or nothing.                             *)
FewerIn(new, old) ==
  \E at \in [DOMAIN new -> DOMAIN old] :
    /\ \A k \in DOMAIN new : new[k] = old[at[k]]
    /\ \A j, k \in DOMAIN new : at[j] = at[k] => j = k

(* What the receiver may do to its window and to handed.                   *)
WindowMoves ==
  /\ rx_window' \in [SNs -> Entry] /\ \A sn \in SNs : GoodEntry(rx_window'[sn])
  /\ \A h \in held(rx_window') : base(RX_Next_Highest', h) < UM_Window_Size
  /\ \A sn \in SNs, t \in Sdus : InEntry(rx_window'[sn], t) => Numbered(sn, t)
  /\ \A sn \in SNs, t \in Sdus : HeadIn(rx_window'[sn], t) =>
       handed'[t] = 0 /\ \A k \in DOMAIN channel' : channel'[k].so = 0 => channel'[k].sdu # t
  /\ handed' \in [Sdus \cup {Corrupt} -> {0, 1}] /\ handed'[Corrupt] = 0
  /\ \A k \in DOMAIN channel' : channel'[k].so = 0 => handed'[channel'[k].sdu] = 0
  /\ \A t \in Sdus : Unsent(t) => handed'[t] = 0
  /\ is_new => age(RX_Next_Highest') <= UM_Window_Size
  /\ is_new /\ mac_grant # 0 => age(RX_Next_Highest') < UM_Window_Size
  /\ ~is_new => age(RX_Next_Highest') < UM_Window_Size \/ age(RX_Next_Highest') = mod - 1

(* An SDU not sent yet stays so, unless the sender takes it up.            *)
LEMMA ReceiverUnsent ==
  ASSUME WindowMoves, UNCHANGED <<TX_Next, tx_sdu>>, FewerIn(channel', channel),
         NEW s \in Sdus, Unsent(s)
  PROVE  Unsent(s)'
<1>1. PICK at \in [DOMAIN channel' -> DOMAIN channel] :
             \A k \in DOMAIN channel' : channel'[k] = channel[at[k]]
  BY DEF FewerIn
<1>2. handed'[s] = 0
  BY DEF WindowMoves
<1>3. tx_sdu'.sdu # s /\ \A k \in DOMAIN channel' : channel'[k].sdu # s
  BY <1>1 DEF Unsent
<1>4. ASSUME NEW sn \in SNs PROVE ~InEntry(rx_window'[sn], s)
  <2> SUFFICES ASSUME InEntry(rx_window'[sn], s) PROVE FALSE
    OBVIOUS
  <2>1. Numbered(sn, s)
    BY DEF WindowMoves
  <2> QED BY <2>1 DEF Numbered, Unsent
<1> QED BY <1>2, <1>3, <1>4 DEF Unsent, InEntry

(* What the receiver and the channel do keeps the invariant.               *)
LEMMA ReceiverKeepsWhole ==
  ASSUME WholeInv, WindowMoves,
         UNCHANGED <<TX_Next, next_so, tx_sdu, tx_sdu_queue, mac_grant, written, discarded>>,
         FewerIn(channel', channel), channel' \in Seq(UmPdu)
  PROVE  WholeInv'
<1>1. PICK at \in [DOMAIN channel' -> DOMAIN channel] :
             /\ \A k \in DOMAIN channel' : channel'[k] = channel[at[k]]
             /\ \A j, k \in DOMAIN channel' : at[j] = at[k] => j = k
  BY DEF FewerIn
<1>2. BearerTypes'
  <2>1. \A k \in DOMAIN channel' : GoodPdu(channel'[k])
    BY <1>1 DEF WholeInv, BearerTypes
  <2> QED BY <2>1 DEF WholeInv, BearerTypes, WindowMoves, GoodPdu, GoodEntry
<1>3. QueueOK'
  <2>1. \A s \in Sdus : Unsent(s) => Unsent(s)'
    BY ReceiverUnsent
  <2>2. Live' = Live /\ Live \subseteq Sdus
    BY DEF Live, WholeInv, BearerTypes
  <2>3. \A k \in DOMAIN tx_sdu_queue : tx_sdu_queue[k] # None =>
          /\ tx_sdu_queue[k] \in Live /\ Unsent(tx_sdu_queue[k])
          /\ \A j \in DOMAIN tx_sdu_queue : tx_sdu_queue[j] = tx_sdu_queue[k] => j = k
    BY DEF WholeInv, QueueOK
  <2>4. \A s \in Sdus \ Live : Unsent(s)
    BY DEF WholeInv, QueueOK
  <2> QED BY <2>1, <2>2, <2>3, <2>4 DEF QueueOK
<1>4. NumbersOK'
  <2>1. ASSUME NEW sn \in SNs, NEW s \in Sdus, Numbered(sn, s)' PROVE Numbered(sn, s)
    <3>1. CASE \E k \in DOMAIN channel' : Cut(channel'[k]) /\ channel'[k].sn = sn /\ channel'[k].sdu = s
      BY <1>1, <3>1 DEF Numbered
    <3>2. CASE InEntry(rx_window'[sn], s)
      BY <3>2 DEF WindowMoves
    <3>3. CASE tx_sdu' # NoSdu /\ sn = TX_Next' /\ tx_sdu'.sdu = s
      BY <3>3 DEF Numbered
    <3> QED BY <2>1, <3>1, <3>2, <3>3 DEF Numbered, InEntry, Cut
  <2> QED BY <2>1 DEF NumbersOK, WholeInv
<1>5. HeadsOK'
  <2>1. ASSUME NEW j \in DOMAIN channel', NEW k \in DOMAIN channel',
               channel'[j].so = 0, channel'[k].so = 0, channel'[j].sdu = channel'[k].sdu
        PROVE  j = k
    BY <1>1, <2>1 DEF WholeInv, HeadsOK
  <2>2. ASSUME NEW k \in DOMAIN channel', channel'[k].so = 0
        PROVE  /\ handed'[channel'[k].sdu] = 0
               /\ \A sn \in SNs : ~HeadIn(rx_window'[sn], channel'[k].sdu)
    <3>1. channel'[k].sdu \in Sdus
      <4>1. channel'[k] = channel[at[k]] /\ at[k] \in DOMAIN channel
        BY <1>1
      <4> QED BY <4>1, ChannelPdu
    <3> QED BY <2>2, <3>1 DEF WindowMoves
  <2>3. \A sn \in SNs, s \in Sdus : HeadIn(rx_window'[sn], s) => handed'[s] = 0
    BY DEF WindowMoves
  <2> QED BY <2>1, <2>2, <2>3 DEF HeadsOK, HeadIn
<1>6. AgesOK'
  <2>1. \A x : age(x)' = age(x)
    BY DEF age
  <2>2. is_new' = is_new
    BY DEF is_new
  <2>3. ASSUME NEW k \in DOMAIN channel', Cut(channel'[k])
        PROVE  /\ age(channel'[k].sn) <= UM_Window_Size
               /\ is_new => age(channel'[k].sn) # 0
               /\ ~is_new \/ mac_grant # 0 => age(channel'[k].sn) < UM_Window_Size
    BY <1>1, <2>3 DEF WholeInv, AgesOK
  <2>4. \A h \in held(rx_window') : base(RX_Next_Highest', h) < UM_Window_Size
    BY DEF WindowMoves
  <2> QED BY <2>2, <2>3, <2>4 DEF AgesOK, WindowMoves, age, held, base, Cut
<1> QED BY <1>2, <1>3, <1>4, <1>5, <1>6 DEF WholeInv

(* What a sequence is without one of its members.                          *)
LEMMA Removed ==
  ASSUME NEW T, NEW s \in Seq(T), NEW i \in DOMAIN s
  PROVE  /\ RemoveAt(s, i) \in Seq(T)
         /\ DOMAIN RemoveAt(s, i) = 1..(Len(s) - 1)
         /\ \A j \in 1..(Len(s) - 1) :
              /\ RemoveAt(s, i)[j] = s[IF j < i THEN j ELSE j + 1]
              /\ (IF j < i THEN j ELSE j + 1) \in DOMAIN s \ {i}
<1>1. i \in 1..Len(s) /\ Len(s) \in Nat /\ DOMAIN s = 1..Len(s)
  OBVIOUS
<1> DEFINE a == SubSeq(s, 1, i - 1)
           b == SubSeq(s, i + 1, Len(s))
<1>2. /\ a \in Seq(T) /\ Len(a) = i - 1 /\ \A j \in 1..(i - 1) : a[j] = s[j]
      /\ b \in Seq(T) /\ Len(b) = Len(s) - i /\ \A j \in 1..(Len(s) - i) : b[j] = s[i + j]
  BY <1>1
<1>3. RemoveAt(s, i) = a \o b
  BY DEF RemoveAt
<1> HIDE DEF a, b
<1>4. /\ a \o b \in Seq(T) /\ Len(a \o b) = Len(s) - 1
      /\ \A j \in 1..(Len(s) - 1) : (a \o b)[j] = IF j <= i - 1 THEN a[j] ELSE b[j - (i - 1)]
  <2>1. /\ a \o b \in Seq(T) /\ Len(a \o b) = Len(a) + Len(b)
        /\ \A j \in 1..(Len(a) + Len(b)) : (a \o b)[j] = IF j <= Len(a) THEN a[j] ELSE b[j - Len(a)]
    BY <1>2, ConcatProperties
  <2>2. Len(a) + Len(b) = Len(s) - 1
    BY <1>1, <1>2
  <2> QED BY <1>2, <2>1, <2>2
<1>5. ASSUME NEW j \in 1..(Len(s) - 1)
      PROVE  /\ (a \o b)[j] = s[IF j < i THEN j ELSE j + 1]
             /\ (IF j < i THEN j ELSE j + 1) \in DOMAIN s \ {i}
  <2>1. CASE j < i
    <3>1. j \in 1..(i - 1) /\ j <= i - 1
      BY <1>1, <2>1
    <3> QED BY <1>1, <1>2, <1>4, <2>1, <3>1
  <2>2. CASE ~(j < i)
    <3>1. ~(j <= i - 1) /\ j - (i - 1) \in 1..(Len(s) - i) /\ i + (j - (i - 1)) = j + 1
      BY <1>1, <2>2
    <3>2. (a \o b)[j] = b[j - (i - 1)]
      BY <1>4, <3>1
    <3>3. b[j - (i - 1)] = s[i + (j - (i - 1))]
      BY <1>2, <3>1
    <3>4. (a \o b)[j] = s[j + 1]
      BY <3>1, <3>2, <3>3
    <3> QED BY <1>1, <2>2, <3>4
  <2> QED BY <2>1, <2>2
<1>6. DOMAIN (a \o b) = 1..(Len(s) - 1)
  BY <1>4, LenProperties
<1> QED BY <1>3, <1>4, <1>5, <1>6


(* A PDU leaves the channel.                                               *)
LEMMA ChannelShrinks ==
  ASSUME WholeInv, NEW i \in DOMAIN channel, Channel(i)
  PROVE  /\ FewerIn(channel', channel) /\ channel' \in Seq(UmPdu)
         /\ \A k \in DOMAIN channel' : \E a \in DOMAIN channel : a # i /\ channel'[k] = channel[a]
         /\ UNCHANGED <<TX_Next, next_so, tx_sdu, tx_sdu_queue, mac_grant, written, discarded>>
<1>1. channel \in Seq(UmPdu)
  BY DEF WholeInv, BearerTypes
<1>2. channel' = RemoveAt(channel, i)
      /\ UNCHANGED <<TX_Next, next_so, tx_sdu, tx_sdu_queue, mac_grant, written, discarded>>
  BY DEF Channel, umTxVars
<1> DEFINE at == [k \in DOMAIN channel' |-> IF k < i THEN k ELSE k + 1]
<1>3. /\ channel' \in Seq(UmPdu) /\ DOMAIN channel' = 1..(Len(channel) - 1)
      /\ \A k \in DOMAIN channel' : channel'[k] = channel[IF k < i THEN k ELSE k + 1]
                                    /\ (IF k < i THEN k ELSE k + 1) \in DOMAIN channel \ {i}
  BY <1>1, <1>2, Removed
<1>4. \A k \in DOMAIN channel' : channel'[k] = channel[at[k]] /\ at[k] \in DOMAIN channel \ {i}
  BY <1>3
<1>5. \A j, k \in DOMAIN channel' : at[j] = at[k] => j = k
  <2>1. \A j, k \in 1..(Len(channel) - 1) :
          (IF j < i THEN j ELSE j + 1) = (IF k < i THEN k ELSE k + 1) => j = k
    BY <1>1
  <2> QED BY <1>3, <2>1
<1>6. at \in [DOMAIN channel' -> DOMAIN channel]
  BY <1>4
<1> HIDE DEF at
<1> QED BY <1>2, <1>3, <1>4, <1>5, <1>6 DEF FewerIn

(* How far behind TX_Next the SN after one is.                             *)
LEMMA AgeNext ==
  ASSUME NEW sn \in SNs, TX_Next \in SNs
  PROVE  /\ age(sn) \in SNs
         /\ age(sn) = IF TX_Next >= sn THEN TX_Next - sn ELSE TX_Next - sn + mod
         /\ age((sn + 1) % mod) = IF age(sn) = 0 THEN mod - 1 ELSE age(sn) - 1
<1>1. \A x \in SNs : /\ age(x) \in SNs
                     /\ age(x) = IF TX_Next >= x THEN TX_Next - x ELSE TX_Next - x + mod
  <2> SUFFICES ASSUME NEW x \in SNs
               PROVE  /\ age(x) \in SNs
                      /\ age(x) = IF TX_Next >= x THEN TX_Next - x ELSE TX_Next - x + mod
    OBVIOUS
  <2> DEFINE y == TX_Next - x  M == mod
  <2>1. M \in Nat \ {0} /\ y \in Int /\ -(2 * M) <= y /\ y < M /\ y >= -M /\ age(x) = y % M
    BY Constants DEF age
  <2> HIDE DEF y, M
  <2>2. age(x) = IF y >= 0 THEN y ELSE y + M
    BY <2>1, TwoTurns
  <2> QED BY <2>2, Constants DEF y, M
<1> DEFINE nn == (sn + 1) % mod
<1>2. nn = (IF sn = 2 * UM_Window_Size - 1 THEN 0 ELSE sn + 1) /\ nn \in SNs
  BY NextSn
<1> HIDE DEF nn
<1>3. age(nn) = IF TX_Next >= nn THEN TX_Next - nn ELSE TX_Next - nn + mod
  BY <1>1, <1>2
<1>4. age(sn) = IF TX_Next >= sn THEN TX_Next - sn ELSE TX_Next - sn + mod
  BY <1>1
<1>5. age(nn) = IF age(sn) = 0 THEN mod - 1 ELSE age(sn) - 1
  BY <1>2, <1>3, <1>4, Constants
<1> QED BY <1>1, <1>5 DEF nn

(* What the upper edge of the window may become.                           *)
EdgeMoves ==
  /\ \A h \in held(rx_window') : base(RX_Next_Highest', h) < UM_Window_Size
  /\ is_new => age(RX_Next_Highest') <= UM_Window_Size
  /\ is_new /\ mac_grant # 0 => age(RX_Next_Highest') < UM_Window_Size
  /\ ~is_new => age(RX_Next_Highest') < UM_Window_Size \/ age(RX_Next_Highest') = mod - 1

(* A receiver that leaves its window alone, or drops some of it.           *)
LEMMA WindowAlone ==
  ASSUME WholeInv, FewerIn(channel', channel), UNCHANGED <<RX_Next_Highest, handed>>,
         rx_window' \in [SNs -> {NoSegments} \cup Entry],
         \A sn \in SNs : rx_window'[sn] \in {NoSegments, rx_window[sn]}
  PROVE  WindowMoves
<1>1. PICK at \in [DOMAIN channel' -> DOMAIN channel] :
             \A k \in DOMAIN channel' : channel'[k] = channel[at[k]]
  BY DEF FewerIn
<1>2. /\ NoSegments \in Entry /\ GoodEntry(NoSegments)
      /\ \A t \in Sdus : ~InEntry(NoSegments, t) /\ ~HeadIn(NoSegments, t)
  BY NoSdus, Constants DEF NoSegments, Entry, GoodEntry, InEntry, HeadIn, None
<1>3. \A sn \in SNs : GoodEntry(rx_window'[sn]) /\ rx_window'[sn] \in Entry
  BY <1>2 DEF WholeInv, BearerTypes
<1>4. \A sn \in SNs, t \in Sdus : InEntry(rx_window'[sn], t) => Numbered(sn, t)
  BY <1>2 DEF Numbered
<1>5. \A sn \in SNs, t \in Sdus : HeadIn(rx_window'[sn], t) => HeadIn(rx_window[sn], t)
  BY <1>2
<1>6. \A k \in DOMAIN channel' : channel'[k].so = 0 =>
         /\ handed[channel'[k].sdu] = 0
         /\ \A sn \in SNs : ~HeadIn(rx_window[sn], channel'[k].sdu)
  BY <1>1 DEF WholeInv, HeadsOK
<1>7. \A sn \in SNs, t \in Sdus : HeadIn(rx_window'[sn], t) =>
         handed'[t] = 0 /\ \A k \in DOMAIN channel' : channel'[k].so = 0 => channel'[k].sdu # t
  BY <1>5, <1>6 DEF WholeInv, HeadsOK
<1>8. \A h \in held(rx_window') : base(RX_Next_Highest', h) < UM_Window_Size
  <2>1. held(rx_window') \subseteq held(rx_window)
    BY DEF held
  <2> QED BY <2>1 DEF WholeInv, AgesOK
<1>9. /\ is_new => age(RX_Next_Highest') <= UM_Window_Size
      /\ is_new /\ mac_grant # 0 => age(RX_Next_Highest') < UM_Window_Size
      /\ ~is_new => age(RX_Next_Highest') < UM_Window_Size \/ age(RX_Next_Highest') = mod - 1
  BY DEF WholeInv, AgesOK
<1>10. rx_window' \in [SNs -> Entry]
  BY <1>2
<1>11. \A t \in Sdus : Unsent(t) => handed'[t] = 0
  BY DEF Unsent
<1>12. handed' \in [Sdus \cup {Corrupt} -> {0, 1}] /\ handed'[Corrupt] = 0
  BY DEF WholeInv, BearerTypes
<1> QED BY <1>3, <1>4, <1>6, <1>7, <1>8, <1>9, <1>10, <1>11, <1>12 DEF WindowMoves

(* An SDU whose first byte is at hand has not been handed over, and its    *)
(* first byte is nowhere else.                                             *)
LEMMA HeadAtHand ==
  ASSUME WholeInv, NEW i \in DOMAIN channel, Cut(channel[i]), NEW t, t = channel[i].sdu,
         \A k \in DOMAIN channel' : \E a \in DOMAIN channel : a # i /\ channel'[k] = channel[a],
         HeadIn(rx_window[channel[i].sn], t) \/ channel[i].so = 0
  PROVE  /\ t \in Sdus /\ handed[t] = 0
         /\ \A k \in DOMAIN channel' : channel'[k].so = 0 => channel'[k].sdu # t
         /\ \A sn \in SNs \ {channel[i].sn} : ~InEntry(rx_window[sn], t)
<1>1. channel[i].sn \in SNs /\ t \in Sdus
  BY ChannelPdu
<1>2. handed[t] = 0
  BY <1>1 DEF WholeInv, HeadsOK
<1>3. ASSUME NEW k \in DOMAIN channel', channel'[k].so = 0 PROVE channel'[k].sdu # t
  <2>1. PICK a \in DOMAIN channel : a # i /\ channel'[k] = channel[a]
    OBVIOUS
  <2>2. CASE HeadIn(rx_window[channel[i].sn], t)
    BY <1>1, <1>3, <2>1, <2>2 DEF WholeInv, HeadsOK
  <2>3. CASE channel[i].so = 0
    BY <1>3, <2>1, <2>3 DEF WholeInv, HeadsOK
  <2> QED BY <2>2, <2>3
<1>4. ASSUME NEW sn \in SNs \ {channel[i].sn}, InEntry(rx_window[sn], t) PROVE FALSE
  <2>1. Numbered(sn, t) /\ Numbered(channel[i].sn, t)
    BY <1>4 DEF Numbered
  <2> QED BY <1>1, <2>1 DEF WholeInv, NumbersOK
<1> QED BY <1>1, <1>2, <1>3, <1>4

(* A new window in which one entry has more of its SDU, or is gone and the *)
(* SDU handed over.                                                        *)
LEMMA WindowUpdated ==
  ASSUME WholeInv, NEW i \in DOMAIN channel, Cut(channel[i]), Channel(i),
         rx_window' \in [SNs -> Entry], \A sn \in SNs : GoodEntry(rx_window'[sn]),
         \A sn \in SNs \ {channel[i].sn} : rx_window'[sn] \in {NoSegments, rx_window[sn]},
         \A t \in Sdus : InEntry(rx_window'[channel[i].sn], t) => t = channel[i].sdu,
         \A t \in Sdus : HeadIn(rx_window'[channel[i].sn], t) =>
           HeadIn(rx_window[channel[i].sn], t) \/ (channel[i].so = 0 /\ t = channel[i].sdu),
         EdgeMoves,
         \/ handed' = handed
         \/ /\ rx_window'[channel[i].sn] = NoSegments
            /\ handed' = [handed EXCEPT ![channel[i].sdu] = @ + 1]
            /\ HeadIn(rx_window[channel[i].sn], channel[i].sdu) \/ channel[i].so = 0
  PROVE  WindowMoves
<1> DEFINE sn == channel[i].sn  s == channel[i].sdu
<1>1. sn \in SNs /\ s \in Sdus /\ s # Corrupt
  BY ChannelPdu, NoSdus
<1>2. \A k \in DOMAIN channel' : \E a \in DOMAIN channel : a # i /\ channel'[k] = channel[a]
  BY ChannelShrinks
<1>3. \A t \in Sdus : ~InEntry(NoSegments, t) /\ ~HeadIn(NoSegments, t)
  BY NoSdus DEF NoSegments, InEntry, HeadIn
<1>4. ASSUME NEW x \in SNs, NEW t \in Sdus, InEntry(rx_window'[x], t) PROVE Numbered(x, t)
  <2>1. CASE x = sn
    BY <1>4, <2>1 DEF Numbered
  <2>2. CASE x # sn
    BY <1>3, <1>4, <2>2 DEF Numbered
  <2> QED BY <2>1, <2>2
<1>5. /\ handed \in [Sdus \cup {Corrupt} -> {0, 1}] /\ handed[Corrupt] = 0
      /\ \A x \in SNs, t \in Sdus : HeadIn(rx_window[x], t) => handed[t] = 0
      /\ \A k \in DOMAIN channel : channel[k].so = 0 =>
           /\ handed[channel[k].sdu] = 0
           /\ \A x \in SNs : ~HeadIn(rx_window[x], channel[k].sdu)
  BY DEF WholeInv, BearerTypes, HeadsOK
<1>6. ASSUME NEW x \in SNs, NEW t \in Sdus, HeadIn(rx_window'[x], t)
      PROVE  /\ handed[t] = 0
             /\ \A k \in DOMAIN channel' : channel'[k].so = 0 => channel'[k].sdu # t
             /\ x = sn => t = s
             /\ x # sn => HeadIn(rx_window[x], t)
  <2>1. CASE x = sn
    <3>1. InEntry(rx_window'[x], t)
      BY <1>6 DEF HeadIn, InEntry
    <3>2. t = s /\ (HeadIn(rx_window[sn], t) \/ channel[i].so = 0)
      BY <1>6, <2>1, <3>1
    <3> QED BY <1>2, <2>1, <3>2, HeadAtHand
  <2>2. CASE x # sn
    <3>1. HeadIn(rx_window[x], t)
      BY <1>3, <1>6, <2>2
    <3> QED BY <1>2, <1>5, <2>2, <3>1
  <2> QED BY <2>1, <2>2
<1>7. \A k \in DOMAIN channel' : channel'[k].so = 0 => handed[channel'[k].sdu] = 0
  BY <1>2, <1>5
<1>8. \A t \in Sdus : Unsent(t) => handed[t] = 0 /\ t # s
  BY DEF Unsent
<1>9. CASE handed' = handed
  BY <1>4, <1>5, <1>6, <1>7, <1>8, <1>9 DEF WindowMoves, EdgeMoves
<1>10. CASE handed' # handed
  <2>1. /\ rx_window'[sn] = NoSegments /\ handed' = [handed EXCEPT ![s] = @ + 1]
        /\ HeadIn(rx_window[sn], s) \/ channel[i].so = 0
    BY <1>10
  <2>2. /\ handed[s] = 0 /\ \A k \in DOMAIN channel' : channel'[k].so = 0 => channel'[k].sdu # s
        /\ \A x \in SNs \ {sn} : ~InEntry(rx_window[x], s)
    BY <1>2, <2>1, HeadAtHand
  <2> HIDE DEF sn, s
  <2>3. handed'[s] = 1 /\ \A t \in (Sdus \cup {Corrupt}) \ {s} : handed'[t] = handed[t]
    BY <1>1, <1>5, <2>1, <2>2
  <2>4. handed' \in [Sdus \cup {Corrupt} -> {0, 1}] /\ handed'[Corrupt] = 0
    BY <1>1, <1>5, <2>1, <2>2, <2>3
  <2>5. \A k \in DOMAIN channel' : channel'[k].so = 0 => handed'[channel'[k].sdu] = 0
    <3>1. \A k \in DOMAIN channel' : channel'[k].sdu \in Sdus
      BY <1>2, ChannelPdu
    <3> QED BY <1>7, <2>2, <2>3, <3>1
  <2>6. ASSUME NEW x \in SNs, NEW t \in Sdus, HeadIn(rx_window'[x], t) PROVE t # s
    <3>1. x # sn
      BY <1>3, <2>1, <2>6
    <3>2. InEntry(rx_window[x], t)
      BY <1>6, <2>6, <3>1 DEF HeadIn, InEntry
    <3> QED BY <2>2, <3>1, <3>2
  <2>7. \A x \in SNs, t \in Sdus : HeadIn(rx_window'[x], t) =>
          handed'[t] = 0 /\ \A k \in DOMAIN channel' : channel'[k].so = 0 => channel'[k].sdu # t
    BY <1>6, <2>3, <2>6
  <2>8. \A t \in Sdus : Unsent(t) => handed'[t] = 0
    BY <1>8, <2>3
  <2> QED BY <1>4, <2>4, <2>5, <2>7, <2>8 DEF WindowMoves, EdgeMoves
<1> QED BY <1>9, <1>10

(* What is held of an SDU number n is dropped, or not.                     *)
LEMMA Dropping ==
  ASSUME NEW w \in [SNs -> Entry], NEW S, NEW v, v = dropped(w, S)
  PROVE  /\ v \in [SNs -> Entry] /\ \A sn \in SNs : v[sn] \in {NoSegments, w[sn]}
         /\ \A sn \in SNs : sn \in S => v[sn] = NoSegments
         /\ held(v) = held(w) \ S
<1>1. NoSegments \in Entry
  BY Constants DEF NoSegments, Entry, None
<1> QED BY <1>1 DEF dropped, held

(* handle_data_pdu() with a segment.                                       *)
LEMMA SegmentMoves ==
  ASSUME WholeInv, UmInv, NEW i \in DOMAIN channel, Channel(i), NEW so, handle_segment(channel[i], so)
  PROVE  /\ WindowMoves
         /\ handed' = handed \/ handed' = [handed EXCEPT ![channel[i].sdu] = @ + 1]
<1> DEFINE p  == channel[i]
           sn == p.sn
           e  == place(p, segment(p, so))
           j  == joined(e)
           w  == [rx_window EXCEPT ![sn] = j.pdu]
           nh == (sn + 1) % mod
<1>1. Cut(p) /\ so \in so_read(p)
  BY DEF handle_segment, Cut
<1>2. /\ GoodEntry(e) /\ \A t \in Sdus : InEntry(e, t) => t = p.sdu
      /\ \A t \in Sdus : HeadIn(e, t) => HeadIn(rx_window[sn], t) \/ (p.so = 0 /\ t = p.sdu)
  BY <1>1, Placed
<1>3. p.sdu \in Sdus /\ sn \in SNs
  BY ChannelPdu
<1>4. j \in Joining(e)
  <2> HIDE DEF e, p
  <2> QED BY <1>2, <1>3, Joined
<1>5. /\ IF j.complete
         THEN LET w2 == dropped(w, {sn})
              IN  /\ buffer_updated(RX_Next_Highest,
                       IF sn = RX_Next_Reassembly THEN next_reassembly(w2) ELSE RX_Next_Reassembly, w2)
                  /\ deliver(j.pdu.sdu, j.pdu.next_expected_so)
         ELSE IF sn_in_reassembly_window(RX_Next_Highest, sn)
         THEN buffer_updated(RX_Next_Highest, RX_Next_Reassembly, w) /\ UNCHANGED handed
         ELSE LET w2 == window_moved(nh, w)
              IN  buffer_updated(nh, reassembly_moved(nh, w2), w2) /\ UNCHANGED handed
  BY DEF handle_segment
<1>6. /\ rx_window \in [SNs -> Entry] /\ \A x \in SNs : GoodEntry(rx_window[x])
      /\ TX_Next \in SNs /\ RX_Next_Highest \in SNs
      /\ \A h \in held(rx_window) : base(RX_Next_Highest, h) < UM_Window_Size
  BY DEF WholeInv, BearerTypes, AgesOK, UmInv, TxInv, RxType
<1> HIDE DEF j
<1>7. /\ j.pdu \in Entry /\ GoodEntry(j.pdu) /\ j.pdu.segments \subseteq e.segments
      /\ (j.pdu.sdu # None => HeadIn(e, j.pdu.sdu))
      /\ (j.complete => j.pdu.sdu # None /\ j.pdu.next_expected_so = N_bytes)
  BY <1>4 DEF Joining
<1> HIDE DEF e
<1>8. /\ \A t \in Sdus : InEntry(j.pdu, t) => t = p.sdu
      /\ \A t \in Sdus : HeadIn(j.pdu, t) => HeadIn(rx_window[sn], t) \/ (p.so = 0 /\ t = p.sdu)
  <2>1. ASSUME NEW t \in Sdus, HeadIn(j.pdu, t) PROVE HeadIn(e, t)
    BY <1>7, <2>1, NoSdus DEF HeadIn
  <2>2. ASSUME NEW t \in Sdus, InEntry(j.pdu, t) PROVE InEntry(e, t)
    BY <1>7, <2>2, NoSdus DEF HeadIn, InEntry
  <2> QED BY <1>2, <2>1, <2>2
<1>9. /\ w \in [SNs -> Entry] /\ w[sn] = j.pdu /\ \A x \in SNs \ {sn} : w[x] = rx_window[x]
      /\ \A x \in SNs : GoodEntry(w[x])
      /\ held(w) \subseteq held(rx_window) \cup {sn}
  <2> HIDE DEF sn
  <2> QED BY <1>3, <1>6, <1>7 DEF held
<1>10. GoodEntry(NoSegments) /\ \A t \in Sdus : ~InEntry(NoSegments, t) /\ ~HeadIn(NoSegments, t)
  BY NoSdus, Constants DEF NoSegments, Entry, GoodEntry, InEntry, HeadIn, None
<1>11. CASE j.complete
  <2> DEFINE w2 == dropped(w, {sn})
  <2>1. RX_Next_Highest' = RX_Next_Highest /\ rx_window' = w2 /\ deliver(j.pdu.sdu, j.pdu.next_expected_so)
    BY <1>5, <1>11 DEF buffer_updated
  <2>2. /\ w2 \in [SNs -> Entry] /\ \A x \in SNs : w2[x] \in {NoSegments, w[x]}
        /\ w2[sn] = NoSegments /\ held(w2) = held(w) \ {sn}
    <3> HIDE DEF w
    <3> QED BY <1>3, <1>9, Dropping
  <2>3. j.pdu.sdu \in Sdus /\ j.pdu.sdu = p.sdu
    <3>1. j.pdu.sdu \in Sdus
      BY <1>7, <1>11 DEF Entry
    <3> QED BY <1>8, <3>1 DEF InEntry
  <2>4. handed' = [handed EXCEPT ![p.sdu] = @ + 1]
    BY <1>7, <1>11, <2>1, <2>3 DEF deliver
  <2>5. HeadIn(rx_window[sn], p.sdu) \/ p.so = 0
    BY <1>8, <2>3 DEF HeadIn
  <2> HIDE DEF w, w2
  <2>6. EdgeMoves
    BY <1>6, <1>9, <2>1, <2>2 DEF EdgeMoves, WholeInv, AgesOK
  <2>7. \A x \in SNs \ {sn} : rx_window'[x] \in {NoSegments, rx_window[x]}
    BY <1>9, <2>1, <2>2
  <2>8. \A x \in SNs : GoodEntry(rx_window'[x])
    BY <1>9, <1>10, <2>1, <2>2
  <2>9. \A t \in Sdus : ~InEntry(rx_window'[sn], t) /\ ~HeadIn(rx_window'[sn], t)
    BY <1>10, <2>1, <2>2
  <2> QED BY <1>1, <2>1, <2>2, <2>4, <2>5, <2>6, <2>7, <2>8, <2>9, WindowUpdated
<1>12. CASE ~j.complete /\ sn_in_reassembly_window(RX_Next_Highest, sn)
  <2>1. RX_Next_Highest' = RX_Next_Highest /\ rx_window' = w /\ handed' = handed
    BY <1>5, <1>12 DEF buffer_updated
  <2>2. base(RX_Next_Highest, sn) < UM_Window_Size
    BY <1>12 DEF sn_in_reassembly_window
  <2> HIDE DEF w
  <2>3. EdgeMoves
    BY <1>6, <1>9, <2>1, <2>2 DEF EdgeMoves, WholeInv, AgesOK
  <2>4. \A x \in SNs \ {sn} : rx_window'[x] \in {NoSegments, rx_window[x]}
    BY <1>9, <2>1
  <2> QED BY <1>1, <1>8, <1>9, <2>1, <2>3, <2>4, WindowUpdated
<1>13. CASE ~j.complete /\ ~sn_in_reassembly_window(RX_Next_Highest, sn)
  <2> DEFINE S  == {x \in SNs : ~sn_in_reassembly_window(nh, x)}
             w2 == dropped(w, S)
  <2>1. RX_Next_Highest' = nh /\ rx_window' = w2 /\ handed' = handed
    BY <1>5, <1>13 DEF buffer_updated, window_moved
  <2> HIDE DEF w
  <2>2. /\ w2 \in [SNs -> Entry] /\ \A x \in SNs : w2[x] \in {NoSegments, w[x]}
        /\ held(w2) = held(w) \ S
    <3> HIDE DEF S
    <3> QED BY <1>9, Dropping
  <2>3. \A h \in held(w2) : base(nh, h) < UM_Window_Size
    <3>1. held(w) \subseteq SNs
      BY DEF held
    <3> HIDE DEF w2
    <3> QED BY <2>2, <3>1 DEF sn_in_reassembly_window
  <2> HIDE DEF w2, S
  <2>4. EdgeMoves
    <3> DEFINE a == age(sn)  n == age(nh)
    <3>1. a \in SNs /\ n = IF a = 0 THEN mod - 1 ELSE a - 1
      BY <1>3, <1>6, AgeNext
    <3>2. /\ a <= UM_Window_Size /\ (is_new => a # 0)
          /\ (~is_new \/ mac_grant # 0 => a < UM_Window_Size)
      BY <1>1 DEF WholeInv, AgesOK
    <3> HIDE DEF a, n
    <3>3. /\ is_new => n < UM_Window_Size
          /\ ~is_new => n < UM_Window_Size \/ n = mod - 1
      BY <3>1, <3>2, Constants
    <3>4. n < UM_Window_Size => n <= UM_Window_Size
      BY <3>1, Constants
    <3>5. age(RX_Next_Highest') = n
      BY <2>1 DEF n
    <3> HIDE DEF nh
    <3> QED BY <2>1, <2>3, <3>3, <3>4, <3>5 DEF EdgeMoves
  <2>5. \A x \in SNs \ {sn} : rx_window'[x] \in {NoSegments, rx_window[x]}
    BY <1>9, <2>1, <2>2
  <2>6. \A x \in SNs : GoodEntry(rx_window'[x])
    BY <1>9, <1>10, <2>1, <2>2
  <2>7. rx_window'[sn] \in {NoSegments, j.pdu}
    BY <1>3, <1>9, <2>1, <2>2
  <2>8. /\ \A t \in Sdus : InEntry(rx_window'[sn], t) => t = p.sdu
        /\ \A t \in Sdus : HeadIn(rx_window'[sn], t) =>
             HeadIn(rx_window[sn], t) \/ (p.so = 0 /\ t = p.sdu)
    BY <1>8, <1>10, <2>7
  <2> QED BY <1>1, <2>1, <2>2, <2>4, <2>5, <2>6, <2>8, WindowUpdated
<1> QED BY <1>11, <1>12, <1>13

(* handle_data_pdu() with a whole SDU.                                     *)
LEMMA FullMoves ==
  ASSUME WholeInv, NEW i \in DOMAIN channel, Channel(i), handle_full(channel[i])
  PROVE  /\ WindowMoves
         /\ handed' = [handed EXCEPT ![channel[i].sdu] = @ + 1]
<1> DEFINE s == channel[i].sdu
<1>1. s \in Sdus /\ s # Corrupt /\ channel[i].so = 0 /\ channel[i].len = N_bytes
  BY ChannelPdu, NoSdus DEF handle_full, GoodPdu
<1>2. handed' = [handed EXCEPT ![s] = @ + 1] /\ UNCHANGED <<RX_Next_Highest, rx_window>>
  BY <1>1 DEF handle_full, deliver
<1>3. \A k \in DOMAIN channel' : \E a \in DOMAIN channel : a # i /\ channel'[k] = channel[a]
  BY ChannelShrinks
<1>4. /\ handed \in [Sdus \cup {Corrupt} -> {0, 1}] /\ handed[Corrupt] = 0
      /\ \A x \in SNs, t \in Sdus : HeadIn(rx_window[x], t) => handed[t] = 0
      /\ \A k \in DOMAIN channel : channel[k].so = 0 =>
           /\ handed[channel[k].sdu] = 0
           /\ \A x \in SNs : ~HeadIn(rx_window[x], channel[k].sdu)
      /\ \A a, b \in DOMAIN channel :
           channel[a].so = 0 /\ channel[b].so = 0 /\ channel[a].sdu = channel[b].sdu => a = b
      /\ rx_window \in [SNs -> Entry] /\ \A x \in SNs : GoodEntry(rx_window[x])
  BY DEF WholeInv, BearerTypes, HeadsOK
<1>5. handed[s] = 0 /\ \A x \in SNs : ~HeadIn(rx_window[x], s)
  BY <1>1, <1>4
<1>6. \A k \in DOMAIN channel' : channel'[k].sdu \in Sdus
  BY <1>3, ChannelPdu
<1>7. \A k \in DOMAIN channel' : channel'[k].so = 0 =>
        channel'[k].sdu # s /\ handed[channel'[k].sdu] = 0
  BY <1>1, <1>3, <1>4
<1>8. \A x \in SNs, t \in Sdus : HeadIn(rx_window[x], t) =>
        t # s /\ \A k \in DOMAIN channel' : channel'[k].so = 0 => channel'[k].sdu # t
  BY <1>3, <1>4, <1>5
<1>9. \A t \in Sdus : Unsent(t) => handed[t] = 0 /\ t # s
  BY DEF Unsent
<1>10. \A x \in SNs, t \in Sdus : InEntry(rx_window[x], t) => Numbered(x, t)
  BY DEF Numbered
<1>11. EdgeMoves
  BY <1>2 DEF EdgeMoves, WholeInv, AgesOK
<1> HIDE DEF s
<1>12. handed'[s] = 1 /\ \A t \in (Sdus \cup {Corrupt}) \ {s} : handed'[t] = handed[t]
  BY <1>1, <1>2, <1>4, <1>5
<1>13. handed' \in [Sdus \cup {Corrupt} -> {0, 1}] /\ handed'[Corrupt] = 0
  BY <1>1, <1>2, <1>4, <1>5, <1>12
<1>14. WindowMoves
  BY <1>2, <1>4, <1>6, <1>7, <1>8, <1>9, <1>10, <1>11, <1>12, <1>13 DEF WindowMoves, EdgeMoves
<1> QED BY <1>2, <1>14 DEF s

(* What is handed over, if anything, is of an SDU that has been sent.      *)
HandsOver ==
  handed' = handed \/ \E s \in Live : handed[s] = 0 /\ handed' = [handed EXCEPT ![s] = @ + 1]

(* A PDU arrives.                                                          *)
LEMMA ReceiveWhole ==
  ASSUME WholeInv, UmInv, NEW i \in DOMAIN channel, Receive(i)
  PROVE  WholeInv' /\ HandsOver /\ UNCHANGED <<written, discarded>>
<1>1. /\ Channel(i)
      /\ \/ handle_full(channel[i]) \/ handle_invalid_sn(channel[i])
         \/ \E so \in 0..N_bytes : handle_segment(channel[i], so)
  BY DEF Receive
<1>2. /\ FewerIn(channel', channel) /\ channel' \in Seq(UmPdu)
      /\ UNCHANGED <<TX_Next, next_so, tx_sdu, tx_sdu_queue, mac_grant, written, discarded>>
  BY <1>1, ChannelShrinks
<1>3. /\ WindowMoves
      /\ handed' = handed \/ handed' = [handed EXCEPT ![channel[i].sdu] = @ + 1]
  <2>1. CASE handle_full(channel[i])
    BY <1>1, <2>1, FullMoves
  <2>2. CASE handle_invalid_sn(channel[i])
    <3>1. UNCHANGED <<RX_Next_Highest, handed, rx_window>>
      BY <2>2 DEF handle_invalid_sn, umRxVars
    <3>2. rx_window' \in [SNs -> {NoSegments} \cup Entry]
          /\ \A sn \in SNs : rx_window'[sn] \in {NoSegments, rx_window[sn]}
      BY <3>1 DEF WholeInv, BearerTypes
    <3> QED BY <1>2, <3>1, <3>2, WindowAlone
  <2>3. ASSUME NEW so \in 0..N_bytes, handle_segment(channel[i], so)
        PROVE  /\ WindowMoves
               /\ handed' = handed \/ handed' = [handed EXCEPT ![channel[i].sdu] = @ + 1]
    BY <1>1, <2>3, SegmentMoves
  <2> QED BY <1>1, <2>1, <2>2, <2>3
<1>4. WholeInv'
  BY <1>2, <1>3, ReceiverKeepsWhole
<1>5. HandsOver
  <2> DEFINE s == channel[i].sdu
  <2> SUFFICES ASSUME handed' # handed
               PROVE  s \in Live /\ handed[s] = 0 /\ handed' = [handed EXCEPT ![s] = @ + 1]
    BY DEF HandsOver
  <2>1. s \in Sdus /\ handed' = [handed EXCEPT ![s] = @ + 1]
    BY <1>3, ChannelPdu
  <2>2. s \in Live
    BY <2>1 DEF WholeInv, QueueOK, Unsent
  <2>3. handed \in [Sdus \cup {Corrupt} -> {0, 1}] /\ handed' \in [Sdus \cup {Corrupt} -> {0, 1}]
    BY <1>3 DEF WindowMoves, WholeInv, BearerTypes
  <2> HIDE DEF s
  <2>4. handed'[s] = handed[s] + 1 /\ handed[s] \in {0, 1} /\ handed'[s] \in {0, 1}
    BY <2>1, <2>3
  <2> QED BY <2>1, <2>2, <2>4
<1> QED BY <1>2, <1>4, <1>5

(* The MAC loses a PDU.                                                    *)
LEMMA LoseWhole ==
  ASSUME WholeInv, NEW i \in DOMAIN channel, Lose(i)
  PROVE  WholeInv' /\ UNCHANGED <<handed, written, discarded>>
<1>1. Channel(i) /\ UNCHANGED <<RX_Next_Highest, handed, rx_window>>
  BY DEF Lose, umRxVars
<1>2. /\ FewerIn(channel', channel) /\ channel' \in Seq(UmPdu)
      /\ UNCHANGED <<TX_Next, next_so, tx_sdu, tx_sdu_queue, mac_grant, written, discarded>>
  BY <1>1, ChannelShrinks
<1>3. rx_window' \in [SNs -> {NoSegments} \cup Entry]
      /\ \A sn \in SNs : rx_window'[sn] \in {NoSegments, rx_window[sn]}
  BY <1>1 DEF WholeInv, BearerTypes
<1>4. WindowMoves
  BY <1>1, <1>2, <1>3, WindowAlone
<1> QED BY <1>1, <1>2, <1>4, ReceiverKeepsWhole

(* t-Reassembly expires.                                                   *)
LEMMA ExpireWhole ==
  ASSUME WholeInv, Expire
  PROVE  WholeInv' /\ UNCHANGED <<handed, written, discarded>>
<1>1. /\ UNCHANGED <<RX_Next_Highest, handed, channel>>
      /\ UNCHANGED <<TX_Next, next_so, tx_sdu, tx_sdu_queue, mac_grant, written, discarded>>
      /\ rx_window' = dropped(rx_window, expired_sns)
  BY DEF Expire, timer_expired, umTxVars
<1>2. FewerIn(channel', channel)
  <2> DEFINE at == [k \in DOMAIN channel |-> k]
  <2>1. at \in [DOMAIN channel' -> DOMAIN channel] /\ \A k \in DOMAIN channel' : at[k] = k
    BY <1>1
  <2> HIDE DEF at
  <2> QED BY <1>1, <2>1 DEF FewerIn
<1>3. channel' \in Seq(UmPdu) /\ rx_window \in [SNs -> Entry]
  BY <1>1 DEF WholeInv, BearerTypes
<1>4. rx_window' \in [SNs -> Entry] /\ \A sn \in SNs : rx_window'[sn] \in {NoSegments, rx_window[sn]}
  BY <1>1, <1>3, Dropping
<1>5. rx_window' \in [SNs -> {NoSegments} \cup Entry]
  BY <1>4
<1>6. WindowMoves
  BY <1>1, <1>2, <1>4, <1>5, WindowAlone
<1> QED BY <1>1, <1>2, <1>3, <1>6, ReceiverKeepsWhole

-----------------------------------------------------------------------------
(* The sender and what is delivered                                        *)

(* The first SDU of the queue is taken from it.                            *)
LEMMA TakenFromQueue ==
  ASSUME WholeInv, UmInv, is_new, ~only_null(tx_sdu_queue),
         NEW i, i = first_sdu(tx_sdu_queue), NEW s, s = tx_sdu_queue[i]
  PROVE  /\ s \in Live /\ s \in Sdus /\ Unsent(s) /\ i \in Nat
         /\ \A k \in DOMAIN queue_after :
              /\ k + i \in DOMAIN tx_sdu_queue /\ queue_after[k] = tx_sdu_queue[k + i]
              /\ queue_after[k] # s
         /\ \A j \in DOMAIN tx_sdu_queue :
              \/ tx_sdu_queue[j] \in {None, s}
              \/ \E k \in DOMAIN queue_after : queue_after[k] = tx_sdu_queue[j]
<1> DEFINE q == tx_sdu_queue  n == Len(q)
<1>1. q \in Seq(Sdus \cup {None}) /\ n \in Nat /\ DOMAIN q = 1..n
  BY DEF UmInv, TxInv
<1>2. i \in 1..n /\ s # None /\ s = q[i] /\ \A k \in 1..(i - 1) : q[k] = None
  BY <1>1, FirstSdu
<1>3. s \in Live /\ Unsent(s) /\ \A j \in DOMAIN q : q[j] = s => j = i
  BY <1>1, <1>2 DEF WholeInv, QueueOK
<1>4. s \in Sdus
  BY <1>3 DEF Live, WholeInv, BearerTypes
<1>5. queue_after = SubSeq(q, i + 1, n)
  BY DEF queue_after
<1> HIDE DEF q, n
<1>6. /\ DOMAIN queue_after = 1..(n - i)
      /\ \A k \in DOMAIN queue_after : k + i \in DOMAIN q /\ queue_after[k] = q[k + i] /\ k + i # i
  <2> DEFINE m == i + 1
             sub == SubSeq(q, m, n)
             hi == n - m + 1
             len == IF m <= n THEN hi ELSE 0
  <2>1. m \in Int /\ n \in Int /\ \A j \in m..n : j \in 1..n
    BY <1>1, <1>2
  <2>2. \A j \in m..n : q[j] \in Sdus \cup {None}
    BY <1>1, <2>1
  <2>3. hi = n - i /\ len = n - i
    BY <1>1, <1>2
  <2>4. \A j \in 1..(n - i) : m + j - 1 = j + i /\ j + i \in 1..n /\ j + i # i
    BY <1>1, <1>2
  <2>5. queue_after = sub
    BY <1>5
  <2> HIDE DEF m
  <2>6. /\ sub \in Seq(Sdus \cup {None}) /\ Len(sub) = len
        /\ \A j \in 1..hi : sub[j] = q[m + j - 1]
    BY <2>1, <2>2, SubSeqProperties
  <2> HIDE DEF sub, hi, len
  <2>7. DOMAIN sub = 1..(n - i)
    BY <2>3, <2>6, LenProperties
  <2>8. \A j \in 1..(n - i) : sub[j] = q[j + i]
    BY <2>3, <2>4, <2>6, Zenon
  <2> QED BY <1>1, <2>4, <2>5, <2>7, <2>8
<1>7. \A k \in DOMAIN queue_after : queue_after[k] # s
  BY <1>3, <1>6
<1>8. ASSUME NEW j \in DOMAIN q
      PROVE  q[j] \in {None, s} \/ \E k \in DOMAIN queue_after : queue_after[k] = q[j]
  <2>1. CASE j < i
    <3>1. j \in 1..(i - 1)
      BY <1>1, <1>2, <2>1
    <3> QED BY <1>2, <3>1
  <2>2. CASE j = i
    BY <1>2, <2>2
  <2>3. CASE i < j
    <3>1. j - i \in 1..(n - i) /\ (j - i) + i = j
      BY <1>1, <1>2, <2>3
    <3> DEFINE k == j - i
    <3>2. k \in DOMAIN queue_after /\ k + i = j
      BY <1>6, <3>1
    <3> HIDE DEF k
    <3> QED BY <1>6, <3>2
  <2>4. j < i \/ j = i \/ i < j
    BY <1>1, <1>2
  <2> QED BY <2>1, <2>2, <2>3, <2>4
<1> QED BY <1>2, <1>3, <1>4, <1>6, <1>7, <1>8 DEF q

(* The first PDU of an SDU: all of it, or as much as the grant holds.      *)
LEMMA NewPdu ==
  ASSUME WholeInv, UmInv, ShortSn, is_new, ~only_null(tx_sdu_queue), mac_grant # 0,
         NEW n, n = mac_grant, NEW s, s = tx_sdu_queue[first_sdu(tx_sdu_queue)],
         NEW len, len = IF N_bytes <= n - 1 THEN N_bytes ELSE n - 1
  PROVE  /\ ~too_small(n) /\ current = [sdu |-> s, left |-> N_bytes] /\ so_of_next = 0
         /\ pdu_of(n) = [si |-> IF N_bytes <= n - 1 THEN "full" ELSE "first", sn |-> TX_Next,
                         so |-> 0, len |-> len, sdu |-> s, from |-> 0]
         /\ len \in 1..N_bytes /\ (~(N_bytes <= n - 1) => len < N_bytes)
<1>1. n \in Nat /\ n >= 3 /\ N_bytes \in Nat \ {0}
  BY UmAssumption DEF UmInv, TxInv
<1>2. current = [sdu |-> s, left |-> N_bytes] /\ current.left = N_bytes /\ current.sdu = s
      /\ so_of_next = 0
  BY DEF current, so_of_next
<1>3. si_of(n) = IF N_bytes <= n - 1 THEN "full" ELSE "first"
  BY <1>2 DEF si_of, head_len_full
<1>4. packed_length(si_of(n), so_of_next) = 1
  BY <1>2, <1>3, Constants DEF packed_length, ShortSn
<1>5. ~too_small(n)
  BY <1>1, <1>4 DEF too_small
<1>6. payload_of(n) = len
  BY <1>1, <1>2, <1>4 DEF payload_of
<1>7. N_bytes - current.left = 0
  BY <1>1, <1>2
<1>8. len \in 1..N_bytes /\ (~(N_bytes <= n - 1) => len < N_bytes)
  BY <1>1
<1>9. pdu_of(n) = [si |-> si_of(n), sn |-> TX_Next, so |-> so_of_next, len |-> payload_of(n),
                   sdu |-> current.sdu, from |-> N_bytes - current.left]
  BY DEF pdu_of
<1> HIDE DEF is_new
<1> QED BY <1>2, <1>3, <1>5, <1>6, <1>7, <1>8, <1>9

(* The PDUs after it.                                                      *)
LEMMA NextPdu ==
  ASSUME WholeInv, UmInv, ShortSn, ~is_new, mac_grant # 0,
         NEW n, n = mac_grant, ~too_small(n), NEW left, left = tx_sdu.left,
         NEW len, len = IF left <= n - 3 THEN left ELSE n - 3
  PROVE  /\ current = tx_sdu /\ so_of_next = next_so
         /\ pdu_of(n) = [si |-> IF left <= n - 3 THEN "last" ELSE "middle", sn |-> TX_Next,
                         so |-> next_so, len |-> len, sdu |-> tx_sdu.sdu, from |-> next_so]
         /\ len \in 1..left /\ (~(left <= n - 3) => len < left)
<1>1. n \in Nat /\ n >= 3 /\ N_bytes \in Nat \ {0}
  BY UmAssumption DEF UmInv, TxInv
<1>2. current = tx_sdu /\ so_of_next = next_so
  BY DEF current, so_of_next
<1>3. left \in 1..N_bytes /\ next_so # 0 /\ next_so + left = N_bytes /\ next_so \in 0..N_bytes
  BY DEF WholeInv, BearerTypes, is_new, UmInv, TxInv
<1>4. si_of(n) = IF left <= n - 3 THEN "last" ELSE "middle"
  <2>1. head_len_segment = 3
    BY DEF head_len_segment
  <2> QED BY <1>1, <1>2, <2>1 DEF si_of
<1>5. packed_length(si_of(n), so_of_next) = 3
  BY <1>2, <1>3, <1>4, Constants DEF packed_length, ShortSn
<1>6. n > 4
  BY <1>1, <1>5 DEF too_small
<1>7. payload_of(n) = len
  BY <1>1, <1>2, <1>3, <1>5 DEF payload_of
<1>8. N_bytes - current.left = next_so
  BY <1>1, <1>2, <1>3
<1>9. len \in 1..left /\ (~(left <= n - 3) => len < left)
  BY <1>1, <1>3, <1>6
<1>10. pdu_of(n) = [si |-> si_of(n), sn |-> TX_Next, so |-> so_of_next, len |-> payload_of(n),
                    sdu |-> current.sdu, from |-> N_bytes - current.left]
  BY DEF pdu_of
<1> QED BY <1>2, <1>4, <1>7, <1>8, <1>9, <1>10

(* A channel with one more PDU.                                            *)
LEMMA Appended ==
  ASSUME NEW S, NEW q \in Seq(S), NEW p \in S, NEW r, r = Append(q, p)
  PROVE  /\ r \in Seq(S)
         /\ \E n \in DOMAIN r : /\ n \notin DOMAIN q /\ r[n] = p
                                /\ DOMAIN r = DOMAIN q \cup {n}
                                /\ \A k \in DOMAIN q : r[k] = q[k]
<1>1. Len(q) \in Nat /\ DOMAIN q = 1..Len(q)
  OBVIOUS
<1>2. /\ r \in Seq(S) /\ Len(r) = Len(q) + 1 /\ r[Len(q) + 1] = p
      /\ \A k \in 1..Len(q) : r[k] = q[k]
  BY AppendProperties
<1>3. DOMAIN r = 1..(Len(q) + 1)
  BY <1>2, LenProperties
<1> DEFINE n == Len(q) + 1
<1>4. /\ n \in DOMAIN r /\ n \notin DOMAIN q /\ r[n] = p /\ DOMAIN r = DOMAIN q \cup {n}
      /\ \A k \in DOMAIN q : r[k] = q[k]
  BY <1>1, <1>2, <1>3
<1> HIDE DEF n
<1> QED BY <1>2, <1>4

(* build_data_pdu() starts an SDU.                                         *)
LEMMA NewPduSent ==
  ASSUME WholeInv, UmInv, ShortSn, build_pdu, is_new,
         NEW s, s = tx_sdu_queue[first_sdu(tx_sdu_queue)]
  PROVE  /\ ~only_null(tx_sdu_queue) /\ mac_grant # 0 /\ mac_grant' = 0
         /\ tx_sdu_queue' = queue_after
         /\ UNCHANGED <<TX_Next, written, discarded>>
         /\ \E p \in UmPdu :
              /\ GoodPdu(p) /\ p.sdu = s /\ p.sn = TX_Next /\ p.so = 0 /\ p.si \in {"full", "first"}
              /\ channel' = Append(channel, p) /\ next_so' = p.len
              /\ IF Cut(p) THEN p.len < N_bytes /\ tx_sdu' = [sdu |-> s, left |-> N_bytes - p.len]
                 ELSE tx_sdu' = NoSdu
<1> DEFINE n == mac_grant  q == tx_sdu_queue
           whole == N_bytes <= n - 1
           len == IF whole THEN N_bytes ELSE n - 1
           p == pdu_of(n)
<1>1. ~only_null(q) /\ n # 0
  BY DEF build_pdu, build_returns
<1>2. s \in Sdus
  BY <1>1, TakenFromQueue
<1>3. /\ current = [sdu |-> s, left |-> N_bytes] /\ so_of_next = 0
      /\ p = [si |-> IF whole THEN "full" ELSE "first", sn |-> TX_Next,
              so |-> 0, len |-> len, sdu |-> s, from |-> 0]
      /\ len \in 1..N_bytes /\ (~whole => len < N_bytes)
  BY <1>1, NewPdu
<1>4. /\ channel' = Append(channel, p) /\ mac_grant' = 0 /\ tx_sdu_queue' = queue_after
      /\ UNCHANGED <<written, discarded>>
      /\ tx_sdu' = IF current.left - p.len = 0 THEN NoSdu
                   ELSE [current EXCEPT !.left = current.left - p.len]
      /\ next_so' = IF p.si = "last" THEN 0 ELSE so_of_next + p.len
      /\ TX_Next' = tx_next_after(p.si)
  BY DEF build_pdu, build_returns
<1>5. TX_Next \in SNs /\ N_bytes \in Nat
  BY Constants DEF UmInv, TxInv
<1> HIDE DEF n, q, p, whole, len
<1>6. p \in UmPdu
  BY <1>2, <1>3, <1>5 DEF UmPdu
<1>7. /\ GoodPdu(p) /\ p.sdu = s /\ p.sn = TX_Next /\ p.so = 0 /\ p.len = len
      /\ (Cut(p) <=> ~whole) /\ p.si \in {"full", "first"}
  BY <1>3, <1>5 DEF GoodPdu, Cut, len
<1>8. TX_Next' = TX_Next /\ next_so' = len
  <2>1. p.si # "last"
    BY <1>7
  <2> QED BY <1>3, <1>4, <1>5, <1>7, <2>1 DEF tx_next_after
<1>9. tx_sdu' = IF whole THEN NoSdu ELSE [sdu |-> s, left |-> N_bytes - len]
  <2>1. current.left - p.len = N_bytes - len /\ (N_bytes - len = 0 <=> whole)
    BY <1>3, <1>5, <1>7 DEF len
  <2>2. [current EXCEPT !.left = N_bytes - len] = [sdu |-> s, left |-> N_bytes - len]
    BY <1>3
  <2> QED BY <1>4, <2>1, <2>2
<1>10. /\ GoodPdu(p) /\ p.sdu = s /\ p.sn = TX_Next /\ p.so = 0 /\ p.si \in {"full", "first"}
       /\ channel' = Append(channel, p) /\ next_so' = p.len
       /\ IF Cut(p) THEN p.len < N_bytes /\ tx_sdu' = [sdu |-> s, left |-> N_bytes - p.len]
          ELSE tx_sdu' = NoSdu
  BY <1>3, <1>4, <1>7, <1>8, <1>9
<1> HIDE DEF NoSdu
<1> QED BY <1>1, <1>4, <1>6, <1>8, <1>10 DEF n, q

(* build_data_pdu() goes on with an SDU.                                   *)
LEMMA NextPduSent ==
  ASSUME WholeInv, UmInv, ShortSn, build_pdu, ~is_new
  PROVE  /\ mac_grant # 0 /\ mac_grant' = 0
         /\ UNCHANGED <<tx_sdu_queue, written, discarded>>
         /\ \E p \in UmPdu :
              /\ GoodPdu(p) /\ p.sdu = tx_sdu.sdu /\ p.sn = TX_Next /\ p.so = next_so
              /\ channel' = Append(channel, p)
              /\ \/ /\ p.si = "last" /\ tx_sdu' = NoSdu /\ next_so' = 0
                    /\ TX_Next' = (TX_Next + 1) % mod
                 \/ /\ p.si = "middle" /\ p.len < tx_sdu.left /\ next_so' = next_so + p.len
                    /\ tx_sdu' = [tx_sdu EXCEPT !.left = tx_sdu.left - p.len]
                    /\ TX_Next' = TX_Next
<1> DEFINE n == mac_grant  left == tx_sdu.left  s == tx_sdu.sdu
           last == left <= n - 3
           len == IF last THEN left ELSE n - 3
           p == pdu_of(n)
<1>1. n # 0 /\ ~too_small(n)
  BY DEF build_pdu, build_returns
<1>2. /\ next_so # 0 /\ next_so + left = N_bytes /\ s \in Sdus /\ left \in 1..N_bytes
      /\ TX_Next \in SNs /\ next_so \in 0..N_bytes
  BY DEF WholeInv, BearerTypes, is_new, UmInv, TxInv
<1>3. /\ current = tx_sdu /\ so_of_next = next_so
      /\ p = [si |-> IF last THEN "last" ELSE "middle", sn |-> TX_Next,
              so |-> next_so, len |-> len, sdu |-> s, from |-> next_so]
      /\ len \in 1..left /\ (~last => len < left)
  BY <1>1, NextPdu
<1>4. /\ channel' = Append(channel, p) /\ mac_grant' = 0 /\ tx_sdu_queue' = tx_sdu_queue
      /\ UNCHANGED <<written, discarded>>
      /\ tx_sdu' = IF current.left - p.len = 0 THEN NoSdu
                   ELSE [current EXCEPT !.left = current.left - p.len]
      /\ next_so' = IF p.si = "last" THEN 0 ELSE so_of_next + p.len
      /\ TX_Next' = tx_next_after(p.si)
  BY DEF build_pdu, build_returns, queue_after
<1>5. N_bytes \in Nat \ {0}
  BY Constants
<1> HIDE DEF n, left, s, p, last, len
<1>6. len \in 1..N_bytes /\ next_so + len <= N_bytes
  BY <1>2, <1>3, <1>5
<1>7. p \in UmPdu
  BY <1>2, <1>3, <1>6 DEF UmPdu
<1>8. p.sdu = s /\ p.sn = TX_Next /\ p.so = next_so /\ p.len = len
      /\ p.si = (IF last THEN "last" ELSE "middle") /\ p.from = next_so
  BY <1>3
<1>9. GoodPdu(p)
  <2>1. last => next_so + len = N_bytes
    BY <1>2 DEF len
  <2> QED BY <1>2, <1>6, <1>8, <2>1 DEF GoodPdu
<1>10. tx_sdu' = IF last THEN NoSdu ELSE [tx_sdu EXCEPT !.left = left - len]
  <2>1. current.left - p.len = left - len /\ (left - len = 0 <=> last)
    BY <1>2, <1>3, <1>5, <1>8 DEF len, left
  <2> QED BY <1>3, <1>4, <2>1
<1>11. /\ TX_Next' = IF last THEN (TX_Next + 1) % mod ELSE TX_Next
       /\ next_so' = IF last THEN 0 ELSE next_so + len
  BY <1>3, <1>4, <1>8 DEF tx_next_after
<1>12. \/ /\ p.si = "last" /\ tx_sdu' = NoSdu /\ next_so' = 0
          /\ TX_Next' = (TX_Next + 1) % mod
       \/ /\ p.si = "middle" /\ p.len < left /\ next_so' = next_so + p.len
          /\ tx_sdu' = [tx_sdu EXCEPT !.left = left - p.len]
          /\ TX_Next' = TX_Next
  BY <1>3, <1>8, <1>10, <1>11
<1> QED BY <1>1, <1>4, <1>7, <1>8, <1>9, <1>12 DEF n, left, s

(* A PDU is sent: of the SDU under way or of one that was still unsent.    *)
LEMMA SendKeepsWhole ==
  ASSUME WholeInv, UNCHANGED <<rx_window, RX_Next_Highest, handed, written, discarded>>,
         NEW p \in UmPdu, GoodPdu(p), p.sdu \in Live, p.sn = TX_Next,
         channel' = Append(channel, p),
         \/ tx_sdu' = NoSdu
         \/ /\ tx_sdu' \in [sdu : Sdus, left : 1..N_bytes]
            /\ next_so' # 0 /\ next_so' + tx_sdu'.left = N_bytes
            /\ tx_sdu'.sdu = p.sdu /\ Cut(p) /\ TX_Next' = TX_Next,
         NEW d \in Nat,
         \A k \in DOMAIN tx_sdu_queue' :
           /\ k \in Nat /\ k + d \in DOMAIN tx_sdu_queue
           /\ tx_sdu_queue'[k] = tx_sdu_queue[k + d] /\ tx_sdu_queue'[k] # p.sdu,
         p.so = 0 => Unsent(p.sdu),
         Cut(p) => \A sn \in SNs, t \in Sdus : Numbered(sn, t) => (sn = TX_Next <=> t = p.sdu),
         AgesOK'
  PROVE  WholeInv'
<1>1. p.sdu \in Sdus /\ channel \in Seq(UmPdu) /\ p.sdu # None
  BY NoSdus DEF UmPdu, WholeInv, BearerTypes
<1>2. PICK n \in DOMAIN channel' :
        /\ n \notin DOMAIN channel /\ channel'[n] = p /\ DOMAIN channel' = DOMAIN channel \cup {n}
        /\ \A k \in DOMAIN channel : channel'[k] = channel[k]
  BY <1>1, Appended
<1>3. channel' \in Seq(UmPdu)
  BY <1>1, Appended
<1>4. BearerTypes'
  <2>1. \A k \in DOMAIN channel' : GoodPdu(channel'[k])
    BY <1>2 DEF WholeInv, BearerTypes
  <2>2. \/ tx_sdu' = NoSdu
        \/ /\ tx_sdu' \in [sdu : Sdus, left : 1..N_bytes]
           /\ next_so' # 0 /\ next_so' + tx_sdu'.left = N_bytes
    OBVIOUS
  <2> QED BY <1>3, <2>1, <2>2 DEF WholeInv, BearerTypes, GoodPdu, GoodEntry
<1>5. tx_sdu'.sdu = None \/ tx_sdu'.sdu = p.sdu
  BY DEF NoSdu
<1>6. \A t \in Sdus : Unsent(t) /\ t # p.sdu => Unsent(t)'
  <2> SUFFICES ASSUME NEW t \in Sdus, Unsent(t), t # p.sdu PROVE Unsent(t)'
    OBVIOUS
  <2>1. handed'[t] = 0 /\ tx_sdu'.sdu # t
    BY <1>5, NoSdus DEF Unsent
  <2>2. \A k \in DOMAIN channel' : channel'[k].sdu # t
    BY <1>2 DEF Unsent
  <2>3. \A sn \in SNs : ~InEntry(rx_window'[sn], t)
    BY DEF Unsent
  <2> QED BY <2>1, <2>2, <2>3 DEF Unsent, InEntry
<1>7. QueueOK'
  <2>1. Live' = Live /\ Live \subseteq Sdus
    BY DEF Live, WholeInv, BearerTypes
  <2>2. \A k \in DOMAIN tx_sdu_queue : tx_sdu_queue[k] # None =>
          /\ tx_sdu_queue[k] \in Live /\ Unsent(tx_sdu_queue[k])
          /\ \A j \in DOMAIN tx_sdu_queue : tx_sdu_queue[j] = tx_sdu_queue[k] => j = k
    BY DEF WholeInv, QueueOK
  <2>3. \A s \in Sdus \ Live : Unsent(s)
    BY DEF WholeInv, QueueOK
  <2>4. ASSUME NEW k \in DOMAIN tx_sdu_queue', tx_sdu_queue'[k] # None
        PROVE  /\ tx_sdu_queue'[k] \in Live
               /\ handed'[tx_sdu_queue'[k]] = 0 /\ tx_sdu'.sdu # tx_sdu_queue'[k]
               /\ \A i \in DOMAIN channel' : channel'[i].sdu # tx_sdu_queue'[k]
               /\ \A sn \in SNs : ~InEntry(rx_window'[sn], tx_sdu_queue'[k])
               /\ \A j \in DOMAIN tx_sdu_queue' : tx_sdu_queue'[j] = tx_sdu_queue'[k] => j = k
    <3> DEFINE t == tx_sdu_queue'[k]
    <3>1. t \in Live /\ Unsent(t) /\ t # p.sdu /\ t \in Sdus
      BY <2>1, <2>2, <2>4
    <3> HIDE DEF t
    <3>2. /\ handed'[t] = 0 /\ tx_sdu'.sdu # t
          /\ \A i \in DOMAIN channel' : channel'[i].sdu # t
          /\ \A sn \in SNs : ~InEntry(rx_window'[sn], t)
      BY <1>2, <1>5, <3>1, NoSdus DEF Unsent
    <3> USE DEF t
    <3>3. ASSUME NEW j \in DOMAIN tx_sdu_queue', tx_sdu_queue'[j] = tx_sdu_queue'[k] PROVE j = k
      <4>1. j \in Nat /\ k \in Nat /\ j + d = k + d
        BY <2>2, <2>4, <3>3
      <4> QED BY <4>1
    <3> QED BY <3>1, <3>2, <3>3
  <2>5. \A s \in Sdus \ Live : Unsent(s)'
    BY <1>6, <2>3
  <2> QED BY <2>1, <2>4, <2>5 DEF QueueOK, Unsent, InEntry
<1>8. NumbersOK'
  <2>1. ASSUME NEW sn \in SNs, NEW s \in Sdus, Numbered(sn, s)'
        PROVE  Numbered(sn, s) \/ (Cut(p) /\ sn = TX_Next /\ s = p.sdu)
    <3>1. CASE \E k \in DOMAIN channel' : Cut(channel'[k]) /\ channel'[k].sn = sn /\ channel'[k].sdu = s
      BY <1>2, <3>1 DEF Numbered
    <3>2. CASE InEntry(rx_window'[sn], s)
      BY <3>2 DEF Numbered
    <3>3. CASE tx_sdu' # NoSdu /\ sn = TX_Next' /\ tx_sdu'.sdu = s
      BY <3>3
    <3> QED BY <2>1, <3>1, <3>2, <3>3 DEF Numbered, InEntry, Cut
  <2>2. \A a, b \in SNs, s, t \in Sdus : Numbered(a, s) /\ Numbered(b, t) => (a = b <=> s = t)
    BY DEF WholeInv, NumbersOK
  <2>3. ASSUME NEW a \in SNs, NEW b \in SNs, NEW s \in Sdus, NEW t \in Sdus,
               Numbered(a, s)', Numbered(b, t)'
        PROVE  a = b <=> s = t
    <3>1. Numbered(a, s) \/ (Cut(p) /\ a = TX_Next /\ s = p.sdu)
      BY <2>1, <2>3
    <3>2. Numbered(b, t) \/ (Cut(p) /\ b = TX_Next /\ t = p.sdu)
      BY <2>1, <2>3
    <3> QED BY <2>2, <3>1, <3>2
  <2> QED BY <2>3 DEF NumbersOK
<1>9. HeadsOK'
  <2>1. /\ \A i, j \in DOMAIN channel :
             channel[i].so = 0 /\ channel[j].so = 0 /\ channel[i].sdu = channel[j].sdu => i = j
        /\ \A i \in DOMAIN channel : channel[i].so = 0 =>
             /\ handed[channel[i].sdu] = 0
             /\ \A sn \in SNs : ~HeadIn(rx_window[sn], channel[i].sdu)
        /\ \A sn \in SNs, s \in Sdus : HeadIn(rx_window[sn], s) => handed[s] = 0
    BY DEF WholeInv, HeadsOK
  <2>2. p.so = 0 => /\ handed[p.sdu] = 0 /\ \A i \in DOMAIN channel : channel[i].sdu # p.sdu
                    /\ \A sn \in SNs : ~HeadIn(rx_window[sn], p.sdu)
    BY DEF Unsent, InEntry, HeadIn
  <2>3. ASSUME NEW j \in DOMAIN channel', NEW k \in DOMAIN channel',
               channel'[j].so = 0, channel'[k].so = 0, channel'[j].sdu = channel'[k].sdu
        PROVE  j = k
    BY <1>2, <2>1, <2>2, <2>3
  <2>4. ASSUME NEW k \in DOMAIN channel', channel'[k].so = 0
        PROVE  /\ handed'[channel'[k].sdu] = 0
               /\ \A sn \in SNs : ~HeadIn(rx_window'[sn], channel'[k].sdu)
    BY <1>2, <2>1, <2>2, <2>4
  <2>5. \A sn \in SNs, s \in Sdus : HeadIn(rx_window'[sn], s) => handed'[s] = 0
    BY <2>1
  <2> QED BY <2>3, <2>4, <2>5 DEF HeadsOK, HeadIn
<1> QED BY <1>4, <1>7, <1>8, <1>9 DEF WholeInv

(* The number the sender has got to is not in the receiver's window.       *)
LEMMA NextNotHeld ==
  ASSUME WholeInv, UmInv, is_new, mac_grant # 0
  PROVE  \A t \in Sdus : ~Numbered(TX_Next, t)
<1>1. /\ TX_Next \in SNs /\ RX_Next_Highest \in SNs /\ age(RX_Next_Highest) < UM_Window_Size
  BY DEF UmInv, TxInv, RxType, WholeInv, AgesOK
<1> DEFINE nh == RX_Next_Highest  a == age(nh)
<1>2. a = IF TX_Next >= nh THEN TX_Next - nh ELSE TX_Next - nh + mod
  BY <1>1, AgeNext
<1>3. TX_Next \in 0..(2 * UM_Window_Size)
  BY <1>1, Constants
<1>4. base(nh, TX_Next) = IF TX_Next >= nh + UM_Window_Size THEN TX_Next - nh - UM_Window_Size
                          ELSE IF TX_Next >= nh - UM_Window_Size THEN TX_Next - nh + UM_Window_Size
                          ELSE TX_Next - nh + 3 * UM_Window_Size
  BY <1>1, <1>3, Base
<1> HIDE DEF nh, a
<1>5. base(nh, TX_Next) >= UM_Window_Size
  BY <1>1, <1>2, <1>4, Constants DEF nh, a
<1>6. TX_Next \notin held(rx_window)
  <2> SUFFICES ASSUME TX_Next \in held(rx_window) PROVE FALSE
    OBVIOUS
  <2>1. base(nh, TX_Next) < UM_Window_Size
    BY DEF WholeInv, AgesOK, nh
  <2>2. base(nh, TX_Next) \in SNs
    BY <1>1, Places DEF nh
  <2> QED BY <1>5, <2>1, <2>2, Constants
<1>7. rx_window[TX_Next] = NoSegments
  BY <1>1, <1>6 DEF held
<1> SUFFICES ASSUME NEW t \in Sdus, Numbered(TX_Next, t) PROVE FALSE
  OBVIOUS
<1>8. ~InEntry(rx_window[TX_Next], t)
  BY <1>7, NoSdus DEF NoSegments, InEntry
<1>9. PICK i \in DOMAIN channel : Cut(channel[i]) /\ channel[i].sn = TX_Next
  BY <1>8 DEF Numbered, is_new
<1>10. age(TX_Next) # 0
  BY <1>9 DEF WholeInv, AgesOK
<1>11. age(TX_Next) = IF TX_Next >= TX_Next THEN TX_Next - TX_Next ELSE TX_Next - TX_Next + mod
  BY <1>1, AgeNext
<1>12. age(TX_Next) = 0
  BY <1>1, <1>11, Constants
<1> QED BY <1>10, <1>12

(* The first PDU of an SDU is sent.                                        *)
LEMMA SendNew ==
  ASSUME WholeInv, UmInv, ShortSn, build_pdu, is_new, UNCHANGED umRxVars
  PROVE  WholeInv'
<1>1. PICK s : s = tx_sdu_queue[first_sdu(tx_sdu_queue)]
  OBVIOUS
<1>2. /\ ~only_null(tx_sdu_queue) /\ mac_grant # 0 /\ mac_grant' = 0
      /\ tx_sdu_queue' = queue_after
      /\ UNCHANGED <<TX_Next, written, discarded, rx_window, RX_Next_Highest, handed>>
  BY <1>1, NewPduSent DEF umRxVars
<1>3. PICK p \in UmPdu :
        /\ GoodPdu(p) /\ p.sdu = s /\ p.sn = TX_Next /\ p.so = 0 /\ p.si \in {"full", "first"}
        /\ channel' = Append(channel, p) /\ next_so' = p.len
        /\ IF Cut(p) THEN p.len < N_bytes /\ tx_sdu' = [sdu |-> s, left |-> N_bytes - p.len]
           ELSE tx_sdu' = NoSdu
  BY <1>1, NewPduSent
<1>4. PICK i : i = first_sdu(tx_sdu_queue)
  OBVIOUS
<1>5. /\ s \in Live /\ s \in Sdus /\ Unsent(s) /\ i \in Nat
      /\ \A k \in DOMAIN queue_after :
           /\ k + i \in DOMAIN tx_sdu_queue /\ queue_after[k] = tx_sdu_queue[k + i]
           /\ queue_after[k] # s
  BY <1>1, <1>2, <1>4, TakenFromQueue
<1>6. /\ TX_Next \in SNs /\ queue_after \in Seq(Sdus \cup {None}) /\ N_bytes \in Nat \ {0}
      /\ channel \in Seq(UmPdu) /\ p.len \in 1..N_bytes
  BY <1>2, CurrentSdu, Constants DEF UmInv, TxInv, WholeInv, BearerTypes, UmPdu
<1>7. \/ tx_sdu' = NoSdu
      \/ /\ tx_sdu' \in [sdu : Sdus, left : 1..N_bytes]
         /\ next_so' # 0 /\ next_so' + tx_sdu'.left = N_bytes
         /\ tx_sdu'.sdu = p.sdu /\ Cut(p) /\ TX_Next' = TX_Next
  <2> SUFFICES ASSUME Cut(p)
               PROVE  /\ tx_sdu' \in [sdu : Sdus, left : 1..N_bytes]
                      /\ next_so' # 0 /\ next_so' + tx_sdu'.left = N_bytes
                      /\ tx_sdu'.sdu = p.sdu
    BY <1>2, <1>3
  <2> DEFINE left == N_bytes - p.len
  <2>1. left \in 1..N_bytes /\ p.len # 0 /\ p.len + left = N_bytes
    BY <1>3, <1>6
  <2>2. tx_sdu' = [sdu |-> s, left |-> left]
    BY <1>3
  <2> HIDE DEF left
  <2> QED BY <1>3, <1>5, <2>1, <2>2
<1>8. \A k \in DOMAIN tx_sdu_queue' :
        /\ k \in Nat /\ k + i \in DOMAIN tx_sdu_queue
        /\ tx_sdu_queue'[k] = tx_sdu_queue[k + i] /\ tx_sdu_queue'[k] # p.sdu
  <2>1. \A k \in DOMAIN queue_after : k \in Nat
    BY <1>6
  <2> QED BY <1>2, <1>3, <1>5, <2>1
<1>9. \A sn \in SNs, t \in Sdus : Numbered(sn, t) => (sn = TX_Next <=> t = p.sdu)
  <2>1. \A t \in Sdus : ~Numbered(TX_Next, t)
    BY <1>2, NextNotHeld
  <2>2. \A sn \in SNs : ~Numbered(sn, s)
    BY <1>5 DEF Numbered, Unsent
  <2> QED BY <1>3, <2>1, <2>2
<1>10. AgesOK'
  <2>1. \A x : age(x)' = age(x)
    BY <1>2 DEF age
  <2>2. age(TX_Next) = 0
    <3>1. age(TX_Next) = IF TX_Next >= TX_Next THEN TX_Next - TX_Next ELSE TX_Next - TX_Next + mod
      BY <1>6, AgeNext
    <3> QED BY <1>6, <3>1, Constants
  <2>3. PICK m \in DOMAIN channel' :
          /\ channel'[m] = p /\ DOMAIN channel' = DOMAIN channel \cup {m}
          /\ \A k \in DOMAIN channel : channel'[k] = channel[k]
    BY <1>3, <1>6, Appended
  <2>4. /\ \A k \in DOMAIN channel : Cut(channel[k]) =>
             /\ age(channel[k].sn) < UM_Window_Size /\ age(channel[k].sn) # 0
             /\ age(channel[k].sn) <= UM_Window_Size
        /\ age(RX_Next_Highest) < UM_Window_Size /\ age(RX_Next_Highest) <= UM_Window_Size
        /\ \A h \in held(rx_window) : base(RX_Next_Highest, h) < UM_Window_Size
    BY <1>2 DEF WholeInv, AgesOK
  <2>5. Cut(p) => (tx_sdu' # NoSdu /\ age(p.sn) = 0)
    <3>1. Cut(p) => tx_sdu' # NoSdu
      BY <1>3, <1>5, NoSdus DEF NoSdu
    <3> QED BY <1>3, <2>2, <3>1
  <2>6. 0 < UM_Window_Size /\ 0 <= UM_Window_Size
    BY Constants
  <2>7. \A k \in DOMAIN channel' : Cut(channel'[k]) =>
          /\ age(channel'[k].sn) <= UM_Window_Size
          /\ tx_sdu' = NoSdu => age(channel'[k].sn) # 0
          /\ age(channel'[k].sn) < UM_Window_Size
    BY <2>3, <2>4, <2>5, <2>6
  <2> QED BY <1>2, <2>4, <2>7 DEF AgesOK, age, is_new, NoSdu, held, base, Cut
<1> QED BY <1>2, <1>3, <1>5, <1>7, <1>8, <1>9, <1>10, SendKeepsWhole

(* A later PDU is sent.                                                    *)
LEMMA SendNext ==
  ASSUME WholeInv, UmInv, ShortSn, build_pdu, ~is_new, UNCHANGED umRxVars
  PROVE  WholeInv'
<1>1. /\ mac_grant # 0 /\ mac_grant' = 0
      /\ UNCHANGED <<tx_sdu_queue, written, discarded, rx_window, RX_Next_Highest, handed>>
  BY NextPduSent DEF umRxVars
<1>2. PICK p \in UmPdu :
        /\ GoodPdu(p) /\ p.sdu = tx_sdu.sdu /\ p.sn = TX_Next /\ p.so = next_so
        /\ channel' = Append(channel, p)
        /\ \/ /\ p.si = "last" /\ tx_sdu' = NoSdu /\ next_so' = 0
              /\ TX_Next' = (TX_Next + 1) % mod
           \/ /\ p.si = "middle" /\ p.len < tx_sdu.left /\ next_so' = next_so + p.len
              /\ tx_sdu' = [tx_sdu EXCEPT !.left = tx_sdu.left - p.len]
              /\ TX_Next' = TX_Next
  BY NextPduSent
<1> DEFINE s == tx_sdu.sdu  left == tx_sdu.left  last == p.si = "last"
<1>3. /\ tx_sdu \in [sdu : Sdus, left : 1..N_bytes]
      /\ next_so # 0 /\ next_so + left = N_bytes /\ s \in Sdus /\ left \in 1..N_bytes
      /\ TX_Next \in SNs /\ next_so \in 0..N_bytes /\ tx_sdu_queue \in Seq(Sdus \cup {None})
      /\ RX_Next_Highest \in SNs /\ channel \in Seq(UmPdu)
  BY DEF WholeInv, BearerTypes, is_new, UmInv, TxInv, RxType
<1>4. s \in Live
  BY <1>3 DEF WholeInv, QueueOK, Unsent
<1>5. N_bytes \in Nat \ {0} /\ p.len \in 1..N_bytes
  BY Constants DEF UmPdu
<1> HIDE DEF s, left
<1>6. p.sdu = s /\ Cut(p)
  BY <1>2 DEF Cut, s
<1>7. ~last => p.len < left /\ TX_Next' = TX_Next
  BY <1>2 DEF left
<1>8. \/ tx_sdu' = NoSdu
      \/ /\ tx_sdu' \in [sdu : Sdus, left : 1..N_bytes]
         /\ next_so' # 0 /\ next_so' + tx_sdu'.left = N_bytes
         /\ tx_sdu'.sdu = p.sdu /\ Cut(p) /\ TX_Next' = TX_Next
  <2> SUFFICES ASSUME ~last
               PROVE  /\ tx_sdu' \in [sdu : Sdus, left : 1..N_bytes]
                      /\ next_so' # 0 /\ next_so' + tx_sdu'.left = N_bytes
                      /\ tx_sdu'.sdu = p.sdu /\ Cut(p) /\ TX_Next' = TX_Next
    BY <1>2
  <2> DEFINE more == left - p.len  o == next_so + p.len
  <2>1. more \in 1..N_bytes /\ o # 0 /\ o + more = N_bytes
    BY <1>3, <1>5, <1>7
  <2>2. tx_sdu' = [tx_sdu EXCEPT !.left = more] /\ next_so' = o
    BY <1>2 DEF left
  <2> HIDE DEF more, o
  <2>3. tx_sdu' \in [sdu : Sdus, left : 1..N_bytes] /\ tx_sdu'.left = more /\ tx_sdu'.sdu = tx_sdu.sdu
    BY <1>3, <2>1, <2>2
  <2> QED BY <1>6, <1>7, <2>1, <2>2, <2>3 DEF s
<1>9. \A k \in DOMAIN tx_sdu_queue' :
         /\ k \in Nat /\ k + 0 \in DOMAIN tx_sdu_queue
         /\ tx_sdu_queue'[k] = tx_sdu_queue[k + 0] /\ tx_sdu_queue'[k] # p.sdu
  <2>1. \A k \in DOMAIN tx_sdu_queue : k \in Nat /\ k + 0 = k
    BY <1>3
  <2>2. \A k \in DOMAIN tx_sdu_queue : tx_sdu_queue[k] # s
    BY <1>3, NoSdus DEF WholeInv, QueueOK, Unsent, s
  <2> QED BY <1>1, <1>6, <2>1, <2>2
<1>10. \A sn \in SNs, t \in Sdus : Numbered(sn, t) => (sn = TX_Next <=> t = p.sdu)
  <2>1. Numbered(TX_Next, s)
    BY DEF Numbered, is_new, s
  <2>2. TX_Next \in SNs /\ s \in Sdus /\ p.sdu = s
    BY <1>3, <1>6
  <2>3. \A a, b \in SNs, r, t \in Sdus : Numbered(a, r) /\ Numbered(b, t) => (a = b <=> r = t)
    BY DEF WholeInv, NumbersOK
  <2> QED BY <2>1, <2>2, <2>3
<1>11. AgesOK'
  <2>1. age(TX_Next) = 0
    <3>1. age(TX_Next) = IF TX_Next >= TX_Next THEN TX_Next - TX_Next ELSE TX_Next - TX_Next + mod
      BY <1>3, AgeNext
    <3> QED BY <1>3, <3>1, Constants
  <2>2. PICK m \in DOMAIN channel' :
          /\ channel'[m] = p /\ DOMAIN channel' = DOMAIN channel \cup {m}
          /\ \A k \in DOMAIN channel : channel'[k] = channel[k]
    <3>1. channel \in Seq(UmPdu) /\ channel' = Append(channel, p)
      BY <1>2, <1>3
    <3> QED BY <3>1, Appended
  <2>3. /\ \A k \in DOMAIN channel : Cut(channel[k]) => age(channel[k].sn) < UM_Window_Size
        /\ age(RX_Next_Highest) < UM_Window_Size \/ age(RX_Next_Highest) = mod - 1
        /\ \A h \in held(rx_window) : base(RX_Next_Highest, h) < UM_Window_Size
    BY DEF WholeInv, AgesOK
  <2>4. \A k \in DOMAIN channel' : Cut(channel'[k]) =>
          channel'[k].sn \in SNs /\ age(channel'[k].sn) < UM_Window_Size
    <3>1. \A k \in DOMAIN channel : channel[k].sn \in SNs
      BY ChannelPdu
    <3>2. 0 < UM_Window_Size
      BY Constants
    <3> QED BY <1>2, <1>3, <2>1, <2>2, <2>3, <3>1, <3>2
  <2>5. CASE last
    <3> DEFINE later(x) == (TX_Next' - x) % mod
    <3>1. ASSUME NEW x \in SNs PROVE later(x) = IF age(x) = mod - 1 THEN 0 ELSE age(x) + 1
      <4> DEFINE t == TX_Next'  y == t - x  M == mod
      <4>1. age(x) = IF TX_Next >= x THEN TX_Next - x ELSE TX_Next - x + mod
        BY <1>3, AgeNext
      <4>2. t = (IF TX_Next = 2 * UM_Window_Size - 1 THEN 0 ELSE TX_Next + 1) /\ t \in SNs
        BY <1>2, <1>3, <2>5, NextSn
      <4>3. M \in Nat \ {0} /\ y \in Int /\ -(2 * M) <= y /\ y < M /\ y >= -M /\ later(x) = y % M
        BY <4>2, Constants
      <4> HIDE DEF y, M, t
      <4>4. later(x) = IF y >= 0 THEN y ELSE y + M
        BY <4>3, TwoTurns
      <4> HIDE DEF later
      <4>5. later(x) = IF t >= x THEN t - x ELSE t - x + mod
        BY <4>2, <4>4, Constants DEF y, M
      <4> QED BY <1>3, <4>1, <4>2, <4>5, Constants
    <3>2. \A x \in SNs : age(x) \in SNs
      BY <1>3, AgeNext
    <3>3. ASSUME NEW x \in SNs, age(x) < UM_Window_Size
          PROVE  later(x) <= UM_Window_Size /\ later(x) # 0
      <4> DEFINE a == age(x)  b == later(x)
      <4>1. a \in SNs /\ a < UM_Window_Size /\ b = IF a = mod - 1 THEN 0 ELSE a + 1
        BY <3>1, <3>2, <3>3
      <4> HIDE DEF a, b
      <4>2. b <= UM_Window_Size /\ b # 0
        BY <4>1, Constants
      <4> QED BY <4>2 DEF b
    <3>4. later(RX_Next_Highest) <= UM_Window_Size
      <4>1. CASE age(RX_Next_Highest) < UM_Window_Size
        BY <1>3, <3>3, <4>1
      <4>2. CASE age(RX_Next_Highest) = mod - 1
        <5>1. later(RX_Next_Highest) = 0
          BY <1>3, <3>1, <4>2
        <5> QED BY <5>1, Constants
      <4> QED BY <2>3, <4>1, <4>2
    <3>5. tx_sdu' = NoSdu
      BY <1>2, <2>5
    <3>6. \A k \in DOMAIN channel' : Cut(channel'[k]) =>
            later(channel'[k].sn) <= UM_Window_Size /\ later(channel'[k].sn) # 0
      BY <2>4, <3>3
    <3> QED BY <1>1, <2>3, <3>4, <3>5, <3>6 DEF AgesOK, age, is_new, held, base, Cut
  <2>6. CASE ~last
    <3>1. TX_Next' = TX_Next
      BY <1>7, <2>6
    <3>2. tx_sdu' # NoSdu
      <4>1. tx_sdu' = [tx_sdu EXCEPT !.left = tx_sdu.left - p.len]
        BY <1>2, <2>6
      <4>2. tx_sdu'.sdu \in Sdus
        BY <1>3, <4>1
      <4> QED BY <4>2, NoSdus DEF NoSdu
    <3>3. \A k \in DOMAIN channel' : Cut(channel'[k]) =>
            age(channel'[k].sn) <= UM_Window_Size /\ age(channel'[k].sn) < UM_Window_Size
      <4>1. \A x \in SNs : age(x) < UM_Window_Size => age(x) <= UM_Window_Size
        <5> SUFFICES ASSUME NEW x \in SNs, age(x) < UM_Window_Size PROVE age(x) <= UM_Window_Size
          OBVIOUS
        <5>1. age(x) \in SNs
          BY <1>3, AgeNext
        <5> QED BY <5>1, Constants
      <4> QED BY <2>4, <4>1
    <3> QED BY <1>1, <2>3, <3>1, <3>2, <3>3 DEF AgesOK, age, is_new, held, base, Cut
  <2> QED BY <2>5, <2>6
<1>12. next_so # 0 /\ 0 \in Nat
  BY <1>3
<1> QED BY <1>1, <1>2, <1>4, <1>6, <1>8, <1>9, <1>10, <1>11, <1>12, SendKeepsWhole

(* A step that leaves the channel and the receiver alone and starts or     *)
(* ends a call of the MAC.                                                 *)
LEMMA CallKeepsWhole ==
  ASSUME WholeInv, UNCHANGED <<umRxVars, channel, TX_Next, next_so, tx_sdu, tx_sdu_queue,
                               written, discarded>>,
         mac_grant' # 0 => /\ \A i \in DOMAIN channel : Cut(channel[i]) =>
                                age(channel[i].sn) < UM_Window_Size
                           /\ is_new => age(RX_Next_Highest) < UM_Window_Size
  PROVE  WholeInv'
<1>1. UNCHANGED <<RX_Next_Highest, rx_window, handed>>
  BY DEF umRxVars
<1>2. BearerTypes'
  BY <1>1 DEF WholeInv, BearerTypes, GoodPdu, GoodEntry
<1>3. QueueOK'
  BY <1>1 DEF WholeInv, QueueOK, Unsent, InEntry, Live
<1>4. NumbersOK'
  BY <1>1 DEF WholeInv, NumbersOK, Numbered, InEntry, Cut
<1>5. HeadsOK'
  BY <1>1 DEF WholeInv, HeadsOK, HeadIn
<1>6. AgesOK'
  <2>1. \A i \in DOMAIN channel : Cut(channel[i]) =>
          /\ age(channel[i].sn) <= UM_Window_Size
          /\ is_new => age(channel[i].sn) # 0
          /\ ~is_new \/ mac_grant' # 0 => age(channel[i].sn) < UM_Window_Size
    BY DEF WholeInv, AgesOK
  <2>2. /\ is_new => age(RX_Next_Highest) <= UM_Window_Size
        /\ is_new /\ mac_grant' # 0 => age(RX_Next_Highest) < UM_Window_Size
        /\ ~is_new => age(RX_Next_Highest) < UM_Window_Size \/ age(RX_Next_Highest) = mod - 1
        /\ \A h \in held(rx_window) : base(RX_Next_Highest, h) < UM_Window_Size
    BY DEF WholeInv, AgesOK
  <2> QED BY <1>1, <2>1, <2>2 DEF AgesOK, age, is_new, held, base, Cut
<1> QED BY <1>2, <1>3, <1>4, <1>5, <1>6 DEF WholeInv

(* The queue changes, and the SDUs that are live with it.                  *)
LEMMA QueueKeepsWhole ==
  ASSUME WholeInv, UNCHANGED <<umRxVars, channel, TX_Next, next_so, tx_sdu, mac_grant>>,
         written' \subseteq Sdus, discarded' \subseteq written', QueueOK'
  PROVE  WholeInv'
<1>1. UNCHANGED <<RX_Next_Highest, rx_window, handed>>
  BY DEF umRxVars
<1>2. BearerTypes'
  BY <1>1 DEF WholeInv, BearerTypes, GoodPdu, GoodEntry
<1>3. NumbersOK'
  BY <1>1 DEF WholeInv, NumbersOK, Numbered, InEntry, Cut
<1>4. HeadsOK'
  BY <1>1 DEF WholeInv, HeadsOK, HeadIn
<1>5. AgesOK'
  BY <1>1 DEF WholeInv, AgesOK, age, is_new, held, base, Cut
<1> QED BY <1>2, <1>3, <1>4, <1>5 DEF WholeInv

(* write_sdu()                                                             *)
LEMMA WriteWhole ==
  ASSUME WholeInv, UmInv, NEW sdu \in Sdus, Write(sdu)
  PROVE  /\ WholeInv' /\ sdu \notin written
         /\ written' = written \cup {sdu} /\ UNCHANGED <<handed, discarded>>
<1>1. /\ tx_sdu_queue' = Append(tx_sdu_queue, sdu) /\ written' = written \cup {sdu}
      /\ UNCHANGED <<umRxVars, channel, TX_Next, next_so, tx_sdu, mac_grant, discarded, handed>>
      /\ written # Sdus /\ sdu = Min(Sdus \ written)
  BY DEF Write, write_sdu, Tx, umRxVars
<1>2. written \subseteq Sdus /\ discarded \subseteq written
  BY DEF WholeInv, BearerTypes
<1>3. sdu \notin written
  <2> DEFINE S == Sdus \ written
  <2>1. S \in SUBSET Nat /\ S # {}
    BY <1>1, <1>2, UmAssumption
  <2>2. sdu = Min(S)
    BY <1>1
  <2> HIDE DEF S
  <2>3. sdu \in S
    BY <2>1, <2>2, LeastOf
  <2> QED BY <2>3 DEF S
<1>4. Live' = Live \cup {sdu} /\ sdu \notin Live
  BY <1>1, <1>2, <1>3 DEF Live
<1>5. tx_sdu_queue \in Seq(Sdus \cup {None}) /\ sdu \in Sdus \cup {None}
  BY DEF UmInv, TxInv
<1>6. PICK n \in DOMAIN tx_sdu_queue' :
        /\ n \notin DOMAIN tx_sdu_queue /\ tx_sdu_queue'[n] = sdu
        /\ DOMAIN tx_sdu_queue' = DOMAIN tx_sdu_queue \cup {n}
        /\ \A k \in DOMAIN tx_sdu_queue : tx_sdu_queue'[k] = tx_sdu_queue[k]
  BY <1>1, <1>5, Appended
<1>7. Unsent(sdu)
  BY <1>4 DEF WholeInv, QueueOK
<1>8. \A k \in DOMAIN tx_sdu_queue : tx_sdu_queue[k] # None =>
        /\ tx_sdu_queue[k] \in Live /\ Unsent(tx_sdu_queue[k])
        /\ \A j \in DOMAIN tx_sdu_queue : tx_sdu_queue[j] = tx_sdu_queue[k] => j = k
  BY DEF WholeInv, QueueOK
<1>9. \A k \in DOMAIN tx_sdu_queue' : tx_sdu_queue'[k] # None =>
        /\ tx_sdu_queue'[k] \in Live' /\ Unsent(tx_sdu_queue'[k])
        /\ \A j \in DOMAIN tx_sdu_queue' : tx_sdu_queue'[j] = tx_sdu_queue'[k] => j = k
  BY <1>4, <1>6, <1>7, <1>8, NoSdus
<1>10. \A s \in Sdus \ Live' : Unsent(s)
  BY <1>4 DEF WholeInv, QueueOK
<1>11. QueueOK'
  <2>1. UNCHANGED <<handed, rx_window, tx_sdu, channel>>
    BY <1>1 DEF umRxVars
  <2> HIDE DEF Live
  <2> QED BY <1>9, <1>10, <2>1 DEF QueueOK, Unsent, InEntry
<1> QED BY <1>1, <1>2, <1>3, <1>11, QueueKeepsWhole

(* discard_sdu()                                                           *)
LEMMA DiscardWhole ==
  ASSUME WholeInv, UmInv, NEW sdu \in Sdus, Discard(sdu)
  PROVE  /\ WholeInv' /\ sdu \in Live /\ handed[sdu] = 0
         /\ discarded' = discarded \cup {sdu} /\ UNCHANGED <<handed, written>>
<1>1. /\ sdu \in Elems(tx_sdu_queue) /\ discarded' = discarded \cup {sdu}
      /\ tx_sdu_queue' = [i \in DOMAIN tx_sdu_queue |->
                            IF tx_sdu_queue[i] = sdu THEN None ELSE tx_sdu_queue[i]]
      /\ UNCHANGED <<umRxVars, channel, TX_Next, next_so, tx_sdu, mac_grant, written, handed>>
  BY DEF Discard, discard_sdu, Tx, umRxVars
<1>2. written \subseteq Sdus /\ discarded \subseteq written
  BY DEF WholeInv, BearerTypes
<1>3. \A k \in DOMAIN tx_sdu_queue : tx_sdu_queue[k] # None =>
        /\ tx_sdu_queue[k] \in Live /\ Unsent(tx_sdu_queue[k])
        /\ \A j \in DOMAIN tx_sdu_queue : tx_sdu_queue[j] = tx_sdu_queue[k] => j = k
  BY DEF WholeInv, QueueOK
<1>4. sdu \in Live /\ Unsent(sdu)
  BY <1>1, <1>3, NoSdus DEF Elems
<1>5. Live' = Live \ {sdu}
  BY <1>1 DEF Live
<1>6. \A k \in DOMAIN tx_sdu_queue' : tx_sdu_queue'[k] # None =>
        /\ tx_sdu_queue'[k] \in Live' /\ Unsent(tx_sdu_queue'[k])
        /\ \A j \in DOMAIN tx_sdu_queue' : tx_sdu_queue'[j] = tx_sdu_queue'[k] => j = k
  <2>1. /\ DOMAIN tx_sdu_queue' = DOMAIN tx_sdu_queue
        /\ \A k \in DOMAIN tx_sdu_queue : tx_sdu_queue'[k] # None =>
             tx_sdu_queue'[k] = tx_sdu_queue[k] /\ tx_sdu_queue[k] # sdu /\ tx_sdu_queue[k] # None
    BY <1>1
  <2> QED BY <1>3, <1>5, <2>1
<1>7. \A s \in Sdus \ Live' : Unsent(s)
  BY <1>4, <1>5 DEF WholeInv, QueueOK
<1>8. QueueOK'
  <2>1. UNCHANGED <<handed, rx_window, tx_sdu, channel>>
    BY <1>1 DEF umRxVars
  <2> HIDE DEF Live
  <2> QED BY <1>6, <1>7, <2>1 DEF QueueOK, Unsent, InEntry
<1>9. discarded' \subseteq written' /\ written' \subseteq Sdus /\ handed[sdu] = 0
  BY <1>1, <1>2, <1>4 DEF Live, Unsent
<1> QED BY <1>1, <1>4, <1>8, <1>9, QueueKeepsWhole

(* The MAC asks for a PDU, and the call waits or returns.                  *)
LEMMA OpportunityWhole ==
  ASSUME WholeInv, NEW n \in Grants, Opportunity(n)
  PROVE  (sns_apart' => WholeInv') /\ UNCHANGED <<handed, written, discarded>>
<1>1. /\ sns_apart' => apart
      /\ UNCHANGED <<umRxVars, channel, TX_Next, next_so, tx_sdu, tx_sdu_queue, written,
                     discarded, handed>>
  BY DEF Opportunity, mac_opportunity, Tx, umRxVars
<1>2. ASSUME sns_apart'
      PROVE  /\ \A i \in DOMAIN channel : Cut(channel[i]) => age(channel[i].sn) < UM_Window_Size
             /\ is_new => age(RX_Next_Highest) < UM_Window_Size
  BY <1>1, <1>2 DEF apart, Elems, age, Cut
<1> QED BY <1>1, <1>2, CallKeepsWhole

(* build_data_pdu() waits.                                                 *)
LEMMA BlocksWhole ==
  ASSUME WholeInv, Blocks
  PROVE  WholeInv' /\ UNCHANGED <<handed, written, discarded>>
<1>1. /\ is_new /\ mac_grant # 0 /\ mac_grant' = mac_grant
      /\ UNCHANGED <<umRxVars, channel, TX_Next, next_so, tx_sdu, tx_sdu_queue, written,
                     discarded, handed>>
  BY DEF Blocks, build_blocks, Tx, umRxVars
<1>2. /\ \A i \in DOMAIN channel : Cut(channel[i]) => age(channel[i].sn) < UM_Window_Size
      /\ age(RX_Next_Highest) < UM_Window_Size
  BY <1>1 DEF WholeInv, AgesOK
<1> QED BY <1>1, <1>2, CallKeepsWhole

(* build_data_pdu() returns.                                               *)
LEMMA BuildWhole ==
  ASSUME WholeInv, UmInv, ShortSn, Build
  PROVE  WholeInv' /\ UNCHANGED <<handed, written, discarded>>
<1>1. UNCHANGED <<umRxVars, handed, written, discarded>>
  BY DEF Build, Tx, umRxVars, build_nothing, build_too_small, build_pdu
<1>2. CASE build_nothing
  <2>1. /\ mac_grant' = 0 /\ tx_sdu_queue' = <<>> /\ is_new
        /\ UNCHANGED <<TX_Next, next_so, tx_sdu, written, discarded, channel>>
    BY <1>2 DEF build_nothing, build_returns
  <2>2. UNCHANGED <<RX_Next_Highest, rx_window>>
    BY <1>1 DEF umRxVars
  <2>3. BearerTypes'
    BY <1>1, <2>1, <2>2 DEF WholeInv, BearerTypes, GoodPdu, GoodEntry
  <2>4. QueueOK'
    <3>1. DOMAIN tx_sdu_queue' = {}
      BY <2>1
    <3> QED BY <1>1, <2>1, <2>2, <3>1 DEF WholeInv, QueueOK, Unsent, InEntry, Live
  <2>5. NumbersOK'
    BY <1>1, <2>1, <2>2 DEF WholeInv, NumbersOK, Numbered, InEntry, Cut
  <2>6. HeadsOK'
    BY <1>1, <2>1, <2>2 DEF WholeInv, HeadsOK, HeadIn
  <2>7. AgesOK'
    BY <1>1, <2>1, <2>2 DEF WholeInv, AgesOK, age, is_new, held, base, Cut
  <2> QED BY <1>1, <2>3, <2>4, <2>5, <2>6, <2>7 DEF WholeInv
<1>3. CASE build_too_small
  <2>1. /\ mac_grant # 0 /\ mac_grant' = 0 /\ too_small(mac_grant)
        /\ ~(is_new /\ only_null(tx_sdu_queue))
        /\ tx_sdu' = current /\ tx_sdu_queue' = queue_after /\ next_so' = so_of_next
        /\ UNCHANGED <<TX_Next, written, discarded, channel>>
    BY <1>3 DEF build_too_small, build_returns
  <2>2. ~is_new
    BY <2>1, NewPdu
  <2>3. UNCHANGED <<next_so, tx_sdu, tx_sdu_queue>>
    BY <2>1, <2>2 DEF current, queue_after, so_of_next
  <2> QED BY <1>1, <2>1, <2>3, CallKeepsWhole
<1>4. CASE build_pdu
  <2>1. CASE is_new
    BY <1>1, <1>4, <2>1, SendNew
  <2>2. CASE ~is_new
    BY <1>1, <1>4, <2>2, SendNext
  <2> QED BY <1>1, <2>1, <2>2
<1> QED BY <1>2, <1>3, <1>4 DEF Build

(* The state of the two ends when the bearer is new.                       *)
Fresh ==
  /\ written \subseteq Sdus /\ discarded \subseteq written /\ channel = <<>>
  /\ handed \in [Sdus \cup {Corrupt} -> {0, 1}] /\ handed[Corrupt] = 0
  /\ \A s \in Sdus \ Live : handed[s] = 0
  /\ tx_sdu = NoSdu /\ tx_sdu_queue = <<>> /\ rx_window = [sn \in SNs |-> NoSegments]
  /\ TX_Next \in SNs /\ RX_Next_Highest = TX_Next

LEMMA FreshWhole == Fresh => WholeInv
<1> SUFFICES ASSUME Fresh PROVE WholeInv
  OBVIOUS
<1>1. /\ NoSegments \in Entry /\ GoodEntry(NoSegments)
      /\ \A t \in Sdus : ~InEntry(NoSegments, t) /\ ~HeadIn(NoSegments, t)
  BY NoSdus, Constants DEF NoSegments, Entry, GoodEntry, InEntry, HeadIn, None
<1>2. held(rx_window) = {} /\ DOMAIN channel = {} /\ DOMAIN tx_sdu_queue = {} /\ channel \in Seq(UmPdu)
  BY EmptyWindow DEF Fresh
<1>3. BearerTypes
  BY <1>1, <1>2 DEF BearerTypes, Fresh
<1>4. QueueOK
  BY <1>1, <1>2, NoSdus DEF QueueOK, Unsent, NoSdu, Fresh
<1>5. NumbersOK
  BY <1>1, <1>2 DEF NumbersOK, Numbered, Fresh
<1>6. HeadsOK
  BY <1>1, <1>2 DEF HeadsOK, Fresh
<1>7. age(RX_Next_Highest) = 0
  <2>1. age(TX_Next) = IF TX_Next >= TX_Next THEN TX_Next - TX_Next ELSE TX_Next - TX_Next + mod
    BY AgeNext DEF Fresh
  <2> QED BY <2>1, Constants DEF Fresh
<1>8. AgesOK
  BY <1>2, <1>7, Constants DEF AgesOK, is_new, Fresh
<1> QED BY <1>3, <1>4, <1>5, <1>6, <1>8 DEF WholeInv

(* reestablish() of both ends.                                             *)
LEMMA ReestablishWhole ==
  ASSUME WholeInv, Reestablish
  PROVE  WholeInv' /\ UNCHANGED <<handed, written, discarded>>
<1>1. /\ TX_Next' = 0 /\ tx_sdu' = NoSdu /\ tx_sdu_queue' = <<>> /\ channel' = <<>>
      /\ RX_Next_Highest' = 0 /\ rx_window' = [sn \in SNs |-> NoSegments]
      /\ UNCHANGED <<handed, written, discarded>>
  BY DEF Reestablish, tx_stop, rx_reestablish
<1>2. /\ written \subseteq Sdus /\ discarded \subseteq written
      /\ handed \in [Sdus \cup {Corrupt} -> {0, 1}] /\ handed[Corrupt] = 0
      /\ \A s \in Sdus \ Live : handed[s] = 0
  BY DEF WholeInv, BearerTypes, QueueOK, Unsent
<1>3. Fresh'
  BY <1>1, <1>2, Constants DEF Fresh, Live
<1>4. WholeInv'
  BY <1>3, FreshWhole, PTL
<1> QED BY <1>1, <1>4

(* The invariant holds at the start.                                       *)
LEMMA WholeInit == Init => WholeInv
<1> SUFFICES ASSUME Init PROVE WholeInv
  OBVIOUS
<1>1. Fresh
  BY Constants DEF Init, Fresh, Live
<1> QED BY <1>1, FreshWhole

(* What a step does to the SDUs that have been written, discarded and      *)
(* handed over.                                                            *)
BearerStep ==
  \/ UNCHANGED <<handed, written, discarded>>
  \/ \E sdu \in Sdus \ written : written' = written \cup {sdu} /\ UNCHANGED <<handed, discarded>>
  \/ \E sdu \in Live : /\ handed[sdu] = 0 /\ discarded' = discarded \cup {sdu}
                       /\ UNCHANGED <<handed, written>>
  \/ \E sdu \in Live : /\ handed[sdu] = 0 /\ handed' = [handed EXCEPT ![sdu] = @ + 1]
                       /\ UNCHANGED <<written, discarded>>

(* Every step that uses no SN again too early keeps the invariant.         *)
LEMMA WholeNext ==
  ASSUME ShortSn, WholeInv, UmInv, [Next]_vars
  PROVE  (sns_apart' => WholeInv') /\ BearerStep
<1>1. ASSUME NEW sdu \in Sdus, Write(sdu) PROVE WholeInv' /\ BearerStep
  BY <1>1, WriteWhole DEF BearerStep
<1>2. ASSUME NEW sdu \in Sdus, Discard(sdu) PROVE WholeInv' /\ BearerStep
  BY <1>2, DiscardWhole DEF BearerStep
<1>3. ASSUME NEW n \in Grants, Opportunity(n) PROVE (sns_apart' => WholeInv') /\ BearerStep
  BY <1>3, OpportunityWhole DEF BearerStep
<1>4. CASE Build
  BY <1>4, BuildWhole DEF BearerStep
<1>5. CASE Blocks
  BY <1>5, BlocksWhole DEF BearerStep
<1>6. ASSUME NEW i \in DOMAIN channel, Receive(i) PROVE WholeInv' /\ BearerStep
  <2>1. WholeInv' /\ HandsOver /\ UNCHANGED <<written, discarded>>
    BY <1>6, ReceiveWhole
  <2> QED BY <2>1 DEF BearerStep, HandsOver
<1>7. ASSUME NEW i \in DOMAIN channel, Lose(i) PROVE WholeInv' /\ BearerStep
  BY <1>7, LoseWhole DEF BearerStep
<1>8. CASE Expire
  BY <1>8, ExpireWhole DEF BearerStep
<1>9. CASE Reestablish
  BY <1>9, ReestablishWhole DEF BearerStep
<1>10. CASE UNCHANGED vars
  <2>1. /\ UNCHANGED <<umRxVars, channel, TX_Next, next_so, tx_sdu, tx_sdu_queue, written,
                       discarded, handed>>
        /\ mac_grant' = mac_grant
    BY <1>10 DEF vars, umTxVars, umRxVars
  <2>2. mac_grant' # 0 => /\ \A i \in DOMAIN channel : Cut(channel[i]) =>
                               age(channel[i].sn) < UM_Window_Size
                          /\ is_new => age(RX_Next_Highest) < UM_Window_Size
    BY <2>1 DEF WholeInv, AgesOK
  <2>3. WholeInv'
    BY <2>1, <2>2, CallKeepsWhole
  <2> QED BY <2>1, <2>3 DEF BearerStep
<1> QED BY <1>1, <1>2, <1>3, <1>4, <1>5, <1>6, <1>7, <1>8, <1>9, <1>10 DEF Next

(* What was used too early stays so.                                       *)
LEMMA ApartBefore == [Next]_vars /\ sns_apart' => sns_apart
BY DEF Next, vars, Write, Discard, Opportunity, Build, Blocks, Receive, Lose, Channel, Expire,
       Reestablish

(* The invariant of what is sent and received, until then.                 *)
ApartInv == sns_apart => WholeInv

LEMMA ApartNext ==
  ASSUME ShortSn, ApartInv, UmInv, [Next]_vars
  PROVE  UmInv' /\ ApartInv' /\ (sns_apart => BearerStep)
<1>1. UmInv'
  BY UmNext
<1>2. sns_apart => (sns_apart' => WholeInv') /\ BearerStep
  BY WholeNext DEF ApartInv
<1> QED BY <1>1, <1>2, ApartBefore DEF ApartInv

(* The invariant says that what is delivered is whole, and once.           *)
LEMMA WholeDelivered == ApartInv => DeliveredWhole
<1> SUFFICES ASSUME WholeInv PROVE DeliveredWhole
  BY DEF ApartInv, DeliveredWhole
<1>1. handed[Corrupt] = 0 /\ \A s \in Sdus : handed[s] \in {0, 1}
  BY DEF WholeInv, BearerTypes
<1>2. \A s \in Sdus \ Live : handed[s] = 0
  BY DEF WholeInv, QueueOK, Unsent
<1> QED BY <1>1, <1>2 DEF DeliveredWhole, Live

(* The initial state is one of the abstract bearer.                        *)
LEMMA PromisedInit == Init => Promised!BearerInit
BY DEF Init, Promised!BearerInit

(* So is every step.                                                      *)
LEMMA PromisedStep ==
  ASSUME WholeInv, BearerStep
  PROVE  Promised!BearerNext \/ UNCHANGED <<handed, written, discarded>>
<1> DEFINE h == [sdu \in Sdus |-> handed[sdu]]
<1>1. /\ \A s \in Sdus : handed[s] \in {0, 1}
      /\ written \subseteq Sdus /\ handed \in [Sdus \cup {Corrupt} -> {0, 1}]
  BY DEF WholeInv, BearerTypes
<1>2. \A s \in Live : s \in Sdus /\ (handed[s] = 0 => s \in Promised!Pending)
  BY <1>1 DEF Live, Promised!Pending, Promised!GivenToPeer
<1>3. CASE UNCHANGED <<handed, written, discarded>>
  BY <1>3
<1>4. ASSUME NEW sdu \in Sdus \ written, written' = written \cup {sdu}, UNCHANGED <<handed, discarded>>
      PROVE  Promised!BearerNext
  BY <1>4 DEF Promised!BearerNext, Promised!Take
<1>5. ASSUME NEW sdu \in Live, handed[sdu] = 0, discarded' = discarded \cup {sdu},
             UNCHANGED <<handed, written>>
      PROVE  Promised!BearerNext
  <2>1. Promised!GiveUp(sdu)
    BY <1>2, <1>5 DEF Promised!GiveUp
  <2> QED BY <1>2, <2>1 DEF Promised!BearerNext
<1>6. ASSUME NEW sdu \in Live, handed[sdu] = 0, handed' = [handed EXCEPT ![sdu] = @ + 1],
             UNCHANGED <<written, discarded>>
      PROVE  Promised!BearerNext
  <2>1. h' = [h EXCEPT ![sdu] = @ + 1]
    BY <1>1, <1>2, <1>6
  <2>2. Promised!HandOver(sdu)
    BY <1>2, <1>6, <2>1 DEF Promised!HandOver
  <2> QED BY <1>2, <2>2 DEF Promised!BearerNext
<1> QED BY <1>3, <1>4, <1>5, <1>6 DEF BearerStep

(* With the 6-bit SN that configure() gives a segment its header length    *)
(* for, rlc_um_nr delivers no SDU that was discarded, none twice, and none *)
(* that is not all of what was written, whatever the MAC loses and         *)
(* reorders and however often the SNs wrap, until it is asked for a PDU    *)
(* while half the SN space is unheard of or a segment as old is in flight. *)
THEOREM WholeAndOnce == ShortSn /\ Spec => []DeliveredWhole
<1> SUFFICES ASSUME ShortSn PROVE Spec => []DeliveredWhole
  OBVIOUS
<1>1. UmInv /\ ApartInv /\ [Next]_vars => UmInv' /\ ApartInv'
  BY ApartNext
<1>2. Init => UmInv /\ ApartInv
  BY UmInit, WholeInit DEF ApartInv
<1> QED BY <1>1, <1>2, WholeDelivered, PTL DEF Spec

(* Until then every step is one of the abstract bearer (Bearer), without   *)
(* its acknowledgements; and when the MAC never lets it come to that, the  *)
(* two ends of rlc_um_nr implement the bearer that the PDCP is built on.   *)
THEOREM BearerImplemented ==
  ShortSn /\ Spec => ImplementsBearer /\ ([]sns_apart => Promised!BearerSpec)
<1> SUFFICES ASSUME ShortSn PROVE Spec => ImplementsBearer /\ ([]sns_apart => Promised!BearerSpec)
  OBVIOUS
<1>1. UmInv /\ ApartInv /\ [Next]_vars =>
        /\ UmInv' /\ ApartInv'
        /\ [sns_apart => Promised!BearerNext]_<<written, discarded, handed>>
        /\ sns_apart => [Promised!BearerNext]_Promised!bearerVars
  <2> SUFFICES ASSUME UmInv, ApartInv, [Next]_vars
               PROVE  /\ UmInv' /\ ApartInv'
                      /\ [sns_apart => Promised!BearerNext]_<<written, discarded, handed>>
                      /\ sns_apart => [Promised!BearerNext]_Promised!bearerVars
    OBVIOUS
  <2>1. UmInv' /\ ApartInv' /\ (sns_apart => BearerStep)
    BY ApartNext
  <2>2. sns_apart => Promised!BearerNext \/ UNCHANGED <<handed, written, discarded>>
    BY <2>1, PromisedStep DEF ApartInv
  <2>3. UNCHANGED <<handed, written, discarded>> => UNCHANGED Promised!bearerVars
    BY DEF Promised!bearerVars
  <2> QED BY <2>1, <2>2, <2>3
<1>2. Init => UmInv /\ ApartInv
  BY UmInit, WholeInit DEF ApartInv
<1>3. Init => Promised!BearerInit
  BY PromisedInit
<1> QED BY <1>1, <1>2, <1>3, PTL DEF Spec, ImplementsBearer, Promised!BearerSpec

-----------------------------------------------------------------------------
(* What is not dropped                                                     *)

(* The SDUs nobody has given up, and those on their way under a number.    *)
Kept == Live \ affected

Sending(sn, t) ==
  \/ \E i \in DOMAIN channel : Cut(channel[i]) /\ channel[i].sn = sn /\ channel[i].sdu = t
  \/ tx_sdu # NoSdu /\ sn = TX_Next /\ tx_sdu.sdu = t

(* Only the last segment has the last byte.                                *)
CutShort ==
  \A i \in DOMAIN channel :
    channel[i].si \in {"first", "middle"} => channel[i].so + channel[i].len < N_bytes

(* RX_Next_Reassembly, and RX_Timer_Trigger while it matters, are not      *)
(* beyond RX_Next_Highest, nor there while the newest SDU waits.           *)
LowerEdge ==
  /\ base(RX_Next_Highest, RX_Next_Reassembly) <= UM_Window_Size
  /\ reassembly_timer => base(RX_Next_Highest, RX_Timer_Trigger) <= UM_Window_Size
  /\ \A h \in held(rx_window) :
       base(RX_Next_Highest, h) = UM_Window_Size - 1 => RX_Next_Reassembly # RX_Next_Highest

(* The PDUs in flight are of the newest SDU received from or of later ones,*)
(* in the order of their numbers.                                          *)
PdusInOrder ==
  \A i \in DOMAIN channel : Cut(channel[i]) =>
    /\ base(RX_Next_Highest, channel[i].sn) >= UM_Window_Size - 1
    /\ \A j \in DOMAIN channel :
         i < j /\ Cut(channel[j]) => age(channel[i].sn) >= age(channel[j].sn)

(* What is held of an SDU is joined, it is the newest, and more is to come;*)
(* an SDU of which nothing is held is newer.                               *)
NewestHeld ==
  \A sn \in SNs, t \in Kept :
    /\ InEntry(rx_window[sn], t) =>
         /\ rx_window[sn].segments = {} /\ rx_window[sn].total_sdu_length = 0
         /\ base(RX_Next_Highest, sn) = UM_Window_Size - 1
         /\ Sending(sn, t)
    /\ ~InEntry(rx_window[sn], t) /\ Sending(sn, t) => base(RX_Next_Highest, sn) >= UM_Window_Size

(* The PDUs of an SDU in flight follow on what is held of it and on one    *)
(* another, without a gap up to what is left to send.                      *)
PdusOf(t) == {i \in DOMAIN channel : Cut(channel[i]) /\ channel[i].sdu = t}
end(p)    == p.so + p.len
Tiles(t) ==
  /\ \A i \in PdusOf(t) :
       /\ \/ channel[i].so = rx_window[channel[i].sn].next_expected_so
          \/ \E j \in PdusOf(t) : end(channel[j]) = channel[i].so
       /\ \A j \in PdusOf(t) : i < j => end(channel[i]) <= channel[j].so
       /\ \/ end(channel[i]) = N_bytes
          \/ \E j \in PdusOf(t) : channel[j].so = end(channel[i])
          \/ tx_sdu.sdu = t /\ next_so = end(channel[i])
  /\ tx_sdu.sdu = t =>
       /\ \/ next_so = rx_window[TX_Next].next_expected_so
          \/ \E i \in PdusOf(t) : end(channel[i]) = next_so
       /\ \A i \in PdusOf(t) : end(channel[i]) <= next_so

(* While no PDU has overtaken another.                                     *)
InOrderInv == PdusInOrder /\ NewestHeld /\ \A t \in Kept : Tiles(t)

NoneMissing == in_order => Kept \subseteq Somewhere

KeptInv == CutShort /\ LowerEdge /\ (in_order => InOrderInv) /\ NoneMissing

(* One segment that continues what is joined is joined to it.              *)
LEMMA JoinedOne ==
  ASSUME NEW w, GoodEntry(w), NEW g \in Segment, w.segments = {g}, g.so = w.next_expected_so,
         w.sdu = None \/ w.sdu = g.sdu
  PROVE  joined(w) =
           [pdu |-> [segments |-> {}, sdu |-> g.sdu, next_expected_so |-> g.so + g.len,
                     total_sdu_length |-> w.total_sdu_length],
            complete |-> g.so # 0 /\ g.so + g.len = w.total_sdu_length]
<1> DEFINE n == N_bytes + 1
           start == [pdu |-> w, complete |-> FALSE]
           entry == [segments |-> {}, sdu |-> g.sdu, next_expected_so |-> g.so + g.len,
                     total_sdu_length |-> w.total_sdu_length]
           done  == g.so # 0 /\ g.so + g.len = w.total_sdu_length
           end1  == [pdu |-> entry, complete |-> done]
<1>1. /\ n \in Nat /\ N_bytes \in Nat /\ w \in Entry
      /\ g.so \in 0..N_bytes /\ g.so + g.len # g.so
  BY Constants DEF GoodEntry, Segment
<1>2. ASSUME NEW so \in 0..N_bytes
      PROVE  join_one(start, so) = IF so = g.so THEN end1 ELSE start
  <2> DEFINE seg == CHOOSE s \in w.segments : s.so = so
             new == [w EXCEPT !.segments = @ \ {seg}, !.next_expected_so = so + seg.len,
                              !.sdu = IF so = 0 \/ @ = seg.sdu THEN seg.sdu ELSE Corrupt]
  <2>1. CASE so # g.so
    BY <2>1 DEF join_one
  <2>2. CASE so = g.so
    <3>1. seg = g
      BY <2>2
    <3>2. join_one(start, so) = [pdu |-> new, complete |-> so # 0 /\ so + seg.len = w.total_sdu_length]
      BY <2>2 DEF join_one
    <3> HIDE DEF seg
    <3>3. (IF so = 0 \/ w.sdu = seg.sdu THEN seg.sdu ELSE Corrupt) = g.sdu
      <4>1. so = 0 \/ w.sdu = g.sdu
        BY <2>2 DEF GoodEntry
      <4> QED BY <3>1, <4>1
    <3>4. new = entry
      <4> DEFINE v  == IF so = 0 \/ w.sdu = seg.sdu THEN seg.sdu ELSE Corrupt
                 gs == w.segments \ {seg}
                 x  == so + seg.len
      <4>1. new = [w EXCEPT !.segments = gs, !.next_expected_so = x, !.sdu = v]
        OBVIOUS
      <4>2. gs = {} /\ x = g.so + g.len /\ v = g.sdu
        BY <2>2, <3>1, <3>3
      <4> HIDE DEF v, gs, x, new
      <4>3. new = [segments |-> gs, sdu |-> v, next_expected_so |-> x,
                   total_sdu_length |-> w.total_sdu_length]
        BY <1>1, <4>1 DEF Entry
      <4> QED BY <4>2, <4>3
    <3> HIDE DEF new, entry
    <3> QED BY <2>2, <3>1, <3>2, <3>4
  <2> QED BY <2>1, <2>2
<1>3. ASSUME NEW so \in 0..N_bytes PROVE join_one(end1, so) = end1
  <2>1. end1.pdu.segments = {}
    OBVIOUS
  <2> HIDE DEF end1
  <2>2. ~\E s \in end1.pdu.segments : s.so = so
    BY <2>1
  <2> QED BY <2>2 DEF join_one
<1> DEFINE T == {start, end1}
<1>4. PICK h : /\ joined(w) = h[N_bytes] /\ h[-1] = start
               /\ \A so \in 0..N_bytes : h[so] = join_one(h[so - 1], so)
  <2>1. start \in T /\ \A acc \in T, so \in 0..N_bytes : join_one(acc, so) \in T
    <3> HIDE DEF start, end1
    <3> QED BY <1>2, <1>3
  <2> HIDE DEF T
  <2> QED BY <2>1, JoinLoop
<1> HIDE DEF start, end1
<1> DEFINE In == {k \in 0..n : h[k - 1] = IF k - 1 < g.so THEN start ELSE end1}
<1>5. 0 \in In
  BY <1>1, <1>4
<1>6. ASSUME NEW k \in 1..n, k - 1 \in In PROVE k \in In
  <2>1. k - 1 \in 0..N_bytes /\ h[(k - 1) - 1] = IF (k - 1) - 1 < g.so THEN start ELSE end1
    BY <1>1, <1>6
  <2>2. h[k - 1] = join_one(h[(k - 1) - 1], k - 1)
    BY <1>4, <2>1
  <2>3. CASE k - 1 - 1 < g.so
    BY <1>1, <1>2, <2>1, <2>2, <2>3
  <2>4. CASE ~(k - 1 - 1 < g.so)
    <3>1. h[k - 1] = end1 /\ ~(k - 1 < g.so)
      BY <1>1, <1>3, <2>1, <2>2, <2>4
    <3> QED BY <3>1
  <2> QED BY <2>3, <2>4
<1> HIDE DEF In
<1>7. n \in In
  <2>1. \A k \in 1..n : k - 1 \in In => k \in In
    BY <1>6
  <2> HIDE DEF n
  <2> QED BY <1>1, <1>5, <2>1, UpTo
<1>8. h[N_bytes] = end1
  BY <1>1, <1>7 DEF In
<1> QED BY <1>4, <1>8 DEF end1

(* The lower edge after handle_rx_buffer_update() and after an expiry.     *)
LEMMA EdgeFollows ==
  ASSUME RxType, NEW nh \in SNs, NEW nr \in SNs, NEW w, NEW running \in BOOLEAN,
         running => base(nh, RX_Timer_Trigger) <= UM_Window_Size,
         base(nh, nr) <= UM_Window_Size,
         \A h \in held(w) : base(nh, h) = UM_Window_Size - 1 => nr # nh,
         RX_Next_Highest' = nh, RX_Next_Reassembly' = nr, rx_window' = w,
         update_reassembly_timer(nh, nr, w, running)
  PROVE  LowerEdge'
<1>1. base(nh, nh) = UM_Window_Size
  <2>1. nh \in 0..(2 * UM_Window_Size)
    BY Constants
  <2> QED BY <2>1, Base, Constants
<1>2. reassembly_timer' = (running \/ gap(nh, nr, w))
      /\ RX_Timer_Trigger' = IF ~running /\ gap(nh, nr, w) THEN nh ELSE RX_Timer_Trigger
  BY DEF update_reassembly_timer
<1>3. reassembly_timer' => base(nh, RX_Timer_Trigger') <= UM_Window_Size
  <2>1. UM_Window_Size <= UM_Window_Size
    BY Constants
  <2>2. CASE running
    BY <1>2, <2>2
  <2>3. CASE ~running
    <3> SUFFICES ASSUME reassembly_timer' PROVE base(nh, RX_Timer_Trigger') <= UM_Window_Size
      OBVIOUS
    <3>1. RX_Timer_Trigger' = nh
      BY <1>2, <2>3
    <3> QED BY <1>1, <2>1, <3>1
  <2> QED BY <2>2, <2>3
<1>4. LowerEdge' =
        (/\ base(RX_Next_Highest', RX_Next_Reassembly') <= UM_Window_Size
         /\ reassembly_timer' => base(RX_Next_Highest', RX_Timer_Trigger') <= UM_Window_Size
         /\ \A h \in held(rx_window') :
              base(RX_Next_Highest', h) = UM_Window_Size - 1
                => RX_Next_Reassembly' # RX_Next_Highest')
  BY DEF LowerEdge, held, base
<1> QED BY <1>3, <1>4

(* t-Reassembly goes on only while its trigger is not beyond the window.   *)
LEMMA TriggerInWindow ==
  ASSUME RxType, NEW nh \in SNs, NEW nr, NEW w, ~timer_pointless(nh, nr, w)
  PROVE  base(nh, RX_Timer_Trigger) <= UM_Window_Size
<1>1. nh \in 0..(2 * UM_Window_Size) /\ RX_Timer_Trigger \in SNs
  BY Constants DEF RxType
<1>2. base(nh, nh) = UM_Window_Size /\ base(nh, RX_Timer_Trigger) \in SNs
  <2>1. base(nh, nh) = UM_Window_Size
    BY <1>1, Base, Constants
  <2> QED BY <1>1, <2>1, Places
<1>3. base(nh, RX_Timer_Trigger) < UM_Window_Size \/ RX_Timer_Trigger = nh
  BY DEF timer_pointless, sn_in_reassembly_window
<1> QED BY <1>2, <1>3, Constants

LEMMA EdgeUpdated ==
  ASSUME RxType, NEW nh \in SNs, NEW nr \in SNs, NEW w, buffer_updated(nh, nr, w),
         base(nh, nr) <= UM_Window_Size,
         \A h \in held(w) : base(nh, h) = UM_Window_Size - 1 => nr # nh
  PROVE  LowerEdge'
<1> DEFINE running == reassembly_timer /\ ~timer_pointless(nh, nr, w)
<1>1. running \in BOOLEAN /\ (running => base(nh, RX_Timer_Trigger) <= UM_Window_Size)
  BY TriggerInWindow
<1>2. /\ RX_Next_Highest' = nh /\ RX_Next_Reassembly' = nr /\ rx_window' = w
      /\ update_reassembly_timer(nh, nr, w, running)
  BY DEF buffer_updated
<1> HIDE DEF running
<1> QED BY <1>1, <1>2, EdgeFollows

(* handle_data_pdu() gives the entry a segment, and the loop takes it or   *)
(* leaves it there.                                                        *)
LEMMA SegmentStored ==
  ASSUME WholeInv, UmInv, NEW i \in DOMAIN channel, NEW so, handle_segment(channel[i], so),
         NEW j, j = joined(place(channel[i], segment(channel[i], so)))
  PROVE  /\ Cut(channel[i]) /\ so \in so_read(channel[i]) /\ so = channel[i].so
         /\ base(RX_Next_Highest, RX_Next_Reassembly) <= base(RX_Next_Highest, channel[i].sn)
         /\ j.pdu \in Entry /\ j.complete \in BOOLEAN /\ j.pdu # NoSegments
<1> DEFINE p   == channel[i]
           seg == segment(p, so)
           e   == place(p, seg)
<1>1. Cut(p) /\ so \in so_read(p)
  BY DEF handle_segment, Cut
<1>2. GoodEntry(e) /\ \A t \in Sdus : InEntry(e, t) => t = p.sdu
  BY <1>1, Placed
<1>3. /\ p.sdu \in Sdus /\ p.sn \in SNs /\ p \in UmPdu /\ GoodPdu(p)
      /\ rx_window[p.sn] \in Entry
  BY ChannelPdu
<1>4. so = p.so
  BY <1>1, <1>3, SegmentRead
<1>5. base(RX_Next_Highest, RX_Next_Reassembly) <= base(RX_Next_Highest, p.sn)
  <2>1. ~(base(RX_Next_Highest, p.sn) < base(RX_Next_Highest, RX_Next_Reassembly))
    BY DEF handle_segment, sn_invalid_for_rx_buffer
  <2>2. RX_Next_Highest \in SNs /\ RX_Next_Reassembly \in SNs
    BY DEF UmInv, RxType
  <2>3. base(RX_Next_Highest, p.sn) \in SNs /\ base(RX_Next_Highest, RX_Next_Reassembly) \in SNs
    BY <1>3, <2>2, Places
  <2> QED BY <2>1, <2>3, Constants
<1>6. e.segments # {}
  <2> DEFINE old == rx_window[p.sn]
  <2>1. e = [old EXCEPT !.segments = IF \E s \in @ : s.so = seg.so THEN @ ELSE @ \cup {seg},
                        !.total_sdu_length = IF p.si = "last" THEN seg.so + seg.len ELSE @]
    BY DEF place
  <2> HIDE DEF old, seg, e
  <2>2. e.segments = IF \E s \in old.segments : s.so = seg.so THEN old.segments
                     ELSE old.segments \cup {seg}
    BY <1>3, <2>1 DEF Entry, old
  <2> QED BY <2>2
<1>7. j \in Joining(e)
  <2> HIDE DEF e, p
  <2> QED BY <1>2, <1>3, Joined DEF e, p
<1>8. j.pdu # NoSegments
  <2>1. j.pdu.sdu = None => j.pdu.segments = e.segments
    BY <1>7 DEF Joining
  <2> HIDE DEF e
  <2> QED BY <1>6, <2>1 DEF NoSegments
<1>9. j.pdu \in Entry /\ j.complete \in BOOLEAN
  BY <1>7 DEF Joining
<1> QED BY <1>1, <1>4, <1>5, <1>8, <1>9

(* A search of the map keeps the lower edge in or at the end of the window.*)
LEMMA SearchKeepsEdge ==
  ASSUME WholeInv, UmInv, LowerEdge, NEW w, held(w) \subseteq held(rx_window),
         NEW nr, nr \in {RX_Next_Reassembly, next_reassembly(w)}
  PROVE  /\ nr \in SNs /\ base(RX_Next_Highest, nr) <= UM_Window_Size
         /\ \A h \in held(w) :
              base(RX_Next_Highest, h) = UM_Window_Size - 1 => nr # RX_Next_Highest
<1> DEFINE nh == RX_Next_Highest
           later == {sn \in held(w) : base(nh, sn) > base(nh, RX_Next_Reassembly)}
<1>1. RxType /\ nh \in SNs /\ RX_Next_Reassembly \in SNs /\ nh \in 0..(2 * UM_Window_Size)
  BY Constants DEF UmInv, RxType
<1>2. base(nh, nh) = UM_Window_Size
  BY <1>1, Base, Constants
<1>3. nr \in SNs
  BY <1>1, SearchesEnd
<1>4. CASE nr = RX_Next_Reassembly
  BY <1>3, <1>4 DEF LowerEdge
<1>5. CASE nr = nh /\ held(w) = {}
  <2>1. UM_Window_Size <= UM_Window_Size
    BY Constants
  <2> QED BY <1>2, <1>3, <1>5, <2>1
<1>6. CASE held(w) # {} /\ later # {} /\ nr = Min(later)
  <2>1. later \in SUBSET Nat /\ later \subseteq held(w)
    BY Constants DEF held
  <2> HIDE DEF later
  <2>2. nr \in held(w)
    BY <1>6, <2>1, LeastOf
  <2>3. base(nh, nr) < UM_Window_Size
    BY <2>2 DEF WholeInv, AgesOK
  <2>4. base(nh, nr) \in SNs
    BY <1>1, <1>3, Places
  <2>5. base(nh, nr) <= UM_Window_Size /\ nr # nh
    BY <1>2, <2>3, <2>4, Constants
  <2> QED BY <1>3, <2>5
<1>7. next_reassembly(w) = IF held(w) = {} THEN nh
                           ELSE IF later = {} THEN RX_Next_Reassembly ELSE Min(later)
  BY DEF next_reassembly
<1> HIDE DEF later
<1> QED BY <1>4, <1>5, <1>6, <1>7

LEMMA SegmentEdge ==
  ASSUME WholeInv, UmInv, LowerEdge, NEW i \in DOMAIN channel, NEW so, handle_segment(channel[i], so)
  PROVE  LowerEdge'
<1> DEFINE sn == channel[i].sn
           j  == joined(place(channel[i], segment(channel[i], so)))
           w  == [rx_window EXCEPT ![sn] = j.pdu]
           nn == (sn + 1) % mod
           nh == RX_Next_Highest
           nr == RX_Next_Reassembly
<1>1. /\ j.pdu \in Entry /\ j.pdu # NoSegments
      /\ base(nh, nr) <= base(nh, sn)
  BY SegmentStored
<1>2. /\ RxType /\ nh \in SNs /\ nr \in SNs /\ sn \in SNs /\ nh \in 0..(2 * UM_Window_Size)
      /\ rx_window \in [SNs -> Entry]
  BY Constants, ChannelPdu DEF UmInv, RxType, WholeInv, BearerTypes
<1>3. base(nh, nh) = UM_Window_Size
  BY <1>2, Base, Constants
<1>4. /\ IF j.complete
         THEN buffer_updated(nh, IF sn = nr THEN next_reassembly(dropped(w, {sn})) ELSE nr,
                             dropped(w, {sn}))
         ELSE IF sn_in_reassembly_window(nh, sn) THEN buffer_updated(nh, nr, w)
         ELSE buffer_updated(nn, reassembly_moved(nn, window_moved(nn, w)), window_moved(nn, w))
  BY DEF handle_segment
<1> HIDE DEF j, sn
<1>5. w \in [SNs -> Entry] /\ held(w) = held(rx_window) \cup {sn}
  BY <1>1, <1>2 DEF held
<1>6. CASE j.complete
  <2> DEFINE w2 == dropped(w, {sn})
             n2 == IF sn = nr THEN next_reassembly(w2) ELSE nr
  <2>1. buffer_updated(nh, n2, w2)
    BY <1>4, <1>6
  <2>2. held(w2) \subseteq held(rx_window)
    <3>1. held(w2) = held(w) \ {sn}
      <4> HIDE DEF w
      <4> QED BY <1>5, Dropping
    <3> QED BY <1>5, <3>1
  <2> HIDE DEF w2, nh, nr
  <2>3. n2 \in {RX_Next_Reassembly, next_reassembly(w2)}
    BY DEF nr
  <2> HIDE DEF n2
  <2>4. /\ n2 \in SNs /\ base(nh, n2) <= UM_Window_Size
        /\ \A h \in held(w2) : base(nh, h) = UM_Window_Size - 1 => n2 # nh
    BY <2>2, <2>3, SearchKeepsEdge DEF nh
  <2> QED BY <1>2, <2>1, <2>4, EdgeUpdated
<1>7. CASE ~j.complete /\ sn_in_reassembly_window(nh, sn)
  <2>1. buffer_updated(nh, nr, w) /\ base(nh, sn) < UM_Window_Size
    BY <1>4, <1>7 DEF sn_in_reassembly_window
  <2>2. base(nh, nr) \in SNs /\ base(nh, sn) \in SNs
    BY <1>2, Places
  <2>3. base(nh, nr) <= UM_Window_Size /\ nr # nh
    BY <1>1, <1>3, <2>1, <2>2, Constants
  <2> HIDE DEF w, nh, nr
  <2> QED BY <1>2, <2>1, <2>3, EdgeUpdated
<1>8. CASE ~j.complete /\ ~sn_in_reassembly_window(nh, sn)
  <2> DEFINE w2 == window_moved(nn, w)
             n2 == reassembly_moved(nn, w2)
  <2>1. buffer_updated(nn, n2, w2)
    BY <1>4, <1>8
  <2>2. nn \in SNs /\ nn \in 0..(2 * UM_Window_Size) /\ base(nn, sn) = UM_Window_Size - 1
    BY <1>2, NextSn, NewestLast, Constants
  <2> HIDE DEF nn
  <2>3. base(nn, nn) = UM_Window_Size
    BY <2>2, Base, Constants
  <2>4. \A h \in held(w2) : base(nn, h) < UM_Window_Size
    BY DEF window_moved, dropped, held, sn_in_reassembly_window
  <2>5. sn \in held(w2)
    <3>1. sn_in_reassembly_window(nn, sn)
      BY <2>2, Constants DEF sn_in_reassembly_window
    <3>2. w[sn] = j.pdu
      BY <1>2
    <3> HIDE DEF w
    <3>3. w2[sn] = j.pdu
      BY <1>2, <3>1, <3>2 DEF window_moved, dropped
    <3> QED BY <1>1, <1>2, <3>3 DEF held
  <2> HIDE DEF w, w2
  <2>6. n2 \in SNs
    BY <1>2, <2>2, SearchesEnd
  <2>7. base(nn, n2) < UM_Window_Size
    <3>1. CASE sn_in_reassembly_window(nn, nr)
      BY <3>1 DEF reassembly_moved, sn_in_reassembly_window
    <3>2. CASE ~sn_in_reassembly_window(nn, nr)
      <4>1. n2 = Min(held(w2))
        BY <2>5, <3>2 DEF reassembly_moved
      <4>2. held(w2) \in SUBSET Nat /\ held(w2) # {}
        BY <2>5, Constants DEF held
      <4>3. n2 \in held(w2)
        BY <4>1, <4>2, LeastOf
      <4> QED BY <2>4, <4>3
    <3> QED BY <3>1, <3>2
  <2> HIDE DEF n2
  <2>8. base(nn, n2) \in SNs
    BY <2>2, <2>6, Places
  <2>9. base(nn, n2) <= UM_Window_Size /\ n2 # nn
    BY <2>3, <2>7, <2>8, Constants
  <2> QED BY <1>2, <2>1, <2>2, <2>6, <2>9, EdgeUpdated
<1> QED BY <1>6, <1>7, <1>8

(* t-Reassembly expires.                                                   *)
LEMMA ExpiryEdge ==
  ASSUME WholeInv, UmInv, LowerEdge, timer_expired
  PROVE  LowerEdge'
<1> DEFINE nh == RX_Next_Highest
           nr == expired_reassembly
           w2 == dropped(rx_window, expired_sns)
<1>1. /\ RX_Next_Reassembly' = nr /\ rx_window' = w2 /\ RX_Next_Highest' = nh
      /\ update_reassembly_timer(nh, nr, w2, FALSE) /\ reassembly_timer
  BY DEF timer_expired
<1>2. /\ RxType /\ nh \in SNs /\ RX_Timer_Trigger \in SNs /\ nh \in 0..(2 * UM_Window_Size)
      /\ rx_window \in [SNs -> Entry]
  BY Constants DEF UmInv, RxType, WholeInv, BearerTypes
<1>3. base(nh, nh) = UM_Window_Size
  BY <1>2, Base, Constants
<1>4. nr = nh
  <2>1. CASE sn_in_reassembly_window(nh, RX_Timer_Trigger)
    BY <2>1 DEF expired_reassembly
  <2>2. CASE ~sn_in_reassembly_window(nh, RX_Timer_Trigger)
    <3>1. base(nh, RX_Timer_Trigger) \in SNs /\ base(nh, RX_Timer_Trigger) <= UM_Window_Size
          /\ ~(base(nh, RX_Timer_Trigger) < UM_Window_Size)
      BY <1>1, <1>2, <2>2, Places DEF LowerEdge, sn_in_reassembly_window
    <3>2. base(nh, RX_Timer_Trigger) = UM_Window_Size
      BY <3>1, Constants
    <3>3. RX_Timer_Trigger = nh
      BY <1>2, <1>3, <3>2, SamePlace
    <3> QED BY <2>2, <3>3 DEF expired_reassembly
  <2> QED BY <2>1, <2>2
<1>5. \A h \in held(w2) : ~(base(nh, h) < UM_Window_Size)
  <2>1. held(w2) = held(rx_window) \ expired_sns
    BY <1>2, Dropping
  <2> QED BY <1>3, <1>4, <2>1 DEF expired_sns
<1>6. held(w2) = {}
  <2>1. held(w2) \subseteq held(rx_window)
    BY DEF dropped, held
  <2> QED BY <1>5, <2>1 DEF WholeInv, AgesOK
<1> DEFINE running == FALSE
<1>7. running \in BOOLEAN /\ ~running /\ update_reassembly_timer(nh, nh, w2, running)
      /\ RX_Next_Reassembly' = nh
  BY <1>1, <1>4
<1>8. UM_Window_Size <= UM_Window_Size
  BY Constants
<1> HIDE DEF running, w2, nh, nr
<1> QED BY <1>1, <1>2, <1>3, <1>6, <1>7, <1>8, EdgeFollows

(* A step that leaves the window of the receiver alone.                    *)
LEMMA EdgeAlone ==
  ASSUME LowerEdge, UNCHANGED <<RX_Next_Reassembly, RX_Timer_Trigger, RX_Next_Highest, rx_window,
                                reassembly_timer>>
  PROVE  LowerEdge'
BY DEF LowerEdge, held, base

(* A number as new as the newest SDU received, but not after it in the     *)
(* window: only with half of the numbers in between.                       *)
LEMMA NotOlder ==
  ASSUME TX_Next \in SNs, NEW nh \in SNs, NEW a \in SNs, NEW b \in SNs, a # b,
         base(nh, a) >= UM_Window_Size - 1, base(nh, b) = UM_Window_Size - 1,
         age(a) <= UM_Window_Size, age(b) <= age(a)
  PROVE  age(a) = UM_Window_Size /\ age(b) = 0
<1>1. {a, b} \subseteq 0..(2 * UM_Window_Size)
  BY Constants
<1>2. base(nh, a) = IF a >= nh + UM_Window_Size THEN a - nh - UM_Window_Size
                    ELSE IF a >= nh - UM_Window_Size THEN a - nh + UM_Window_Size
                    ELSE a - nh + 3 * UM_Window_Size
  BY <1>1, Base
<1>3. base(nh, b) = IF b >= nh + UM_Window_Size THEN b - nh - UM_Window_Size
                    ELSE IF b >= nh - UM_Window_Size THEN b - nh + UM_Window_Size
                    ELSE b - nh + 3 * UM_Window_Size
  BY <1>1, Base
<1>4. age(a) = IF TX_Next >= a THEN TX_Next - a ELSE TX_Next - a + mod
  BY AgeNext
<1>5. age(b) = IF TX_Next >= b THEN TX_Next - b ELSE TX_Next - b + mod
  BY AgeNext
<1> QED BY <1>2, <1>3, <1>4, <1>5, Constants

(* Where a number is after the window has moved to an older one.           *)
LEMMA AfterMove ==
  ASSUME TX_Next \in SNs, NEW a \in SNs, NEW b \in SNs,
         age(a) <= UM_Window_Size, age(b) <= age(a)
  PROVE  base((a + 1) % mod, b) = UM_Window_Size - 1 + (age(a) - age(b))
<1> DEFINE nn == (a + 1) % mod
<1>1. nn = (IF a = 2 * UM_Window_Size - 1 THEN 0 ELSE a + 1) /\ nn \in SNs
  BY NextSn
<1>2. b \in 0..(2 * UM_Window_Size)
  BY Constants
<1> HIDE DEF nn
<1>3. base(nn, b) = IF b >= nn + UM_Window_Size THEN b - nn - UM_Window_Size
                    ELSE IF b >= nn - UM_Window_Size THEN b - nn + UM_Window_Size
                    ELSE b - nn + 3 * UM_Window_Size
  BY <1>1, <1>2, Base
<1>4. age(a) = IF TX_Next >= a THEN TX_Next - a ELSE TX_Next - a + mod
  BY AgeNext
<1>5. age(b) = IF TX_Next >= b THEN TX_Next - b ELSE TX_Next - b + mod
  BY AgeNext
<1>6. base(nn, b) = UM_Window_Size - 1 + (age(a) - age(b))
  BY <1>1, <1>3, <1>4, <1>5, Constants
<1> QED BY <1>6 DEF nn

LEMMA AgeOfNext ==
  ASSUME TX_Next \in SNs
  PROVE  age(TX_Next) = 0
<1>1. age(TX_Next) = IF TX_Next >= TX_Next THEN TX_Next - TX_Next ELSE TX_Next - TX_Next + mod
  BY AgeNext
<1> QED BY <1>1, Constants

(* Where the number the sender has got to is.                              *)
LEMMA PlaceOfNext ==
  ASSUME TX_Next \in SNs, NEW nh \in SNs
  PROVE  /\ age(nh) < UM_Window_Size => base(nh, TX_Next) >= UM_Window_Size
         /\ age(nh) = mod - 1 => base(nh, TX_Next) = UM_Window_Size - 1
<1>1. TX_Next \in 0..(2 * UM_Window_Size)
  BY Constants
<1>2. base(nh, TX_Next) = IF TX_Next >= nh + UM_Window_Size THEN TX_Next - nh - UM_Window_Size
                          ELSE IF TX_Next >= nh - UM_Window_Size THEN TX_Next - nh + UM_Window_Size
                          ELSE TX_Next - nh + 3 * UM_Window_Size
  BY <1>1, Base
<1>3. age(nh) = IF TX_Next >= nh THEN TX_Next - nh ELSE TX_Next - nh + mod
  BY AgeNext
<1> QED BY <1>2, <1>3, Constants

(* The SDUs that are kept are SDUs, and what is on its way is numbered.    *)
LEMMA KeptSdus ==
  ASSUME WholeInv
  PROVE  /\ Kept \subseteq Sdus /\ None \notin Kept
         /\ \A sn \in SNs, t \in Sdus : Sending(sn, t) => Numbered(sn, t)
         /\ \A i \in DOMAIN channel : Cut(channel[i]) => Sending(channel[i].sn, channel[i].sdu)
         /\ \A t \in Sdus : tx_sdu.sdu = t => ~is_new /\ Sending(TX_Next, t)
<1>1. Kept \subseteq Sdus
  BY DEF Kept, Live, WholeInv, BearerTypes
<1>2. \A t \in Sdus : tx_sdu.sdu = t => ~is_new
  BY NoSdus DEF is_new, NoSdu
<1> QED BY <1>1, <1>2, NoSdus DEF Numbered, Sending, is_new

(* What is held of a kept SDU is of the SDU whose PDU is the next to come. *)
LEMMA OldestFirst ==
  ASSUME WholeInv, UmInv, InOrderInv, 1 \in DOMAIN channel, Cut(channel[1]),
         NEW sn \in SNs, NEW t \in Kept, InEntry(rx_window[sn], t)
  PROVE  t = channel[1].sdu /\ sn = channel[1].sn
<1> DEFINE p == channel[1]  nh == RX_Next_Highest
<1>1. /\ p.sn \in SNs /\ p.sdu \in Sdus /\ t \in Sdus /\ TX_Next \in SNs /\ nh \in SNs
  BY ChannelPdu, KeptSdus DEF UmInv, TxInv, RxType
<1>2. Numbered(p.sn, p.sdu) /\ Numbered(sn, t)
  BY DEF Numbered
<1>3. t = p.sdu <=> sn = p.sn
  BY <1>1, <1>2 DEF WholeInv, NumbersOK
<1> SUFFICES ASSUME sn # p.sn PROVE FALSE
  BY <1>3
<1>4. base(nh, sn) = UM_Window_Size - 1 /\ Sending(sn, t) /\ base(nh, p.sn) >= UM_Window_Size - 1
  BY DEF InOrderInv, NewestHeld, PdusInOrder
<1>5. age(p.sn) <= UM_Window_Size /\ (~is_new => age(p.sn) < UM_Window_Size)
  BY DEF WholeInv, AgesOK
<1>6. age(p.sn) \in SNs /\ age(sn) \in SNs /\ age(TX_Next) = 0
  BY <1>1, AgeNext, AgeOfNext
<1>7. PICK i \in DOMAIN channel :
        (Cut(channel[i]) /\ channel[i].sn = sn) \/ (~is_new /\ sn = TX_Next)
  BY <1>4 DEF Sending, is_new
<1>8. CASE ~is_new /\ sn = TX_Next
  <2>1. age(sn) <= age(p.sn)
    BY <1>6, <1>8, Constants
  <2>2. age(p.sn) = UM_Window_Size
    BY <1>1, <1>4, <1>5, <2>1, NotOlder
  <2> QED BY <1>5, <1>6, <1>8, <2>2, Constants
<1>9. CASE Cut(channel[i]) /\ channel[i].sn = sn
  <2>1. 1 < i
    <3>1. channel \in Seq(UmPdu)
      BY DEF WholeInv, BearerTypes
    <3>2. i \in Nat /\ i >= 1
      BY <3>1
    <3>3. i # 1
      BY <1>9
    <3> QED BY <3>2, <3>3
  <2>2. age(sn) <= age(p.sn)
    <3>1. age(p.sn) >= age(sn)
      BY <1>9, <2>1 DEF InOrderInv, PdusInOrder
    <3> QED BY <1>6, <3>1, Constants
  <2>3. age(p.sn) = UM_Window_Size /\ age(sn) = 0
    BY <1>1, <1>4, <1>5, <2>2, NotOlder
  <2>4. is_new
    BY <1>5, <1>6, <2>3, Constants
  <2> QED BY <1>9, <2>3, <2>4 DEF WholeInv, AgesOK
<1> QED BY <1>7, <1>8, <1>9

(* The next PDU is of a kept SDU: what is held of the SDU, and where.      *)
LEMMA KeptEntry ==
  ASSUME WholeInv, UmInv, LowerEdge, InOrderInv, 1 \in DOMAIN channel, Cut(channel[1]),
         channel[1].sdu \in Kept, NEW e, e = rx_window[channel[1].sn]
  PROVE  /\ e.segments = {} /\ e.total_sdu_length = 0 /\ e.sdu \in {None, channel[1].sdu}
         /\ e.next_expected_so = channel[1].so
         /\ IF InEntry(e, channel[1].sdu)
            THEN base(RX_Next_Highest, channel[1].sn) = UM_Window_Size - 1
            ELSE base(RX_Next_Highest, channel[1].sn) >= UM_Window_Size
         /\ ~sn_invalid_for_rx_buffer(channel[1].sn)
<1> DEFINE p == channel[1]  nh == RX_Next_Highest  t == p.sdu
<1>1. /\ p.sn \in SNs /\ t \in Sdus /\ nh \in SNs /\ RX_Next_Reassembly \in SNs
      /\ nh \in 0..(2 * UM_Window_Size) /\ e \in Entry
      /\ p.so \in 0..N_bytes /\ p.len \in 1..N_bytes
  BY ChannelPdu, Constants DEF UmInv, RxType
<1>2. Sending(p.sn, t)
  BY KeptSdus
<1>3. ASSUME InEntry(e, t)
      PROVE  /\ e.segments = {} /\ e.total_sdu_length = 0 /\ e.sdu \in {None, t}
             /\ base(nh, p.sn) = UM_Window_Size - 1
  <2>1. e.segments = {} /\ e.total_sdu_length = 0 /\ base(nh, p.sn) = UM_Window_Size - 1
    BY <1>1, <1>3 DEF InOrderInv, NewestHeld
  <2>2. e.sdu = t
    BY <1>3, <2>1 DEF InEntry
  <2> QED BY <1>3, <2>1, <2>2
<1>4. ASSUME ~InEntry(e, t)
      PROVE  /\ e.segments = {} /\ e.total_sdu_length = 0 /\ e.sdu \in {None, t}
             /\ base(nh, p.sn) >= UM_Window_Size
  <2>1. base(nh, p.sn) >= UM_Window_Size
    BY <1>1, <1>2, <1>4 DEF InOrderInv, NewestHeld
  <2>2. p.sn \notin held(rx_window)
    <3> SUFFICES ASSUME p.sn \in held(rx_window) PROVE FALSE
      OBVIOUS
    <3>1. base(nh, p.sn) < UM_Window_Size
      BY DEF WholeInv, AgesOK
    <3>2. base(nh, p.sn) \in SNs
      BY <1>1, Places
    <3> QED BY <2>1, <3>1, <3>2, Constants
  <2>3. e = NoSegments
    BY <1>1, <2>2 DEF held
  <2> QED BY <1>4, <2>1, <2>3 DEF NoSegments
<1>5. e.next_expected_so = p.so
  <2>1. 1 \in PdusOf(t)
    BY DEF PdusOf
  <2>2. \/ p.so = e.next_expected_so
        \/ \E j \in PdusOf(t) : end(channel[j]) = p.so
    BY <2>1 DEF InOrderInv, Tiles
  <2>3. ASSUME NEW j \in PdusOf(t), end(channel[j]) = p.so PROVE FALSE
    <3>1. j \in DOMAIN channel /\ channel[j].so \in 0..N_bytes /\ channel[j].len \in 1..N_bytes
      BY ChannelPdu DEF PdusOf
    <3>2. CASE j = 1
      BY <1>1, <2>3, <3>2 DEF end
    <3>3. CASE j # 1
      <4>1. channel \in Seq(UmPdu)
        BY DEF WholeInv, BearerTypes
      <4>2. 1 < j
        BY <3>1, <3>3, <4>1
      <4>3. end(p) <= channel[j].so
        BY <2>1, <4>2 DEF InOrderInv, Tiles
      <4> HIDE DEF p
      <4>4. N_bytes \in Nat
        BY Constants
      <4> QED BY <1>1, <2>3, <3>1, <4>3, <4>4 DEF end
    <3> QED BY <3>2, <3>3
  <2> QED BY <2>2, <2>3
<1>6. ~sn_invalid_for_rx_buffer(p.sn)
  <2> SUFFICES ~(base(nh, p.sn) < base(nh, RX_Next_Reassembly))
    BY DEF sn_invalid_for_rx_buffer
  <2>1. base(nh, p.sn) \in SNs /\ base(nh, RX_Next_Reassembly) \in SNs
        /\ base(nh, RX_Next_Reassembly) <= UM_Window_Size
    BY <1>1, Places DEF LowerEdge
  <2>2. base(nh, nh) = UM_Window_Size
    BY <1>1, Base, Constants
  <2>3. CASE InEntry(e, t)
    <3>1. base(nh, p.sn) = UM_Window_Size - 1
      BY <1>1, <2>3 DEF InOrderInv, NewestHeld
    <3>2. e # NoSegments
      BY <1>1, <2>3, NoSdus DEF InEntry, NoSegments
    <3>3. p.sn \in held(rx_window)
      BY <1>1, <3>2 DEF held
    <3>4. RX_Next_Reassembly # nh
      BY <3>1, <3>3 DEF LowerEdge
    <3>5. base(nh, RX_Next_Reassembly) # UM_Window_Size
      BY <1>1, <2>2, <3>4, SamePlace
    <3> QED BY <2>1, <3>1, <3>5, Constants
  <2>4. CASE ~InEntry(e, t)
    <3>1. base(nh, p.sn) >= UM_Window_Size
      BY <1>1, <1>2, <2>4 DEF InOrderInv, NewestHeld
    <3> QED BY <2>1, <3>1, Constants
  <2> QED BY <2>3, <2>4
<1> QED BY <1>3, <1>4, <1>5, <1>6

(* What the loop makes of it: all there is is joined, and with the last    *)
(* segment the SDU is complete.                                            *)
LEMMA KeptJoined ==
  ASSUME WholeInv, UmInv, CutShort, LowerEdge, InOrderInv, 1 \in DOMAIN channel, Cut(channel[1]),
         channel[1].sdu \in Kept, NEW so \in so_read(channel[1])
  PROVE  LET p == channel[1]
             j == joined(place(p, segment(p, so)))
         IN  /\ j.complete <=> p.si = "last"
             /\ j.pdu.segments = {} /\ j.pdu.sdu = p.sdu /\ j.pdu.next_expected_so = end(p)
             /\ p.si # "last" => j.pdu.total_sdu_length = 0
<1> DEFINE p   == channel[1]
           old == rx_window[p.sn]
           g   == segment(p, so)
           e   == place(p, g)
           t   == p.sdu
           total == IF p.si = "last" THEN g.so + g.len ELSE old.total_sdu_length
           new == [segments |-> {g}, sdu |-> old.sdu, next_expected_so |-> old.next_expected_so,
                   total_sdu_length |-> total]
<1>1. /\ p \in UmPdu /\ GoodPdu(p) /\ p.sn \in SNs /\ t \in Sdus /\ p.so \in 0..N_bytes
      /\ p.len \in 1..N_bytes /\ old \in Entry /\ N_bytes \in Nat
  BY ChannelPdu, Constants
<1>2. g = [so |-> p.so, len |-> p.len, sdu |-> t] /\ g \in Segment
  BY <1>1, SegmentRead
<1>3. /\ old.segments = {} /\ old.total_sdu_length = 0 /\ old.sdu \in {None, t}
      /\ old.next_expected_so = p.so
  BY KeptEntry
<1>4. GoodEntry(e)
  BY Placed
<1>5. e = new
  <2>1. e = [old EXCEPT !.segments = IF \E s \in @ : s.so = g.so THEN @ ELSE @ \cup {g},
                        !.total_sdu_length = IF p.si = "last" THEN g.so + g.len ELSE @]
    BY DEF place
  <2> DEFINE gs == IF \E s \in old.segments : s.so = g.so THEN old.segments ELSE old.segments \cup {g}
  <2>2. gs = {g}
    BY <1>3
  <2>3. e = [old EXCEPT !.segments = gs, !.total_sdu_length = total]
    BY <2>1
  <2> HIDE DEF gs, total, old, g, e
  <2>4. e = [segments |-> gs, sdu |-> old.sdu, next_expected_so |-> old.next_expected_so,
             total_sdu_length |-> total]
    BY <1>1, <2>3 DEF Entry
  <2> QED BY <2>2, <2>4
<1> DEFINE r == [pdu |-> [segments |-> {}, sdu |-> g.sdu, next_expected_so |-> g.so + g.len,
                          total_sdu_length |-> e.total_sdu_length],
                 complete |-> g.so # 0 /\ g.so + g.len = e.total_sdu_length]
<1>6. joined(e) = r
  <2>1. e.segments = {g} /\ g.so = e.next_expected_so /\ (e.sdu = None \/ e.sdu = g.sdu)
    BY <1>2, <1>3, <1>5
  <2> HIDE DEF e, g
  <2> QED BY <1>2, <1>4, <2>1, JoinedOne
<1>7. g.so = p.so /\ g.len = p.len /\ g.sdu = t /\ g.so + g.len = end(p)
  BY <1>2 DEF end
<1>8. e.total_sdu_length = total
  BY <1>5
<1>9. p.si # "last" => e.total_sdu_length = 0
  BY <1>3, <1>8
<1>10. p.si = "last" => e.total_sdu_length = end(p)
  BY <1>7, <1>8
<1>11. end(p) # 0 /\ (p.si = "last" => p.so # 0)
  BY <1>1 DEF end, GoodPdu
<1> HIDE DEF p, e, g, t, total
<1>12. r.complete <=> p.si = "last"
  BY <1>7, <1>9, <1>10, <1>11
<1>13. /\ r.pdu.segments = {} /\ r.pdu.sdu = p.sdu /\ r.pdu.next_expected_so = end(p)
       /\ p.si # "last" => r.pdu.total_sdu_length = 0
  BY <1>7, <1>9 DEF t
<1> HIDE DEF r
<1> QED BY <1>6, <1>12, <1>13 DEF p, e, g

(* The channel without the PDU i, the others in their order.               *)
Closer(new, old, i) ==
  \E at \in [DOMAIN new -> DOMAIN old] :
    /\ \A k \in DOMAIN new : new[k] = old[at[k]] /\ at[k] # i
    /\ \A j, k \in DOMAIN new : j < k => at[j] < at[k]
    /\ \A a \in DOMAIN old \ {i} : \E k \in DOMAIN new : at[k] = a

LEMMA ChannelCloses ==
  ASSUME WholeInv, NEW i \in DOMAIN channel, Channel(i)
  PROVE  Closer(channel', channel, i)
<1>1. channel \in Seq(UmPdu) /\ Len(channel) \in Nat /\ DOMAIN channel = 1..Len(channel)
  <2>1. channel \in Seq(UmPdu)
    BY DEF WholeInv, BearerTypes
  <2> QED BY <2>1
<1>2. channel' = RemoveAt(channel, i)
  BY DEF Channel
<1> DEFINE at == [k \in DOMAIN channel' |-> IF k < i THEN k ELSE k + 1]
           n  == Len(channel)
<1>3. /\ DOMAIN channel' = 1..(n - 1)
      /\ \A k \in DOMAIN channel' : channel'[k] = channel[IF k < i THEN k ELSE k + 1]
                                    /\ (IF k < i THEN k ELSE k + 1) \in DOMAIN channel \ {i}
  <2>1. /\ DOMAIN RemoveAt(channel, i) = 1..(Len(channel) - 1)
        /\ \A k \in 1..(Len(channel) - 1) :
             /\ RemoveAt(channel, i)[k] = channel[IF k < i THEN k ELSE k + 1]
             /\ (IF k < i THEN k ELSE k + 1) \in DOMAIN channel \ {i}
    BY <1>1, Removed
  <2> QED BY <1>2, <2>1
<1> HIDE DEF n
<1>4. \A k \in DOMAIN channel' : channel'[k] = channel[at[k]] /\ at[k] \in DOMAIN channel \ {i}
  BY <1>3
<1>5. \A j, k \in DOMAIN channel' : j < k => at[j] < at[k]
  BY <1>1, <1>3 DEF n
<1>6. ASSUME NEW a \in DOMAIN channel \ {i} PROVE \E k \in DOMAIN channel' : at[k] = a
  <2>1. a \in 1..n /\ i \in 1..n /\ a # i /\ n \in Nat
    BY <1>1 DEF n
  <2>2. CASE a < i
    <3>1. a \in 1..(n - 1)
      BY <2>1, <2>2
    <3>2. a \in DOMAIN channel' /\ at[a] = a
      BY <1>3, <2>2, <3>1
    <3> QED BY <3>2
  <2>3. CASE ~(a < i)
    <3>1. a - 1 \in 1..(n - 1) /\ ~(a - 1 < i) /\ a - 1 + 1 = a
      BY <2>1, <2>3
    <3>2. a - 1 \in DOMAIN channel' /\ at[a - 1] = a
      BY <1>3, <3>1
    <3> QED BY <3>2
  <2> QED BY <2>2, <2>3
<1>7. at \in [DOMAIN channel' -> DOMAIN channel]
  BY <1>4
<1> HIDE DEF at
<1> QED BY <1>4, <1>5, <1>6, <1>7 DEF Closer

(* The PDUs of an SDU that are left.                                       *)
LEMMA PdusLeft ==
  ASSUME NEW i, NEW t, Closer(channel', channel, i)
  PROVE  \E at \in [DOMAIN channel' -> DOMAIN channel] :
           /\ \A k \in PdusOf(t)' : k \in DOMAIN channel' /\ channel'[k] = channel[at[k]]
                                    /\ at[k] \in PdusOf(t) /\ at[k] # i
           /\ \A j, k \in PdusOf(t)' : j < k => at[j] < at[k]
           /\ \A a \in PdusOf(t) \ {i} :
                \E k \in PdusOf(t)' : at[k] = a /\ channel'[k] = channel[a]
<1>1. PICK at \in [DOMAIN channel' -> DOMAIN channel] :
        /\ \A k \in DOMAIN channel' : channel'[k] = channel[at[k]] /\ at[k] # i
        /\ \A j, k \in DOMAIN channel' : j < k => at[j] < at[k]
        /\ \A a \in DOMAIN channel \ {i} : \E k \in DOMAIN channel' : at[k] = a
  BY DEF Closer
<1>2. PdusOf(t)' = {k \in DOMAIN channel' : Cut(channel'[k]) /\ channel'[k].sdu = t}
  BY DEF PdusOf, Cut
<1>3. \A k \in PdusOf(t)' : k \in DOMAIN channel' /\ channel'[k] = channel[at[k]]
                            /\ at[k] \in PdusOf(t) /\ at[k] # i
  BY <1>1, <1>2 DEF PdusOf
<1>4. \A a \in PdusOf(t) \ {i} : \E k \in PdusOf(t)' : at[k] = a /\ channel'[k] = channel[a]
  <2> SUFFICES ASSUME NEW a \in PdusOf(t) \ {i}
               PROVE  \E k \in PdusOf(t)' : at[k] = a /\ channel'[k] = channel[a]
    OBVIOUS
  <2>1. a \in DOMAIN channel \ {i} /\ Cut(channel[a]) /\ channel[a].sdu = t
    BY DEF PdusOf
  <2>2. PICK k \in DOMAIN channel' : at[k] = a
    BY <1>1, <2>1
  <2>3. channel'[k] = channel[a]
    BY <1>1, <2>2
  <2>4. k \in PdusOf(t)'
    BY <1>2, <2>1, <2>3
  <2> QED BY <2>2, <2>3, <2>4
<1> QED BY <1>1, <1>2, <1>3, <1>4

(* What Tiles says of the next state.                                      *)
LEMMA TilesNext ==
  ASSUME NEW t, NEW P, P = PdusOf(t)',
         \A i \in P :
           /\ \/ channel'[i].so = rx_window'[channel'[i].sn].next_expected_so
              \/ \E j \in P : end(channel'[j]) = channel'[i].so
           /\ \A j \in P : i < j => end(channel'[i]) <= channel'[j].so
           /\ \/ end(channel'[i]) = N_bytes
              \/ \E j \in P : channel'[j].so = end(channel'[i])
              \/ tx_sdu'.sdu = t /\ next_so' = end(channel'[i]),
         tx_sdu'.sdu = t =>
           /\ \/ next_so' = rx_window'[TX_Next'].next_expected_so
              \/ \E i \in P : end(channel'[i]) = next_so'
           /\ \A i \in P : end(channel'[i]) <= next_so'
  PROVE  Tiles(t)'
BY DEF Tiles, end

(* All PDUs of an SDU have its number.                                     *)
LEMMA PdusNumbered ==
  ASSUME WholeInv, NEW t \in Sdus, NEW i \in PdusOf(t)
  PROVE  /\ i \in DOMAIN channel /\ channel[i].sn \in SNs /\ Sending(channel[i].sn, t)
         /\ channel[i].so \in 0..N_bytes /\ channel[i].len \in 1..N_bytes
         /\ end(channel[i]) <= N_bytes /\ channel[i].so < end(channel[i])
         /\ end(channel[i]) \in Nat
         /\ \A sn \in SNs : Sending(sn, t) => sn = channel[i].sn
<1>1. i \in DOMAIN channel /\ Cut(channel[i]) /\ channel[i].sdu = t
  BY DEF PdusOf
<1>2. /\ channel[i].sn \in SNs /\ channel[i].so \in 0..N_bytes /\ channel[i].len \in 1..N_bytes
      /\ GoodPdu(channel[i])
  BY <1>1, ChannelPdu
<1>3. Sending(channel[i].sn, t)
  BY <1>1, KeptSdus
<1>4. \A sn \in SNs : Sending(sn, t) => sn = channel[i].sn
  BY <1>2, <1>3, KeptSdus DEF WholeInv, NumbersOK
<1> DEFINE p == channel[i]
<1>5. end(p) <= N_bytes /\ p.so < end(p) /\ end(p) \in Nat
  <2> HIDE DEF p
  <2>1. p.so \in 0..N_bytes /\ p.len \in 1..N_bytes /\ p.so + p.len <= N_bytes
    BY <1>2 DEF p, GoodPdu
  <2> QED BY <2>1, Constants DEF end
<1> QED BY <1>1, <1>2, <1>3, <1>4, <1>5

(* The SDUs whose PDUs stay are as they were.                              *)
LEMMA TilesOthers ==
  ASSUME WholeInv, TX_Next \in SNs, NEW i \in DOMAIN channel, Channel(i),
         NEW t \in Sdus, i \notin PdusOf(t), Tiles(t),
         \A sn \in SNs : Sending(sn, t) =>
           rx_window'[sn].next_expected_so = rx_window[sn].next_expected_so
  PROVE  Tiles(t)'
<1> DEFINE P == PdusOf(t)  Q == PdusOf(t)'
<1>1. UNCHANGED <<TX_Next, next_so, tx_sdu>>
  BY DEF Channel, umTxVars
<1>2. PICK at \in [DOMAIN channel' -> DOMAIN channel] :
        /\ \A k \in Q : k \in DOMAIN channel' /\ channel'[k] = channel[at[k]] /\ at[k] \in P
        /\ \A j, k \in Q : j < k => at[j] < at[k]
        /\ \A a \in P : \E k \in Q : at[k] = a /\ channel'[k] = channel[a]
  <2>1. P \ {i} = P
    OBVIOUS
  <2> QED BY <2>1, ChannelCloses, PdusLeft
<1>3. \A a \in P : channel[a].sn \in SNs /\ Sending(channel[a].sn, t)
  BY PdusNumbered
<1>4. tx_sdu.sdu = t => Sending(TX_Next, t)
  BY KeptSdus
<1> DEFINE got(sn) == rx_window[sn].next_expected_so
<1>5. /\ \A a \in P :
           /\ \/ channel[a].so = got(channel[a].sn)
              \/ \E j \in P : end(channel[j]) = channel[a].so
           /\ \A j \in P : a < j => end(channel[a]) <= channel[j].so
           /\ \/ end(channel[a]) = N_bytes
              \/ \E j \in P : channel[j].so = end(channel[a])
              \/ tx_sdu.sdu = t /\ next_so = end(channel[a])
      /\ tx_sdu.sdu = t =>
           /\ \/ next_so = got(TX_Next)
              \/ \E a \in P : end(channel[a]) = next_so
           /\ \A a \in P : end(channel[a]) <= next_so
  BY DEF Tiles
<1> HIDE DEF P, Q
<1>6. ASSUME NEW k \in Q
      PROVE  /\ \/ channel'[k].so = rx_window'[channel'[k].sn].next_expected_so
                \/ \E j \in Q : end(channel'[j]) = channel'[k].so
             /\ \A j \in Q : k < j => end(channel'[k]) <= channel'[j].so
             /\ \/ end(channel'[k]) = N_bytes
                \/ \E j \in Q : channel'[j].so = end(channel'[k])
                \/ tx_sdu'.sdu = t /\ next_so' = end(channel'[k])
  <2>1. at[k] \in P /\ channel'[k] = channel[at[k]]
    BY <1>2
  <2>2. \/ channel'[k].so = rx_window'[channel'[k].sn].next_expected_so
        \/ \E j \in Q : end(channel'[j]) = channel'[k].so
    <3>1. CASE channel[at[k]].so = got(channel[at[k]].sn)
      BY <1>3, <2>1, <3>1
    <3>2. ASSUME NEW a \in P, end(channel[a]) = channel[at[k]].so
          PROVE  \E j \in Q : end(channel'[j]) = channel'[k].so
      <4>1. PICK j \in Q : channel'[j] = channel[a]
        BY <1>2
      <4> QED BY <2>1, <3>2, <4>1
    <3> QED BY <1>5, <2>1, <3>1, <3>2
  <2>3. \A j \in Q : k < j => end(channel'[k]) <= channel'[j].so
    BY <1>2, <1>5
  <2>4. \/ end(channel'[k]) = N_bytes
        \/ \E j \in Q : channel'[j].so = end(channel'[k])
        \/ tx_sdu'.sdu = t /\ next_so' = end(channel'[k])
    <3>1. ASSUME NEW a \in P, channel[a].so = end(channel[at[k]])
          PROVE  \E j \in Q : channel'[j].so = end(channel'[k])
      <4>1. PICK j \in Q : channel'[j] = channel[a]
        BY <1>2
      <4> QED BY <2>1, <3>1, <4>1
    <3> QED BY <1>1, <1>5, <2>1, <3>1
  <2> QED BY <2>2, <2>3, <2>4
<1>7. ASSUME tx_sdu'.sdu = t
      PROVE  /\ \/ next_so' = rx_window'[TX_Next'].next_expected_so
                \/ \E k \in Q : end(channel'[k]) = next_so'
             /\ \A k \in Q : end(channel'[k]) <= next_so'
  <2>1. tx_sdu.sdu = t /\ next_so' = next_so /\ TX_Next' = TX_Next
    BY <1>1, <1>7
  <2>2. CASE next_so = got(TX_Next)
    <3>1. next_so' = rx_window'[TX_Next'].next_expected_so
      BY <1>4, <2>1, <2>2
    <3> QED BY <1>2, <1>5, <2>1, <3>1
  <2>3. ASSUME NEW a \in P, end(channel[a]) = next_so
        PROVE  \E k \in Q : end(channel'[k]) = next_so'
    <3>1. PICK k \in Q : channel'[k] = channel[a]
      BY <1>2
    <3> QED BY <2>1, <2>3, <3>1
  <2>4. \A k \in Q : end(channel'[k]) <= next_so'
    BY <1>2, <1>5, <2>1
  <2> QED BY <1>5, <2>1, <2>2, <2>3, <2>4
<1> QED BY <1>6, <1>7, TilesNext DEF Q

(* The first PDU is joined to what is held, and the others follow on it.   *)
LEMMA TilesJoined ==
  ASSUME WholeInv, TX_Next \in SNs, 1 \in DOMAIN channel, Channel(1),
         NEW t \in Sdus, 1 \in PdusOf(t), Tiles(t),
         channel[1].so = rx_window[channel[1].sn].next_expected_so,
         rx_window'[channel[1].sn].next_expected_so = end(channel[1])
  PROVE  Tiles(t)'
<1> DEFINE P == PdusOf(t)  Q == PdusOf(t)'  p == channel[1]
           got(sn) == rx_window[sn].next_expected_so
<1>1. UNCHANGED <<TX_Next, next_so, tx_sdu>>
  BY DEF Channel, umTxVars
<1>2. PICK at \in [DOMAIN channel' -> DOMAIN channel] :
        /\ \A k \in Q : k \in DOMAIN channel' /\ channel'[k] = channel[at[k]]
                        /\ at[k] \in P /\ at[k] # 1
        /\ \A j, k \in Q : j < k => at[j] < at[k]
        /\ \A a \in P \ {1} : \E k \in Q : at[k] = a /\ channel'[k] = channel[a]
  BY ChannelCloses, PdusLeft
<1>3. \A a \in P : /\ channel[a].sn = p.sn /\ channel[a].so \in Nat /\ end(channel[a]) \in Nat
                   /\ channel[a].so < end(channel[a])
  <2>1. \A a \in P : Sending(channel[a].sn, t) /\ channel[a].sn \in SNs
                     /\ channel[a].so \in Nat /\ end(channel[a]) \in Nat
                     /\ channel[a].so < end(channel[a])
    BY PdusNumbered
  <2>2. \A sn \in SNs : Sending(sn, t) => sn = p.sn
    BY PdusNumbered
  <2> QED BY <2>1, <2>2
<1>4. tx_sdu.sdu = t => TX_Next = p.sn
  <2>1. \A sn \in SNs : Sending(sn, t) => sn = p.sn
    BY PdusNumbered
  <2> QED BY <2>1, KeptSdus
<1>5. /\ \A a \in P :
           /\ \/ channel[a].so = got(channel[a].sn)
              \/ \E j \in P : end(channel[j]) = channel[a].so
           /\ \A j \in P : a < j => end(channel[a]) <= channel[j].so
           /\ \/ end(channel[a]) = N_bytes
              \/ \E j \in P : channel[j].so = end(channel[a])
              \/ tx_sdu.sdu = t /\ next_so = end(channel[a])
      /\ tx_sdu.sdu = t =>
           /\ \/ next_so = got(TX_Next)
              \/ \E a \in P : end(channel[a]) = next_so
           /\ \A a \in P : end(channel[a]) <= next_so
  BY DEF Tiles
<1>6. 1 \in P /\ \A a \in P : a # 1 => 1 < a
  <2>1. channel \in Seq(UmPdu)
    BY DEF WholeInv, BearerTypes
  <2>2. \A a \in DOMAIN channel : a # 1 => 1 < a
    BY <2>1
  <2> QED BY <2>2 DEF PdusOf
<1>7. got(p.sn) = p.so /\ rx_window'[p.sn].next_expected_so = end(p)
  OBVIOUS
<1> HIDE DEF P, Q, p, got
<1>8. \A a \in P : a # 1 => end(p) <= channel[a].so
  BY <1>5, <1>6 DEF p
<1>9. ASSUME NEW k \in Q
      PROVE  /\ \/ channel'[k].so = rx_window'[channel'[k].sn].next_expected_so
                \/ \E j \in Q : end(channel'[j]) = channel'[k].so
             /\ \A j \in Q : k < j => end(channel'[k]) <= channel'[j].so
             /\ \/ end(channel'[k]) = N_bytes
                \/ \E j \in Q : channel'[j].so = end(channel'[k])
                \/ tx_sdu'.sdu = t /\ next_so' = end(channel'[k])
  <2>1. at[k] \in P /\ channel'[k] = channel[at[k]] /\ at[k] # 1
    BY <1>2
  <2> DEFINE c == channel[at[k]]
  <2>2. c.sn = p.sn /\ c.so \in Nat /\ end(c) \in Nat /\ c.so < end(c) /\ end(p) <= c.so
        /\ p.so \in Nat /\ end(p) \in Nat /\ p.so < end(p)
    BY <1>3, <1>6, <1>8, <2>1 DEF p
  <2>3. \/ c.so = got(c.sn) \/ \E j \in P : end(channel[j]) = c.so
    BY <1>5, <2>1
  <2>4. \A j \in P : at[k] < j => end(c) <= channel[j].so
    BY <1>5, <2>1
  <2>5. \/ end(c) = N_bytes
        \/ \E j \in P : channel[j].so = end(c)
        \/ tx_sdu.sdu = t /\ next_so = end(c)
    BY <1>5, <2>1
  <2>6. channel'[k] = c
    BY <2>1
  <2> HIDE DEF c
  <2>7. \/ c.so = rx_window'[c.sn].next_expected_so
        \/ \E j \in Q : end(channel'[j]) = c.so
    <3>1. c.so # got(c.sn)
      BY <1>7, <2>2
    <3>2. PICK a \in P : end(channel[a]) = c.so
      BY <2>3, <3>1
    <3>3. CASE a = 1
      BY <1>7, <2>2, <3>2, <3>3 DEF p
    <3>4. CASE a # 1
      <4>1. PICK j \in Q : channel'[j] = channel[a]
        BY <1>2, <3>4
      <4> QED BY <3>2, <4>1
    <3> QED BY <3>3, <3>4
  <2>8. \A j \in Q : k < j => end(c) <= channel'[j].so
    BY <1>2, <2>4
  <2>9. \/ end(c) = N_bytes
        \/ \E j \in Q : channel'[j].so = end(c)
        \/ tx_sdu'.sdu = t /\ next_so' = end(c)
    <3>1. ASSUME NEW a \in P, channel[a].so = end(c)
          PROVE  \E j \in Q : channel'[j].so = end(c)
      <4>1. a # 1
        BY <2>2, <3>1 DEF p
      <4>2. PICK j \in Q : channel'[j] = channel[a]
        BY <1>2, <4>1
      <4> QED BY <3>1, <4>2
    <3> QED BY <1>1, <2>5, <3>1
  <2> QED BY <2>6, <2>7, <2>8, <2>9
<1>10. ASSUME tx_sdu'.sdu = t
       PROVE  /\ \/ next_so' = rx_window'[TX_Next'].next_expected_so
                 \/ \E k \in Q : end(channel'[k]) = next_so'
              /\ \A k \in Q : end(channel'[k]) <= next_so'
  <2>1. tx_sdu.sdu = t /\ next_so' = next_so /\ TX_Next' = p.sn /\ TX_Next = p.sn
    BY <1>1, <1>4, <1>10
  <2>2. p.so \in Nat /\ end(p) \in Nat /\ p.so < end(p) /\ end(p) <= next_so
    BY <1>3, <1>5, <1>6, <2>1 DEF p
  <2>3. PICK a \in P : end(channel[a]) = next_so
    <3>1. next_so # got(TX_Next)
      BY <1>7, <2>1, <2>2
    <3> QED BY <1>5, <2>1, <3>1
  <2>4. CASE a = 1
    <3>1. next_so' = rx_window'[TX_Next'].next_expected_so
      BY <1>7, <2>1, <2>3, <2>4 DEF p
    <3> QED BY <1>2, <1>5, <2>1, <3>1
  <2>5. CASE a # 1
    <3>1. PICK k \in Q : channel'[k] = channel[a]
      BY <1>2, <2>5
    <3> QED BY <1>2, <1>5, <2>1, <2>3, <3>1
  <2> QED BY <2>4, <2>5
<1> QED BY <1>9, <1>10, TilesNext DEF Q

(* After the last byte of an SDU there is none of it.                      *)
LEMMA NothingAfterLast ==
  ASSUME WholeInv, UmInv, 1 \in DOMAIN channel, Channel(1),
         NEW t \in Sdus, 1 \in PdusOf(t), Tiles(t), end(channel[1]) = N_bytes
  PROVE  \A sn \in SNs : ~Sending(sn, t)'
<1> DEFINE p == channel[1]
<1>1. UNCHANGED <<TX_Next, next_so, tx_sdu>>
  BY DEF Channel, umTxVars
<1>2. PICK at \in [DOMAIN channel' -> DOMAIN channel] :
        \A k \in PdusOf(t)' : k \in DOMAIN channel' /\ channel'[k] = channel[at[k]]
                              /\ at[k] \in PdusOf(t) /\ at[k] # 1
  BY ChannelCloses, PdusLeft
<1>3. PdusOf(t)' = {}
  <2> SUFFICES ASSUME NEW k \in PdusOf(t)' PROVE FALSE
    OBVIOUS
  <2>1. at[k] \in PdusOf(t) /\ at[k] # 1
    BY <1>2
  <2> DEFINE a == at[k]
  <2>2. 1 < a
    <3>1. channel \in Seq(UmPdu)
      BY DEF WholeInv, BearerTypes
    <3>2. a \in DOMAIN channel
      BY <2>1 DEF PdusOf
    <3> HIDE DEF a
    <3> QED BY <2>1, <3>1, <3>2 DEF a
  <2> HIDE DEF a
  <2>3. end(p) <= channel[a].so
    BY <2>1, <2>2 DEF Tiles, a
  <2>4. /\ channel[a].so \in 0..N_bytes /\ end(channel[a]) <= N_bytes
        /\ channel[a].so < end(channel[a]) /\ end(channel[a]) \in Nat
    BY <2>1, PdusNumbered DEF a
  <2> QED BY <2>3, <2>4, Constants
<1>4. tx_sdu.sdu # t
  <2> SUFFICES ASSUME tx_sdu.sdu = t PROVE FALSE
    OBVIOUS
  <2>1. end(p) <= next_so
    BY DEF Tiles
  <2>2. ~is_new
    BY KeptSdus
  <2>3. tx_sdu.left \in 1..N_bytes /\ next_so + tx_sdu.left = N_bytes /\ next_so \in 0..N_bytes
    BY <2>2 DEF WholeInv, BearerTypes, is_new, UmInv, TxInv
  <2> HIDE DEF p
  <2>4. N_bytes <= next_so
    BY <2>1 DEF p
  <2> QED BY <2>3, <2>4, Constants
<1> SUFFICES ASSUME NEW sn \in SNs, Sending(sn, t)' PROVE FALSE
  OBVIOUS
<1>5. \/ \E k \in DOMAIN channel' : Cut(channel'[k]) /\ channel'[k].sdu = t
      \/ tx_sdu'.sdu = t
  BY DEF Sending, Cut
<1>6. ASSUME NEW k \in DOMAIN channel', Cut(channel'[k]), channel'[k].sdu = t PROVE FALSE
  <2>1. k \in PdusOf(t)'
    BY <1>6 DEF PdusOf, Cut
  <2> QED BY <1>3, <2>1
<1> QED BY <1>1, <1>4, <1>5, <1>6

(* What NewestHeld says of the next state.                                 *)
LEMMA NewestNext ==
  ASSUME NEW K, Kept' = K,
         \A sn \in SNs, t \in K :
           /\ InEntry(rx_window'[sn], t) =>
                /\ rx_window'[sn].segments = {} /\ rx_window'[sn].total_sdu_length = 0
                /\ base(RX_Next_Highest', sn) = UM_Window_Size - 1
                /\ Sending(sn, t)'
           /\ ~InEntry(rx_window'[sn], t) /\ Sending(sn, t)' =>
                base(RX_Next_Highest', sn) >= UM_Window_Size
  PROVE  NewestHeld'
BY DEF NewestHeld, InEntry

(* What is on its way after a PDU has left the channel.                    *)
LEMMA SendingLeft ==
  ASSUME WholeInv, NEW i \in DOMAIN channel, Channel(i)
  PROVE  /\ \A sn, t : Sending(sn, t)' => Sending(sn, t)
         /\ \A sn, t : i \notin PdusOf(t) /\ Sending(sn, t) => Sending(sn, t)'
<1>1. UNCHANGED <<TX_Next, next_so, tx_sdu>>
  BY DEF Channel, umTxVars
<1>2. PICK at \in [DOMAIN channel' -> DOMAIN channel] :
        /\ \A k \in DOMAIN channel' : channel'[k] = channel[at[k]] /\ at[k] # i
        /\ \A a \in DOMAIN channel \ {i} : \E k \in DOMAIN channel' : at[k] = a
  BY ChannelCloses DEF Closer
<1>3. ASSUME NEW sn, NEW t, Sending(sn, t)' PROVE Sending(sn, t)
  BY <1>1, <1>2, <1>3 DEF Sending, Cut
<1>4. ASSUME NEW sn, NEW t, i \notin PdusOf(t), Sending(sn, t) PROVE Sending(sn, t)'
  <2>1. CASE tx_sdu # NoSdu /\ sn = TX_Next /\ tx_sdu.sdu = t
    BY <1>1, <2>1 DEF Sending, NoSdu
  <2>2. ASSUME NEW a \in DOMAIN channel, Cut(channel[a]), channel[a].sn = sn, channel[a].sdu = t
        PROVE  Sending(sn, t)'
    <3>1. a # i
      BY <1>4, <2>2 DEF PdusOf
    <3>2. PICK k \in DOMAIN channel' : channel'[k] = channel[a]
      BY <1>2, <3>1
    <3> QED BY <2>2, <3>2 DEF Sending, Cut
  <2> QED BY <1>4, <2>1, <2>2 DEF Sending
<1> QED BY <1>3, <1>4

(* The PDUs left are in the order they were.                               *)
LEMMA OrderLeft ==
  ASSUME WholeInv, UNCHANGED TX_Next, PdusInOrder, NEW i, Closer(channel', channel, i),
         \A a \in DOMAIN channel \ {i} : Cut(channel[a]) =>
           base(RX_Next_Highest', channel[a].sn) >= UM_Window_Size - 1
  PROVE  PdusInOrder'
<1>1. PICK at \in [DOMAIN channel' -> DOMAIN channel] :
        /\ \A k \in DOMAIN channel' : channel'[k] = channel[at[k]] /\ at[k] # i
        /\ \A j, k \in DOMAIN channel' : j < k => at[j] < at[k]
  BY DEF Closer
<1>2. ASSUME NEW j \in DOMAIN channel', Cut(channel'[j])
      PROVE  /\ base(RX_Next_Highest', channel'[j].sn) >= UM_Window_Size - 1
             /\ \A k \in DOMAIN channel' :
                  j < k /\ Cut(channel'[k]) => age(channel'[j].sn) >= age(channel'[k].sn)
  <2>1. channel'[j] = channel[at[j]] /\ at[j] \in DOMAIN channel \ {i}
    BY <1>1
  <2>2. base(RX_Next_Highest', channel'[j].sn) >= UM_Window_Size - 1
    BY <1>2, <2>1
  <2>3. ASSUME NEW k \in DOMAIN channel', j < k, Cut(channel'[k])
        PROVE  age(channel'[j].sn) >= age(channel'[k].sn)
    <3>1. channel'[k] = channel[at[k]] /\ at[k] \in DOMAIN channel /\ at[j] < at[k]
      BY <1>1, <2>3
    <3> QED BY <1>2, <2>1, <2>3, <3>1 DEF PdusInOrder
  <2> QED BY <2>2, <2>3
<1>3. \A sn : age(sn)' = age(sn)
  BY DEF age
<1> QED BY <1>2, <1>3 DEF PdusInOrder, Cut, age

(* A PDU leaves the channel, of no SDU that is kept and cut.               *)
LEMMA ChannelAlone ==
  ASSUME WholeInv, UmInv, InOrderInv, NEW i \in DOMAIN channel, Channel(i),
         UNCHANGED <<RX_Next_Highest, rx_window>>,
         Kept' \subseteq Kept, \A t \in Kept' : i \notin PdusOf(t)
  PROVE  InOrderInv'
<1>1. UNCHANGED <<TX_Next, next_so, tx_sdu>> /\ TX_Next \in SNs
  BY DEF Channel, umTxVars, UmInv, TxInv
<1>2. PdusInOrder'
  BY <1>1, ChannelCloses, OrderLeft DEF InOrderInv, PdusInOrder
<1> DEFINE K == Kept'
<1>3. Kept' = K /\ K \subseteq Kept /\ K \subseteq Sdus
  BY KeptSdus
<1>4. \A sn \in SNs, t \in K : Sending(sn, t)' <=> Sending(sn, t)
  BY SendingLeft
<1>5. \A t \in K : Tiles(t)'
  <2> SUFFICES ASSUME NEW t \in K PROVE Tiles(t)'
    OBVIOUS
  <2>1. Tiles(t) /\ t \in Sdus
    BY <1>3 DEF InOrderInv
  <2> QED BY <1>1, <2>1, TilesOthers
<1> HIDE DEF K
<1>6. NewestHeld'
  <2>1. \A sn \in SNs, t \in K :
           /\ InEntry(rx_window'[sn], t) =>
                /\ rx_window'[sn].segments = {} /\ rx_window'[sn].total_sdu_length = 0
                /\ base(RX_Next_Highest', sn) = UM_Window_Size - 1
                /\ Sending(sn, t)'
           /\ ~InEntry(rx_window'[sn], t) /\ Sending(sn, t)' =>
                base(RX_Next_Highest', sn) >= UM_Window_Size
    BY <1>3, <1>4 DEF InOrderInv, NewestHeld
  <2> QED BY <1>3, <2>1, NewestNext
<1> QED BY <1>2, <1>3, <1>5, <1>6 DEF InOrderInv

(* The window after a segment: complete, joined or stored in it, or moved. *)
LEMMA SegmentCases ==
  ASSUME WholeInv, UmInv, NEW i \in DOMAIN channel, NEW so, handle_segment(channel[i], so),
         NEW j, j = joined(place(channel[i], segment(channel[i], so)))
  PROVE  LET sn == channel[i].sn
             nh == RX_Next_Highest
         IN  /\ \A x \in SNs \ {sn} : rx_window'[x] \in {NoSegments, rx_window[x]}
             /\ rx_window'[sn] = IF j.complete THEN NoSegments ELSE j.pdu
             /\ RX_Next_Highest' = IF j.complete \/ base(nh, sn) < UM_Window_Size THEN nh
                                   ELSE (sn + 1) % mod
             /\ handed' = IF j.complete THEN [handed EXCEPT ![channel[i].sdu] = @ + 1] ELSE handed
<1> DEFINE p  == channel[i]
           sn == p.sn
           e  == place(p, segment(p, so))
           w  == [rx_window EXCEPT ![sn] = j.pdu]
           nn == (sn + 1) % mod
<1>1. /\ Cut(p) /\ so \in so_read(p) /\ j.pdu \in Entry
      /\ p.sdu \in Sdus /\ sn \in SNs /\ rx_window \in [SNs -> Entry]
  BY SegmentStored, ChannelPdu DEF WholeInv, BearerTypes
<1>2. /\ IF j.complete
         THEN LET w2 == dropped(w, {sn})
              IN  /\ buffer_updated(RX_Next_Highest,
                       IF sn = RX_Next_Reassembly THEN next_reassembly(w2) ELSE RX_Next_Reassembly, w2)
                  /\ deliver(j.pdu.sdu, j.pdu.next_expected_so)
         ELSE IF sn_in_reassembly_window(RX_Next_Highest, sn)
         THEN buffer_updated(RX_Next_Highest, RX_Next_Reassembly, w) /\ UNCHANGED handed
         ELSE LET w2 == window_moved(nn, w)
              IN  buffer_updated(nn, reassembly_moved(nn, w2), w2) /\ UNCHANGED handed
  BY DEF handle_segment
<1>3. /\ w \in [SNs -> Entry] /\ w[sn] = j.pdu /\ \A x \in SNs \ {sn} : w[x] = rx_window[x]
  <2> HIDE DEF sn
  <2> QED BY <1>1
<1>4. CASE j.complete
  <2> DEFINE w2 == dropped(w, {sn})
  <2>1. RX_Next_Highest' = RX_Next_Highest /\ rx_window' = w2 /\ deliver(j.pdu.sdu, j.pdu.next_expected_so)
    BY <1>2, <1>4 DEF buffer_updated
  <2>2. /\ \A x \in SNs : w2[x] \in {NoSegments, w[x]}
        /\ w2[sn] = NoSegments
    <3> HIDE DEF w
    <3> QED BY <1>1, <1>3, Dropping
  <2>3. j.pdu.sdu = p.sdu /\ j.pdu.next_expected_so = N_bytes
    <3>1. GoodEntry(e) /\ \A t \in Sdus : InEntry(e, t) => t = p.sdu
      BY <1>1, Placed
    <3>2. j \in Joining(e)
      <4> HIDE DEF e, p
      <4> QED BY <1>1, <3>1, Joined DEF e, p
    <3> HIDE DEF e
    <3>3. /\ j.pdu.sdu \in Sdus /\ HeadIn(e, j.pdu.sdu) /\ j.pdu.next_expected_so = N_bytes
      BY <1>1, <1>4, <3>2 DEF Joining, Entry
    <3>4. InEntry(e, j.pdu.sdu)
      BY <3>3 DEF HeadIn, InEntry
    <3> QED BY <3>1, <3>3, <3>4
  <2>4. handed' = [handed EXCEPT ![p.sdu] = @ + 1]
    BY <2>1, <2>3 DEF deliver
  <2> HIDE DEF w2, w
  <2>5. \A x \in SNs \ {sn} : rx_window'[x] \in {NoSegments, rx_window[x]}
    BY <1>3, <2>1, <2>2
  <2>6. rx_window'[sn] = NoSegments
    BY <2>1, <2>2
  <2> QED BY <1>4, <2>1, <2>4, <2>5, <2>6
<1>5. CASE ~j.complete /\ base(RX_Next_Highest, sn) < UM_Window_Size
  <2>1. RX_Next_Highest' = RX_Next_Highest /\ rx_window' = w /\ handed' = handed
    BY <1>2, <1>5 DEF buffer_updated, sn_in_reassembly_window
  <2> HIDE DEF w
  <2> QED BY <1>3, <1>5, <2>1
<1>6. CASE ~j.complete /\ ~(base(RX_Next_Highest, sn) < UM_Window_Size)
  <2> DEFINE w2 == window_moved(nn, w)
  <2>1. RX_Next_Highest' = nn /\ rx_window' = w2 /\ handed' = handed
    BY <1>2, <1>6 DEF buffer_updated, sn_in_reassembly_window
  <2>2. base(nn, sn) < UM_Window_Size
    BY <1>1, NewestLast, Constants
  <2> HIDE DEF w, nn
  <2>3. /\ \A x \in SNs : w2[x] \in {NoSegments, w[x]}
        /\ w2[sn] = w[sn]
    BY <1>1, <2>2 DEF window_moved, dropped, sn_in_reassembly_window
  <2> HIDE DEF w2
  <2> QED BY <1>3, <1>6, <2>1, <2>3 DEF nn
<1> QED BY <1>4, <1>5, <1>6

(* A number other than that of the first PDU, with more to come.           *)
LEMMA AgesApart ==
  ASSUME TX_Next \in SNs, NEW a \in SNs, NEW b \in SNs, age(a) = age(b)
  PROVE  a = b
<1>1. age(a) = IF TX_Next >= a THEN TX_Next - a ELSE TX_Next - a + mod
  BY AgeNext
<1>2. age(b) = IF TX_Next >= b THEN TX_Next - b ELSE TX_Next - b + mod
  BY AgeNext
<1>3. a \in Int /\ b \in Int /\ TX_Next \in Int /\ mod \in Int
      /\ a < mod /\ b < mod /\ 0 <= a /\ 0 <= b
  BY Constants
<1>4. CASE TX_Next >= a /\ TX_Next >= b
  <2>1. TX_Next - a = TX_Next - b
    BY <1>1, <1>2, <1>4
  <2> QED BY <1>3, <2>1
<1>5. CASE TX_Next >= a /\ ~(TX_Next >= b)
  <2>1. TX_Next - a = TX_Next - b + mod
    BY <1>1, <1>2, <1>5
  <2> QED BY <1>3, <2>1
<1>6. CASE ~(TX_Next >= a) /\ TX_Next >= b
  <2>1. TX_Next - a + mod = TX_Next - b
    BY <1>1, <1>2, <1>6
  <2> QED BY <1>3, <2>1
<1>7. CASE ~(TX_Next >= a) /\ ~(TX_Next >= b)
  <2>1. TX_Next - a + mod = TX_Next - b + mod
    BY <1>1, <1>2, <1>7
  <2> QED BY <1>3, <2>1
<1> QED BY <1>4, <1>5, <1>6, <1>7

LEMMA LaterSending ==
  ASSUME WholeInv, UmInv, InOrderInv, 1 \in DOMAIN channel, Cut(channel[1]),
         NEW sn \in SNs, NEW t \in Sdus, Sending(sn, t)
  PROVE  age(sn) <= age(channel[1].sn)
<1> DEFINE p == channel[1]
<1>1. p.sn \in SNs /\ TX_Next \in SNs
  BY ChannelPdu DEF UmInv, TxInv
<1>2. age(p.sn) \in SNs /\ age(sn) \in SNs /\ age(TX_Next) = 0
  BY <1>1, AgeNext, AgeOfNext
<1>3. PICK i \in DOMAIN channel :
        (Cut(channel[i]) /\ channel[i].sn = sn) \/ sn = TX_Next
  BY DEF Sending
<1>4. CASE sn = TX_Next
  BY <1>2, <1>4, Constants
<1>5. CASE Cut(channel[i]) /\ channel[i].sn = sn
  <2>1. CASE i = 1
    BY <1>2, <1>5, <2>1, Constants
  <2>2. CASE i # 1
    <3>1. channel \in Seq(UmPdu)
      BY DEF WholeInv, BearerTypes
    <3>2. 1 < i
      BY <2>2, <3>1
    <3>3. age(p.sn) >= age(sn)
      BY <1>5, <3>2 DEF InOrderInv, PdusInOrder
    <3> QED BY <1>2, <3>3, Constants
  <2> QED BY <2>1, <2>2
<1> QED BY <1>3, <1>4, <1>5

(* The upper edge of the window does not pass the PDUs that are to come.   *)
LEMMA EdgeBehindSending ==
  ASSUME WholeInv, UmInv, InOrderInv, 1 \in DOMAIN channel, Cut(channel[1]),
         RX_Next_Highest' \in {RX_Next_Highest, (channel[1].sn + 1) % mod},
         NEW sn \in SNs, NEW t \in Sdus, Sending(sn, t)
  PROVE  /\ base(RX_Next_Highest, sn) >= UM_Window_Size - 1 =>
              base(RX_Next_Highest', sn) >= UM_Window_Size - 1
         /\ base(RX_Next_Highest, sn) >= UM_Window_Size /\ sn # channel[1].sn =>
              base(RX_Next_Highest', sn) >= UM_Window_Size
<1> DEFINE p == channel[1]
<1>1. /\ p.sn \in SNs /\ TX_Next \in SNs
      /\ age(sn) <= age(p.sn) /\ age(p.sn) <= UM_Window_Size
  BY ChannelPdu, LaterSending DEF UmInv, TxInv, WholeInv, AgesOK
<1>2. age(sn) \in Nat /\ age(p.sn) \in Nat
  BY <1>1, AgeNext, Constants
<1>3. base((p.sn + 1) % mod, sn) = UM_Window_Size - 1 + (age(p.sn) - age(sn))
  BY <1>1, AfterMove
<1>4. sn # p.sn => age(sn) # age(p.sn)
  BY <1>1, AgesApart
<1> DEFINE b == base((p.sn + 1) % mod, sn)  x == age(sn)  y == age(p.sn)
<1> HIDE DEF b, x, y
<1>5. b >= UM_Window_Size - 1 /\ (sn # p.sn => b >= UM_Window_Size)
  BY <1>1, <1>2, <1>3, <1>4, Constants DEF b, x, y
<1> QED BY <1>5 DEF b

(* A segment arrives in order: the other SDUs.                             *)
LEMMA OtherKept ==
  ASSUME WholeInv, UmInv, InOrderInv, 1 \in DOMAIN channel, Channel(1), Cut(channel[1]),
         RX_Next_Highest' \in {RX_Next_Highest, (channel[1].sn + 1) % mod},
         \A x \in SNs \ {channel[1].sn} : rx_window'[x] \in {NoSegments, rx_window[x]},
         \A t \in Sdus : InEntry(rx_window'[channel[1].sn], t) => t = channel[1].sdu,
         NEW t \in Kept, t # channel[1].sdu
  PROVE  /\ \A sn \in SNs : ~InEntry(rx_window'[sn], t)
         /\ \A sn \in SNs : Sending(sn, t)' => base(RX_Next_Highest', sn) >= UM_Window_Size
         /\ Tiles(t)'
<1> DEFINE p == channel[1]
<1>1. /\ t \in Sdus /\ TX_Next \in SNs /\ RX_Next_Highest \in SNs /\ p.sn \in SNs /\ p.sdu \in Sdus
      /\ rx_window \in [SNs -> Entry]
  BY KeptSdus, ChannelPdu DEF UmInv, TxInv, RxType, WholeInv, BearerTypes
<1>2. \A sn \in SNs : ~InEntry(rx_window[sn], t)
  BY OldestFirst
<1>3. ~InEntry(NoSegments, t)
  BY <1>1, NoSdus DEF NoSegments, InEntry
<1>4. \A sn \in SNs : Sending(sn, t)' => Sending(sn, t)
  BY SendingLeft
<1>5. \A sn \in SNs : Sending(sn, t) => sn # p.sn
  <2>1. Sending(p.sn, p.sdu)
    BY KeptSdus
  <2> QED BY <1>1, <2>1, KeptSdus DEF WholeInv, NumbersOK
<1>6. \A sn \in SNs : Sending(sn, t) => base(RX_Next_Highest, sn) >= UM_Window_Size
  BY <1>2 DEF InOrderInv, NewestHeld
<1>7. \A sn \in SNs : Sending(sn, t) => base(RX_Next_Highest', sn) >= UM_Window_Size
  BY <1>1, <1>5, <1>6, EdgeBehindSending
<1>8. \A sn \in SNs : ~InEntry(rx_window'[sn], t)
  <2> SUFFICES ASSUME NEW sn \in SNs, InEntry(rx_window'[sn], t) PROVE FALSE
    OBVIOUS
  <2>1. sn # p.sn
    BY <1>1
  <2>2. rx_window'[sn] \in {NoSegments, rx_window[sn]}
    BY <2>1
  <2> QED BY <1>2, <1>3, <2>2
<1>9. Tiles(t)'
  <2>1. 1 \notin PdusOf(t) /\ Tiles(t)
    BY DEF PdusOf, InOrderInv
  <2>2. \A sn \in SNs : Sending(sn, t) =>
           rx_window'[sn].next_expected_so = rx_window[sn].next_expected_so
    <3> SUFFICES ASSUME NEW sn \in SNs, Sending(sn, t)
                 PROVE  rx_window'[sn].next_expected_so = rx_window[sn].next_expected_so
      OBVIOUS
    <3>1. sn \notin held(rx_window)
      <4>1. base(RX_Next_Highest, sn) >= UM_Window_Size /\ base(RX_Next_Highest, sn) \in SNs
        BY <1>1, <1>6, Places
      <4> QED BY <4>1, Constants DEF WholeInv, AgesOK
    <3>2. rx_window[sn] = NoSegments
      BY <3>1 DEF held
    <3>3. rx_window'[sn] \in {NoSegments, rx_window[sn]}
      BY <1>5
    <3> QED BY <3>2, <3>3
  <2> QED BY <1>1, <2>1, <2>2, TilesOthers
<1> QED BY <1>4, <1>7, <1>8, <1>9

(* A segment arrives in order: its own SDU.                                *)
LEMMA SameKept ==
  ASSUME WholeInv, UmInv, CutShort, LowerEdge, InOrderInv, 1 \in DOMAIN channel, Channel(1),
         NEW so, handle_segment(channel[1], so), channel[1].sdu \in Kept,
         NEW t, t = channel[1].sdu, NEW s, s = channel[1].sn
  PROVE  /\ \A sn \in SNs : InEntry(rx_window'[sn], t) =>
              /\ rx_window'[sn].segments = {} /\ rx_window'[sn].total_sdu_length = 0
              /\ base(RX_Next_Highest', sn) = UM_Window_Size - 1
              /\ Sending(sn, t)'
         /\ \A sn \in SNs : ~InEntry(rx_window'[sn], t) => ~Sending(sn, t)'
         /\ Tiles(t)'
         /\ IF channel[1].si = "last" THEN handed' = [handed EXCEPT ![t] = @ + 1]
            ELSE rx_window'[channel[1].sn].sdu = t /\ handed' = handed
<1> DEFINE p == channel[1]  nh == RX_Next_Highest
           j == joined(place(p, segment(p, so)))
<1>1. /\ t \in Sdus /\ TX_Next \in SNs /\ nh \in SNs /\ s \in SNs /\ s = p.sn /\ Cut(p) /\ so \in so_read(p)
      /\ 1 \in PdusOf(t) /\ Tiles(t) /\ UNCHANGED <<TX_Next, tx_sdu, next_so>>
  BY ChannelPdu, SegmentStored
     DEF UmInv, TxInv, RxType, PdusOf, InOrderInv, Channel, umTxVars
<1>2. /\ \A x \in SNs \ {s} : rx_window'[x] \in {NoSegments, rx_window[x]}
      /\ rx_window'[s] = IF j.complete THEN NoSegments ELSE j.pdu
      /\ RX_Next_Highest' = IF j.complete \/ base(nh, s) < UM_Window_Size THEN nh
                            ELSE (s + 1) % mod
      /\ handed' = IF j.complete THEN [handed EXCEPT ![t] = @ + 1] ELSE handed
  BY SegmentCases
<1>3. /\ j.complete <=> p.si = "last"
      /\ j.pdu.segments = {} /\ j.pdu.sdu = t /\ j.pdu.next_expected_so = end(p)
      /\ p.si # "last" => j.pdu.total_sdu_length = 0
  BY <1>1, KeptJoined
<1>4. base(nh, s) = UM_Window_Size - 1 \/ base(nh, s) >= UM_Window_Size
  BY <1>1, KeptEntry
<1>5. rx_window[s].next_expected_so = p.so
  BY <1>1, KeptEntry
<1>6. ~InEntry(NoSegments, t)
  BY <1>1, NoSdus DEF NoSegments, InEntry
<1>7. \A x \in SNs \ {s} : ~InEntry(rx_window'[x], t)
  <2> SUFFICES ASSUME NEW x \in SNs \ {s}, InEntry(rx_window'[x], t) PROVE FALSE
    OBVIOUS
  <2>1. InEntry(rx_window[x], t)
    BY <1>2, <1>6
  <2> QED BY <1>1, <2>1, OldestFirst
<1> HIDE DEF j
<1>8. CASE p.si = "last"
  <2>1. end(p) = N_bytes
    BY <1>8, ChannelPdu DEF GoodPdu, end
  <2>2. \A x \in SNs : ~Sending(x, t)'
    BY <1>1, <2>1, NothingAfterLast
  <2>3. rx_window'[s] = NoSegments
    BY <1>2, <1>3, <1>8
  <2>4. \A x \in SNs : ~InEntry(rx_window'[x], t)
    BY <1>6, <1>7, <2>3
  <2>6. PdusOf(t)' = {} /\ tx_sdu'.sdu # t
    <3>2. PdusOf(t)' = {}
      <4> SUFFICES ASSUME NEW i \in PdusOf(t)' PROVE FALSE
        OBVIOUS
      <4>1. i \in DOMAIN channel' /\ Cut(channel'[i]) /\ channel'[i].sdu = t
        BY DEF PdusOf, Cut
      <4>2. channel'[i].sn \in SNs
        BY <4>1, ChannelShrinks, ChannelPdu
      <4>3. PICK x \in SNs : x = channel'[i].sn
        BY <4>2
      <4>4. Sending(x, t)'
        BY <4>1, <4>3 DEF Sending, Cut
      <4> QED BY <2>2, <4>4
    <3>3. tx_sdu.sdu = t => tx_sdu # NoSdu
      BY <1>1, NoSdus DEF NoSdu
    <3>4. tx_sdu'.sdu = t => Sending(TX_Next, t)'
      BY <1>1, <3>3 DEF Sending, NoSdu
    <3> QED BY <1>1, <2>2, <3>2, <3>4
  <2>7. Tiles(t)'
    <3> DEFINE Q == PdusOf(t)'
    <3>1. Q = {}
      BY <2>6
    <3> HIDE DEF Q
    <3> QED BY <2>6, <3>1, TilesNext DEF Q
  <2> QED BY <1>2, <1>3, <1>8, <2>2, <2>4, <2>7
<1>9. CASE p.si # "last"
  <2>1. rx_window'[s] = j.pdu /\ InEntry(rx_window'[s], t)
    BY <1>2, <1>3, <1>9 DEF InEntry
  <2>2. base(RX_Next_Highest', s) = UM_Window_Size - 1
    <3>1. CASE base(nh, s) < UM_Window_Size
      <4>1. base(nh, s) \in SNs /\ RX_Next_Highest' = nh
        BY <1>1, <1>2, <3>1, Places
      <4>2. base(nh, s) = UM_Window_Size - 1
        BY <1>4, <3>1, <4>1, Constants
      <4> QED BY <4>1, <4>2
    <3>2. CASE ~(base(nh, s) < UM_Window_Size)
      BY <1>1, <1>2, <1>3, <1>9, <3>2, NewestLast
    <3> QED BY <3>1, <3>2
  <2>3. Tiles(t)'
    BY <1>1, <1>3, <1>5, <2>1, TilesJoined
  <2>4. Sending(s, t)'
    <3>1. end(p) # N_bytes
      <4>1. p.so + p.len < N_bytes
        BY <1>1, <1>9, ChannelPdu DEF CutShort, UmPdu, Cut
      <4>2. p.so \in 0..N_bytes /\ p.len \in 1..N_bytes /\ N_bytes \in Nat
        BY ChannelPdu, Constants
      <4> HIDE DEF p
      <4> QED BY <4>1, <4>2 DEF end
    <3>2. \/ \E k \in PdusOf(t) : channel[k].so = end(p)
          \/ tx_sdu.sdu = t
      BY <1>1, <3>1 DEF Tiles
    <3>3. ASSUME tx_sdu.sdu = t PROVE Sending(s, t)'
      <4>1. Sending(TX_Next, t) /\ Sending(s, t)
        BY <1>1, <3>3, KeptSdus
      <4>2. TX_Next = s
        BY <1>1, <4>1, KeptSdus DEF WholeInv, NumbersOK
      <4>3. tx_sdu # NoSdu
        BY <1>1, <3>3, NoSdus DEF NoSdu
      <4> QED BY <1>1, <3>3, <4>2, <4>3 DEF Sending, NoSdu
    <3>4. ASSUME NEW k \in PdusOf(t), channel[k].so = end(p) PROVE Sending(s, t)'
      <4>1. k # 1
        <5>1. p.so < end(p)
          BY <1>1, PdusNumbered
        <5>2. p.so \in Nat /\ end(p) \in Nat
          BY <1>1, PdusNumbered, Constants
        <5> HIDE DEF p
        <5> QED BY <3>4, <5>1, <5>2 DEF p
      <4>2. PICK at \in [DOMAIN channel' -> DOMAIN channel] :
               \A a \in PdusOf(t) \ {1} :
                  \E m \in PdusOf(t)' : at[m] = a /\ channel'[m] = channel[a]
        BY ChannelCloses, PdusLeft
      <4>3. PICK m \in PdusOf(t)' : channel'[m] = channel[k]
        BY <3>4, <4>1, <4>2
      <4>4. m \in DOMAIN channel' /\ Cut(channel'[m]) /\ channel'[m].sdu = t
        BY DEF PdusOf, Cut
      <4>5. channel[k].sn = s
        BY <1>1, <3>4, PdusNumbered
      <4> QED BY <4>3, <4>4, <4>5 DEF Sending, Cut
    <3> QED BY <3>2, <3>3, <3>4
  <2>5. \A x \in SNs \ {s} : ~Sending(x, t)'
    <3>1. \A x \in SNs : Sending(x, t)' => Sending(x, t)
      BY SendingLeft
    <3>2. \A x \in SNs : Sending(x, t) => x = s
      BY <1>1, PdusNumbered
    <3> QED BY <3>1, <3>2
  <2> HIDE DEF p
  <2>6. rx_window'[s].segments = {} /\ rx_window'[s].total_sdu_length = 0 /\ rx_window'[s].sdu = t
    BY <1>3, <1>9, <2>1
  <2>7. handed' = handed
    BY <1>2, <1>3, <1>9
  <2> QED BY <1>7, <1>9, <2>1, <2>2, <2>3, <2>4, <2>5, <2>6, <2>7 DEF p
<1> QED BY <1>8, <1>9

(* A segment arrives in order.                                             *)
LEMMA SegmentInOrder ==
  ASSUME WholeInv, UmInv, CutShort, LowerEdge, InOrderInv, 1 \in DOMAIN channel, Channel(1),
         NEW so, handle_segment(channel[1], so), Kept' = Kept
  PROVE  InOrderInv'
<1> DEFINE p == channel[1]
           j == joined(place(p, segment(p, so)))
<1>1. /\ Cut(p) /\ p.sn \in SNs /\ p.sdu \in Sdus /\ UNCHANGED TX_Next
      /\ TX_Next \in SNs /\ so \in so_read(p)
  BY ChannelPdu, SegmentStored DEF UmInv, TxInv, Channel, umTxVars
<1>2. /\ \A x \in SNs \ {p.sn} : rx_window'[x] \in {NoSegments, rx_window[x]}
      /\ RX_Next_Highest' \in {RX_Next_Highest, (p.sn + 1) % mod}
  BY SegmentCases
<1>3. \A t \in Sdus : InEntry(rx_window'[p.sn], t) => t = p.sdu
  <2>1. WindowMoves
    BY SegmentMoves
  <2>2. Numbered(p.sn, p.sdu)
    BY <1>1 DEF Numbered
  <2> QED BY <1>1, <2>1, <2>2 DEF WindowMoves, WholeInv, NumbersOK
<1>4. PdusInOrder'
  <2>1. \A a \in DOMAIN channel : Cut(channel[a]) =>
          base(RX_Next_Highest', channel[a].sn) >= UM_Window_Size - 1
    <3> SUFFICES ASSUME NEW a \in DOMAIN channel, Cut(channel[a])
                 PROVE  base(RX_Next_Highest', channel[a].sn) >= UM_Window_Size - 1
      OBVIOUS
    <3>1. /\ channel[a].sn \in SNs /\ channel[a].sdu \in Sdus
          /\ Sending(channel[a].sn, channel[a].sdu)
      BY ChannelPdu, KeptSdus
    <3>2. base(RX_Next_Highest, channel[a].sn) >= UM_Window_Size - 1
      BY DEF InOrderInv, PdusInOrder
    <3> QED BY <1>1, <1>2, <3>1, <3>2, EdgeBehindSending
  <2> QED BY <1>1, <2>1, ChannelCloses, OrderLeft DEF InOrderInv
<1> DEFINE K == Kept
<1>5. Kept' = K /\ K \subseteq Sdus
  BY KeptSdus
<1>6. ASSUME NEW t \in K
      PROVE  /\ \A sn \in SNs :
                  /\ InEntry(rx_window'[sn], t) =>
                       /\ rx_window'[sn].segments = {} /\ rx_window'[sn].total_sdu_length = 0
                       /\ base(RX_Next_Highest', sn) = UM_Window_Size - 1
                       /\ Sending(sn, t)'
                  /\ ~InEntry(rx_window'[sn], t) /\ Sending(sn, t)' =>
                       base(RX_Next_Highest', sn) >= UM_Window_Size
             /\ Tiles(t)'
  <2>1. CASE t = p.sdu
    <3>1. PICK s : s = p.sn
      OBVIOUS
    <3> QED BY <1>6, <2>1, <3>1, SameKept
  <2>2. CASE t # p.sdu
    BY <1>1, <1>2, <1>3, <1>6, <2>2, OtherKept
  <2> QED BY <2>1, <2>2
<1> HIDE DEF K
<1>7. NewestHeld'
  <2>1. \A sn \in SNs, t \in K :
           /\ InEntry(rx_window'[sn], t) =>
                /\ rx_window'[sn].segments = {} /\ rx_window'[sn].total_sdu_length = 0
                /\ base(RX_Next_Highest', sn) = UM_Window_Size - 1
                /\ Sending(sn, t)'
           /\ ~InEntry(rx_window'[sn], t) /\ Sending(sn, t)' =>
                base(RX_Next_Highest', sn) >= UM_Window_Size
    BY <1>6
  <2> QED BY <1>5, <2>1, NewestNext
<1> QED BY <1>4, <1>5, <1>6, <1>7 DEF InOrderInv

(* A PDU arrives in order: nothing is dropped.                             *)
LEMMA SomewhereOrNot ==
  ASSUME NEW t, t # None
  PROVE  t \in Somewhere <=>
           \/ t \in Elems(tx_sdu_queue) \/ t = tx_sdu.sdu
           \/ \E i \in DOMAIN channel : channel[i].sdu = t
           \/ \E sn \in SNs : InEntry(rx_window[sn], t)
           \/ t \in Sdus /\ handed[t] > 0
BY DEF Somewhere, sdus_in, InEntry, Elems

LEMMA SegmentKept ==
  ASSUME WholeInv, UmInv, CutShort, LowerEdge, InOrderInv, 1 \in DOMAIN channel, Channel(1),
         NEW so, handle_segment(channel[1], so), NEW t \in Kept, t \in Somewhere
  PROVE  t \in Somewhere'
<1> DEFINE p == channel[1]
           j == joined(place(p, segment(p, so)))
<1>1. /\ Cut(p) /\ p.sn \in SNs /\ p.sdu \in Sdus /\ UNCHANGED <<tx_sdu, tx_sdu_queue>>
      /\ t \in Sdus /\ t # None /\ handed \in [Sdus \cup {Corrupt} -> {0, 1}]
  BY ChannelPdu, SegmentStored, KeptSdus
     DEF UmInv, TxInv, Channel, umTxVars, WholeInv, BearerTypes
<1>2. handed' \in {handed, [handed EXCEPT ![p.sdu] = @ + 1]}
  BY SegmentCases
<1>3. handed[t] > 0 => handed'[t] > 0
  BY <1>1, <1>2
<1>4. ASSUME t = p.sdu PROVE t \in Somewhere'
  <2>1. PICK s \in SNs : s = p.sn
    BY <1>1
  <2>2. IF p.si = "last" THEN handed' = [handed EXCEPT ![t] = @ + 1]
        ELSE rx_window'[s].sdu = t
    BY <1>4, <2>1, SameKept
  <2>3. CASE p.si = "last"
    <3>1. handed'[t] > 0
      BY <1>1, <2>2, <2>3
    <3> QED BY <1>1, <3>1 DEF Somewhere
  <2>4. CASE p.si # "last"
    BY <2>2, <2>4 DEF Somewhere, sdus_in
  <2> QED BY <2>3, <2>4
<1>5. ASSUME t # p.sdu PROVE t \in Somewhere'
  <2>1. \A sn \in SNs : ~InEntry(rx_window[sn], t)
    BY <1>1, <1>5, OldestFirst
  <2>2. \/ t \in Elems(tx_sdu_queue) \/ t = tx_sdu.sdu
        \/ \E i \in DOMAIN channel : channel[i].sdu = t
        \/ handed[t] > 0
    BY <1>1, <2>1, SomewhereOrNot
  <2>3. CASE t \in Elems(tx_sdu_queue) \/ t = tx_sdu.sdu
    BY <1>1, <2>3 DEF Somewhere, Elems
  <2>4. ASSUME NEW i \in DOMAIN channel, channel[i].sdu = t PROVE t \in Somewhere'
    <3>1. i # 1
      BY <1>5, <2>4
    <3>2. PICK k \in DOMAIN channel' : channel'[k] = channel[i]
      BY <3>1, ChannelCloses DEF Closer
    <3> QED BY <2>4, <3>2 DEF Somewhere, Elems
  <2>5. CASE handed[t] > 0
    BY <1>1, <1>3, <2>5 DEF Somewhere
  <2> QED BY <2>2, <2>3, <2>4, <2>5
<1> QED BY <1>4, <1>5

LEMMA KeptNext ==
  ASSUME CutShort', LowerEdge', in_order' => in_order, in_order' => InOrderInv',
         NEW K, Kept' = K, in_order' => \A t \in K : t \in Somewhere'
  PROVE  KeptInv'
<1>1. NoneMissing'
  BY DEF NoneMissing
<1> QED BY <1>1 DEF KeptInv

LEMMA CutShortLeft ==
  ASSUME WholeInv, CutShort, NEW i \in DOMAIN channel, Channel(i)
  PROVE  CutShort'
<1>1. \A k \in DOMAIN channel' : \E a \in DOMAIN channel : channel'[k] = channel[a]
  BY ChannelShrinks
<1> QED BY <1>1 DEF CutShort

(* A PDU leaves the channel, the window stays.                             *)
LEMMA SomewhereLeft ==
  ASSUME WholeInv, NEW i \in DOMAIN channel, Channel(i), UNCHANGED rx_window,
         NEW t \in Sdus, t \in Somewhere, handed[t] > 0 => handed'[t] > 0,
         channel[i].sdu = t => handed'[t] > 0
  PROVE  t \in Somewhere'
<1>1. UNCHANGED <<tx_sdu, tx_sdu_queue>> /\ t # None
  BY NoSdus DEF Channel, umTxVars
<1>2. \/ t \in Elems(tx_sdu_queue) \/ t = tx_sdu.sdu
      \/ \E a \in DOMAIN channel : channel[a].sdu = t
      \/ \E sn \in SNs : InEntry(rx_window[sn], t)
      \/ handed[t] > 0
  BY <1>1, SomewhereOrNot
<1>3. CASE t \in Elems(tx_sdu_queue) \/ t = tx_sdu.sdu
  BY <1>1, <1>3 DEF Somewhere, Elems
<1>4. ASSUME NEW a \in DOMAIN channel, channel[a].sdu = t PROVE t \in Somewhere'
  <2>1. CASE a = i
    BY <1>4, <2>1 DEF Somewhere
  <2>2. CASE a # i
    <3>1. PICK k \in DOMAIN channel' : channel'[k] = channel[a]
      BY <2>2, ChannelCloses DEF Closer
    <3> QED BY <1>4, <3>1 DEF Somewhere, Elems
  <2> QED BY <2>1, <2>2
<1>5. ASSUME NEW sn \in SNs, InEntry(rx_window[sn], t) PROVE t \in Somewhere'
  BY <1>5 DEF Somewhere, sdus_in, InEntry
<1>6. CASE handed[t] > 0
  BY <1>6 DEF Somewhere
<1> QED BY <1>2, <1>3, <1>4, <1>5, <1>6

(* handle_data_pdu()                                                       *)
LEMMA ReceiveKept ==
  ASSUME WholeInv, UmInv, KeptInv, NEW i \in DOMAIN channel, Receive(i)
  PROVE  KeptInv'
<1>1. /\ Channel(i) /\ in_order' = (in_order /\ i = 1)
      /\ channel[i] \in UmPdu /\ GoodPdu(channel[i]) /\ channel[i].sdu \in Sdus
      /\ written' = written /\ discarded' = discarded
  BY ChannelPdu DEF Receive, Channel, umTxVars
<1>2. CutShort /\ LowerEdge /\ CutShort'
  BY <1>1, CutShortLeft DEF KeptInv
<1> DEFINE K == Kept
<1>3. K \subseteq Sdus /\ None \notin K /\ (in_order => InOrderInv /\ \A t \in K : t \in Somewhere)
  BY KeptSdus DEF KeptInv, NoneMissing
<1>4. handed \in [Sdus \cup {Corrupt} -> {0, 1}]
  BY DEF WholeInv, BearerTypes
<1>5. ASSUME handle_full(channel[i]) \/ handle_invalid_sn(channel[i]), UNCHANGED affected
      PROVE  KeptInv'
  <2>1. UNCHANGED <<RX_Next_Reassembly, RX_Timer_Trigger, RX_Next_Highest, rx_window, reassembly_timer>>
    BY <1>5 DEF handle_full, handle_invalid_sn, umRxVars
  <2>2. LowerEdge'
    BY <1>2, <2>1, EdgeAlone
  <2>3. Kept' = K
    BY <1>1, <1>5 DEF Kept, Live
  <2>4. /\ Cut(channel[i]) => handle_invalid_sn(channel[i]) /\ handed' = handed
        /\ ~Cut(channel[i]) => handed' = [handed EXCEPT ![channel[i].sdu] = @ + 1]
    BY <1>1, <1>5, FullMoves DEF handle_full, handle_invalid_sn, Cut, umRxVars
  <2>5. in_order' /\ Cut(channel[i]) => channel[i].sdu \notin K
    BY <1>1, <1>2, <1>3, <2>4, KeptEntry DEF handle_invalid_sn
  <2>6. in_order' => \A t \in K : i \notin PdusOf(t)
    BY <2>5 DEF PdusOf
  <2>7. in_order' => InOrderInv'
    BY <1>1, <1>3, <2>1, <2>3, <2>6, ChannelAlone
  <2>8. ASSUME in_order', NEW t \in K PROVE t \in Somewhere'
    <3>1. /\ handed[t] > 0 => handed'[t] > 0
          /\ channel[i].sdu = t => handed'[t] > 0
      <4>1. t \in Sdus /\ handed[t] \in {0, 1} /\ handed[channel[i].sdu] \in {0, 1}
        BY <1>1, <1>3, <1>4
      <4>2. CASE Cut(channel[i])
        <5>1. channel[i].sdu # t /\ handed' = handed
          BY <2>4, <2>5, <2>8, <4>2
        <5> QED BY <5>1
      <4>3. CASE ~Cut(channel[i])
        <5>1. handed' = [handed EXCEPT ![channel[i].sdu] = @ + 1]
          BY <2>4, <4>3
        <5>2. handed'[t] = IF t = channel[i].sdu THEN handed[t] + 1 ELSE handed[t]
          BY <1>4, <4>1, <5>1
        <5> QED BY <4>1, <5>2
      <4> QED BY <4>2, <4>3
    <3> QED BY <1>1, <1>3, <2>1, <2>8, <3>1, SomewhereLeft
  <2> QED BY <1>1, <1>2, <2>2, <2>3, <2>7, <2>8, KeptNext
<1>6. ASSUME NEW so \in 0..N_bytes, handle_segment(channel[i], so),
             affected' = affected \cup (IF so = channel[i].from THEN {} ELSE {channel[i].sdu})
      PROVE  KeptInv'
  <2>1. LowerEdge'
    BY <1>2, <1>6, SegmentEdge
  <2>2. so = channel[i].from
    BY <1>1, <1>6, SegmentStored DEF GoodPdu
  <2>3. Kept' = K
    BY <1>1, <1>6, <2>2 DEF Kept, Live
  <2>4. in_order' => InOrderInv'
    BY <1>1, <1>2, <1>3, <1>6, <2>3, SegmentInOrder
  <2>5. ASSUME in_order', NEW t \in K PROVE t \in Somewhere'
    BY <1>1, <1>2, <1>3, <1>6, <2>5, SegmentKept
  <2> QED BY <1>1, <1>2, <2>1, <2>3, <2>4, <2>5, KeptNext
<1> QED BY <1>5, <1>6 DEF Receive

(* The MAC loses a PDU.                                                    *)
LEMMA LoseKept ==
  ASSUME WholeInv, UmInv, KeptInv, NEW i \in DOMAIN channel, Lose(i)
  PROVE  KeptInv'
<1>1. /\ Channel(i) /\ in_order' = in_order /\ channel[i].sdu \in Sdus
      /\ affected' = affected \cup {channel[i].sdu}
      /\ written' = written /\ discarded' = discarded
      /\ UNCHANGED <<RX_Next_Reassembly, RX_Timer_Trigger, RX_Next_Highest, rx_window,
                     reassembly_timer, handed>>
  BY ChannelPdu DEF Lose, Channel, umTxVars, umRxVars
<1>2. CutShort' /\ LowerEdge'
  BY <1>1, CutShortLeft, EdgeAlone DEF KeptInv
<1> DEFINE K == Kept \ {channel[i].sdu}
<1>3. K \subseteq Sdus /\ (in_order => InOrderInv /\ \A t \in K : t \in Somewhere)
  BY KeptSdus DEF KeptInv, NoneMissing
<1>4. Kept' = K
  BY <1>1 DEF Kept, Live
<1>5. in_order' => InOrderInv'
  <2>1. \A t \in K : i \notin PdusOf(t)
    BY DEF PdusOf
  <2> QED BY <1>1, <1>3, <1>4, <2>1, ChannelAlone
<1>6. ASSUME in_order', NEW t \in K PROVE t \in Somewhere'
  BY <1>1, <1>3, <1>6, SomewhereLeft
<1> QED BY <1>1, <1>2, <1>4, <1>5, <1>6, KeptNext

(* t-Reassembly expires: what it drops is no longer kept.                  *)
LEMMA ExpireKept ==
  ASSUME WholeInv, UmInv, KeptInv, Expire
  PROVE  KeptInv'
<1> DEFINE D == sdus_in(rx_window, expired_sns)
           K == Kept \ D
<1>1. /\ timer_expired /\ in_order' = in_order /\ affected' = affected \cup D
      /\ UNCHANGED <<channel, TX_Next, next_so, tx_sdu, tx_sdu_queue, written, discarded>>
      /\ RX_Next_Highest' = RX_Next_Highest /\ handed' = handed
      /\ rx_window' = dropped(rx_window, expired_sns)
      /\ RX_Next_Highest \in SNs /\ rx_window \in [SNs -> Entry]
  BY DEF Expire, timer_expired, umTxVars, UmInv, RxType, WholeInv, BearerTypes
<1>2. CutShort'
  BY <1>1 DEF KeptInv, CutShort
<1>3. LowerEdge'
  BY <1>1, ExpiryEdge DEF KeptInv
<1>4. Kept' = K
  <2> HIDE DEF D
  <2> QED BY <1>1 DEF Kept, Live
<1>5. K \subseteq Sdus /\ K \subseteq Kept /\ None \notin K
      /\ (in_order => InOrderInv /\ \A t \in K : t \in Somewhere)
  BY KeptSdus DEF KeptInv, NoneMissing
<1>6. /\ rx_window' \in [SNs -> Entry]
      /\ \A sn \in SNs : rx_window'[sn] = IF sn \in expired_sns THEN NoSegments ELSE rx_window[sn]
  BY <1>1, Dropping DEF dropped
<1>7. \A sn \in SNs, t \in K : InEntry(rx_window'[sn], t) <=> InEntry(rx_window[sn], t)
  <2> SUFFICES ASSUME NEW sn \in SNs, NEW t \in K
               PROVE  InEntry(rx_window'[sn], t) <=> InEntry(rx_window[sn], t)
    OBVIOUS
  <2>1. CASE sn \in expired_sns
    <3>1. ~InEntry(rx_window[sn], t)
      BY <2>1 DEF sdus_in, InEntry
    <3>2. ~InEntry(NoSegments, t)
      BY <1>5 DEF InEntry, NoSegments
    <3> QED BY <1>6, <2>1, <3>1, <3>2
  <2>2. CASE sn \notin expired_sns
    BY <1>6, <2>2
  <2> QED BY <2>1, <2>2
<1>8. \A sn \in SNs, t \in K : InEntry(rx_window[sn], t) => rx_window'[sn] = rx_window[sn]
  <2> SUFFICES ASSUME NEW sn \in SNs, NEW t \in K, InEntry(rx_window[sn], t)
               PROVE  sn \notin expired_sns
    BY <1>6
  <2> QED BY DEF sdus_in, InEntry
<1> HIDE DEF K, D
<1>9. \A sn, t : Sending(sn, t)' <=> Sending(sn, t)
  BY <1>1 DEF Sending, NoSdu, Cut
<1>10. ASSUME in_order' PROVE InOrderInv'
  <2>1. InOrderInv
    BY <1>1, <1>5, <1>10
  <2>2. PdusInOrder'
    <3>1. \A sn : age(sn)' = age(sn)
      BY <1>1 DEF age
    <3> QED BY <1>1, <2>1, <3>1 DEF InOrderInv, PdusInOrder, Cut, age
  <2>3. NewestHeld'
    <3>1. \A sn \in SNs, t \in K :
             /\ InEntry(rx_window'[sn], t) =>
                  /\ rx_window'[sn].segments = {} /\ rx_window'[sn].total_sdu_length = 0
                  /\ base(RX_Next_Highest', sn) = UM_Window_Size - 1
                  /\ Sending(sn, t)'
             /\ ~InEntry(rx_window'[sn], t) /\ Sending(sn, t)' =>
                  base(RX_Next_Highest', sn) >= UM_Window_Size
      BY <1>1, <1>5, <1>7, <1>8, <1>9, <2>1 DEF InOrderInv, NewestHeld
    <3> QED BY <1>4, <3>1, NewestNext
  <2>4. ASSUME NEW t \in K PROVE Tiles(t)'
    <3>1. /\ t \in Sdus /\ Tiles(t) /\ TX_Next \in SNs
      BY <1>5, <2>1 DEF InOrderInv, UmInv, TxInv
    <3>2. \A sn \in SNs : Sending(sn, t) =>
             rx_window'[sn].next_expected_so = rx_window[sn].next_expected_so
      <4> SUFFICES ASSUME NEW sn \in SNs, Sending(sn, t), sn \in expired_sns
                   PROVE  rx_window[sn] = NoSegments
        BY <1>6
      <4>1. rx_window[sn] = NoSegments \/ InEntry(rx_window[sn], t)
        <5> SUFFICES ASSUME ~InEntry(rx_window[sn], t) PROVE sn \notin held(rx_window)
          BY DEF held
        <5>1. base(RX_Next_Highest, sn) >= UM_Window_Size /\ base(RX_Next_Highest, sn) \in SNs
          BY <1>1, <1>5, <2>1, Places DEF InOrderInv, NewestHeld
        <5> QED BY <5>1, Constants DEF WholeInv, AgesOK
      <4>2. InEntry(rx_window[sn], t) => FALSE
        <5>1. ~InEntry(NoSegments, t)
          BY <1>5 DEF InEntry, NoSegments
        <5>2. rx_window'[sn] = NoSegments
          BY <1>6
        <5> QED BY <1>7, <5>1, <5>2
      <4> QED BY <4>1, <4>2
    <3> DEFINE P == PdusOf(t)
    <3>3. PdusOf(t)' = P
      BY <1>1 DEF PdusOf, Cut
    <3>4. \A k \in P : Sending(channel[k].sn, t) /\ channel[k].sn \in SNs
      BY <3>1, PdusNumbered
    <3>5. tx_sdu.sdu = t => Sending(TX_Next, t)
      BY <3>1, KeptSdus
    <3>6. /\ \A a \in P : rx_window'[channel[a].sn].next_expected_so
                            = rx_window[channel[a].sn].next_expected_so
          /\ tx_sdu.sdu = t => rx_window'[TX_Next].next_expected_so
                                 = rx_window[TX_Next].next_expected_so
      BY <3>1, <3>2, <3>4, <3>5
    <3>7. /\ \A a \in P :
               /\ \/ channel[a].so = rx_window[channel[a].sn].next_expected_so
                  \/ \E j \in P : end(channel[j]) = channel[a].so
               /\ \A j \in P : a < j => end(channel[a]) <= channel[j].so
               /\ \/ end(channel[a]) = N_bytes
                  \/ \E j \in P : channel[j].so = end(channel[a])
                  \/ tx_sdu.sdu = t /\ next_so = end(channel[a])
          /\ tx_sdu.sdu = t =>
               /\ \/ next_so = rx_window[TX_Next].next_expected_so
                  \/ \E a \in P : end(channel[a]) = next_so
               /\ \A a \in P : end(channel[a]) <= next_so
      BY <3>1 DEF Tiles
    <3> HIDE DEF P
    <3> QED BY <1>1, <3>3, <3>6, <3>7, TilesNext
  <2> QED BY <1>4, <2>2, <2>3, <2>4 DEF InOrderInv
<1>11. ASSUME in_order', NEW t \in K PROVE t \in Somewhere'
  <2>1. \/ t \in Elems(tx_sdu_queue) \/ t = tx_sdu.sdu
        \/ \E i \in DOMAIN channel : channel[i].sdu = t
        \/ \E sn \in SNs : InEntry(rx_window[sn], t)
        \/ t \in Sdus /\ handed[t] > 0
    BY <1>1, <1>5, <1>11, SomewhereOrNot
  <2>2. ASSUME NEW sn \in SNs, InEntry(rx_window[sn], t) PROVE t \in Somewhere'
    <3>1. InEntry(rx_window'[sn], t)
      BY <1>7, <2>2
    <3> QED BY <3>1 DEF Somewhere, sdus_in, InEntry
  <2>3. CASE t \in Elems(tx_sdu_queue) \/ t = tx_sdu.sdu
    BY <1>1, <2>3 DEF Somewhere, Elems
  <2>4. CASE \/ \E i \in DOMAIN channel : channel[i].sdu = t
             \/ t \in Sdus /\ handed[t] > 0
    BY <1>1, <2>4 DEF Somewhere, Elems
  <2> QED BY <2>1, <2>2, <2>3, <2>4
<1> QED BY <1>1, <1>2, <1>3, <1>4, <1>10, <1>11, KeptNext

(* Nothing is sent or held.                                                *)
LEMMA NoneKept ==
  ASSUME WholeInv, UmInv, Kept = {}, channel = <<>>, held(rx_window) = {}, ~reassembly_timer,
         RX_Next_Reassembly = RX_Next_Highest
  PROVE  KeptInv
<1>1. RX_Next_Highest \in SNs /\ RX_Next_Highest \in 0..(2 * UM_Window_Size)
  BY Constants DEF UmInv, RxType
<1>2. base(RX_Next_Highest, RX_Next_Highest) = UM_Window_Size
  BY <1>1, Base, Constants
<1>3. LowerEdge
  BY <1>2, Constants DEF LowerEdge
<1>4. CutShort /\ PdusInOrder
  BY DEF CutShort, PdusInOrder
<1>5. InOrderInv
  BY <1>4 DEF InOrderInv, NewestHeld
<1>6. NoneMissing
  BY DEF NoneMissing
<1> QED BY <1>3, <1>4, <1>5, <1>6 DEF KeptInv

(* reestablish() of both ends.                                             *)
LEMMA ReestablishKept ==
  ASSUME WholeInv', UmInv', Reestablish
  PROVE  KeptInv'
<1>1. /\ Kept' = {} /\ channel' = <<>> /\ rx_window' = [sn \in SNs |-> NoSegments]
      /\ reassembly_timer' = FALSE /\ RX_Next_Reassembly' = RX_Next_Highest'
  BY DEF Reestablish, rx_reestablish, tx_stop, Kept, Live
<1>2. held(rx_window') = {}
  BY <1>1, EmptyWindow
<1>3. held(rx_window)' = {}
  BY <1>2 DEF held
<1>4. (Kept = {})' /\ (channel = <<>>)' /\ (~reassembly_timer)'
      /\ (RX_Next_Reassembly = RX_Next_Highest)' /\ (held(rx_window) = {})'
  BY <1>1, <1>3
<1> QED BY <1>4, NoneKept, PTL

(* The invariant holds at the start.                                       *)
LEMMA KeptInit == WholeInv /\ UmInv /\ Init => KeptInv
<1> SUFFICES ASSUME WholeInv, UmInv, Init PROVE KeptInv
  OBVIOUS
<1>1. /\ Kept = {} /\ channel = <<>> /\ rx_window = [sn \in SNs |-> NoSegments]
      /\ ~reassembly_timer /\ RX_Next_Reassembly = RX_Next_Highest
  BY DEF Init, Kept, Live
<1>2. held(rx_window) = {}
  BY <1>1, EmptyWindow
<1> QED BY <1>1, <1>2, NoneKept

(* The channel with one more PDU, the last.                                *)
Longer(new, old, p) ==
  \E n \in DOMAIN new :
    /\ new[n] = p /\ DOMAIN new = DOMAIN old \cup {n} /\ n \notin DOMAIN old
    /\ \A k \in DOMAIN old : new[k] = old[k] /\ k < n /\ ~(n < k)
    /\ ~(n < n)

LEMMA AppendedLast ==
  ASSUME NEW S, NEW q \in Seq(S), NEW p \in S, NEW r, r = Append(q, p)
  PROVE  Longer(r, q, p)
<1> DEFINE n == Len(q) + 1
<1>1. n \in DOMAIN r /\ r[n] = p /\ DOMAIN r = DOMAIN q \cup {n} /\ n \notin DOMAIN q
  OBVIOUS
<1>2. \A k \in DOMAIN q : r[k] = q[k] /\ k < n /\ ~(n < k)
  OBVIOUS
<1>3. ~(n < n)
  OBVIOUS
<1> HIDE DEF n
<1> QED BY <1>1, <1>2, <1>3 DEF Longer

(* The ages when TX_Next goes on.                                          *)
LEMMA AgeGrows ==
  ASSUME TX_Next \in SNs, TX_Next' = (TX_Next + 1) % mod, NEW x \in SNs, age(x) < UM_Window_Size
  PROVE  (TX_Next' - x) % mod = age(x) + 1
<1> DEFINE t == (TX_Next + 1) % mod  y == t - x  M == mod  a == age(x)
<1>1. a = (IF TX_Next >= x THEN TX_Next - x ELSE TX_Next - x + mod) /\ a \in SNs
  BY AgeNext
<1>2. t = (IF TX_Next = 2 * UM_Window_Size - 1 THEN 0 ELSE TX_Next + 1) /\ t \in SNs
  BY NextSn
<1>3. (TX_Next' - x) % mod = y % M
  OBVIOUS
<1> HIDE DEF t, a
<1>4. M \in Nat \ {0} /\ y \in Int /\ -(2 * M) <= y /\ y < M /\ y >= -M
  BY <1>2, Constants
<1> HIDE DEF y, M
<1>5. y % M = IF y >= 0 THEN y ELSE y + M
  BY <1>4, TwoTurns
<1> DEFINE r == y % M
<1> HIDE DEF r
<1>6. r = IF t >= x THEN t - x ELSE t - x + mod
  BY <1>2, <1>5, Constants DEF y, M, r
<1>7. a < UM_Window_Size
  BY DEF a
<1>8. r = a + 1
  BY <1>1, <1>2, <1>6, <1>7, Constants
<1> QED BY <1>3, <1>8 DEF r, a

(* A PDU is sent after the others.                                         *)
LEMMA SentOrder ==
  ASSUME WholeInv, UmInv, PdusInOrder, UNCHANGED RX_Next_Highest,
         NEW p \in UmPdu, p.sn = TX_Next, Longer(channel', channel, p),
         Cut(p) => base(RX_Next_Highest, p.sn) >= UM_Window_Size - 1,
         TX_Next' = TX_Next \/ (~is_new /\ TX_Next' = (TX_Next + 1) % mod)
  PROVE  PdusInOrder'
<1>1. /\ TX_Next \in SNs /\ channel \in Seq(UmPdu) /\ p.sn \in SNs
      /\ \A k \in DOMAIN channel : channel[k].sn \in SNs
  BY ChannelPdu DEF UmInv, TxInv, WholeInv, BearerTypes
<1>2. PICK n \in DOMAIN channel' :
        /\ channel'[n] = p /\ DOMAIN channel' = DOMAIN channel \cup {n} /\ n \notin DOMAIN channel
        /\ \A k \in DOMAIN channel : channel'[k] = channel[k] /\ k < n /\ ~(n < k)
        /\ ~(n < n)
  BY DEF Longer
<1>3. age(p.sn) = 0 /\ \A x \in SNs : age(x) \in SNs
  BY <1>1, AgeOfNext, AgeNext
<1> DEFINE later(x) == (TX_Next' - x) % mod
<1>4. ASSUME NEW a \in SNs, NEW b \in SNs, age(a) <= UM_Window_Size,
             ~is_new => age(a) < UM_Window_Size, age(a) >= age(b)
      PROVE  later(a) >= later(b)
  <2>1. CASE TX_Next' = TX_Next
    <3>1. later(a) = age(a) /\ later(b) = age(b)
      BY <2>1 DEF age
    <3> QED BY <1>4, <3>1
  <2>2. CASE ~is_new /\ TX_Next' = (TX_Next + 1) % mod
    <3> DEFINE x == age(a)  y == age(b)
    <3>1. x \in SNs /\ y \in SNs /\ x < UM_Window_Size /\ x >= y
      BY <1>3, <1>4, <2>2
    <3> HIDE DEF x, y
    <3>2. y < UM_Window_Size /\ x + 1 >= y + 1
      BY <3>1, Constants
    <3>3. later(a) = x + 1 /\ later(b) = y + 1
      BY <1>1, <2>2, <3>1, <3>2, AgeGrows DEF x, y
    <3> HIDE DEF later
    <3> QED BY <3>2, <3>3
  <2> QED BY <2>1, <2>2
<1> HIDE DEF later
<1>5. \A k \in DOMAIN channel : Cut(channel[k]) =>
        /\ age(channel[k].sn) <= UM_Window_Size
        /\ ~is_new => age(channel[k].sn) < UM_Window_Size
        /\ base(RX_Next_Highest, channel[k].sn) >= UM_Window_Size - 1
        /\ \A j \in DOMAIN channel :
             k < j /\ Cut(channel[j]) => age(channel[k].sn) >= age(channel[j].sn)
  BY DEF PdusInOrder, WholeInv, AgesOK
<1>6. \A k \in DOMAIN channel' : Cut(channel'[k]) =>
         base(RX_Next_Highest, channel'[k].sn) >= UM_Window_Size - 1
  BY <1>2, <1>5
<1>7. ASSUME NEW k \in DOMAIN channel', Cut(channel'[k]),
             NEW j \in DOMAIN channel', k < j, Cut(channel'[j])
      PROVE  later(channel'[k].sn) >= later(channel'[j].sn)
  <2>1. k \in DOMAIN channel /\ channel'[k] = channel[k]
    BY <1>2, <1>7
  <2>2. channel'[j].sn \in SNs /\ age(channel[k].sn) >= age(channel'[j].sn)
    <3>1. CASE j \in DOMAIN channel
      BY <1>1, <1>2, <1>5, <1>7, <2>1, <3>1
    <3>2. CASE j = n
      <4>1. channel'[j] = p /\ age(channel[k].sn) \in SNs
        BY <1>1, <1>2, <1>3, <2>1, <3>2
      <4> QED BY <1>1, <1>3, <4>1, Constants
    <3> QED BY <1>2, <3>1, <3>2
  <2> QED BY <1>1, <1>4, <1>5, <1>7, <2>1, <2>2
<1> QED BY <1>6, <1>7 DEF PdusInOrder, age, Cut, later

(* The SDUs of which no segment is sent are as they were.                  *)
LEMMA SentOthers ==
  ASSUME UNCHANGED rx_window, NEW p, Longer(channel', channel, p), NEW t, Tiles(t),
         ~Cut(p) \/ p.sdu # t, tx_sdu.sdu # t, tx_sdu'.sdu # t
  PROVE  Tiles(t)' /\ \A sn : Sending(sn, t)' <=> Sending(sn, t)
<1>2. PICK n \in DOMAIN channel' :
        /\ channel'[n] = p /\ DOMAIN channel' = DOMAIN channel \cup {n} /\ n \notin DOMAIN channel
        /\ \A k \in DOMAIN channel : channel'[k] = channel[k] /\ k < n /\ ~(n < k)
        /\ ~(n < n)
  BY DEF Longer
<1>3. PdusOf(t)' = PdusOf(t)
  <2>1. PdusOf(t)' = {k \in DOMAIN channel' : Cut(channel'[k]) /\ channel'[k].sdu = t}
    BY DEF PdusOf, Cut
  <2> QED BY <1>2, <2>1 DEF PdusOf
<1> DEFINE P == PdusOf(t)
<1>4. /\ \A a \in P :
           /\ \/ channel[a].so = rx_window[channel[a].sn].next_expected_so
              \/ \E j \in P : end(channel[j]) = channel[a].so
           /\ \A j \in P : a < j => end(channel[a]) <= channel[j].so
           /\ \/ end(channel[a]) = N_bytes
              \/ \E j \in P : channel[j].so = end(channel[a])
  BY DEF Tiles
<1>5. \A a \in P : channel'[a] = channel[a]
  BY <1>2 DEF PdusOf
<1> DEFINE Q == PdusOf(t)'
<1>6. Q = P
  BY <1>3
<1> HIDE DEF P, Q
<1>7. \A a \in P :
         /\ \/ channel'[a].so = rx_window'[channel'[a].sn].next_expected_so
            \/ \E j \in P : end(channel'[j]) = channel'[a].so
         /\ \A j \in P : a < j => end(channel'[a]) <= channel'[j].so
         /\ \/ end(channel'[a]) = N_bytes
            \/ \E j \in P : channel'[j].so = end(channel'[a])
            \/ tx_sdu'.sdu = t /\ next_so' = end(channel'[a])
  BY <1>4, <1>5
<1>8. \A a \in Q :
         /\ \/ channel'[a].so = rx_window'[channel'[a].sn].next_expected_so
            \/ \E j \in Q : end(channel'[j]) = channel'[a].so
         /\ \A j \in Q : a < j => end(channel'[a]) <= channel'[j].so
         /\ \/ end(channel'[a]) = N_bytes
            \/ \E j \in Q : channel'[j].so = end(channel'[a])
            \/ tx_sdu'.sdu = t /\ next_so' = end(channel'[a])
  BY <1>6, <1>7
<1>9. Tiles(t)'
  BY <1>8, TilesNext DEF Q
<1>10. \A sn : Sending(sn, t)' <=> Sending(sn, t)
  BY <1>2 DEF Sending, Cut
<1> QED BY <1>9, <1>10

(* The PDUs of an SDU follow on one another up to this byte.               *)
LeadTo(t, o) ==
  \A a \in PdusOf(t) :
    /\ \/ channel[a].so = rx_window[channel[a].sn].next_expected_so
       \/ \E j \in PdusOf(t) : end(channel[j]) = channel[a].so
    /\ \A j \in PdusOf(t) : a < j => end(channel[a]) <= channel[j].so
    /\ \/ end(channel[a]) = N_bytes
       \/ \E j \in PdusOf(t) : channel[j].so = end(channel[a])
       \/ end(channel[a]) = o
    /\ end(channel[a]) <= o

(* A segment is sent that follows on what there is of the SDU.             *)
LEMMA SentOwn ==
  ASSUME WholeInv, UNCHANGED rx_window,
         NEW p \in UmPdu, Longer(channel', channel, p), Cut(p), NEW t, p.sdu = t,
         LeadTo(t, p.so),
         \/ p.so = rx_window[p.sn].next_expected_so
         \/ \E a \in PdusOf(t) : end(channel[a]) = p.so,
         \/ end(p) = N_bytes /\ tx_sdu'.sdu # t
         \/ tx_sdu'.sdu = t /\ next_so' = end(p)
  PROVE  Tiles(t)'
<1>2. PICK n \in DOMAIN channel' :
        /\ channel'[n] = p /\ DOMAIN channel' = DOMAIN channel \cup {n} /\ n \notin DOMAIN channel
        /\ \A k \in DOMAIN channel : channel'[k] = channel[k] /\ k < n /\ ~(n < k)
        /\ ~(n < n)
  BY DEF Longer
<1> DEFINE P == PdusOf(t)
<1>3. PdusOf(t)' = P \cup {n}
  <2>1. PdusOf(t)' = {k \in DOMAIN channel' : Cut(channel'[k]) /\ channel'[k].sdu = t}
    BY DEF PdusOf, Cut
  <2> QED BY <1>2, <2>1 DEF PdusOf
<1>14. \A a \in P :
          /\ \/ channel[a].so = rx_window[channel[a].sn].next_expected_so
             \/ \E j \in P : end(channel[j]) = channel[a].so
          /\ \A j \in P : a < j => end(channel[a]) <= channel[j].so
          /\ \/ end(channel[a]) = N_bytes
             \/ \E j \in P : channel[j].so = end(channel[a])
             \/ end(channel[a]) = p.so
          /\ end(channel[a]) <= p.so
  BY DEF LeadTo
<1>4. \A a \in P : /\ channel'[a] = channel[a] /\ ~(n < a)
                   /\ channel[a].so \in Nat /\ channel[a].len \in Nat
  <2>1. \A a \in P : a \in DOMAIN channel
    BY DEF PdusOf
  <2>2. \A a \in DOMAIN channel : channel[a].so \in 0..N_bytes /\ channel[a].len \in 1..N_bytes
    BY ChannelPdu
  <2>3. \A x : x \in 0..N_bytes \/ x \in 1..N_bytes => x \in Nat
    BY Constants
  <2> HIDE DEF P
  <2> QED BY <1>2, <2>1, <2>2, <2>3
<1>5. p.so \in Nat /\ p.len \in Nat /\ end(p) \in Nat /\ p.so <= end(p)
  <2>1. p.so \in Nat /\ p.len \in Nat
    BY Constants DEF UmPdu
  <2> QED BY <2>1 DEF end
<1>6. \A a \in P : end(channel[a]) <= end(p)
  <2> SUFFICES ASSUME NEW a \in P PROVE end(channel[a]) <= end(p)
    OBVIOUS
  <2> DEFINE e == end(channel[a])
  <2>1. e \in Nat /\ e <= p.so
    BY <1>4, <1>14 DEF end
  <2> HIDE DEF e
  <2>2. e <= end(p)
    BY <1>5, <2>1
  <2> QED BY <2>2 DEF e
<1>7. end(p) <= end(p)
  BY <1>5
<1> DEFINE Q == PdusOf(t)'
<1>8. /\ n \in Q /\ P \subseteq Q /\ channel'[n] = p /\ ~(n < n)
      /\ \A i \in Q : i \in P \/ i = n
  BY <1>2, <1>3
<1> HIDE DEF P, Q
<1>10. ASSUME NEW i \in Q
       PROVE  /\ \/ channel'[i].so = rx_window'[channel'[i].sn].next_expected_so
                 \/ \E j \in Q : end(channel'[j]) = channel'[i].so
              /\ \A j \in Q : i < j => end(channel'[i]) <= channel'[j].so
              /\ \/ end(channel'[i]) = N_bytes
                 \/ \E j \in Q : channel'[j].so = end(channel'[i])
                 \/ tx_sdu'.sdu = t /\ next_so' = end(channel'[i])
  <2>1. CASE i = n
    <3>1. \/ p.so = rx_window'[p.sn].next_expected_so
          \/ \E j \in Q : end(channel'[j]) = p.so
      BY <1>4, <1>8 DEF P
    <3>2. \A j \in Q : ~(n < j)
      BY <1>4, <1>8
    <3> QED BY <1>8, <2>1, <3>1, <3>2
  <2>2. CASE i \in P
    <3>1. channel'[i] = channel[i]
      BY <1>4, <2>2
    <3>2. \/ channel[i].so = rx_window'[channel[i].sn].next_expected_so
          \/ \E j \in Q : end(channel'[j]) = channel[i].so
      BY <1>4, <1>8, <1>14, <2>2
    <3>3. \A j \in Q : i < j => end(channel[i]) <= channel'[j].so
      BY <1>4, <1>8, <1>14, <2>2
    <3>4. \/ end(channel[i]) = N_bytes
          \/ \E j \in Q : channel'[j].so = end(channel[i])
      <4>1. \/ end(channel[i]) = N_bytes
            \/ \E j \in P : channel[j].so = end(channel[i])
            \/ end(channel[i]) = p.so
        BY <1>14, <2>2
      <4> QED BY <1>4, <1>8, <4>1
    <3> QED BY <3>1, <3>2, <3>3, <3>4
  <2> QED BY <1>8, <2>1, <2>2
<1>11. ASSUME tx_sdu'.sdu = t
       PROVE  /\ \/ next_so' = rx_window'[TX_Next'].next_expected_so
                 \/ \E i \in Q : end(channel'[i]) = next_so'
              /\ \A i \in Q : end(channel'[i]) <= next_so'
  BY <1>4, <1>6, <1>7, <1>8, <1>11
<1> QED BY <1>10, <1>11, TilesNext DEF Q

(* What a PDU sent leaves in one of the entities or on its way.            *)
LEMMA SentSomewhere ==
  ASSUME NEW p, Longer(channel', channel, p), UNCHANGED rx_window, handed' = handed,
         NEW t, t # None, t \in Somewhere,
         t \in Elems(tx_sdu_queue) => t \in Elems(tx_sdu_queue') \/ t = p.sdu,
         t = tx_sdu.sdu => t = p.sdu
  PROVE  t \in Somewhere'
<1>1. PICK n \in DOMAIN channel' :
        channel'[n] = p /\ \A k \in DOMAIN channel : channel'[k] = channel[k] /\ k \in DOMAIN channel'
  BY DEF Longer
<1>2. t = p.sdu => t \in Somewhere'
  BY <1>1 DEF Somewhere, Elems
<1>3. t \in Elems(tx_sdu_queue') => t \in Somewhere'
  BY DEF Somewhere, Elems
<1>4. ASSUME NEW i \in DOMAIN channel, channel[i].sdu = t PROVE t \in Somewhere'
  BY <1>1, <1>4 DEF Somewhere, Elems
<1>5. ASSUME NEW sn \in SNs, InEntry(rx_window[sn], t) PROVE t \in Somewhere'
  BY <1>5 DEF Somewhere, sdus_in, InEntry
<1>6. t \in Sdus /\ handed[t] > 0 => t \in Somewhere'
  BY DEF Somewhere
<1> QED BY <1>2, <1>3, <1>4, <1>5, <1>6, SomewhereOrNot

(* A segment or an SDU is sent.                                            *)
LEMMA SentKept ==
  ASSUME WholeInv, UmInv, KeptInv, build_pdu, Tx, UNCHANGED <<written, discarded>>,
         NEW p \in UmPdu, p.sn = TX_Next, Longer(channel', channel, p),
         p.si \in {"first", "middle"} => p.so + p.len < N_bytes,
         TX_Next' = TX_Next \/ (~is_new /\ TX_Next' = (TX_Next + 1) % mod),
         in_order => \A t \in Kept :
           t \in Elems(tx_sdu_queue) => t \in Elems(tx_sdu_queue') \/ t = p.sdu,
         in_order => \A t \in Kept : t = tx_sdu.sdu => t = p.sdu,
         in_order => \A t \in Kept : t # p.sdu \/ ~Cut(p) =>
           tx_sdu.sdu # t /\ tx_sdu'.sdu # t,
         Cut(p) => base(RX_Next_Highest, p.sn) >= UM_Window_Size - 1,
         NEW s, s = p.sdu,
         in_order /\ Cut(p) /\ s \in Kept =>
           /\ Tiles(s)'
           /\ \A sn \in SNs :
                /\ InEntry(rx_window[sn], s) => (Sending(sn, s) => Sending(sn, s)')
                /\ ~InEntry(rx_window[sn], s) /\ Sending(sn, s)' =>
                     base(RX_Next_Highest, sn) >= UM_Window_Size
  PROVE  KeptInv'
<1>1. /\ UNCHANGED <<RX_Next_Reassembly, RX_Timer_Trigger, RX_Next_Highest, rx_window,
                     reassembly_timer, affected, in_order>>
      /\ handed' = handed
  BY DEF Tx, umRxVars
<1>2. CutShort'
  <2>1. PICK n \in DOMAIN channel' :
          channel'[n] = p /\ \A k \in DOMAIN channel' : k = n \/ (k \in DOMAIN channel /\ channel'[k] = channel[k])
    BY DEF Longer
  <2> QED BY <2>1 DEF KeptInv, CutShort
<1>3. LowerEdge'
  BY <1>1, EdgeAlone DEF KeptInv
<1> DEFINE K == Kept
<1>4. Kept' = K /\ K \subseteq Sdus /\ None \notin K
  BY <1>1, KeptSdus DEF Kept, Live
<1>5. in_order => InOrderInv /\ \A t \in K : t \in Somewhere
  BY DEF KeptInv, NoneMissing
<1>6. ASSUME in_order, NEW t \in K PROVE t \in Somewhere'
  BY <1>1, <1>4, <1>5, <1>6, SentSomewhere
<1>7. ASSUME in_order PROVE InOrderInv'
  <2>1. PdusInOrder'
    BY <1>1, <1>5, <1>7, SentOrder DEF InOrderInv
  <2>2. ASSUME NEW t \in K
        PROVE  /\ Tiles(t)'
               /\ \A sn \in SNs :
                    /\ InEntry(rx_window'[sn], t) =>
                         /\ rx_window'[sn].segments = {} /\ rx_window'[sn].total_sdu_length = 0
                         /\ base(RX_Next_Highest', sn) = UM_Window_Size - 1
                         /\ Sending(sn, t)'
                    /\ ~InEntry(rx_window'[sn], t) /\ Sending(sn, t)' =>
                         base(RX_Next_Highest', sn) >= UM_Window_Size
    <3>1. /\ Tiles(t)'
          /\ \A sn \in SNs :
               /\ InEntry(rx_window[sn], t) => (Sending(sn, t) => Sending(sn, t)')
               /\ ~InEntry(rx_window[sn], t) /\ Sending(sn, t)' =>
                    base(RX_Next_Highest, sn) >= UM_Window_Size
      <4>1. CASE t = s /\ Cut(p)
        BY <1>7, <2>2, <4>1
      <4>2. CASE t # s \/ ~Cut(p)
        <5>1. Tiles(t) /\ tx_sdu.sdu # t /\ tx_sdu'.sdu # t
          BY <1>5, <1>7, <2>2, <4>2 DEF InOrderInv
        <5>2. Tiles(t)' /\ \A sn : Sending(sn, t)' <=> Sending(sn, t)
          BY <1>1, <4>2, <5>1, SentOthers
        <5> QED BY <1>5, <1>7, <2>2, <5>2 DEF InOrderInv, NewestHeld
      <4> QED BY <4>1, <4>2
    <3>2. \A sn \in SNs : InEntry(rx_window[sn], t) =>
            /\ rx_window[sn].segments = {} /\ rx_window[sn].total_sdu_length = 0
            /\ base(RX_Next_Highest, sn) = UM_Window_Size - 1
            /\ Sending(sn, t)
      BY <1>5, <1>7, <2>2 DEF InOrderInv, NewestHeld
    <3> QED BY <1>1, <3>1, <3>2
  <2> HIDE DEF K
  <2>3. NewestHeld'
    BY <1>4, <2>2, NewestNext
  <2> QED BY <1>4, <2>1, <2>2, <2>3 DEF InOrderInv
<1> QED BY <1>1, <1>2, <1>3, <1>4, <1>6, <1>7, KeptNext

(* The first PDU of an SDU.                                                *)
LEMMA SendNewKept ==
  ASSUME WholeInv, UmInv, KeptInv, ShortSn, build_pdu, is_new, Tx
  PROVE  KeptInv'
<1>1. PICK s : s = tx_sdu_queue[first_sdu(tx_sdu_queue)]
  OBVIOUS
<1>2. /\ ~only_null(tx_sdu_queue) /\ mac_grant # 0 /\ tx_sdu_queue' = queue_after
      /\ UNCHANGED <<TX_Next, written, discarded>>
  BY <1>1, NewPduSent
<1>3. PICK p \in UmPdu :
        /\ GoodPdu(p) /\ p.sdu = s /\ p.sn = TX_Next /\ p.so = 0 /\ p.si \in {"full", "first"}
        /\ channel' = Append(channel, p) /\ next_so' = p.len
        /\ IF Cut(p) THEN p.len < N_bytes /\ tx_sdu' = [sdu |-> s, left |-> N_bytes - p.len]
           ELSE tx_sdu' = NoSdu
  BY <1>1, NewPduSent
<1>4. /\ s \in Live /\ s \in Sdus /\ Unsent(s)
      /\ \A j \in DOMAIN tx_sdu_queue :
           \/ tx_sdu_queue[j] \in {None, s}
           \/ \E k \in DOMAIN queue_after : queue_after[k] = tx_sdu_queue[j]
  BY <1>1, <1>2, TakenFromQueue
<1>5. channel \in Seq(UmPdu) /\ TX_Next \in SNs /\ RX_Next_Highest \in SNs
  BY DEF WholeInv, BearerTypes, UmInv, TxInv, RxType
<1>6. Longer(channel', channel, p)
  BY <1>3, <1>5, AppendedLast
<1>7. /\ base(RX_Next_Highest, TX_Next) >= UM_Window_Size
      /\ base(RX_Next_Highest, TX_Next) >= UM_Window_Size - 1
  <2>1. age(RX_Next_Highest) < UM_Window_Size
    BY <1>2 DEF WholeInv, AgesOK
  <2>2. base(RX_Next_Highest, TX_Next) >= UM_Window_Size /\ base(RX_Next_Highest, TX_Next) \in SNs
    BY <1>5, <2>1, PlaceOfNext, Places
  <2> QED BY <2>2, Constants
<1>8. /\ tx_sdu.sdu = None
      /\ Cut(p) => tx_sdu'.sdu = s
      /\ ~Cut(p) => tx_sdu'.sdu = None
  BY <1>3 DEF is_new, NoSdu
<1>9. p.so + p.len = p.len /\ p.len \in Nat
  BY <1>3, Constants DEF UmPdu
<1>10. p.si \in {"first", "middle"} => p.so + p.len < N_bytes
  BY <1>3, <1>9 DEF Cut
<1>11. Kept \subseteq Sdus /\ None \notin Kept
  BY KeptSdus
<1>12. \A t \in Kept : t \in Elems(tx_sdu_queue) => t \in Elems(tx_sdu_queue') \/ t = s
  BY <1>2, <1>4, <1>11 DEF Elems
<1>13. rx_window[TX_Next] = NoSegments
  <2>1. base(RX_Next_Highest, TX_Next) \in SNs
    BY <1>5, Places
  <2>2. TX_Next \notin held(rx_window)
    BY <1>7, <2>1, Constants DEF WholeInv, AgesOK
  <2> QED BY <1>5, <2>2 DEF held
<1>14. rx_window' = rx_window
  BY DEF Tx, umRxVars
<1>15. ASSUME Cut(p)
       PROVE  /\ Tiles(s)'
              /\ \A sn \in SNs : Sending(sn, s)' => base(RX_Next_Highest, sn) >= UM_Window_Size
  <2>1. PdusOf(s) = {}
    BY <1>4 DEF PdusOf, Unsent
  <2>2. LeadTo(s, p.so)
    BY <2>1 DEF LeadTo
  <2>3. p.so = rx_window[p.sn].next_expected_so
    BY <1>3, <1>13 DEF NoSegments
  <2>4. tx_sdu'.sdu = s /\ next_so' = end(p)
    BY <1>3, <1>8, <1>9, <1>15 DEF end
  <2>5. Tiles(s)'
    BY <1>3, <1>6, <1>14, <1>15, <2>2, <2>3, <2>4, SentOwn
  <2>6. PICK n \in DOMAIN channel' :
          /\ channel'[n] = p /\ DOMAIN channel' = DOMAIN channel \cup {n}
          /\ \A k \in DOMAIN channel : channel'[k] = channel[k]
    BY <1>6 DEF Longer
  <2>7. \A k \in DOMAIN channel' : channel'[k].sdu = s => channel'[k].sn = TX_Next
    BY <1>3, <1>4, <2>6 DEF Unsent
  <2>8. ASSUME NEW sn \in SNs, Sending(sn, s)' PROVE sn = TX_Next
    BY <1>2, <2>7, <2>8 DEF Sending
  <2> QED BY <1>7, <2>5, <2>8
<1>16. \A sn \in SNs : ~InEntry(rx_window[sn], s)
  BY <1>4 DEF Unsent
<1>17. \A t \in Kept : /\ t # tx_sdu.sdu
                       /\ t # s \/ ~Cut(p) => tx_sdu.sdu # t /\ tx_sdu'.sdu # t
  BY <1>8, <1>11
<1> QED BY <1>2, <1>3, <1>6, <1>7, <1>10, <1>12, <1>15, <1>16, <1>17, SentKept

(* A later PDU of an SDU.                                                  *)
LEMMA SendNextKept ==
  ASSUME WholeInv, UmInv, KeptInv, ShortSn, build_pdu, ~is_new, Tx
  PROVE  KeptInv'
<1>1. UNCHANGED <<tx_sdu_queue, written, discarded>>
  BY NextPduSent
<1>2. PICK p \in UmPdu :
        /\ GoodPdu(p) /\ p.sdu = tx_sdu.sdu /\ p.sn = TX_Next /\ p.so = next_so
        /\ channel' = Append(channel, p)
        /\ \/ /\ p.si = "last" /\ tx_sdu' = NoSdu /\ next_so' = 0
              /\ TX_Next' = (TX_Next + 1) % mod
           \/ /\ p.si = "middle" /\ p.len < tx_sdu.left /\ next_so' = next_so + p.len
              /\ tx_sdu' = [tx_sdu EXCEPT !.left = tx_sdu.left - p.len]
              /\ TX_Next' = TX_Next
  BY NextPduSent
<1>3. /\ channel \in Seq(UmPdu) /\ TX_Next \in SNs /\ RX_Next_Highest \in SNs
      /\ tx_sdu \in [sdu : Sdus, left : 1..N_bytes]
      /\ next_so + tx_sdu.left = N_bytes /\ next_so \in 0..N_bytes /\ N_bytes \in Nat
  BY Constants DEF WholeInv, BearerTypes, UmInv, TxInv, RxType, is_new
<1>4. PICK s \in Sdus : s = tx_sdu.sdu
  BY <1>3
<1>5. Longer(channel', channel, p) /\ Cut(p) /\ tx_sdu # NoSdu
  <2>1. Longer(channel', channel, p)
    BY <1>2, <1>3, AppendedLast
  <2> QED BY <1>2, <2>1 DEF Cut, is_new
<1>6. base(RX_Next_Highest, TX_Next) >= UM_Window_Size - 1
  <2>1. age(RX_Next_Highest) < UM_Window_Size \/ age(RX_Next_Highest) = mod - 1
    BY DEF WholeInv, AgesOK
  <2>2. base(RX_Next_Highest, TX_Next) \in SNs
    BY <1>3, Places
  <2>3. \/ base(RX_Next_Highest, TX_Next) >= UM_Window_Size
        \/ base(RX_Next_Highest, TX_Next) = UM_Window_Size - 1
    BY <1>3, <2>1, PlaceOfNext
  <2> QED BY <2>2, <2>3, Constants
<1>7. p.so \in Nat /\ p.len \in Nat /\ p.so + p.len = end(p)
  BY Constants DEF UmPdu, end
<1>8. p.si = "middle" => end(p) < N_bytes /\ next_so' = end(p) /\ tx_sdu'.sdu = s
  <2> SUFFICES ASSUME p.si = "middle"
               PROVE  end(p) < N_bytes /\ next_so' = end(p) /\ tx_sdu'.sdu = s
    OBVIOUS
  <2>1. p.len < tx_sdu.left /\ next_so' = next_so + p.len
    BY <1>2
  <2>2. end(p) < N_bytes /\ next_so' = end(p)
    BY <1>2, <1>3, <1>7, <2>1
  <2>3. tx_sdu' = [tx_sdu EXCEPT !.left = tx_sdu.left - p.len]
    BY <1>2
  <2>4. tx_sdu'.sdu = s
    BY <1>3, <1>4, <2>3
  <2> QED BY <2>2, <2>4
<1>9. p.si = "last" => end(p) = N_bytes /\ tx_sdu'.sdu = None
  BY <1>2, <1>7 DEF GoodPdu, NoSdu
<1>10. p.si \in {"middle", "last"}
  BY <1>2
<1>11. p.si \in {"first", "middle"} => p.so + p.len < N_bytes
  BY <1>7, <1>8, <1>10
<1>12. TX_Next' = TX_Next \/ (~is_new /\ TX_Next' = (TX_Next + 1) % mod)
  BY <1>2
<1>13. Kept \subseteq Sdus /\ None \notin Kept /\ s # None
  BY KeptSdus, NoSdus
<1>14. \A t \in Kept : t # s => tx_sdu.sdu # t /\ tx_sdu'.sdu # t
  BY <1>4, <1>8, <1>9, <1>10, <1>13
<1>15. rx_window' = rx_window
  BY DEF Tx, umRxVars
<1>16. ASSUME in_order, s \in Kept
       PROVE  /\ Tiles(s)'
              /\ \A sn \in SNs :
                   /\ InEntry(rx_window[sn], s) => (Sending(sn, s) => Sending(sn, s)')
                   /\ ~InEntry(rx_window[sn], s) /\ Sending(sn, s)' =>
                        base(RX_Next_Highest, sn) >= UM_Window_Size
  <2>1. Tiles(s) /\ NewestHeld
    BY <1>16 DEF KeptInv, InOrderInv
  <2>2. /\ LeadTo(s, p.so)
        /\ \/ p.so = rx_window[p.sn].next_expected_so
           \/ \E a \in PdusOf(s) : end(channel[a]) = p.so
    BY <1>2, <1>4, <2>1 DEF Tiles, LeadTo
  <2>3. \/ end(p) = N_bytes /\ tx_sdu'.sdu # s
        \/ tx_sdu'.sdu = s /\ next_so' = end(p)
    BY <1>8, <1>9, <1>10, <1>13
  <2>4. p.sdu = s
    BY <1>2, <1>4
  <2>5. Tiles(s)'
    BY <1>5, <1>15, <2>2, <2>3, <2>4, SentOwn
  <2>6. PICK n \in DOMAIN channel' :
          /\ channel'[n] = p /\ DOMAIN channel' = DOMAIN channel \cup {n}
          /\ \A k \in DOMAIN channel : channel'[k] = channel[k]
    BY <1>5 DEF Longer
  <2>7. Cut(channel'[n]) /\ channel'[n].sn = TX_Next /\ channel'[n].sdu = s
    BY <1>2, <1>5, <2>4, <2>6
  <2>8. ASSUME NEW sn \in SNs, Sending(sn, s) PROVE Sending(sn, s)'
    <3>1. \/ \E k \in DOMAIN channel : Cut(channel[k]) /\ channel[k].sn = sn /\ channel[k].sdu = s
          \/ sn = TX_Next
      BY <2>8 DEF Sending
    <3>2. \E k \in DOMAIN channel' : Cut(channel'[k]) /\ channel'[k].sn = sn /\ channel'[k].sdu = s
      BY <2>6, <2>7, <3>1
    <3> QED BY <3>2 DEF Sending, Cut
  <2>9. ASSUME NEW sn \in SNs, Sending(sn, s)' PROVE Sending(sn, s)
    <3>1. Sending(TX_Next, s)
      BY <1>4, <1>5 DEF Sending
    <3>2. \/ \E k \in DOMAIN channel' : Cut(channel'[k]) /\ channel'[k].sn = sn /\ channel'[k].sdu = s
          \/ tx_sdu' # NoSdu /\ sn = TX_Next' /\ tx_sdu'.sdu = s
      BY <2>9 DEF Sending, Cut
    <3>3. ASSUME NEW k \in DOMAIN channel', Cut(channel'[k]), channel'[k].sn = sn, channel'[k].sdu = s
          PROVE  Sending(sn, s)
      <4>1. CASE k = n
        BY <2>7, <3>1, <3>3, <4>1
      <4>2. CASE k \in DOMAIN channel
        BY <2>6, <3>3, <4>2 DEF Sending
      <4> QED BY <2>6, <4>1, <4>2
    <3>4. CASE tx_sdu'.sdu = s /\ sn = TX_Next'
      <4>1. TX_Next' = TX_Next
        BY <1>2, <1>9, <1>13, <3>4
      <4> QED BY <3>1, <3>4, <4>1
    <3> QED BY <3>2, <3>3, <3>4
  <2> QED BY <1>16, <2>1, <2>5, <2>8, <2>9 DEF NewestHeld
<1> QED BY <1>1, <1>2, <1>4, <1>5, <1>6, <1>11, <1>12, <1>14, <1>16, SentKept

(* A step that leaves the channel and the receiver alone.                  *)
LEMMA QuietKept ==
  ASSUME WholeInv, UmInv, KeptInv,
         UNCHANGED <<umRxVars, channel, TX_Next, next_so, tx_sdu, in_order>>,
         NEW K, Kept' = K, None \notin K,
         \A t \in K : \/ t \in Kept
                      \/ Unsent(t) /\ t \in Elems(tx_sdu_queue'),
         \A t \in K : t \in Elems(tx_sdu_queue) => t \in Elems(tx_sdu_queue')
  PROVE  KeptInv'
<1>1. /\ UNCHANGED <<RX_Next_Reassembly, RX_Timer_Trigger, RX_Next_Highest, rx_window,
                     reassembly_timer, handed, channel, TX_Next, next_so, tx_sdu, in_order>>
      /\ DOMAIN channel' = DOMAIN channel
  BY DEF umRxVars
<1>2. CutShort'
  BY <1>1 DEF KeptInv, CutShort
<1>3. LowerEdge'
  BY <1>1, EdgeAlone DEF KeptInv
<1>4. ASSUME in_order PROVE InOrderInv'
  <2>1. InOrderInv
    BY <1>4 DEF KeptInv
  <2>2. PdusInOrder'
    BY <1>1, <2>1 DEF InOrderInv, PdusInOrder, Cut, age, base
  <2>3. \A sn, t : Sending(sn, t)' <=> Sending(sn, t)
    BY <1>1 DEF Sending, Cut
  <2>4. ASSUME NEW t \in K, Unsent(t), NEW sn \in SNs
        PROVE  ~InEntry(rx_window[sn], t) /\ ~Sending(sn, t) /\ PdusOf(t) = {} /\ tx_sdu.sdu # t
    BY <2>4 DEF Unsent, Sending, PdusOf
  <2>5. NewestHeld'
    <3>1. \A sn \in SNs, t \in K :
            /\ InEntry(rx_window'[sn], t) =>
                 /\ rx_window'[sn].segments = {} /\ rx_window'[sn].total_sdu_length = 0
                 /\ base(RX_Next_Highest', sn) = UM_Window_Size - 1
                 /\ Sending(sn, t)'
            /\ ~InEntry(rx_window'[sn], t) /\ Sending(sn, t)' =>
                 base(RX_Next_Highest', sn) >= UM_Window_Size
      BY <1>1, <2>1, <2>3, <2>4 DEF InOrderInv, NewestHeld
    <3> QED BY <3>1, NewestNext
  <2>6. ASSUME NEW t \in K PROVE Tiles(t)'
    <3> DEFINE P == PdusOf(t)
    <3>1. PdusOf(t)' = P
      BY <1>1 DEF PdusOf, Cut
    <3>2. /\ \A a \in P :
               /\ \/ channel[a].so = rx_window[channel[a].sn].next_expected_so
                  \/ \E j \in P : end(channel[j]) = channel[a].so
               /\ \A j \in P : a < j => end(channel[a]) <= channel[j].so
               /\ \/ end(channel[a]) = N_bytes
                  \/ \E j \in P : channel[j].so = end(channel[a])
                  \/ tx_sdu.sdu = t /\ next_so = end(channel[a])
          /\ tx_sdu.sdu = t =>
               /\ \/ next_so = rx_window[TX_Next].next_expected_so
                  \/ \E a \in P : end(channel[a]) = next_so
               /\ \A a \in P : end(channel[a]) <= next_so
      <4>1. CASE t \in Kept
        <5>1. Tiles(t)
          BY <2>1, <4>1 DEF InOrderInv
        <5> QED BY <5>1 DEF Tiles
      <4>2. CASE Unsent(t)
        <5>1. P = {} /\ tx_sdu.sdu # t
          BY <4>2 DEF PdusOf, Unsent
        <5> QED BY <5>1
      <4> QED BY <4>1, <4>2
    <3> HIDE DEF P
    <3> QED BY <1>1, <3>1, <3>2, TilesNext
  <2> QED BY <2>2, <2>5, <2>6 DEF InOrderInv
<1>5. ASSUME in_order, NEW t \in K PROVE t \in Somewhere'
  <2>1. CASE t \in Elems(tx_sdu_queue')
    BY <2>1 DEF Somewhere, Elems
  <2>2. CASE t \in Kept
    <3>1. t \in Somewhere
      BY <1>5, <2>2 DEF KeptInv, NoneMissing
    <3>2. \/ t \in Elems(tx_sdu_queue) \/ t = tx_sdu.sdu
          \/ \E i \in DOMAIN channel : channel[i].sdu = t
          \/ \E sn \in SNs : InEntry(rx_window[sn], t)
          \/ t \in Sdus /\ handed[t] > 0
      BY <3>1, SomewhereOrNot
    <3>3. CASE t \in Elems(tx_sdu_queue)
      BY <2>1, <3>3
    <3>4. ASSUME NEW sn \in SNs, InEntry(rx_window[sn], t) PROVE t \in Somewhere'
      BY <1>1, <3>4 DEF Somewhere, sdus_in, InEntry
    <3>5. CASE \/ t = tx_sdu.sdu \/ \E i \in DOMAIN channel : channel[i].sdu = t
               \/ t \in Sdus /\ handed[t] > 0
      BY <1>1, <3>5 DEF Somewhere, Elems
    <3> QED BY <3>2, <3>3, <3>4, <3>5
  <2> QED BY <2>1, <2>2
<1> QED BY <1>1, <1>2, <1>3, <1>4, <1>5, KeptNext

(* Nothing of what is sent changes, nor the SDUs that are live.            *)
LEMMA StillKept ==
  ASSUME WholeInv, UmInv, KeptInv,
         UNCHANGED <<umRxVars, channel, TX_Next, next_so, tx_sdu, in_order, written, discarded,
                     affected>>,
         \A t \in Elems(tx_sdu_queue) : t = None \/ t \in Elems(tx_sdu_queue')
  PROVE  KeptInv'
<1> DEFINE K == Kept
<1>1. Kept' = K /\ None \notin K
  BY KeptSdus DEF Kept, Live
<1>2. \A t \in K : /\ t \in Kept
                   /\ t \in Elems(tx_sdu_queue) => t \in Elems(tx_sdu_queue')
  BY <1>1
<1> HIDE DEF K
<1> QED BY <1>1, <1>2, QuietKept

(* write_sdu()                                                             *)
LEMMA WriteKept ==
  ASSUME WholeInv, UmInv, KeptInv, NEW sdu \in Sdus, Write(sdu)
  PROVE  KeptInv'
<1>1. sdu \notin written /\ written' = written \cup {sdu} /\ discarded' = discarded
  BY WriteWhole
<1>2. /\ tx_sdu_queue' = Append(tx_sdu_queue, sdu)
      /\ UNCHANGED <<umRxVars, channel, TX_Next, next_so, tx_sdu, in_order, affected>>
  BY DEF Write, write_sdu, Tx
<1>3. tx_sdu_queue \in Seq(Sdus \cup {None}) /\ sdu \in Sdus \cup {None}
  BY DEF UmInv, TxInv
<1>4. \E n \in DOMAIN tx_sdu_queue' :
        /\ tx_sdu_queue'[n] = sdu
        /\ \A k \in DOMAIN tx_sdu_queue :
             k \in DOMAIN tx_sdu_queue' /\ tx_sdu_queue'[k] = tx_sdu_queue[k]
  BY <1>2, <1>3, Appended
<1>5. Unsent(sdu)
  BY <1>1 DEF WholeInv, QueueOK, Live
<1> DEFINE K == Kept \cup ({sdu} \ affected)
<1>6. Kept' = K
  <2>1. discarded \subseteq written /\ affected' = affected
    BY <1>2 DEF WholeInv, BearerTypes
  <2>2. Live' = Live \cup {sdu}
    BY <1>1, <2>1 DEF Live
  <2>3. Kept' = Live' \ affected
    BY <2>1 DEF Kept
  <2> QED BY <2>2, <2>3 DEF Kept
<1>7. None \notin K /\ \A t \in K : t \in Kept \/ t = sdu
  BY KeptSdus, NoSdus
<1>8. /\ sdu \in Elems(tx_sdu_queue')
      /\ \A t \in Elems(tx_sdu_queue) : t \in Elems(tx_sdu_queue')
  BY <1>4 DEF Elems
<1>9. \A t \in K : /\ t \in Kept \/ (Unsent(t) /\ t \in Elems(tx_sdu_queue'))
                   /\ t \in Elems(tx_sdu_queue) => t \in Elems(tx_sdu_queue')
  BY <1>5, <1>7, <1>8
<1> HIDE DEF K
<1> QED BY <1>2, <1>6, <1>7, <1>9, QuietKept

(* discard_sdu()                                                           *)
LEMMA DiscardKept ==
  ASSUME WholeInv, UmInv, KeptInv, NEW sdu \in Sdus, Discard(sdu)
  PROVE  KeptInv'
<1>1. /\ discarded' = discarded \cup {sdu} /\ written' = written
      /\ DOMAIN tx_sdu_queue' = DOMAIN tx_sdu_queue
      /\ \A i \in DOMAIN tx_sdu_queue : tx_sdu_queue[i] # sdu => tx_sdu_queue'[i] = tx_sdu_queue[i]
      /\ UNCHANGED <<umRxVars, channel, TX_Next, next_so, tx_sdu, in_order, affected>>
  BY DEF Discard, discard_sdu, Tx
<1> DEFINE K == Kept \ {sdu}
<1>2. Kept' = K
  BY <1>1 DEF Kept, Live
<1>3. None \notin K /\ \A t \in K : t \in Kept /\ t # sdu
  BY KeptSdus
<1>4. \A t \in Elems(tx_sdu_queue) : t = sdu \/ t \in Elems(tx_sdu_queue')
  BY <1>1 DEF Elems
<1>5. \A t \in K : /\ t \in Kept
                   /\ t \in Elems(tx_sdu_queue) => t \in Elems(tx_sdu_queue')
  BY <1>3, <1>4
<1> HIDE DEF K
<1> QED BY <1>1, <1>2, <1>3, <1>5, QuietKept

(* build_data_pdu() returns.                                               *)
LEMMA BuildKept ==
  ASSUME WholeInv, UmInv, KeptInv, ShortSn, Build
  PROVE  KeptInv'
<1>1. Tx /\ UNCHANGED <<umRxVars, in_order, affected>>
  BY DEF Build, Tx
<1>2. CASE build_nothing
  <2>1. /\ only_null(tx_sdu_queue)
        /\ UNCHANGED <<TX_Next, next_so, tx_sdu, written, discarded, channel>>
    BY <1>2 DEF build_nothing
  <2>2. \A t \in Elems(tx_sdu_queue) : t = None
    BY <2>1 DEF Elems, only_null
  <2> QED BY <1>1, <2>1, <2>2, StillKept
<1>3. CASE build_too_small
  <2>1. /\ mac_grant # 0 /\ too_small(mac_grant) /\ ~(is_new /\ only_null(tx_sdu_queue))
        /\ tx_sdu' = current /\ tx_sdu_queue' = queue_after /\ next_so' = so_of_next
        /\ UNCHANGED <<TX_Next, written, discarded, channel>>
    BY <1>3 DEF build_too_small, build_returns
  <2>2. ~is_new
    BY <2>1, NewPdu
  <2>3. UNCHANGED <<next_so, tx_sdu, tx_sdu_queue>>
    BY <2>1, <2>2 DEF current, queue_after, so_of_next
  <2> QED BY <1>1, <2>1, <2>3, StillKept
<1>4. CASE build_pdu
  <2>1. CASE is_new
    BY <1>1, <1>4, <2>1, SendNewKept
  <2>2. CASE ~is_new
    BY <1>1, <1>4, <2>2, SendNextKept
  <2> QED BY <2>1, <2>2
<1> QED BY <1>2, <1>3, <1>4 DEF Build

(* Every step keeps the invariant.                                         *)
LEMMA KeptSteps ==
  ASSUME ShortSn, WholeInv, UmInv, KeptInv, [Next]_vars
  PROVE  KeptInv'
<1>1. ASSUME NEW sdu \in Sdus, Write(sdu) PROVE KeptInv'
  BY <1>1, WriteKept
<1>2. ASSUME NEW sdu \in Sdus, Discard(sdu) PROVE KeptInv'
  BY <1>2, DiscardKept
<1>3. ASSUME NEW n \in Grants, Opportunity(n) PROVE KeptInv'
  BY <1>3, StillKept DEF Opportunity, mac_opportunity, Tx
<1>4. CASE Build
  BY <1>4, BuildKept
<1>5. CASE Blocks
  BY <1>5, StillKept DEF Blocks, build_blocks, Tx
<1>6. ASSUME NEW i \in DOMAIN channel, Receive(i) PROVE KeptInv'
  BY <1>6, ReceiveKept
<1>7. ASSUME NEW i \in DOMAIN channel, Lose(i) PROVE KeptInv'
  BY <1>7, LoseKept
<1>8. CASE Expire
  BY <1>8, ExpireKept
<1>9. CASE Reestablish
  <2>1. WholeInv' /\ UmInv'
    BY <1>9, UmNext, ReestablishWhole
  <2> QED BY <1>9, <2>1, ReestablishKept
<1>10. CASE UNCHANGED vars
  BY <1>10, StillKept DEF vars, umTxVars
<1> QED BY <1>1, <1>2, <1>3, <1>4, <1>5, <1>6, <1>7, <1>8, <1>9, <1>10 DEF Next

(* As long as no PDU overtakes another and no SN is used again too early,  *)
(* an SDU that was not discarded and of which neither the MAC nor          *)
(* t-Reassembly has dropped anything is in one of the entities, on its way *)
(* or handed over: no move of the window and no search of the map drops it.*)
THEOREM NoneDropped == ShortSn /\ Spec => []NothingDropped
<1> SUFFICES ASSUME ShortSn PROVE Spec => []NothingDropped
  OBVIOUS
<1> DEFINE Inv == UmInv /\ ApartInv /\ (sns_apart => KeptInv)
<1>1. Inv /\ [Next]_vars => Inv'
  <2> SUFFICES ASSUME Inv, [Next]_vars PROVE Inv'
    OBVIOUS
  <2>1. UmInv' /\ ApartInv'
    BY ApartNext
  <2>2. ASSUME sns_apart' PROVE KeptInv'
    <3>1. sns_apart
      BY <2>2, ApartBefore
    <3> QED BY <3>1, KeptSteps DEF ApartInv
  <2> QED BY <2>1, <2>2
<1>2. Inv => NothingDropped
  BY DEF KeptInv, NoneMissing, NothingDropped, Kept, Live
<1>3. Init => Inv
  BY UmInit, WholeInit, KeptInit DEF ApartInv
<1> QED BY <1>1, <1>2, <1>3, PTL DEF Spec
=============================================================================
