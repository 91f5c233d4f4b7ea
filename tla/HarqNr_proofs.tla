---------------------------- MODULE HarqNr_proofs ----------------------------
(***************************************************************************)
(* HARQ between gNB and UE for any number of processes, of transmissions   *)
(* and of workers: acknowledgements are for the block they are applied to, *)
(* and no softbuffer gets the bits of two blocks, as long as the two ends  *)
(* agree (EndsAgree).                                                      *)
(***************************************************************************)
EXTENDS HarqNr, FiniteSetTheorems, SequenceTheorems, WellFoundedInduction, TLAPS

-----------------------------------------------------------------------------
(* The invariant                                                           *)

Slots == 0..(SlotMod - 1)
Event == [pid : Pids, ack : BOOLEAN, tb : Blocks]
HarqProc == [active : BOOLEAN, ack_state : BOOLEAN, ndi : {0, 1}, n_rtx : 0..MaxRetx,
             slot_ack : Slots, block : Blocks \cup {None}]
DlProc == [ndi : {0, 1}, is_first_tb : BOOLEAN, acked : BOOLEAN]
UlProc == [ndi : {0, 1, NDI_NOT_SET}, nof_retx : 0..max_harq_tx, harq_buffer : Blocks \cup {None}]

Types ==
  /\ link \in {"dl", "ul"} /\ slot \in Slots
  /\ ul \in [0..(Workers - 1) -> {"todo", "done", "failed"}]
  /\ tb \in [Pids -> HarqProc]
  /\ grants \in Seq(Grant) /\ events \in Seq(Event)
  /\ dl_ue \in [Pids -> DlProc] /\ ul_ue \in [Pids -> UlProc]
  /\ soft \in [Pids -> SUBSET Blocks] /\ delivered \in [Pids -> [Blocks -> {0, 1}]]
  /\ missed \in [Pids -> 0..MaxMissed]

(* How far a slot is ahead of another                                      *)
ahead(s, t) == IF t >= s THEN t - s ELSE t - s + SlotMod

(* Every grant of gs waits for a slot of its own, after s, that the        *)
(* workers w have still to process                                         *)
SlotsOK(s, w, gs) ==
  /\ \A j \in DOMAIN gs : ahead(s, gs[j].at) < TxDelay + K
  /\ \A j, k \in DOMAIN gs : gs[j].at = gs[k].at => j = k
  /\ \A i \in DOMAIN w : w[i] # "todo" => \A j \in DOMAIN gs : gs[j].at # plus(s, i)

(* What is under way for a process                                         *)
Of(q, p) == {q[j] : j \in {j \in DOMAIN q : q[j].pid = p}}
GrantsOf(p) == Of(grants, p)
EventsOf(p) == Of(events, p)

(* The conditions below are about one process: h is its harq_proc, d or u  *)
(* the process of the UE, s the softbuffer, dv what has been delivered, m  *)
(* the DCIs missed, G and E the grants and events under way.               *)

(* A grant or an answer to it is for the block the process holds.          *)
Owned(h, G, E) ==
  /\ \A g \in G : h.active /\ h.block = g.tb /\ h.ndi = g.ndi /\ h.slot_ack = g.at
  /\ \A e \in E : h.active /\ h.block = e.tb
  /\ G # {} => E = {}
  /\ h.active => h.block \in Blocks

Unheard(G)   == \E g \in G : g.answer = "pending"
AckQueued(E) == \E e \in E : e.ack
OneBlock(s)  == \E b \in Blocks : s \subseteq {b}

(* The process does not leave a block before the UE has heard of it: what  *)
(* was sent of it has been missed or is about to be heard                  *)
InStep(h, m, G) == h.n_rtx < m + (IF Unheard(G) THEN 1 ELSE 0)

DlOK(h, d, s, dv, m, G, E) ==
  LET heard == d.ndi = h.ndi
  IN /\ ~h.active => heard
     /\ h.active /\ ~heard => InStep(h, m, G)
     /\ h.active /\ heard => ~d.is_first_tb /\ s \subseteq {h.block}
     /\ h.active => dv[h.block] = IF heard /\ d.acked THEN 1 ELSE 0
     /\ AckQueued(E) \/ (\E g \in G : g.answer = "ack") => heard /\ d.acked
     /\ OneBlock(s)

UlOK(h, u, s, dv, m, G, E) ==
  LET heard == u.ndi = h.ndi /\ u.harq_buffer # None
  IN /\ ~h.active => heard \/ u.harq_buffer = None
     /\ h.active /\ ~heard => s = {} /\ (u.harq_buffer = None \/ InStep(h, m, G))
     /\ h.active /\ heard =>
          /\ s \subseteq {u.harq_buffer}
          /\ u.nof_retx + (IF Unheard(G) THEN 1 ELSE 0) <= h.n_rtx + 1
          /\ AckQueued(E) \/ dv[u.harq_buffer] = 0
     /\ \A g \in G : g.pdu # None => heard /\ g.pdu = u.harq_buffer /\ g.answer # "pending"
     /\ AckQueued(E) => heard
     /\ OneBlock(s)

ProcOK(p) ==
  /\ Owned(tb[p], GrantsOf(p), EventsOf(p))
  /\ link = "dl" =>
       DlOK(tb[p], dl_ue[p], soft[p], delivered[p], missed[p], GrantsOf(p), EventsOf(p))
  /\ link = "ul" =>
       UlOK(tb[p], ul_ue[p], soft[p], delivered[p], missed[p], GrantsOf(p), EventsOf(p))

HInv == Types /\ SlotsOK(slot, ul, grants) /\ \A p \in Pids : ProcOK(p)

-----------------------------------------------------------------------------
(* Slots                                                                   *)

(* The constants as numbers.                                               *)
LEMMA Constants ==
  /\ Pids \subseteq Nat /\ Blocks \subseteq Nat \ {0} /\ None \notin Blocks
  /\ 1 \in Blocks /\ 2 \in Blocks /\ 3 \in Blocks
  /\ MaxRetx \in Nat /\ max_harq_tx \in Nat /\ MaxMissed \in Nat
  /\ SlotMod \in Nat /\ TxDelay \in Nat \ {0} /\ K \in Nat
  /\ Workers \in Nat /\ 1 <= Workers /\ Workers <= TxDelay /\ 2 * (TxDelay + K) < SlotMod
  /\ None = 0 /\ NDI_NOT_SET = 100
BY HarqAssumption DEF None, NDI_NOT_SET

(* A slot that many ahead is that many ahead, over the wrap too.           *)
LEMMA PlusAhead ==
  ASSUME NEW s \in Slots, NEW k \in Nat, k < SlotMod
  PROVE  plus(s, k) \in Slots /\ ahead(s, plus(s, k)) = k
<1>1. SlotMod \in Nat /\ s \in Nat /\ s < SlotMod BY Constants DEF Slots
<1> DEFINE x == s + k
<1>2. x \in Nat /\ x < 2 * SlotMod BY <1>1
<1>3. x % SlotMod = IF x < SlotMod THEN x ELSE x - SlotMod
  <2> HIDE DEF x
  <2> QED BY <1>1, <1>2
<1>4. plus(s, k) = IF s + k < SlotMod THEN s + k ELSE s + k - SlotMod BY <1>1, <1>3 DEF plus
<1>5. CASE s + k < SlotMod BY <1>1, <1>4, <1>5 DEF ahead, Slots
<1>6. CASE ~(s + k < SlotMod) BY <1>1, <1>4, <1>6 DEF ahead, Slots
<1> QED BY <1>5, <1>6

(* Two slots as far ahead are one; the next slot is one nearer to it; and  *)
(* none of the next ones has passed.                                       *)
LEMMA AheadFacts ==
  ASSUME NEW s \in Slots, NEW t \in Slots
  PROVE  /\ ahead(s, t) \in 0..(SlotMod - 1)
         /\ plus(s, ahead(s, t)) = t
         /\ ahead(s, t) # 0 => ahead(plus(s, 1), t) = ahead(s, t) - 1
         /\ ahead(s, t) \in 1..(TxDelay + K - 1) => ~not_after(t, s)
<1>1. SlotMod \in Nat /\ s \in Nat /\ s < SlotMod /\ t \in Nat /\ t < SlotMod
  BY Constants DEF Slots
<1>2. ahead(s, t) \in 0..(SlotMod - 1) BY <1>1 DEF ahead
<1>3. plus(s, ahead(s, t)) = t
  <2>1. ahead(s, t) \in Nat /\ ahead(s, t) < SlotMod BY <1>1, <1>2
  <2> DEFINE k == ahead(s, t)  r == plus(s, k)
  <2>2. r \in Slots /\ ahead(s, r) = k BY <2>1, PlusAhead
  <2>3. r \in Nat /\ r < SlotMod BY <2>2, <1>1 DEF Slots
  <2>4. (IF r >= s THEN r - s ELSE r - s + SlotMod) = (IF t >= s THEN t - s ELSE t - s + SlotMod)
    <3> HIDE DEF r
    <3> QED BY <2>2 DEF ahead
  <2> HIDE DEF r
  <2>5. r = t BY <2>3, <2>4, <1>1
  <2> QED BY <2>5 DEF r
<1>4. ASSUME ahead(s, t) # 0 PROVE ahead(plus(s, 1), t) = ahead(s, t) - 1
  <2>1. 1 \in Nat /\ 1 < SlotMod BY Constants
  <2> DEFINE n == plus(s, 1)
  <2>2. n \in Slots /\ ahead(s, n) = 1 BY <2>1, PlusAhead
  <2> HIDE DEF n
  <2>3. n \in Nat /\ n < SlotMod BY <2>2, <1>1 DEF Slots
  <2>4. (IF n >= s THEN n - s ELSE n - s + SlotMod) = 1 BY <2>2 DEF ahead
  <2>5. t # s BY <1>4, <1>1 DEF ahead
  <2>6. ahead(n, t) = ahead(s, t) - 1 BY <1>1, <2>1, <2>3, <2>4, <2>5 DEF ahead
  <2> QED BY <2>6 DEF n
<1>5. ASSUME ahead(s, t) \in 1..(TxDelay + K - 1) PROVE ~not_after(t, s)
  <2> DEFINE D == TxDelay + K  H == SlotMod \div 2
  <2>1. D \in Nat /\ 2 * D < SlotMod BY Constants
  <2>2. H \in Nat /\ 2 * H <= SlotMod BY <1>1
  <2>3. ahead(s, t) < D /\ ahead(s, t) >= 1 BY <1>5, <1>2, Constants
  <2>4. not_after(t, s) <=> (t = s \/ IF s - t > 0 THEN s - t < H ELSE 2 * (t - s) > SlotMod)
    BY DEF not_after, before
  <2> HIDE DEF D, H
  <2>5. CASE t >= s
    <3>1. ahead(s, t) = t - s BY <2>5 DEF ahead
    <3> QED BY <1>1, <2>1, <2>3, <2>4, <2>5, <3>1
  <2>6. CASE t < s
    <3>1. ahead(s, t) = t - s + SlotMod BY <2>6, <1>1 DEF ahead
    <3> QED BY <1>1, <2>1, <2>2, <2>3, <2>4, <2>6, <3>1
  <2> QED BY <2>5, <2>6, <1>1
<1> QED BY <1>2, <1>3, <1>4, <1>5

(* find_pending_dl_retx() and its like find one of the processes.          *)
LEMMA FirstOf ==
  ASSUME NEW S \in SUBSET Nat, S # {}
  PROVE  first_of(S) \in S
<1> DEFINE Less == OpToRel(<, Nat)
<1>1. \A m, n \in Nat : <<n, m>> \in Less <=> n < m
  <2>1. Less = {ss \in Nat \X Nat : ss[1] < ss[2]} BY DEF OpToRel
  <2> HIDE DEF Less
  <2> QED BY <2>1
<1>2. PICK m \in S : \A n \in S : ~(<<n, m>> \in Less)
  <2>1. IsWellFoundedOn(Less, Nat) BY NatLessThanWellFounded, Zenon
  <2> HIDE DEF Less
  <2> QED BY <2>1, WFMin, Zenon
<1>3. \A n \in S : m <= n
  <2> HIDE DEF Less
  <2> SUFFICES ASSUME NEW n \in S PROVE m <= n OBVIOUS
  <2>1. m \in Nat /\ n \in Nat OBVIOUS
  <2>2. ~(n < m) BY <1>1, <1>2, <2>1
  <2> QED BY <2>1, <2>2
<1> QED BY <1>3 DEF first_of

-----------------------------------------------------------------------------
(* Grants and events under way                                             *)

(* A grant as its record.                                                  *)
LEMMA GrantFields ==
  ASSUME NEW g \in Grant
  PROVE  /\ g.at \in Slots /\ g.pid \in Pids /\ g.ndi \in {0, 1} /\ g.tb \in Blocks
         /\ g.answer \in {"pending", "nothing", "ack", "nack"} /\ g.pdu \in Blocks \cup {None}
BY DEF Grant, Slots

(* What is left when one grant is taken out.                               *)
LEMMA RemoveShape ==
  ASSUME NEW S, NEW gs \in Seq(S), NEW j \in DOMAIN gs
  PROVE  /\ RemoveAt(gs, j) \in Seq(S)
         /\ DOMAIN RemoveAt(gs, j) = 1..(Len(gs) - 1)
         /\ \A k \in 1..(Len(gs) - 1) : RemoveAt(gs, j)[k] = IF k < j THEN gs[k] ELSE gs[k + 1]
<1>1. j \in 1..Len(gs) /\ Len(gs) \in Nat OBVIOUS
<1>2. RemoveAt(gs, j) = SubSeq(gs, 1, j - 1) \o SubSeq(gs, j + 1, Len(gs)) BY DEF RemoveAt
<1> DEFINE a == SubSeq(gs, 1, j - 1)  b == SubSeq(gs, j + 1, Len(gs))
<1>3. a \in Seq(S) /\ Len(a) = j - 1 /\ \A k \in 1..(j - 1) : a[k] = gs[k] BY <1>1
<1>4. b \in Seq(S) /\ Len(b) = Len(gs) - j /\ \A k \in 1..(Len(gs) - j) : b[k] = gs[j + k] BY <1>1
<1> HIDE DEF a, b
<1>5. a \o b \in Seq(S) /\ Len(a \o b) = Len(gs) - 1 BY <1>1, <1>3, <1>4
<1>6. ASSUME NEW k \in 1..(Len(gs) - 1) PROVE (a \o b)[k] = IF k < j THEN gs[k] ELSE gs[k + 1]
  <2>1. CASE k < j BY <2>1, <1>1, <1>3, <1>4
  <2>2. CASE k >= j
    <3>1. (a \o b)[k] = b[k - Len(a)] BY <2>2, <1>1, <1>3, <1>4
    <3>2. k - Len(a) \in 1..(Len(gs) - j) /\ j + (k - Len(a)) = k + 1 BY <2>2, <1>1, <1>3
    <3> QED BY <2>2, <1>1, <1>4, <3>1, <3>2
  <2>3. k < j \/ k >= j BY <1>1
  <2> QED BY <2>1, <2>2, <2>3, Zenon
<1>7. RemoveAt(gs, j) = a \o b BY <1>2 DEF a, b
<1> QED BY <1>1, <1>5, <1>6, <1>7

(* The grants of a process, when one of some process is taken out.         *)
LEMMA RemoveOf ==
  ASSUME NEW gs \in Seq(Grant), NEW j \in DOMAIN gs,
         \A k \in DOMAIN gs : gs[k].pid = gs[j].pid => k = j
  PROVE  /\ Of(gs, gs[j].pid) = {gs[j]} /\ Of(RemoveAt(gs, j), gs[j].pid) = {}
         /\ \A q : q # gs[j].pid => Of(RemoveAt(gs, j), q) = Of(gs, q)
<1> DEFINE r == RemoveAt(gs, j)  n == Len(gs)
<1>1. /\ r \in Seq(Grant) /\ DOMAIN r = 1..(n - 1)
      /\ \A k \in 1..(n - 1) : r[k] = IF k < j THEN gs[k] ELSE gs[k + 1]
  BY RemoveShape
<1>2. j \in 1..n /\ n \in Nat /\ DOMAIN gs = 1..n OBVIOUS
<1> HIDE DEF r
<1>3. Of(gs, gs[j].pid) = {gs[j]} BY DEF Of
<1>4. \A k \in DOMAIN r : \E m \in DOMAIN gs : m # j /\ r[k] = gs[m]
  <2> SUFFICES ASSUME NEW k \in DOMAIN r PROVE \E m \in DOMAIN gs : m # j /\ r[k] = gs[m] OBVIOUS
  <2>1. CASE k < j BY <1>1, <1>2, <2>1
  <2>2. CASE k >= j
    <3>1. k + 1 \in DOMAIN gs /\ k + 1 # j /\ r[k] = gs[k + 1] BY <1>1, <1>2, <2>2
    <3> QED BY <3>1
  <2> QED BY <1>1, <1>2, <2>1, <2>2
<1>5. \A m \in DOMAIN gs : m # j => \E k \in DOMAIN r : r[k] = gs[m]
  <2> SUFFICES ASSUME NEW m \in DOMAIN gs, m # j PROVE \E k \in DOMAIN r : r[k] = gs[m] OBVIOUS
  <2>1. CASE m < j BY <1>1, <1>2, <2>1
  <2>2. CASE m > j
    <3>1. m - 1 \in DOMAIN r /\ r[m - 1] = gs[m] BY <1>1, <1>2, <2>2
    <3> QED BY <3>1
  <2> QED BY <1>2, <2>1, <2>2
<1>6. Of(r, gs[j].pid) = {} BY <1>4 DEF Of
<1>7. ASSUME NEW q, q # gs[j].pid PROVE Of(r, q) = Of(gs, q)
  <2>1. ASSUME NEW x \in Of(r, q) PROVE x \in Of(gs, q) BY <1>4 DEF Of
  <2>2. ASSUME NEW x \in Of(gs, q) PROVE x \in Of(r, q)
    <3>1. PICK m \in DOMAIN gs : x = gs[m] /\ gs[m].pid = q BY DEF Of
    <3>2. PICK k \in DOMAIN r : r[k] = gs[m] BY <1>5, <1>7, <3>1
    <3> QED BY <3>1, <3>2 DEF Of
  <2> QED BY <2>1, <2>2
<1> QED BY <1>3, <1>6, <1>7 DEF r

(* The grants or events of a process, when one is appended.                *)
LEMMA AppendOf ==
  ASSUME NEW S, NEW q \in Seq(S), NEW x \in S
  PROVE  /\ Append(q, x) \in Seq(S)
         /\ Of(Append(q, x), x.pid) = Of(q, x.pid) \cup {x}
         /\ \A p : p # x.pid => Of(Append(q, x), p) = Of(q, p)
<1> DEFINE a == Append(q, x)  n == Len(q)
<1>1. /\ a \in Seq(S) /\ n \in Nat /\ DOMAIN q = 1..n /\ DOMAIN a = 1..(n + 1)
      /\ a[n + 1] = x /\ \A k \in 1..n : a[k] = q[k]
  OBVIOUS
<1> HIDE DEF a
<1>2. ASSUME NEW p PROVE Of(a, p) = Of(q, p) \cup (IF x.pid = p THEN {x} ELSE {})
  <2>1. ASSUME NEW y \in Of(a, p) PROVE y \in Of(q, p) \cup (IF x.pid = p THEN {x} ELSE {})
    <3>1. PICK k \in DOMAIN a : y = a[k] /\ a[k].pid = p BY DEF Of
    <3>2. CASE k = n + 1 BY <1>1, <3>1, <3>2
    <3>3. CASE k \in 1..n BY <1>1, <3>1, <3>3 DEF Of
    <3> QED BY <1>1, <3>2, <3>3
  <2>2. ASSUME NEW y \in Of(q, p) PROVE y \in Of(a, p)
    <3>1. PICK k \in DOMAIN q : y = q[k] /\ q[k].pid = p BY DEF Of
    <3>2. k \in DOMAIN a /\ a[k] = q[k] BY <1>1, <3>1
    <3> QED BY <3>1, <3>2 DEF Of
  <2>3. x.pid = p => x \in Of(a, p)
    <3>1. n + 1 \in DOMAIN a BY <1>1
    <3> QED BY <3>1, <1>1 DEF Of
  <2> QED BY <2>1, <2>2, <2>3
<1> QED BY <1>1, <1>2 DEF a

(* The grants of a process, when one of some process is rewritten.         *)
LEMMA ReplaceOf ==
  ASSUME NEW gs \in Seq(Grant), NEW j \in DOMAIN gs, NEW x \in Grant, x.pid = gs[j].pid,
         \A k \in DOMAIN gs : gs[k].pid = gs[j].pid => k = j
  PROVE  /\ [gs EXCEPT ![j] = x] \in Seq(Grant)
         /\ Of(gs, gs[j].pid) = {gs[j]} /\ Of([gs EXCEPT ![j] = x], gs[j].pid) = {x}
         /\ \A q : q # gs[j].pid => Of([gs EXCEPT ![j] = x], q) = Of(gs, q)
<1> DEFINE r == [gs EXCEPT ![j] = x]
<1>1. r \in Seq(Grant) /\ DOMAIN r = DOMAIN gs /\ r[j] = x /\ \A k \in DOMAIN gs : k # j => r[k] = gs[k]
  OBVIOUS
<1> HIDE DEF r
<1>2. Of(gs, gs[j].pid) = {gs[j]} BY DEF Of
<1>3. Of(r, gs[j].pid) = {x}
  <2>1. \A k \in DOMAIN r : r[k].pid = gs[j].pid => k = j BY <1>1
  <2>2. x \in Of(r, gs[j].pid) BY <1>1 DEF Of
  <2> QED BY <1>1, <2>1, <2>2 DEF Of
<1>4. ASSUME NEW q, q # gs[j].pid PROVE Of(r, q) = Of(gs, q)
  <2>1. \A k \in DOMAIN gs : (r[k].pid = q <=> gs[k].pid = q) /\ (gs[k].pid = q => r[k] = gs[k])
    BY <1>1, <1>4
  <2> QED BY <1>1, <2>1 DEF Of
<1> QED BY <1>1, <1>2, <1>3, <1>4 DEF r

-----------------------------------------------------------------------------
(* The slots of the grants                                                 *)

Works == [0..(Workers - 1) -> {"todo", "done", "failed"}]

(* A worker has processed a slot: the grant that waited for it is gone.    *)
LEMMA SlotProcessed ==
  ASSUME NEW s \in Slots, NEW w \in Works, NEW gs \in Seq(Grant), SlotsOK(s, w, gs),
         NEW i \in DOMAIN w, NEW e, NEW rs \in Seq(Grant),
         \/ rs = gs /\ \A j \in DOMAIN gs : gs[j].at # plus(s, i)
         \/ \E j \in DOMAIN gs : gs[j].at = plus(s, i) /\ rs = RemoveAt(gs, j)
  PROVE  SlotsOK(s, [w EXCEPT ![i] = e], rs)
<1> DEFINE v == [w EXCEPT ![i] = e]
<1>1. DOMAIN v = DOMAIN w /\ \A k \in DOMAIN w : k # i => v[k] = w[k] BY DEF Works
<1> HIDE DEF v
<1>2. CASE rs = gs /\ \A j \in DOMAIN gs : gs[j].at # plus(s, i)
  <2>1. \A k \in DOMAIN v : v[k] # "todo" => \A j \in DOMAIN rs : rs[j].at # plus(s, k)
    BY <1>1, <1>2 DEF SlotsOK
  <2> QED BY <1>2, <2>1 DEF SlotsOK, v
<1>3. CASE \E j \in DOMAIN gs : gs[j].at = plus(s, i) /\ rs = RemoveAt(gs, j)
  <2>1. PICK j \in DOMAIN gs : gs[j].at = plus(s, i) /\ rs = RemoveAt(gs, j) BY <1>3
  <2> DEFINE n == Len(gs)  old(k) == IF k < j THEN k ELSE k + 1
  <2>2. DOMAIN rs = 1..(n - 1) /\ \A k \in 1..(n - 1) : rs[k] = IF k < j THEN gs[k] ELSE gs[k + 1]
    BY <2>1, RemoveShape
  <2>3. j \in 1..n /\ n \in Nat /\ DOMAIN gs = 1..n OBVIOUS
  <2>4. \A k \in DOMAIN rs : old(k) \in DOMAIN gs /\ old(k) # j /\ rs[k] = gs[old(k)]
    BY <2>2, <2>3
  <2>5. \A k, m \in DOMAIN rs : old(k) = old(m) => k = m BY <2>2, <2>3
  <2> HIDE DEF old
  <2>6. \A k \in DOMAIN rs : ahead(s, rs[k].at) < TxDelay + K BY <2>4 DEF SlotsOK
  <2>7. \A k, m \in DOMAIN rs : rs[k].at = rs[m].at => k = m
    <3> SUFFICES ASSUME NEW k \in DOMAIN rs, NEW m \in DOMAIN rs, rs[k].at = rs[m].at PROVE k = m
      OBVIOUS
    <3>1. gs[old(k)].at = gs[old(m)].at BY <2>4
    <3>2. old(k) = old(m) BY <2>4, <3>1 DEF SlotsOK
    <3> QED BY <2>5, <3>2
  <2>8. \A k \in DOMAIN rs : rs[k].at # plus(s, i)
    <3> SUFFICES ASSUME NEW k \in DOMAIN rs, rs[k].at = plus(s, i) PROVE FALSE OBVIOUS
    <3>1. gs[old(k)].at = gs[j].at BY <2>1, <2>4
    <3> QED BY <2>4, <3>1 DEF SlotsOK
  <2>9. \A k \in DOMAIN v : v[k] # "todo" => \A m \in DOMAIN rs : rs[m].at # plus(s, k)
    <3> SUFFICES ASSUME NEW k \in DOMAIN v, v[k] # "todo", NEW m \in DOMAIN rs
                 PROVE  rs[m].at # plus(s, k)
      OBVIOUS
    <3>1. CASE k = i BY <2>8, <3>1
    <3>2. CASE k # i
      <4>1. w[k] # "todo" /\ k \in DOMAIN w BY <1>1, <3>2
      <4> QED BY <4>1, <2>4 DEF SlotsOK
    <3> QED BY <3>1, <3>2
  <2> QED BY <2>6, <2>7, <2>9 DEF SlotsOK, v
<1> QED BY <1>2, <1>3

(* The scheduler goes on to the next slot, with or without a grant.        *)
LEMMA SlotPassed ==
  ASSUME NEW s \in Slots, NEW w \in Works, NEW gs \in Seq(Grant), SlotsOK(s, w, gs),
         w[0] # "todo", NEW rs,
         \/ rs = gs
         \/ \E g \in Grant : g.at = plus(s, TxDelay + K) /\ rs = Append(gs, g)
  PROVE  SlotsOK(plus(s, 1), [i \in DOMAIN w |-> IF i + 1 \in DOMAIN w THEN w[i + 1] ELSE "todo"], rs)
<1> DEFINE D == TxDelay + K  n == Len(gs)  t == plus(s, 1)
           v == [i \in DOMAIN w |-> IF i + 1 \in DOMAIN w THEN w[i + 1] ELSE "todo"]
<1>0. /\ D \in Nat /\ D < SlotMod /\ 1 < SlotMod /\ Workers \in Nat /\ 1 <= Workers /\ Workers <= D
      /\ SlotMod \in Nat
  BY Constants
<1>1. DOMAIN w = 0..(Workers - 1) /\ 0 \in DOMAIN w BY <1>0 DEF Works
<1>2. t \in Slots /\ ahead(s, t) = 1 BY <1>0, PlusAhead
<1>3. plus(s, 0) = s
  <2>1. 0 \in Nat /\ 0 < SlotMod BY <1>0
  <2>2. plus(s, 0) \in Slots /\ ahead(s, plus(s, 0)) = 0 BY <2>1, PlusAhead
  <2>3. ahead(s, s) = 0 BY <1>0 DEF ahead, Slots
  <2>4. plus(s, ahead(s, s)) = s BY AheadFacts
  <2> QED BY <2>3, <2>4
<1>4. \A j \in DOMAIN gs : gs[j] \in Grant /\ gs[j].at \in Slots BY GrantFields
<1>5. \A j \in DOMAIN gs : gs[j].at # s BY <1>1, <1>3 DEF SlotsOK
<1>6. \A j \in DOMAIN gs : /\ ahead(s, gs[j].at) \in 1..(D - 1)
                           /\ ahead(t, gs[j].at) = ahead(s, gs[j].at) - 1
  <2> SUFFICES ASSUME NEW j \in DOMAIN gs
               PROVE  /\ ahead(s, gs[j].at) \in 1..(D - 1)
                      /\ ahead(t, gs[j].at) = ahead(s, gs[j].at) - 1
    OBVIOUS
  <2> DEFINE a == gs[j].at
  <2>1. a \in Slots /\ a # s BY <1>4, <1>5
  <2> HIDE DEF a
  <2>2. /\ ahead(s, a) \in 0..(SlotMod - 1) /\ plus(s, ahead(s, a)) = a
        /\ ahead(s, a) # 0 => ahead(plus(s, 1), a) = ahead(s, a) - 1
    BY <2>1, AheadFacts
  <2>3. ahead(s, a) # 0 BY <2>1, <2>2, <1>3
  <2>4. ahead(s, a) < D BY DEF SlotsOK, a
  <2> QED BY <1>0, <2>2, <2>3, <2>4 DEF a
<1>7. \A i \in DOMAIN v : v[i] # "todo" => /\ i + 1 \in DOMAIN w /\ w[i + 1] # "todo"
                                           /\ plus(t, i) = plus(s, i + 1) /\ ahead(t, plus(t, i)) < D - 1
  <2> SUFFICES ASSUME NEW i \in DOMAIN v, v[i] # "todo"
               PROVE  /\ i + 1 \in DOMAIN w /\ w[i + 1] # "todo"
                      /\ plus(t, i) = plus(s, i + 1) /\ ahead(t, plus(t, i)) < D - 1
    OBVIOUS
  <2>1. i + 1 \in DOMAIN w /\ w[i + 1] # "todo" OBVIOUS
  <2>2. i \in Nat /\ i + 1 \in Nat /\ i + 1 < SlotMod /\ i < SlotMod /\ i < D - 1
    BY <1>0, <1>1, <2>1
  <2> DEFINE x == plus(s, i + 1)
  <2>3. x \in Slots /\ ahead(s, x) = i + 1 BY <2>2, PlusAhead
  <2> HIDE DEF x
  <2>4. /\ ahead(s, x) # 0 => ahead(t, x) = ahead(s, x) - 1 BY <2>3, AheadFacts
  <2>5. ahead(t, x) = i BY <2>2, <2>3, <2>4
  <2>6. plus(t, ahead(t, x)) = x BY <1>2, <2>3, AheadFacts
  <2>7. ahead(t, plus(t, i)) = i BY <1>2, <2>2, PlusAhead
  <2> QED BY <2>1, <2>2, <2>5, <2>6, <2>7 DEF x
<1> HIDE DEF v, t
<1>8. /\ \A j \in DOMAIN gs : ahead(t, gs[j].at) < D - 1
      /\ \A i \in DOMAIN v : v[i] # "todo" => \A j \in DOMAIN gs : gs[j].at # plus(t, i)
  BY <1>0, <1>6, <1>7 DEF SlotsOK
<1>9. CASE rs = gs
  <2>1. \A j \in DOMAIN gs : ahead(t, gs[j].at) < D BY <1>0, <1>6
  <2> QED BY <1>8, <1>9, <2>1 DEF SlotsOK, v, t
<1>10. CASE \E g \in Grant : g.at = plus(s, D) /\ rs = Append(gs, g)
  <2>1. PICK g \in Grant : g.at = plus(s, D) /\ rs = Append(gs, g) BY <1>10
  <2>2. /\ n \in Nat /\ DOMAIN gs = 1..n /\ DOMAIN rs = 1..(n + 1) /\ rs[n + 1] = g
        /\ \A k \in 1..n : rs[k] = gs[k]
    BY <2>1
  <2>3. g.at \in Slots /\ ahead(t, g.at) = D - 1
    <3> DEFINE a == g.at
    <3>1. a \in Slots /\ ahead(s, a) = D BY <1>0, <2>1, PlusAhead
    <3> HIDE DEF a
    <3>2. ahead(s, a) # 0 => ahead(plus(s, 1), a) = ahead(s, a) - 1 BY <3>1, AheadFacts
    <3> QED BY <1>0, <3>1, <3>2 DEF a, t
  <2>4. \A k \in DOMAIN rs : ahead(t, rs[k].at) < D
    <3> SUFFICES ASSUME NEW k \in DOMAIN rs PROVE ahead(t, rs[k].at) < D OBVIOUS
    <3>1. CASE k = n + 1 BY <1>0, <2>2, <2>3, <3>1
    <3>2. CASE k \in 1..n
      <4>1. ahead(t, gs[k].at) \in Int BY <1>0, <1>6, <2>2, <3>2
      <4> QED BY <1>0, <1>8, <2>2, <3>2, <4>1
    <3> QED BY <2>2, <3>1, <3>2
  <2>5. \A k \in 1..n : gs[k].at # g.at BY <1>0, <1>8, <2>2, <2>3
  <2>6. \A k, m \in DOMAIN rs : rs[k].at = rs[m].at => k = m
    <3> SUFFICES ASSUME NEW k \in DOMAIN rs, NEW m \in DOMAIN rs, rs[k].at = rs[m].at PROVE k = m
      OBVIOUS
    <3>1. CASE k \in 1..n /\ m \in 1..n BY <2>2, <3>1 DEF SlotsOK
    <3>2. CASE k = n + 1 BY <2>2, <2>5, <3>2
    <3>3. CASE m = n + 1 BY <2>2, <2>5, <3>3
    <3> QED BY <2>2, <3>1, <3>2, <3>3
  <2>7. \A i \in DOMAIN v : v[i] # "todo" => \A k \in DOMAIN rs : rs[k].at # plus(t, i)
    <3> SUFFICES ASSUME NEW i \in DOMAIN v, v[i] # "todo", NEW k \in DOMAIN rs
                 PROVE  rs[k].at # plus(t, i)
      OBVIOUS
    <3>1. CASE k = n + 1
      <4>1. ahead(t, plus(t, i)) < D - 1 BY <1>7
      <4> QED BY <1>0, <2>2, <2>3, <3>1, <4>1
    <3>2. CASE k \in 1..n BY <1>8, <2>2, <3>2
    <3> QED BY <2>2, <3>1, <3>2
  <2> QED BY <2>4, <2>6, <2>7 DEF SlotsOK, v, t
<1> QED BY <1>9, <1>10

-----------------------------------------------------------------------------
(* One process: what the UE does with a grant                              *)

(* What a process consists of                                              *)
Kinds(h, d, u, s, dv, m) ==
  /\ h \in HarqProc /\ d \in DlProc /\ u \in UlProc /\ s \in SUBSET Blocks
  /\ dv \in [Blocks -> {0, 1}] /\ m \in 0..MaxMissed

(* The same grant with an answer                                           *)
Answers(x, g) ==
  /\ x \in Grant /\ g \in Grant
  /\ x.at = g.at /\ x.pid = g.pid /\ x.ndi = g.ndi /\ x.tb = g.tb
  /\ g.answer = "pending" /\ x.answer # "pending"

(* Nothing is under way that is not in the sets.                           *)
LEMMA NoneUnderWay == ~Unheard({}) /\ ~AckQueued({})
BY DEF Unheard, AckQueued

(* A DCI is missed: one more is known to have been.                        *)
LEMMA MissedOK ==
  ASSUME NEW h, NEW d, NEW u, NEW s, NEW dv, NEW m, Kinds(h, d, u, s, dv, m),
         NEW g, NEW x, Answers(x, g), x.answer = "nothing", x.pdu = g.pdu
  PROVE  /\ DlOK(h, d, s, dv, m, {g}, {}) => DlOK(h, d, s, dv, m + 1, {x}, {})
         /\ UlOK(h, u, s, dv, m, {g}, {}) => UlOK(h, u, s, dv, m + 1, {x}, {})
<1>1. Unheard({g}) /\ ~Unheard({x}) BY DEF Answers, Unheard
<1>2. h.n_rtx \in Nat /\ m \in Nat /\ u.nof_retx \in Nat
  BY Constants DEF Kinds, HarqProc, UlProc
<1>3. InStep(h, m, {g}) => InStep(h, m + 1, {x}) BY <1>1, <1>2 DEF InStep
<1>4. DlOK(h, d, s, dv, m, {g}, {}) => DlOK(h, d, s, dv, m + 1, {x}, {})
  BY <1>3, NoneUnderWay DEF DlOK
<1>5. ASSUME UlOK(h, u, s, dv, m, {g}, {}) PROVE UlOK(h, u, s, dv, m + 1, {x}, {})
  <2>1. u.nof_retx + (IF Unheard({g}) THEN 1 ELSE 0) <= h.n_rtx + 1 =>
          u.nof_retx + (IF Unheard({x}) THEN 1 ELSE 0) <= h.n_rtx + 1
    BY <1>1, <1>2
  <2>2. x.pdu = None BY <1>5 DEF UlOK, Answers
  <2> QED BY <1>3, <1>5, <2>1, <2>2 DEF UlOK
<1> QED BY <1>4, <1>5

(* A process of the downlink with a grant that is about to be heard        *)
HearsDl(h, d, u, s, dv, m, g, x) ==
  /\ Kinds(h, d, u, s, dv, m) /\ Answers(x, g)
  /\ Owned(h, {g}, {}) /\ DlOK(h, d, s, dv, m, {g}, {})

(* Whether it is for a new block, and how it is answered                   *)
NewDl(g, d) == g.ndi # d.ndi \/ d.is_first_tb
Decodes(g, d) == enabled(d, NewDl(g, d))
AckDl(g, d, crc) == ~Decodes(g, d) \/ crc

(* What the UE keeps of it                                                 *)
ProcDl(g, d, crc) == [ndi |-> g.ndi, is_first_tb |-> FALSE, acked |-> AckDl(g, d, crc)]
SoftDl(g, d, s)   == IF NewDl(g, d) THEN {g.tb} ELSE IF Decodes(g, d) THEN s \cup {g.tb} ELSE s
CountDl(g, dv, crc) == IF crc THEN [dv EXCEPT ![g.tb] = @ + 1] ELSE dv

(* new_grant_dl() and tb_decoded(): a new block replaces the last one, and *)
(* one that was decoded is acknowledged and not delivered again.           *)
LEMMA HeardDlOK ==
  ASSUME NEW h, NEW d, NEW u, NEW s, NEW dv, NEW m, NEW g, NEW x,
         HearsDl(h, d, u, s, dv, m, g, x), NEW crc \in BOOLEAN,
         crc => Decodes(g, d), x.answer = "ack" => AckDl(g, d, crc)
  PROVE  /\ DlOK(h, ProcDl(g, d, crc), SoftDl(g, d, s), CountDl(g, dv, crc), 0, {x}, {})
         /\ Kinds(h, ProcDl(g, d, crc), u, SoftDl(g, d, s), CountDl(g, dv, crc), 0)
<1> DEFINE new == NewDl(g, d)  ack == AckDl(g, d, crc)
           d1 == ProcDl(g, d, crc)  s1 == SoftDl(g, d, s)  dv1 == CountDl(g, dv, crc)
<1>0. /\ s1 = (IF new THEN {g.tb} ELSE IF Decodes(g, d) THEN s \cup {g.tb} ELSE s)
      /\ dv1 = (IF crc THEN [dv EXCEPT ![g.tb] = @ + 1] ELSE dv)
  BY DEF SoftDl, CountDl
<1>1. /\ h.active /\ h.block = g.tb /\ h.ndi = g.ndi /\ g.tb \in Blocks /\ g.ndi \in {0, 1}
  BY GrantFields DEF Owned, Answers, HearsDl
<1>2. d1 \in DlProc /\ d1.ndi = h.ndi /\ ~d1.is_first_tb /\ (d1.acked <=> ack)
  <2>1. AckDl(g, d, crc) \in BOOLEAN BY DEF AckDl, Decodes, enabled
  <2> QED BY <1>1, <2>1 DEF ProcDl, DlProc
<1> HIDE DEF d1, s1, dv1
<1>3. dv[g.tb] = (IF d.ndi = h.ndi /\ d.acked THEN 1 ELSE 0) BY <1>1 DEF DlOK, HearsDl
<1>5. dv1[h.block] = IF ack THEN 1 ELSE 0
  <2>1. CASE crc
    <3>1. ~(d.ndi = h.ndi /\ d.acked) BY <1>1, <2>1 DEF enabled, Decodes, DlOK, NewDl, AckDl, HearsDl
    <3>2. dv[g.tb] = 0 BY <1>3, <3>1
    <3>3. dv1[g.tb] = dv[g.tb] + 1 BY <1>0, <1>1, <2>1 DEF Kinds, HearsDl
    <3>4. ack BY <2>1 DEF AckDl
    <3> QED BY <1>1, <3>2, <3>3, <3>4
  <2>2. CASE ~crc
    <3>1. CASE Decodes(g, d)
      <4>1. ~(d.ndi = h.ndi /\ d.acked) BY <1>1, <3>1 DEF enabled, Decodes, DlOK, NewDl, AckDl, HearsDl
      <4> QED BY <1>0, <1>1, <1>3, <2>2, <3>1, <4>1 DEF AckDl
    <3>2. CASE ~Decodes(g, d)
      <4>1. d.ndi = h.ndi /\ d.acked BY <1>1, <3>2 DEF enabled, Decodes, NewDl, AckDl
      <4> QED BY <1>0, <1>1, <1>3, <2>2, <3>2, <4>1 DEF AckDl
    <3> QED BY <3>1, <3>2
  <2> QED BY <2>1, <2>2
<1>6. s1 \subseteq {g.tb}
  <2>1. ~new => s \subseteq {g.tb} BY <1>1 DEF DlOK, NewDl, HearsDl
  <2> QED BY <1>0, <2>1
<1>7. OneBlock(s1) BY <1>1, <1>6 DEF OneBlock
<1>8. dv1 \in [Blocks -> {0, 1}]
  <2>1. CASE crc
    <3>1. dv1[g.tb] \in {0, 1} /\ DOMAIN dv1 = Blocks /\ \A b \in Blocks : b # g.tb => dv1[b] = dv[b]
      BY <1>0, <1>1, <1>5, <2>1 DEF Kinds, HearsDl
    <3>2. dv1 = [b \in Blocks |-> dv1[b]] BY <1>0, <2>1 DEF Kinds, HearsDl
    <3>3. \A b \in Blocks : dv[b] \in {0, 1} BY DEF Kinds, HearsDl
    <3>4. \A b \in Blocks : dv1[b] \in {0, 1} BY <3>1, <3>3, Zenon
    <3> QED BY <3>2, <3>4
  <2>2. CASE ~crc BY <1>0, <2>2 DEF Kinds, HearsDl
  <2> QED BY <2>1, <2>2
<1>9. DlOK(h, d1, s1, dv1, 0, {x}, {})
  <2>1. ~AckQueued({}) /\ ((\E y \in {x} : y.answer = "ack") => ack) BY NoneUnderWay
  <2> QED BY <1>1, <1>2, <1>5, <1>6, <1>7, <2>1 DEF DlOK, HearsDl
<1>10. s1 \in SUBSET Blocks /\ 0 \in 0..MaxMissed BY <1>1, <1>6, Constants
<1> QED BY <1>2, <1>8, <1>9, <1>10 DEF Kinds, HearsDl, d1, s1, dv1

(* decode_pdsch_dl() returns early at a retransmission.                    *)
LEMMA FailedDlOK ==
  ASSUME NEW h, NEW d, NEW u, NEW s, NEW dv, NEW m, NEW g, NEW x,
         HearsDl(h, d, u, s, dv, m, g, x), x.answer = "nothing", ~NewDl(g, d),
         NEW d1, d1 = [d EXCEPT !.ndi = g.ndi, !.is_first_tb = FALSE]
  PROVE  DlOK(h, d1, s, dv, 0, {x}, {}) /\ Kinds(h, d1, u, s, dv, 0)
<1>1. h.active /\ h.ndi = g.ndi /\ g.ndi \in {0, 1} BY GrantFields DEF Owned, Answers, HearsDl
<1>2. d1 \in DlProc /\ d1.ndi = h.ndi /\ ~d1.is_first_tb /\ d1.acked = d.acked
  BY <1>1 DEF Kinds, DlProc, HearsDl, NewDl
<1>3. Kinds(h, d1, u, s, dv, 0) BY <1>2, Constants DEF Kinds, HearsDl
<1>4. DlOK(h, d, s, dv, m, {g}, {}) /\ d.ndi = h.ndi /\ ~d.is_first_tb
  BY <1>1 DEF HearsDl, NewDl
<1>5. ~AckQueued({}) /\ ~\E y \in {x} : y.answer = "ack" BY NoneUnderWay
<1>6. DlOK(h, d1, s, dv, 0, {x}, {}) BY <1>1, <1>2, <1>4, <1>5 DEF DlOK
<1> QED BY <1>3, <1>6

(* When new_grant_ul() takes a grant for a new block                       *)
NewUl(g, u) == g.ndi # u.ndi \/ discarded(u).harq_buffer = None

(* A process of the uplink with a grant that is about to be heard          *)
HearsUl(h, d, u, s, dv, m, g, x) ==
  /\ Kinds(h, d, u, s, dv, m) /\ Answers(x, g)
  /\ Owned(h, {g}, {}) /\ UlOK(h, u, s, dv, m, {g}, {})

(* When new_grant_ul() takes the grant for a new block, the UE has sent    *)
(* nothing of the gNB's block; otherwise it sends that block again.        *)
LEMMA NewWhenNotHeard ==
  ASSUME EndsAgree, NEW h, NEW d, NEW u, NEW s, NEW dv, NEW m, NEW g, NEW x,
         HearsUl(h, d, u, s, dv, m, g, x)
  PROVE  /\ h.active /\ h.ndi = g.ndi /\ g.pdu = None /\ discarded(u) \in UlProc
         /\ NewUl(g, u) => s = {}
         /\ ~NewUl(g, u) => /\ discarded(u) = u /\ u.ndi = h.ndi /\ u.harq_buffer # None
                    /\ u.nof_retx + 1 <= h.n_rtx + 1 /\ u.nof_retx + 1 <= max_harq_tx
<1>1. h.active /\ h.ndi = g.ndi BY DEF Owned, HearsUl
<1>2. Unheard({g}) BY DEF Answers, Unheard, HearsUl
<1>3. g.pdu = None BY DEF UlOK, Answers, HearsUl
<1>4. /\ u.nof_retx \in Nat /\ u.nof_retx <= max_harq_tx /\ h.n_rtx \in Nat /\ h.n_rtx <= MaxRetx
      /\ MaxRetx \in Nat /\ max_harq_tx \in Nat /\ MaxRetx < max_harq_tx
  BY Constants DEF Kinds, HarqProc, UlProc, EndsAgree, HearsUl
<1>5. discarded(u) \in UlProc
  <2>1. u \in UlProc BY DEF Kinds, HearsUl
  <2>2. [ndi |-> NDI_NOT_SET, nof_retx |-> 0, harq_buffer |-> None] \in UlProc
    BY <1>4 DEF UlProc
  <2> QED BY <2>1, <2>2 DEF discarded
<1>6. ASSUME u.ndi = h.ndi, u.harq_buffer # None
      PROVE  discarded(u) = u /\ ~NewUl(g, u) /\ u.nof_retx + 1 <= h.n_rtx + 1 /\ u.nof_retx + 1 <= max_harq_tx
  <2>1. u.nof_retx + 1 <= h.n_rtx + 1 BY <1>1, <1>2, <1>6 DEF UlOK, HearsUl
  <2>2. ~(u.nof_retx >= max_harq_tx) BY <1>4, <2>1
  <2>3. discarded(u) = u BY <2>2 DEF discarded
  <2>4. ~NewUl(g, u) BY <1>1, <1>6, <2>3 DEF NewUl
  <2> QED BY <1>4, <2>1, <2>3, <2>4
<1>7. ASSUME ~NewUl(g, u) PROVE u.ndi = h.ndi /\ u.harq_buffer # None
  <2>1. discarded(u).harq_buffer # None /\ u.ndi = h.ndi BY <1>1, <1>7 DEF NewUl
  <2>2. [ndi |-> NDI_NOT_SET, nof_retx |-> 0, harq_buffer |-> None].harq_buffer = None OBVIOUS
  <2>3. discarded(u) = u BY <2>1, <2>2 DEF discarded
  <2> QED BY <2>1, <2>3
<1>8. NewUl(g, u) => s = {} BY <1>1, <1>6 DEF UlOK, HearsUl
<1> QED BY <1>1, <1>3, <1>5, <1>6, <1>7, <1>8

(* What the UE keeps of a new block, and what is still known of the others *)
ProcNewUl(g, u, pdu) == IF pdu = None THEN [discarded(u) EXCEPT !.harq_buffer = None]
                        ELSE [ndi |-> g.ndi, nof_retx |-> 1, harq_buffer |-> pdu]
Kept(dv, used) == [b \in Blocks |-> IF b \in used THEN dv[b] ELSE 0]

(* new_grant_ul() with a new block, or without a buffer for one.           *)
LEMMA HeardNewUlOK ==
  ASSUME EndsAgree, NEW h, NEW d, NEW u, NEW s, NEW dv, NEW m, NEW g, NEW x,
         HearsUl(h, d, u, s, dv, m, g, x), NewUl(g, u), x.answer = "nothing",
         NEW used, NEW pdu, x.pdu = pdu, pdu = None \/ pdu \in Blocks \ used
  PROVE  /\ UlOK(h, ProcNewUl(g, u, pdu), s, Kept(dv, used), 0, {x}, {})
         /\ Kinds(h, d, ProcNewUl(g, u, pdu), s, Kept(dv, used), 0)
<1> DEFINE u1 == ProcNewUl(g, u, pdu)  dv1 == Kept(dv, used)
<1>0. /\ dv1 = [b \in Blocks |-> IF b \in used THEN dv[b] ELSE 0]
      /\ u1 = (IF pdu = None THEN [discarded(u) EXCEPT !.harq_buffer = None]
               ELSE [ndi |-> g.ndi, nof_retx |-> 1, harq_buffer |-> pdu])
  BY DEF ProcNewUl, Kept
<1> SUFFICES UlOK(h, u1, s, dv1, 0, {x}, {}) /\ Kinds(h, d, u1, s, dv1, 0) OBVIOUS
<1> HIDE DEF u1, dv1
<1>1. /\ h.active /\ h.ndi = g.ndi /\ g.pdu = None /\ discarded(u) \in UlProc
      /\ NewUl(g, u) => s = {}
      /\ ~NewUl(g, u) => /\ discarded(u) = u /\ u.ndi = h.ndi /\ u.harq_buffer # None
                         /\ u.nof_retx + 1 <= h.n_rtx + 1 /\ u.nof_retx + 1 <= max_harq_tx
  BY NewWhenNotHeard
<1>2. s = {} BY <1>1
<1>3. ~Unheard({x}) BY DEF Answers, Unheard, HearsUl
<1>4. dv1 \in [Blocks -> {0, 1}] BY <1>0 DEF Kinds, HearsUl
<1>5. 0 \in 0..MaxMissed /\ h.n_rtx \in Nat /\ 1 \in 0..max_harq_tx
  BY Constants, HarqAssumption DEF Kinds, HarqProc, HearsUl
<1>6. OneBlock(s) BY <1>2, Constants DEF OneBlock
<1>7. CASE pdu = None
  <2>1. u1 \in UlProc /\ u1.harq_buffer = None BY <1>0, <1>1, <1>7, Constants DEF UlProc
  <2> QED BY <1>1, <1>2, <1>4, <1>5, <1>6, <1>7, <2>1, NoneUnderWay DEF UlOK, Kinds, HearsUl
<1>8. CASE pdu # None
  <2>1. pdu \in Blocks /\ pdu \notin used BY <1>8
  <2>2. u1.ndi = g.ndi /\ u1.nof_retx = 1 /\ u1.harq_buffer = pdu BY <1>0, <1>8
  <2>3. u1 \in UlProc
    <3>1. g.ndi \in {0, 1} BY GrantFields DEF Answers, HearsUl
    <3> QED BY <1>0, <1>5, <1>8, <2>1, <3>1 DEF UlProc
  <2>4. dv1[pdu] = 0 BY <1>0, <2>1
  <2>5. u1.nof_retx + (IF Unheard({x}) THEN 1 ELSE 0) <= h.n_rtx + 1 BY <1>3, <1>5, <2>2
  <2>6. UlOK(h, u1, s, dv1, 0, {x}, {})
    BY <1>1, <1>2, <1>6, <1>8, <2>2, <2>4, <2>5, NoneUnderWay DEF UlOK, HearsUl
  <2> QED BY <1>4, <1>5, <2>3, <2>6 DEF Kinds, HearsUl
<1> QED BY <1>7, <1>8

(* new_grant_ul() with the block the UE holds.                             *)
LEMMA HeardAgainUlOK ==
  ASSUME EndsAgree, NEW h, NEW d, NEW u, NEW s, NEW dv, NEW m, NEW g, NEW x,
         HearsUl(h, d, u, s, dv, m, g, x),
         ~NewUl(g, u),
         x.pdu = discarded(u).harq_buffer, x.answer = "nothing",
         NEW u1, u1 = [ndi |-> g.ndi, nof_retx |-> discarded(u).nof_retx + 1,
                       harq_buffer |-> discarded(u).harq_buffer]
  PROVE  UlOK(h, u1, s, dv, 0, {x}, {}) /\ Kinds(h, d, u1, s, dv, 0)
<1>1. /\ h.active /\ h.ndi = g.ndi
      /\ ~NewUl(g, u) => /\ discarded(u) = u /\ u.ndi = h.ndi /\ u.harq_buffer # None
                 /\ u.nof_retx + 1 <= h.n_rtx + 1 /\ u.nof_retx + 1 <= max_harq_tx
  BY NewWhenNotHeard
<1>2. /\ discarded(u) = u /\ u.ndi = h.ndi /\ u.harq_buffer # None
      /\ u.nof_retx + 1 <= h.n_rtx + 1 /\ u.nof_retx + 1 <= max_harq_tx
  BY <1>1
<1>3. ~Unheard({x}) BY DEF Answers, Unheard, HearsUl
<1>4. u1.ndi = u.ndi /\ u1.nof_retx = u.nof_retx + 1 /\ u1.harq_buffer = u.harq_buffer
  BY <1>1, <1>2
<1>5. /\ u.nof_retx \in Nat /\ h.n_rtx \in Nat /\ 0 \in 0..MaxMissed /\ max_harq_tx \in Nat
      /\ u.harq_buffer \in Blocks \cup {None} /\ g.ndi \in {0, 1}
  BY Constants, GrantFields DEF Kinds, HarqProc, UlProc, Answers, HearsUl
<1>6. u1 \in UlProc
  <2>1. u.nof_retx + 1 \in 0..max_harq_tx BY <1>2, <1>5
  <2> QED BY <1>2, <1>5, <2>1 DEF UlProc
<1>7. u1.nof_retx + (IF Unheard({x}) THEN 1 ELSE 0) <= h.n_rtx + 1 BY <1>2, <1>3, <1>4, <1>5
<1>8. s \subseteq {u.harq_buffer} /\ dv[u.harq_buffer] = 0 /\ OneBlock(s)
  BY <1>1, <1>2, NoneUnderWay DEF UlOK, HearsUl
<1>9. UlOK(h, u1, s, dv, 0, {x}, {})
  BY <1>1, <1>2, <1>4, <1>7, <1>8, NoneUnderWay DEF UlOK, HearsUl
<1> QED BY <1>5, <1>6, <1>9 DEF Kinds, HearsUl

-----------------------------------------------------------------------------
(* The steps of the UE                                                     *)

(* The fields of a process have their ranges.                              *)
LEMMA ProcKinds ==
  ASSUME Types, NEW p \in Pids
  PROVE  Kinds(tb[p], dl_ue[p], ul_ue[p], soft[p], delivered[p], missed[p])
BY DEF Types, Kinds

(* A process has one grant under way at most, and then no event.           *)
LEMMA GrantAlone ==
  ASSUME HInv, NEW j \in DOMAIN grants
  PROVE  /\ grants[j] \in Grant /\ grants[j].pid \in Pids
         /\ \A k \in DOMAIN grants : grants[k].pid = grants[j].pid => k = j
         /\ GrantsOf(grants[j].pid) = {grants[j]} /\ EventsOf(grants[j].pid) = {}
<1> DEFINE p == grants[j].pid
<1>1. grants[j] \in Grant /\ p \in Pids BY GrantFields DEF HInv, Types
<1>2. Owned(tb[p], GrantsOf(p), EventsOf(p)) BY <1>1 DEF HInv, ProcOK
<1>3. \A k \in DOMAIN grants : grants[k].pid = p => grants[k] \in GrantsOf(p) BY DEF GrantsOf, Of
<1>4. \A k \in DOMAIN grants : grants[k].pid = p => grants[k].at = tb[p].slot_ack
  BY <1>2, <1>3 DEF Owned
<1>5. \A k \in DOMAIN grants : grants[k].pid = p => k = j
  BY <1>4 DEF HInv, SlotsOK
<1>6. GrantsOf(p) = {grants[j]} BY <1>5 DEF GrantsOf, Of
<1>7. EventsOf(p) = {} BY <1>2, <1>6 DEF Owned
<1> QED BY <1>1, <1>5, <1>6, <1>7

(* The grant the UE hears next is one that it has not heard.               *)
LEMMA CurrentGrant ==
  ASSUME HInv, unheard # {}
  PROVE  current \in DOMAIN grants /\ grants[current].answer = "pending"
<1>1. unheard \in SUBSET Nat
  <2>1. DOMAIN grants = 1..Len(grants) /\ Len(grants) \in Nat BY DEF HInv, Types
  <2> QED BY <2>1 DEF unheard
<1>2. first_of(unheard) \in unheard BY <1>1, FirstOf
<1> QED BY <1>2 DEF current, unheard

(* A process that a step does not touch is as it was.                      *)
LEMMA ProcUntouched ==
  ASSUME NEW q, ProcOK(q), link' = link, tb'[q] = tb[q], dl_ue'[q] = dl_ue[q],
         ul_ue'[q] = ul_ue[q], soft'[q] = soft[q], delivered'[q] = delivered[q],
         missed'[q] = missed[q], GrantsOf(q)' = GrantsOf(q), EventsOf(q)' = EventsOf(q)
  PROVE  ProcOK(q)'
BY DEF ProcOK

(* The UE hears or misses the next grant: it is enough to look at its      *)
(* process.                                                                *)
LEMMA UeFrame ==
  ASSUME HInv, unheard # {}, NEW x, Answers(x, grants[current]),
         grants' = [grants EXCEPT ![current] = x], UNCHANGED <<link, gnbVars>>,
         NEW p, p = grants[current].pid, NEW d1, NEW u1, NEW s1, NEW dv1, NEW m1,
         dl_ue' = [dl_ue EXCEPT ![p] = d1], ul_ue' = [ul_ue EXCEPT ![p] = u1],
         soft' = [soft EXCEPT ![p] = s1], delivered' = [delivered EXCEPT ![p] = dv1],
         missed' = [missed EXCEPT ![p] = m1], Kinds(tb[p], d1, u1, s1, dv1, m1),
         link = "dl" => DlOK(tb[p], d1, s1, dv1, m1, {x}, {}),
         link = "ul" => UlOK(tb[p], u1, s1, dv1, m1, {x}, {})
  PROVE  HInv'
<1> DEFINE c == current  g == grants[c]
<1>0. c \in DOMAIN grants BY CurrentGrant
<1>1. /\ g \in Grant /\ p \in Pids /\ \A k \in DOMAIN grants : grants[k].pid = g.pid => k = c
      /\ GrantsOf(p) = {g} /\ EventsOf(p) = {}
  BY <1>0, GrantAlone
<1>2. grants \in Seq(Grant) BY DEF HInv, Types
<1>3. Answers(x, g) /\ x \in Grant /\ x.pid = g.pid /\ x.at = g.at BY DEF Answers
<1>4. grants' = [grants EXCEPT ![c] = x] /\ p = g.pid OBVIOUS
<1> HIDE DEF c
<1>5. /\ grants' \in Seq(Grant) /\ Of(grants', p) = {x}
      /\ \A q : q # p => Of(grants', q) = Of(grants, q)
  <2>1. /\ [grants EXCEPT ![c] = x] \in Seq(Grant)
        /\ Of(grants, g.pid) = {g} /\ Of([grants EXCEPT ![c] = x], g.pid) = {x}
        /\ \A q : q # g.pid => Of([grants EXCEPT ![c] = x], q) = Of(grants, q)
    BY <1>0, <1>1, <1>2, <1>3, ReplaceOf
  <2> QED BY <1>4, <2>1
<1>6. Types'
  <2>1. /\ d1 \in DlProc /\ u1 \in UlProc /\ s1 \in SUBSET Blocks
        /\ dv1 \in [Blocks -> {0, 1}] /\ m1 \in 0..MaxMissed
    BY DEF Kinds
  <2>2. /\ dl_ue' \in [Pids -> DlProc] /\ ul_ue' \in [Pids -> UlProc]
        /\ soft' \in [Pids -> SUBSET Blocks] /\ missed' \in [Pids -> 0..MaxMissed]
    BY <1>1, <2>1 DEF HInv, Types
  <2>3. delivered' \in [Pids -> [Blocks -> {0, 1}]] BY <1>1, <2>1 DEF HInv, Types
  <2> QED BY <1>5, <2>2, <2>3 DEF HInv, Types, gnbVars
<1>7. SlotsOK(slot', ul', grants')
  <2>1. DOMAIN grants' = DOMAIN grants /\ \A k \in DOMAIN grants : grants'[k].at = grants[k].at
    BY <1>0, <1>2, <1>3, <1>4
  <2>2. slot' = slot /\ ul' = ul BY DEF gnbVars
  <2>3. SlotsOK(slot, ul, grants) BY DEF HInv
  <2> QED BY <2>1, <2>2, <2>3 DEF SlotsOK
<1>8. tb' = tb /\ events' = events /\ link' = link BY DEF gnbVars
<1>9. \A q : EventsOf(q)' = EventsOf(q) /\ GrantsOf(q)' = Of(grants', q)
  BY <1>8 DEF EventsOf, GrantsOf
<1>10. ASSUME NEW q \in Pids PROVE ProcOK(q)'
  <2>1. CASE q = p
    <3>1. /\ dl_ue'[p] = d1 /\ ul_ue'[p] = u1 /\ soft'[p] = s1 /\ delivered'[p] = dv1
          /\ missed'[p] = m1 /\ tb'[p] = tb[p]
      BY <1>1, <1>8 DEF HInv, Types
    <3>2. GrantsOf(p)' = {x} /\ EventsOf(p)' = {} BY <1>1, <1>5, <1>9
    <3>3. Owned(tb[p], {g}, {}) BY <1>1 DEF HInv, ProcOK
    <3>4. Owned(tb[p], {x}, {}) BY <1>3, <3>3 DEF Owned, Answers
    <3> QED BY <2>1, <1>8, <3>1, <3>2, <3>4 DEF ProcOK
  <2>2. CASE q # p
    <3>1. /\ dl_ue'[q] = dl_ue[q] /\ ul_ue'[q] = ul_ue[q] /\ soft'[q] = soft[q]
          /\ delivered'[q] = delivered[q] /\ missed'[q] = missed[q] /\ tb'[q] = tb[q]
      BY <2>2, <1>8 DEF HInv, Types
    <3>2. GrantsOf(q)' = GrantsOf(q) /\ EventsOf(q)' = EventsOf(q)
      BY <2>2, <1>5, <1>9 DEF GrantsOf
    <3>3. ProcOK(q) BY DEF HInv
    <3> QED BY <1>8, <3>1, <3>2, <3>3, ProcUntouched
  <2> QED BY <2>1, <2>2
<1> QED BY <1>6, <1>7, <1>10 DEF HInv

(* The UE misses a DCI.                                                    *)
LEMMA MissDciInv == HInv /\ MissDci => HInv'
<1> SUFFICES ASSUME HInv, MissDci PROVE HInv' OBVIOUS
<1> DEFINE c == current  g == grants[c]  p == g.pid  x == [g EXCEPT !.answer = "nothing"]
<1>0. unheard # {} /\ c \in DOMAIN grants /\ g.answer = "pending"
  BY CurrentGrant DEF MissDci
<1>1. g \in Grant /\ p \in Pids /\ GrantsOf(p) = {g} /\ EventsOf(p) = {} BY <1>0, GrantAlone
<1>2. Answers(x, g) /\ x.answer = "nothing" /\ x.pdu = g.pdu
  <2> HIDE DEF g
  <2> QED BY <1>0, <1>1 DEF Answers, Grant
<1>3. grants' = [grants EXCEPT ![c] = x] BY DEF MissDci
<1>4. /\ missed[p] < MaxMissed /\ missed' = [missed EXCEPT ![p] = missed[p] + 1]
      /\ UNCHANGED <<link, gnbVars, dl_ue, ul_ue, soft, delivered>>
  BY DEF MissDci
<1>5. ProcOK(p) /\ Types BY <1>1 DEF HInv
<1> DEFINE h == tb[p]  d == dl_ue[p]  u == ul_ue[p]  s == soft[p]  dv == delivered[p]  m == missed[p]
<1>6. Kinds(h, d, u, s, dv, m) BY <1>1, <1>5, ProcKinds
<1>7. /\ DlOK(h, d, s, dv, m, {g}, {}) => DlOK(h, d, s, dv, m + 1, {x}, {})
      /\ UlOK(h, u, s, dv, m, {g}, {}) => UlOK(h, u, s, dv, m + 1, {x}, {})
  <2> HIDE DEF h, d, u, s, dv, m, x, g
  <2> QED BY <1>2, <1>6, MissedOK
<1>8. Kinds(h, d, u, s, dv, m + 1)
  <2>1. m + 1 \in 0..MaxMissed BY <1>4, <1>6, Constants DEF Kinds
  <2> QED BY <1>6, <2>1 DEF Kinds
<1>9. /\ dl_ue' = [dl_ue EXCEPT ![p] = d] /\ ul_ue' = [ul_ue EXCEPT ![p] = u]
      /\ soft' = [soft EXCEPT ![p] = s] /\ delivered' = [delivered EXCEPT ![p] = dv]
  BY <1>1, <1>4, <1>5 DEF Types
<1>10. /\ link = "dl" => DlOK(h, d, s, dv, m + 1, {x}, {})
       /\ link = "ul" => UlOK(h, u, s, dv, m + 1, {x}, {})
  BY <1>1, <1>5, <1>7 DEF ProcOK
<1> QED
  <2>1. Answers(x, grants[current]) /\ grants' = [grants EXCEPT ![current] = x]
        /\ p = grants[current].pid
    BY <1>2, <1>3
  <2>2. missed' = [missed EXCEPT ![p] = m + 1] BY <1>4
  <2>3. UNCHANGED <<link, gnbVars>> BY <1>4
  <2> DEFINE n == m + 1
  <2>4. /\ Kinds(tb[p], d, u, s, dv, n) /\ missed' = [missed EXCEPT ![p] = n]
        /\ link = "dl" => DlOK(tb[p], d, s, dv, n, {x}, {})
        /\ link = "ul" => UlOK(tb[p], u, s, dv, n, {x}, {})
    BY <1>8, <1>10, <2>2
  <2> HIDE DEF x, p, d, u, s, dv, n
  <2> QED BY <1>0, <1>9, <2>1, <2>3, <2>4, UeFrame

(* The UE decodes a block of the downlink, or takes it for a duplicate.    *)
LEMMA NewGrantDlInv ==
  ASSUME EndsAgree, HInv, NEW crc \in BOOLEAN, NewGrantDl(crc)
  PROVE  HInv'
<1> DEFINE c == current  g == grants[c]  p == g.pid
           h == tb[p]  d == dl_ue[p]  u == ul_ue[p]  s == soft[p]  dv == delivered[p]  m == missed[p]
           new == NewDl(g, d)  ack == AckDl(g, d, crc)
           x == [g EXCEPT !.answer = IF ack THEN "ack" ELSE "nack"]
           d1 == ProcDl(g, d, crc)  s1 == SoftDl(g, d, s)  dv1 == CountDl(g, dv, crc)
<1>0. unheard # {} /\ c \in DOMAIN grants /\ g.answer = "pending" /\ link = "dl"
  BY CurrentGrant DEF NewGrantDl
<1>1. g \in Grant /\ p \in Pids /\ GrantsOf(p) = {g} /\ EventsOf(p) = {} BY <1>0, GrantAlone
<1>2. Answers(x, g) /\ (x.answer = "ack" => ack)
  <2> HIDE DEF g, ack
  <2> QED BY <1>0, <1>1 DEF Answers, Grant
<1>3. /\ grants' = [grants EXCEPT ![c] = x] /\ (crc => Decodes(g, d))
      /\ dl_ue' = [dl_ue EXCEPT ![p] = d1] /\ soft' = [soft EXCEPT ![p] = s1]
      /\ missed' = [missed EXCEPT ![p] = 0] /\ UNCHANGED <<link, gnbVars, ul_ue>>
  BY DEF NewGrantDl, NewDl, AckDl, Decodes, ProcDl, SoftDl
<1>4. ProcOK(p) /\ Types BY <1>1 DEF HInv
<1>5. delivered' = [delivered EXCEPT ![p] = dv1]
  <2>1. delivered' = IF crc THEN [delivered EXCEPT ![p][g.tb] = @ + 1] ELSE delivered
    BY DEF NewGrantDl
  <2> QED BY <1>1, <1>4, <2>1 DEF Types, CountDl
<1>6. ul_ue' = [ul_ue EXCEPT ![p] = u] BY <1>1, <1>3, <1>4 DEF Types
<1>7. HearsDl(h, d, u, s, dv, m, g, x)
  BY <1>0, <1>1, <1>2, <1>4, ProcKinds DEF ProcOK, HearsDl
<1>8. DlOK(h, d1, s1, dv1, 0, {x}, {}) /\ Kinds(h, d1, u, s1, dv1, 0)
  <2>1. (crc => Decodes(g, d)) /\ (x.answer = "ack" => AckDl(g, d, crc)) BY <1>2, <1>3
  <2> HIDE DEF g, h, d, u, s, dv, m, x
  <2> QED BY <1>7, <2>1, HeardDlOK
<1> QED
  <2>1. Answers(x, grants[current]) /\ grants' = [grants EXCEPT ![current] = x]
        /\ p = grants[current].pid
    BY <1>2, <1>3
  <2> HIDE DEF x, p, d1, s1, dv1, u
  <2> QED BY <1>0, <1>3, <1>5, <1>6, <1>8, <2>1, UeFrame DEF h

(* The UE has no buffer for a retransmission.                              *)
LEMMA FailDecodingInv ==
  ASSUME EndsAgree, HInv, FailDecoding
  PROVE  HInv'
<1> DEFINE c == current  g == grants[c]  p == g.pid
           h == tb[p]  d == dl_ue[p]  u == ul_ue[p]  s == soft[p]  dv == delivered[p]  m == missed[p]
           x == [g EXCEPT !.answer = "nothing"]
           d1 == [d EXCEPT !.ndi = g.ndi, !.is_first_tb = FALSE]
<1>0. unheard # {} /\ c \in DOMAIN grants /\ g.answer = "pending" /\ link = "dl"
  BY CurrentGrant DEF FailDecoding
<1>1. g \in Grant /\ p \in Pids /\ GrantsOf(p) = {g} /\ EventsOf(p) = {} BY <1>0, GrantAlone
<1>2. Answers(x, g) /\ x.answer = "nothing"
  <2> HIDE DEF g
  <2> QED BY <1>0, <1>1 DEF Answers, Grant
<1>3. ~NewDl(g, d) BY DEF FailDecoding, EndsAgree, NewDl
<1>4. ProcOK(p) /\ Types BY <1>1 DEF HInv
<1>5. /\ grants' = [grants EXCEPT ![c] = x] /\ missed' = [missed EXCEPT ![p] = 0]
      /\ soft' = soft /\ UNCHANGED <<link, gnbVars, ul_ue, delivered>>
  BY <1>3 DEF FailDecoding, NewDl
<1>6. dl_ue' = [dl_ue EXCEPT ![p] = d1]
  <2>1. dl_ue' = [dl_ue EXCEPT ![p].ndi = g.ndi, ![p].is_first_tb = FALSE] BY DEF FailDecoding
  <2> QED BY <1>1, <1>4, <2>1 DEF Types, DlProc
<1>7. /\ ul_ue' = [ul_ue EXCEPT ![p] = u] /\ soft' = [soft EXCEPT ![p] = s]
      /\ delivered' = [delivered EXCEPT ![p] = dv]
  BY <1>1, <1>4, <1>5 DEF Types
<1>8. HearsDl(h, d, u, s, dv, m, g, x)
  BY <1>0, <1>1, <1>2, <1>4, ProcKinds DEF ProcOK, HearsDl
<1>9. DlOK(h, d1, s, dv, 0, {x}, {}) /\ Kinds(h, d1, u, s, dv, 0)
  <2>2. d1 = [d EXCEPT !.ndi = g.ndi, !.is_first_tb = FALSE] OBVIOUS
  <2> HIDE DEF g, h, d, u, s, dv, m, x, d1
  <2> QED BY <1>2, <1>3, <1>8, <2>2, FailedDlOK
<1> QED
  <2>1. Answers(x, grants[current]) /\ grants' = [grants EXCEPT ![current] = x]
        /\ p = grants[current].pid
    BY <1>2, <1>5
  <2>2. UNCHANGED <<link, gnbVars>> /\ missed' = [missed EXCEPT ![p] = 0] BY <1>5
  <2>3. Kinds(tb[p], d1, u, s, dv, 0) /\ DlOK(tb[p], d1, s, dv, 0, {x}, {}) BY <1>9
  <2> HIDE DEF x, p, d1, s, dv, u
  <2> QED BY <1>0, <1>6, <1>7, <2>1, <2>2, <2>3, UeFrame

(* The UE sends a block of the uplink, new or again.                       *)
LEMMA NewGrantUlInv ==
  ASSUME EndsAgree, HInv, NEW pdu \in Blocks \cup {None}, NewGrantUl(pdu)
  PROVE  HInv'
<1> DEFINE c == current  g == grants[c]  p == g.pid
           h == tb[p]  d == dl_ue[p]  u == ul_ue[p]  s == soft[p]  dv == delivered[p]  m == missed[p]
           x == [g EXCEPT !.answer = "nothing", !.pdu = pdu]
           used == pdus_used(p)  dv1 == Kept(dv, used)  u1 == ProcNewUl(g, u, pdu)
           u2 == [ndi |-> g.ndi, nof_retx |-> discarded(u).nof_retx + 1,
                  harq_buffer |-> discarded(u).harq_buffer]
<1>0. unheard # {} /\ c \in DOMAIN grants /\ g.answer = "pending" /\ link = "ul"
  BY CurrentGrant DEF NewGrantUl
<1>1. /\ g \in Grant /\ p \in Pids /\ GrantsOf(p) = {g} /\ EventsOf(p) = {}
      /\ \A k \in DOMAIN grants : grants[k].pid = p => k = c
  BY <1>0, GrantAlone
<1>2. Answers(x, g) /\ x.answer = "nothing" /\ x.pdu = pdu
  <2> HIDE DEF g
  <2> QED BY <1>0, <1>1 DEF Answers, Grant
<1>3. ProcOK(p) /\ Types BY <1>1 DEF HInv
<1>4. HearsUl(h, d, u, s, dv, m, g, x)
  BY <1>0, <1>1, <1>2, <1>3, ProcKinds DEF ProcOK, HearsUl
<1>5. /\ grants' = [grants EXCEPT ![c] = x] /\ missed' = [missed EXCEPT ![p] = 0]
      /\ UNCHANGED <<link, gnbVars, dl_ue, soft>>
  <2>1. grants' = [grants EXCEPT ![c].answer = "nothing", ![c].pdu = pdu] BY DEF NewGrantUl
  <2>2. grants' = [grants EXCEPT ![c] = x] BY <1>0, <1>1, <2>1 DEF Grant
  <2> QED BY <2>2 DEF NewGrantUl
<1>6. dl_ue' = [dl_ue EXCEPT ![p] = d] /\ soft' = [soft EXCEPT ![p] = s]
  BY <1>1, <1>3, <1>5 DEF Types
<1>7. Answers(x, grants[current]) /\ grants' = [grants EXCEPT ![current] = x] /\ p = grants[current].pid
  BY <1>2, <1>5
<1>8. UNCHANGED <<link, gnbVars>> /\ missed' = [missed EXCEPT ![p] = 0] BY <1>5
<1>9. CASE NewUl(g, u)
  <2>1. /\ pdu = None \/ pdu = new_pdu(p)
        /\ ul_ue' = [ul_ue EXCEPT ![p] = u1] /\ delivered' = [delivered EXCEPT ![p] = dv1]
    BY <1>9 DEF NewGrantUl, NewUl, ndi_toggled, forget, Kept, ProcNewUl
  <2>2. g.pdu = None /\ s = {}
    <3>1. /\ h.active /\ h.ndi = g.ndi /\ g.pdu = None /\ discarded(u) \in UlProc
          /\ NewUl(g, u) => s = {}
          /\ ~NewUl(g, u) => /\ discarded(u) = u /\ u.ndi = h.ndi /\ u.harq_buffer # None
                             /\ u.nof_retx + 1 <= h.n_rtx + 1 /\ u.nof_retx + 1 <= max_harq_tx
      <4> HIDE DEF g, h, d, u, s, dv, m, x
      <4> QED BY <1>4, NewWhenNotHeard
    <3> QED BY <1>9, <3>1
  <2>3. used \subseteq {u.harq_buffer, None} BY <1>1, <2>2 DEF pdus_used
  <2>4. pdu = None \/ pdu \in Blocks \ used
    <3>1. Blocks \ used # {} /\ Blocks \ used \in SUBSET Nat
      <4>1. 1 \notin used \/ 2 \notin used
        <5> HIDE DEF u, used
        <5> QED BY <2>3, Constants
      <4> QED BY <4>1, Constants
    <3>2. first_of(Blocks \ used) \in Blocks \ used BY <3>1, FirstOf
    <3> QED BY <2>1, <3>2 DEF new_pdu
  <2>5. UlOK(h, u1, s, dv1, 0, {x}, {}) /\ Kinds(h, d, u1, s, dv1, 0)
    <3> HIDE DEF g, h, d, u, s, dv, m, x, used
    <3> QED BY <1>2, <1>4, <1>9, <2>4, HeardNewUlOK
  <2>6. UlOK(tb[p], u1, s, dv1, 0, {x}, {}) /\ Kinds(tb[p], d, u1, s, dv1, 0) BY <2>5
  <2> HIDE DEF x, p, d, u1, s, dv1
  <2> QED BY <1>0, <1>6, <1>7, <1>8, <2>1, <2>6, UeFrame
<1>10. CASE ~NewUl(g, u)
  <2>1. /\ pdu = discarded(u).harq_buffer /\ delivered' = delivered
        /\ ul_ue' = [ul_ue EXCEPT ![p] = u2]
    BY <1>10 DEF NewGrantUl, NewUl, ndi_toggled
  <2>2. delivered' = [delivered EXCEPT ![p] = dv] BY <1>1, <1>3, <2>1 DEF Types
  <2>3. UlOK(h, u2, s, dv, 0, {x}, {}) /\ Kinds(h, d, u2, s, dv, 0)
    <3>1. u2 = [ndi |-> g.ndi, nof_retx |-> discarded(u).nof_retx + 1,
                harq_buffer |-> discarded(u).harq_buffer]
      OBVIOUS
    <3>2. x.pdu = discarded(u).harq_buffer BY <1>2, <2>1
    <3> HIDE DEF g, h, d, u, s, dv, m, x, u2
    <3> QED BY <1>2, <1>4, <1>10, <3>1, <3>2, HeardAgainUlOK
  <2>4. UlOK(tb[p], u2, s, dv, 0, {x}, {}) /\ Kinds(tb[p], d, u2, s, dv, 0) BY <2>3
  <2>5. ul_ue' = [ul_ue EXCEPT ![p] = u2] BY <2>1
  <2> HIDE DEF x, p, d, u2, s, dv
  <2> QED BY <1>0, <1>6, <1>7, <1>8, <2>2, <2>4, <2>5, UeFrame
<1> QED BY <1>9, <1>10

-----------------------------------------------------------------------------
(* One process: what a worker does with the answer to a grant              *)

(* What the scheduler is told, and what the gNB keeps of a block of the    *)
(* uplink                                                                  *)
Answer(g, ok)       == [pid |-> g.pid, ack |-> ok, tb |-> g.tb]
SoftUl(g, s)        == IF g.pdu # None THEN s \cup {g.pdu} ELSE s
CountUl(g, dv, ok)  == IF ok THEN [dv EXCEPT ![g.pdu] = @ + 1] ELSE dv

(* work_ul() fails before it hears the answer: it is lost.                 *)
LEMMA LostOK ==
  ASSUME NEW h, NEW d, NEW u, NEW s, NEW dv, NEW m, NEW g, g.answer # "pending",
         Owned(h, {g}, {})
  PROVE  /\ Owned(h, {}, {})
         /\ DlOK(h, d, s, dv, m, {g}, {}) => DlOK(h, d, s, dv, m, {}, {})
         /\ UlOK(h, u, s, dv, m, {g}, {}) => UlOK(h, u, s, dv, m, {}, {})
<1>1. ~Unheard({g}) /\ ~Unheard({}) BY DEF Unheard
<1>2. InStep(h, m, {g}) => InStep(h, m, {}) BY <1>1 DEF InStep
<1>3. Owned(h, {}, {}) BY DEF Owned
<1>4. DlOK(h, d, s, dv, m, {g}, {}) => DlOK(h, d, s, dv, m, {}, {}) BY <1>2, NoneUnderWay DEF DlOK
<1>5. ASSUME UlOK(h, u, s, dv, m, {g}, {}) PROVE UlOK(h, u, s, dv, m, {}, {})
  <2>1. u.nof_retx + (IF Unheard({g}) THEN 1 ELSE 0) <= h.n_rtx + 1 =>
          u.nof_retx + (IF Unheard({}) THEN 1 ELSE 0) <= h.n_rtx + 1
    BY <1>1
  <2> QED BY <1>2, <1>5, <2>1, NoneUnderWay DEF UlOK
<1> QED BY <1>3, <1>4, <1>5

(* The HARQ-ACK of a block of the downlink: it is positive if the UE has   *)
(* the block.                                                              *)
LEMMA AckHeardOK ==
  ASSUME NEW h, NEW d, NEW s, NEW dv, NEW m, NEW g, g.answer # "pending",
         Owned(h, {g}, {}), DlOK(h, d, s, dv, m, {g}, {}),
         NEW ok \in BOOLEAN, ok => g.answer = "ack"
  PROVE  Owned(h, {}, {Answer(g, ok)}) /\ DlOK(h, d, s, dv, m, {}, {Answer(g, ok)})
<1>1. ~Unheard({g}) /\ ~Unheard({}) BY DEF Unheard
<1>2. InStep(h, m, {g}) => InStep(h, m, {}) BY <1>1 DEF InStep
<1>3. Owned(h, {}, {Answer(g, ok)}) BY DEF Owned, Answer
<1>4. AckQueued({Answer(g, ok)}) => \E y \in {g} : y.answer = "ack" BY DEF AckQueued, Answer
<1>5. DlOK(h, d, s, dv, m, {}, {Answer(g, ok)}) BY <1>2, <1>4 DEF DlOK
<1> QED BY <1>3, <1>5

(* The PUSCH of a block of the uplink: it is combined with what came of    *)
(* the same block, and delivered when it is decoded.                       *)
LEMMA PuschHeardOK ==
  ASSUME NEW h, NEW d, NEW u, NEW s, NEW dv, NEW m, Kinds(h, d, u, s, dv, m),
         NEW g \in Grant, g.answer # "pending",
         Owned(h, {g}, {}), UlOK(h, u, s, dv, m, {g}, {}),
         NEW ok \in BOOLEAN, ok => g.pdu # None
  PROVE  /\ Owned(h, {}, {Answer(g, ok)})
         /\ UlOK(h, u, SoftUl(g, s), CountUl(g, dv, ok), m, {}, {Answer(g, ok)})
         /\ Kinds(h, d, u, SoftUl(g, s), CountUl(g, dv, ok), m)
<1> DEFINE e == Answer(g, ok)  s1 == SoftUl(g, s)  dv1 == CountUl(g, dv, ok)
<1>1. ~Unheard({g}) /\ ~Unheard({}) BY DEF Unheard
<1>2. InStep(h, m, {g}) => InStep(h, m, {}) BY <1>1 DEF InStep
<1>3. Owned(h, {}, {e}) BY DEF Owned, Answer
<1>4. AckQueued({e}) <=> ok BY DEF AckQueued, Answer
<1>5. h.active BY DEF Owned
<1>6. s1 = (IF g.pdu # None THEN s \cup {g.pdu} ELSE s) BY DEF SoftUl
<1>7. dv1 = (IF ok THEN [dv EXCEPT ![g.pdu] = @ + 1] ELSE dv) BY DEF CountUl
<1> SUFFICES /\ Owned(h, {}, {e}) /\ UlOK(h, u, s1, dv1, m, {}, {e})
             /\ Kinds(h, d, u, s1, dv1, m)
  OBVIOUS
<1> HIDE DEF e, s1, dv1
<1>8. u.nof_retx + (IF Unheard({g}) THEN 1 ELSE 0) <= h.n_rtx + 1 =>
        u.nof_retx + (IF Unheard({}) THEN 1 ELSE 0) <= h.n_rtx + 1
  BY <1>1
<1>9. CASE g.pdu = None
  <2>1. s1 = s /\ dv1 = dv /\ ~ok BY <1>6, <1>7, <1>9
  <2>2. UlOK(h, u, s, dv, m, {}, {e})
    BY <1>2, <1>4, <1>8, <2>1, NoneUnderWay DEF UlOK
  <2> QED BY <1>3, <2>1, <2>2
<1>10. CASE g.pdu # None
  <2>1. /\ u.ndi = h.ndi /\ u.harq_buffer # None /\ g.pdu = u.harq_buffer
        /\ s \subseteq {u.harq_buffer} /\ dv[u.harq_buffer] = 0
        /\ u.nof_retx + (IF Unheard({}) THEN 1 ELSE 0) <= h.n_rtx + 1
    BY <1>5, <1>8, <1>10, NoneUnderWay DEF UlOK
  <2>2. g.pdu \in Blocks BY <1>10, GrantFields
  <2>3. s1 \subseteq {u.harq_buffer} /\ s1 \in SUBSET Blocks BY <1>6, <1>10, <2>1, <2>2
  <2>4. OneBlock(s1) BY <2>1, <2>2, <2>3 DEF OneBlock
  <2>5. dv1 \in [Blocks -> {0, 1}] /\ (~ok => dv1[u.harq_buffer] = 0)
    <3>1. CASE ~ok BY <1>7, <2>1, <3>1 DEF Kinds
    <3>2. CASE ok
      <4>1. dv1 = [dv EXCEPT ![g.pdu] = 1] BY <1>7, <2>1, <3>2
      <4> QED BY <2>2, <3>2, <4>1 DEF Kinds
    <3> QED BY <3>1, <3>2
  <2>6. UlOK(h, u, s1, dv1, m, {}, {e})
    BY <1>4, <1>5, <2>1, <2>3, <2>4, <2>5 DEF UlOK
  <2> QED BY <1>3, <2>3, <2>5, <2>6 DEF Kinds
<1> QED BY <1>9, <1>10

-----------------------------------------------------------------------------
(* The steps of the workers                                                *)

(* A worker hears the answer to a grant, or loses it: it is enough to look *)
(* at the process of the grant.                                            *)
LEMMA WorkerFrame ==
  ASSUME HInv, NEW i \in 0..(Workers - 1), NEW j \in DOMAIN grants, grants[j].at = plus(slot, i),
         NEW end \in {"done", "failed"}, ul' = [ul EXCEPT ![i] = end],
         grants' = RemoveAt(grants, j), UNCHANGED <<link, slot, tb, dl_ue, ul_ue, missed>>,
         NEW p, p = grants[j].pid, NEW s1, NEW dv1, NEW E1,
         soft' = [soft EXCEPT ![p] = s1], delivered' = [delivered EXCEPT ![p] = dv1],
         events' \in Seq(Event), Of(events', p) = E1, \A q : q # p => Of(events', q) = Of(events, q),
         Kinds(tb[p], dl_ue[p], ul_ue[p], s1, dv1, missed[p]), Owned(tb[p], {}, E1),
         link = "dl" => DlOK(tb[p], dl_ue[p], s1, dv1, missed[p], {}, E1),
         link = "ul" => UlOK(tb[p], ul_ue[p], s1, dv1, missed[p], {}, E1)
  PROVE  HInv'
<1>1. /\ p \in Pids /\ \A k \in DOMAIN grants : grants[k].pid = grants[j].pid => k = j
  BY GrantAlone
<1>2. grants \in Seq(Grant) /\ Types /\ ul \in Works /\ slot \in Slots /\ SlotsOK(slot, ul, grants)
  BY DEF HInv, Types, Works
<1>3. grants' \in Seq(Grant) BY <1>2, RemoveShape
<1>4. Of(grants', p) = {} /\ \A q : q # p => Of(grants', q) = Of(grants, q)
  BY <1>1, <1>2, RemoveOf
<1>5. Types'
  <2>1. s1 \in SUBSET Blocks /\ dv1 \in [Blocks -> {0, 1}] BY DEF Kinds
  <2>2. soft' \in [Pids -> SUBSET Blocks] BY <1>1, <1>2, <2>1 DEF Types
  <2>3. delivered' \in [Pids -> [Blocks -> {0, 1}]] BY <1>1, <1>2, <2>1 DEF Types
  <2>4. ul' \in [0..(Workers - 1) -> {"todo", "done", "failed"}] BY <1>2 DEF Works
  <2> QED BY <1>2, <1>3, <2>2, <2>3, <2>4 DEF Types
<1>6. SlotsOK(slot', ul', grants')
  <2>1. i \in DOMAIN ul BY <1>2 DEF Works
  <2>2. \E k \in DOMAIN grants : grants[k].at = plus(slot, i) /\ grants' = RemoveAt(grants, k)
    OBVIOUS
  <2>3. SlotsOK(slot, [ul EXCEPT ![i] = end], grants') BY <1>2, <1>3, <2>1, <2>2, SlotProcessed
  <2> QED BY <2>3
<1>7. \A q : EventsOf(q)' = Of(events', q) /\ GrantsOf(q)' = Of(grants', q)
  BY DEF EventsOf, GrantsOf
<1>8. ASSUME NEW q \in Pids PROVE ProcOK(q)'
  <2>1. CASE q = p
    <3>1. soft'[p] = s1 /\ delivered'[p] = dv1 BY <1>1, <1>2 DEF Types
    <3>2. GrantsOf(p)' = {} /\ EventsOf(p)' = E1 BY <1>4, <1>7
    <3> QED BY <2>1, <3>1, <3>2 DEF ProcOK
  <2>2. CASE q # p
    <3>1. soft'[q] = soft[q] /\ delivered'[q] = delivered[q] BY <2>2, <1>2 DEF Types
    <3>2. GrantsOf(q)' = GrantsOf(q) /\ EventsOf(q)' = EventsOf(q)
      BY <2>2, <1>4, <1>7 DEF GrantsOf, EventsOf
    <3>3. ProcOK(q) BY DEF HInv
    <3> QED BY <3>1, <3>2, <3>3, ProcUntouched
  <2> QED BY <2>1, <2>2
<1> QED BY <1>5, <1>6, <1>8 DEF HInv

(* A worker whose slot answers no grant touches no process.                *)
LEMMA IdleFrame ==
  ASSUME HInv, NEW i \in 0..(Workers - 1), answered(i) = {},
         NEW end \in {"done", "failed"}, ul' = [ul EXCEPT ![i] = end],
         UNCHANGED <<link, slot, tb, grants, events, dl_ue, ul_ue, soft, delivered, missed>>
  PROVE  HInv'
<1>1. grants \in Seq(Grant) /\ Types /\ ul \in Works /\ slot \in Slots /\ SlotsOK(slot, ul, grants)
  BY DEF HInv, Types, Works
<1>2. ul' \in Works BY <1>1 DEF Works
<1>3. Types' BY <1>1, <1>2 DEF Types, Works
<1>4. SlotsOK(slot', ul', grants')
  <2>1. i \in DOMAIN ul BY <1>1 DEF Works
  <2>2. \A j \in DOMAIN grants : grants[j].at # plus(slot, i) BY DEF answered
  <2>3. SlotsOK(slot, [ul EXCEPT ![i] = end], grants) BY <1>1, <2>1, <2>2, SlotProcessed
  <2> QED BY <2>3
<1>5. ASSUME NEW q \in Pids PROVE ProcOK(q)'
  <2>1. ProcOK(q) BY DEF HInv
  <2>2. GrantsOf(q)' = GrantsOf(q) /\ EventsOf(q)' = EventsOf(q) BY DEF GrantsOf, EventsOf
  <2> QED BY <2>1, <2>2, ProcUntouched
<1> QED BY <1>3, <1>4, <1>5 DEF HInv

(* The grant a worker hears the answer to is the one of its slot.          *)
LEMMA HeardIn ==
  ASSUME HInv, NEW i, ready(i), answered(i) # {}
  PROVE  /\ heard_in(i) \in DOMAIN grants /\ grants[heard_in(i)].at = plus(slot, i)
         /\ grants[heard_in(i)].answer # "pending"
<1>1. heard_in(i) \in answered(i) BY DEF heard_in
<1> QED BY <1>1 DEF answered, ready

(* work_ul() fails before it hears an answer.                              *)
LEMMA FailUlInv ==
  ASSUME HInv, NEW i \in 0..(Workers - 1), FailUl(i)
  PROVE  HInv'
<1>1. CASE answered(i) = {}
  <2>1. /\ ul' = [ul EXCEPT ![i] = "failed"]
        /\ UNCHANGED <<link, slot, tb, grants, events, dl_ue, ul_ue, soft, delivered, missed>>
    BY <1>1 DEF FailUl
  <2> QED BY <1>1, <2>1, IdleFrame
<1>2. CASE answered(i) # {}
  <2> DEFINE j == heard_in(i)  g == grants[j]  p == g.pid
             h == tb[p]  d == dl_ue[p]  u == ul_ue[p]  s == soft[p]  dv == delivered[p]  m == missed[p]
  <2>1. j \in DOMAIN grants /\ g.at = plus(slot, i) /\ g.answer # "pending"
    BY <1>2, HeardIn DEF FailUl
  <2>2. g \in Grant /\ p \in Pids /\ GrantsOf(p) = {g} /\ EventsOf(p) = {} BY <2>1, GrantAlone
  <2>3. ProcOK(p) /\ Types BY <2>2 DEF HInv
  <2>4. /\ ul' = [ul EXCEPT ![i] = "failed"] /\ grants' = RemoveAt(grants, j)
        /\ UNCHANGED <<link, slot, tb, events, dl_ue, ul_ue, soft, delivered, missed>>
    BY <1>2 DEF FailUl
  <2>5. soft' = [soft EXCEPT ![p] = s] /\ delivered' = [delivered EXCEPT ![p] = dv]
    BY <2>2, <2>3, <2>4 DEF Types
  <2>6. /\ Owned(h, {g}, {}) /\ (link = "dl" => DlOK(h, d, s, dv, m, {g}, {}))
        /\ (link = "ul" => UlOK(h, u, s, dv, m, {g}, {}))
    BY <2>2, <2>3 DEF ProcOK
  <2>7. /\ Owned(h, {}, {})
        /\ DlOK(h, d, s, dv, m, {g}, {}) => DlOK(h, d, s, dv, m, {}, {})
        /\ UlOK(h, u, s, dv, m, {g}, {}) => UlOK(h, u, s, dv, m, {}, {})
    <3> HIDE DEF g, h, d, u, s, dv, m
    <3> QED BY <2>1, <2>6, LostOK
  <2>8. Kinds(h, d, u, s, dv, m) BY <2>2, <2>3, ProcKinds
  <2>9. events' \in Seq(Event) /\ Of(events', p) = {} /\ \A q : q # p => Of(events', q) = Of(events, q)
    BY <2>2, <2>3, <2>4 DEF Types, EventsOf
  <2>10. UNCHANGED <<link, slot, tb, dl_ue, ul_ue, missed>> /\ p = grants[j].pid BY <2>4
  <2>11. /\ (link = "dl" => DlOK(tb[p], d, s, dv, m, {}, {}))
         /\ (link = "ul" => UlOK(tb[p], u, s, dv, m, {}, {}))
         /\ Owned(tb[p], {}, {}) /\ Kinds(tb[p], d, u, s, dv, m)
    BY <2>6, <2>7, <2>8
  <2> HIDE DEF j, p, s, dv
  <2> QED BY <2>1, <2>4, <2>5, <2>9, <2>10, <2>11, WorkerFrame DEF d, u, m
<1> QED BY <1>1, <1>2

(* work_ul() hears an answer.                                              *)
LEMMA WorkUlInv ==
  ASSUME HInv, NEW i \in 0..(Workers - 1), NEW ok \in BOOLEAN, WorkUl(i, ok)
  PROVE  HInv'
<1>0. PICK end \in {"done", "failed"} : ul' = [ul EXCEPT ![i] = end] BY DEF WorkUl
<1>1. CASE answered(i) = {}
  <2>1. UNCHANGED <<link, slot, tb, grants, events, dl_ue, ul_ue, soft, delivered, missed>>
    BY <1>1 DEF WorkUl
  <2> QED BY <1>0, <1>1, <2>1, IdleFrame
<1>2. CASE answered(i) # {}
  <2> DEFINE j == heard_in(i)  g == grants[j]  p == g.pid  e == Answer(g, ok)
             h == tb[p]  d == dl_ue[p]  u == ul_ue[p]  s == soft[p]  dv == delivered[p]  m == missed[p]
             s1 == IF link = "ul" THEN SoftUl(g, s) ELSE s
             dv1 == IF link = "ul" THEN CountUl(g, dv, ok) ELSE dv
  <2>1. j \in DOMAIN grants /\ g.at = plus(slot, i) /\ g.answer # "pending"
    BY <1>2, HeardIn DEF WorkUl
  <2>2. g \in Grant /\ p \in Pids /\ GrantsOf(p) = {g} /\ EventsOf(p) = {} BY <2>1, GrantAlone
  <2>3. ProcOK(p) /\ Types BY <2>2 DEF HInv
  <2>4. /\ grants' = RemoveAt(grants, j) /\ events' = Append(events, e)
        /\ UNCHANGED <<link, slot, tb, dl_ue, ul_ue, missed>>
        /\ ok => (IF link = "dl" THEN g.answer = "ack" ELSE g.pdu # None)
        /\ IF link = "ul" /\ g.pdu # None
             THEN /\ soft' = [soft EXCEPT ![p] = @ \cup {g.pdu}]
                  /\ delivered' = IF ok THEN [delivered EXCEPT ![p][g.pdu] = @ + 1] ELSE delivered
             ELSE UNCHANGED <<soft, delivered>>
    BY <1>2 DEF WorkUl, Answer
  <2>5. link \in {"dl", "ul"} BY <2>3 DEF Types
  <2>6. soft' = [soft EXCEPT ![p] = s1]
    <3>1. CASE link = "ul" /\ g.pdu # None BY <2>4, <3>1 DEF SoftUl
    <3>2. CASE ~(link = "ul" /\ g.pdu # None)
      <4>1. s1 = soft[p] BY <3>2 DEF SoftUl
      <4> QED BY <2>2, <2>3, <2>4, <3>2, <4>1 DEF Types
    <3> QED BY <3>1, <3>2
  <2>7. delivered' = [delivered EXCEPT ![p] = dv1]
    <3>1. CASE link = "ul" /\ g.pdu # None /\ ok BY <2>4, <3>1 DEF CountUl
    <3>2. CASE ~(link = "ul" /\ g.pdu # None /\ ok)
      <4>1. dv1 = delivered[p] BY <2>4, <3>2 DEF CountUl
      <4>2. delivered' = delivered BY <2>4, <3>2
      <4> QED BY <2>2, <2>3, <4>1, <4>2 DEF Types
    <3> QED BY <3>1, <3>2
  <2>8. /\ Owned(h, {g}, {}) /\ (link = "dl" => DlOK(h, d, s, dv, m, {g}, {}))
        /\ (link = "ul" => UlOK(h, u, s, dv, m, {g}, {}))
    BY <2>2, <2>3 DEF ProcOK
  <2>9. Kinds(h, d, u, s, dv, m) BY <2>2, <2>3, ProcKinds
  <2>10. /\ Owned(h, {}, {e}) /\ Kinds(h, d, u, s1, dv1, m)
         /\ (link = "dl" => DlOK(h, d, s1, dv1, m, {}, {e}))
         /\ (link = "ul" => UlOK(h, u, s1, dv1, m, {}, {e}))
    <3>1. CASE link = "dl"
      <4>1. ok => g.answer = "ack" BY <2>4, <3>1
      <4>2. DlOK(h, d, s, dv, m, {g}, {}) BY <2>8, <3>1
      <4>3. Owned(h, {}, {Answer(g, ok)}) /\ DlOK(h, d, s, dv, m, {}, {Answer(g, ok)})
        <5> HIDE DEF g, h, d, s, dv, m
        <5> QED BY <2>1, <2>8, <4>1, <4>2, AckHeardOK
      <4> QED BY <2>9, <3>1, <4>3
    <3>2. CASE link = "ul"
      <4>1. ok => g.pdu # None BY <2>4, <3>2
      <4>2. UlOK(h, u, s, dv, m, {g}, {}) BY <2>8, <3>2
      <4>3. /\ Owned(h, {}, {Answer(g, ok)})
            /\ UlOK(h, u, SoftUl(g, s), CountUl(g, dv, ok), m, {}, {Answer(g, ok)})
            /\ Kinds(h, d, u, SoftUl(g, s), CountUl(g, dv, ok), m)
        <5> HIDE DEF g, h, d, u, s, dv, m
        <5> QED BY <2>1, <2>2, <2>8, <2>9, <4>1, <4>2, PuschHeardOK
      <4> QED BY <3>2, <4>3
    <3> QED BY <2>5, <3>1, <3>2
  <2>11. /\ events' \in Seq(Event) /\ Of(events', p) = {e}
         /\ \A q : q # p => Of(events', q) = Of(events, q)
    <3>1. events \in Seq(Event) BY <2>3 DEF Types
    <3>2. e \in Event /\ e.pid = p
      <4>1. g.tb \in Blocks BY <2>2, GrantFields
      <4> QED BY <2>2, <4>1 DEF Event, Answer
    <3>3. /\ Append(events, e) \in Seq(Event)
          /\ Of(Append(events, e), e.pid) = Of(events, e.pid) \cup {e}
          /\ \A q : q # e.pid => Of(Append(events, e), q) = Of(events, q)
      <4> HIDE DEF e
      <4> QED BY <3>1, <3>2, AppendOf
    <3>4. Of(events, p) = {} BY <2>2 DEF EventsOf
    <3> QED BY <2>4, <3>2, <3>3, <3>4
  <2>12. /\ p = grants[j].pid /\ UNCHANGED <<link, slot, tb, dl_ue, ul_ue, missed>>
         /\ grants' = RemoveAt(grants, j)
    BY <2>4
  <2> DEFINE E1 == {e}
  <2>13. /\ Owned(tb[p], {}, E1) /\ Kinds(tb[p], dl_ue[p], ul_ue[p], s1, dv1, missed[p])
         /\ (link = "dl" => DlOK(tb[p], dl_ue[p], s1, dv1, missed[p], {}, E1))
         /\ (link = "ul" => UlOK(tb[p], ul_ue[p], s1, dv1, missed[p], {}, E1))
         /\ Of(events', p) = E1
    BY <2>10, <2>11
  <2>14. grants[j].at = plus(slot, i) /\ j \in DOMAIN grants BY <2>1
  <2> HIDE DEF j, p, s1, dv1, E1
  <2> QED BY <1>0, <2>6, <2>7, <2>11, <2>12, <2>13, <2>14, WorkerFrame
<1> QED BY <1>1, <1>2

-----------------------------------------------------------------------------
(* One process: what the scheduler does                                    *)

(* An empty process keeps its NDI.                                         *)
LEMMA EmptiedProc ==
  ASSUME NEW h \in HarqProc
  PROVE  /\ emptied(h) \in HarqProc /\ emptied(h).ndi = h.ndi /\ emptied(h).block = h.block
         /\ emptied(h).active = FALSE
<1>1. 0 \in 0..MaxRetx /\ 0 \in Slots BY Constants DEF Slots
<1>2. emptied(h) \in HarqProc BY <1>1 DEF HarqProc, emptied
<1> QED BY <1>2 DEF HarqProc, emptied

(* What the process is after the answers of a slot                         *)
AfterAnswers(h, E) == IF E = {} THEN h ELSE ack_info(h, AckQueued(E))

(* The events of a slot are applied: the process is emptied when the       *)
(* receiver has its block.                                                 *)
LEMMA AnswersApplied ==
  ASSUME NEW h \in HarqProc, NEW d, NEW u, NEW s, NEW dv, NEW m, NEW G, NEW E, Owned(h, G, E)
  PROVE  /\ AfterAnswers(h, E) \in HarqProc
         /\ AfterAnswers(h, E).ndi = h.ndi /\ AfterAnswers(h, E).block = h.block
         /\ Owned(AfterAnswers(h, E), G, {})
         /\ DlOK(h, d, s, dv, m, G, E) => DlOK(AfterAnswers(h, E), d, s, dv, m, G, {})
         /\ UlOK(h, u, s, dv, m, G, E) => UlOK(AfterAnswers(h, E), u, s, dv, m, G, {})
<1> DEFINE h1 == AfterAnswers(h, E)
<1> SUFFICES /\ h1 \in HarqProc /\ h1.ndi = h.ndi /\ h1.block = h.block /\ Owned(h1, G, {})
             /\ DlOK(h, d, s, dv, m, G, E) => DlOK(h1, d, s, dv, m, G, {})
             /\ UlOK(h, u, s, dv, m, G, E) => UlOK(h1, u, s, dv, m, G, {})
  OBVIOUS
<1>0. h1 = (IF E = {} THEN h ELSE ack_info(h, AckQueued(E))) BY DEF AfterAnswers
<1> HIDE DEF h1
<1>1. CASE E = {} BY <1>0, <1>1
<1>2. CASE E # {} /\ AckQueued(E)
  <2>1. h.active /\ G = {} BY <1>2 DEF Owned
  <2>2. h1 = emptied(h) BY <1>0, <1>2, <2>1 DEF ack_info
  <2>3. h1 \in HarqProc /\ h1.ndi = h.ndi /\ h1.block = h.block /\ h1.active = FALSE
    BY <2>2, EmptiedProc
  <2>4. Owned(h1, G, {}) BY <2>1, <2>3 DEF Owned
  <2>5. DlOK(h, d, s, dv, m, G, E) => DlOK(h1, d, s, dv, m, G, {})
    BY <1>2, <2>1, <2>3, NoneUnderWay DEF DlOK
  <2>6. UlOK(h, u, s, dv, m, G, E) => UlOK(h1, u, s, dv, m, G, {})
    BY <1>2, <2>1, <2>3, NoneUnderWay DEF UlOK
  <2> QED BY <2>3, <2>4, <2>5, <2>6
<1>3. CASE E # {} /\ ~AckQueued(E)
  <2>1. h.active /\ G = {} BY <1>3 DEF Owned
  <2>2. h1 = [h EXCEPT !.ack_state = FALSE] BY <1>0, <1>3, <2>1 DEF ack_info
  <2>3. /\ h1 \in HarqProc /\ h1.ndi = h.ndi /\ h1.block = h.block /\ h1.active = h.active
        /\ h1.n_rtx = h.n_rtx
    BY <2>2 DEF HarqProc
  <2>4. Owned(h1, G, {}) BY <2>1, <2>3 DEF Owned
  <2>5. InStep(h1, m, G) <=> InStep(h, m, G) BY <2>3 DEF InStep
  <2>6. DlOK(h, d, s, dv, m, G, E) => DlOK(h1, d, s, dv, m, G, {})
    BY <1>3, <2>3, <2>5, NoneUnderWay DEF DlOK
  <2>7. UlOK(h, u, s, dv, m, G, E) => UlOK(h1, u, s, dv, m, G, {})
    BY <1>3, <2>3, <2>5, NoneUnderWay DEF UlOK
  <2> QED BY <2>3, <2>4, <2>6, <2>7
<1> QED BY <1>1, <1>2, <1>3

(* clear_if_maxretx(): a process that is given up was heard of by the UE,  *)
(* which cannot have missed every transmission.                            *)
LEMMA ClearedOK ==
  ASSUME EndsAgree, NEW h, NEW d, NEW u, NEW s, NEW dv, NEW m, Kinds(h, d, u, s, dv, m),
         NEW G, Owned(h, G, {}), NEW sl, \A g \in G : ~not_after(g.at, sl)
  PROVE  /\ clear_if_maxretx(h, sl) \in HarqProc
         /\ clear_if_maxretx(h, sl).ndi = h.ndi /\ clear_if_maxretx(h, sl).block = h.block
         /\ Owned(clear_if_maxretx(h, sl), G, {})
         /\ DlOK(h, d, s, dv, m, G, {}) => DlOK(clear_if_maxretx(h, sl), d, s, dv, m, G, {})
         /\ UlOK(h, u, s, dv, m, G, {}) => UlOK(clear_if_maxretx(h, sl), u, s, dv, m, G, {})
         /\ has_pending_retx(clear_if_maxretx(h, sl), sl) =>
              G = {} /\ clear_if_maxretx(h, sl).n_rtx + 1 <= MaxRetx
<1> DEFINE h1 == clear_if_maxretx(h, sl)
<1> SUFFICES /\ h1 \in HarqProc /\ h1.ndi = h.ndi /\ h1.block = h.block /\ Owned(h1, G, {})
             /\ DlOK(h, d, s, dv, m, G, {}) => DlOK(h1, d, s, dv, m, G, {})
             /\ UlOK(h, u, s, dv, m, G, {}) => UlOK(h1, u, s, dv, m, G, {})
             /\ has_pending_retx(h1, sl) => G = {} /\ h1.n_rtx + 1 <= MaxRetx
  OBVIOUS
<1>0. h1 = (IF has_pending_retx(h, sl) /\ maxretx(h) THEN emptied(h) ELSE h)
  BY DEF clear_if_maxretx
<1> HIDE DEF h1
<1>1. /\ h \in HarqProc /\ h.n_rtx \in Nat /\ h.n_rtx <= MaxRetx /\ m \in Nat /\ m <= MaxMissed
      /\ MaxMissed <= MaxRetx /\ MaxRetx \in Nat /\ MaxMissed \in Nat
  BY Constants DEF Kinds, HarqProc, EndsAgree
<1>2. has_pending_retx(h, sl) => G = {} /\ h.active BY DEF has_pending_retx, Owned
<1>3. CASE has_pending_retx(h, sl) /\ maxretx(h)
  <2>1. h1 = emptied(h) /\ G = {} /\ h.active BY <1>0, <1>2, <1>3
  <2>2. h1 \in HarqProc /\ h1.ndi = h.ndi /\ h1.block = h.block /\ h1.active = FALSE
    BY <1>1, <2>1, EmptiedProc
  <2>3. ~InStep(h, m, {})
    <3>1. h.n_rtx + 1 > MaxRetx BY <1>3 DEF maxretx
    <3>2. ~(h.n_rtx < m + 0) BY <1>1, <3>1
    <3> QED BY <3>2, NoneUnderWay DEF InStep
  <2>4. Owned(h1, G, {}) BY <2>1, <2>2 DEF Owned
  <2>5. DlOK(h, d, s, dv, m, G, {}) => DlOK(h1, d, s, dv, m, G, {})
    BY <2>1, <2>2, <2>3, NoneUnderWay DEF DlOK
  <2>6. UlOK(h, u, s, dv, m, G, {}) => UlOK(h1, u, s, dv, m, G, {})
    BY <2>1, <2>2, <2>3, NoneUnderWay DEF UlOK
  <2>7. ~has_pending_retx(h1, sl) BY <2>2 DEF has_pending_retx
  <2> QED BY <2>2, <2>4, <2>5, <2>6, <2>7
<1>4. CASE ~(has_pending_retx(h, sl) /\ maxretx(h))
  <2>1. h1 = h BY <1>0, <1>4
  <2>2. has_pending_retx(h, sl) => h.n_rtx + 1 <= MaxRetx BY <1>1, <1>4 DEF maxretx
  <2> QED BY <1>1, <1>2, <2>1, <2>2
<1> QED BY <1>3, <1>4

(* The DCI of a grant of the slot                                          *)
Dci(at, p, h) == [at |-> at, pid |-> p, ndi |-> h.ndi, tb |-> h.block,
                  answer |-> "pending", pdu |-> None]

(* A retransmission: the same block, one more time.                        *)
LEMMA RetxOK ==
  ASSUME NEW h \in HarqProc, NEW d, NEW u, NEW s, NEW dv, NEW m, Kinds(h, d, u, s, dv, m),
         Owned(h, {}, {}), h.active, h.n_rtx + 1 <= MaxRetx,
         NEW at \in Slots, NEW p \in Pids
  PROVE  /\ Kinds(new_retx(h, at), d, u, s, dv, m)
         /\ Dci(at, p, new_retx(h, at)) \in Grant
         /\ Owned(new_retx(h, at), {Dci(at, p, new_retx(h, at))}, {})
         /\ DlOK(h, d, s, dv, m, {}, {}) =>
              DlOK(new_retx(h, at), d, s, dv, m, {Dci(at, p, new_retx(h, at))}, {})
         /\ UlOK(h, u, s, dv, m, {}, {}) =>
              UlOK(new_retx(h, at), u, s, dv, m, {Dci(at, p, new_retx(h, at))}, {})
<1> DEFINE h1 == new_retx(h, at)  g == Dci(at, p, h1)
<1> SUFFICES /\ Kinds(h1, d, u, s, dv, m) /\ g \in Grant /\ Owned(h1, {g}, {})
             /\ DlOK(h, d, s, dv, m, {}, {}) => DlOK(h1, d, s, dv, m, {g}, {})
             /\ UlOK(h, u, s, dv, m, {}, {}) => UlOK(h1, u, s, dv, m, {g}, {})
  OBVIOUS
<1>1. /\ h.n_rtx \in Nat /\ MaxRetx \in Nat /\ m \in Nat /\ u.nof_retx \in Nat
      /\ h.block \in Blocks /\ h.ndi \in {0, 1}
  BY Constants DEF Kinds, HarqProc, UlProc, Owned
<1>2. /\ h1.active = h.active /\ h1.ndi = h.ndi /\ h1.block = h.block /\ h1.slot_ack = at
      /\ h1.n_rtx = h.n_rtx + 1
  BY DEF new_retx, HarqProc
<1>3. h1 \in HarqProc
  <2>1. h.n_rtx + 1 \in 0..MaxRetx BY <1>1
  <2> QED BY <2>1 DEF new_retx, HarqProc
<1> HIDE DEF h1
<1>4. /\ g.at = at /\ g.pid = p /\ g.ndi = h.ndi /\ g.tb = h.block /\ g.answer = "pending"
      /\ g.pdu = None
  BY <1>2 DEF Dci
<1>5. g \in Grant BY <1>1, <1>2 DEF Dci, Grant, Slots
<1> HIDE DEF g
<1>6. Owned(h1, {g}, {}) BY <1>1, <1>2, <1>4 DEF Owned
<1>7. Unheard({g}) /\ ~Unheard({}) BY <1>4 DEF Unheard
<1>8. InStep(h, m, {}) => InStep(h1, m, {g}) BY <1>1, <1>2, <1>7 DEF InStep
<1>9. DlOK(h, d, s, dv, m, {}, {}) => DlOK(h1, d, s, dv, m, {g}, {})
  BY <1>2, <1>4, <1>8, NoneUnderWay DEF DlOK
<1>10. u.nof_retx + (IF Unheard({}) THEN 1 ELSE 0) <= h.n_rtx + 1 =>
         u.nof_retx + (IF Unheard({g}) THEN 1 ELSE 0) <= h1.n_rtx + 1
  BY <1>1, <1>2, <1>7
<1>11. UlOK(h, u, s, dv, m, {}, {}) => UlOK(h1, u, s, dv, m, {g}, {})
  BY <1>2, <1>4, <1>8, <1>10, NoneUnderWay DEF UlOK
<1> QED BY <1>3, <1>5, <1>6, <1>9, <1>11 DEF Kinds

(* A new block: its NDI is not the one the UE has.                         *)
LEMMA NewTxOK ==
  ASSUME NEW h, NEW d, NEW u, NEW s, NEW dv, NEW m, Kinds(h, d, u, s, dv, m),
         ~h.active, NEW at \in Slots, NEW p \in Pids, NEW b \in Blocks
  PROVE  /\ new_tx(h, at, b) \in HarqProc
         /\ Dci(at, p, new_tx(h, at, b)) \in Grant
         /\ Owned(new_tx(h, at, b), {Dci(at, p, new_tx(h, at, b))}, {})
         /\ DlOK(h, d, s, dv, m, {}, {}) /\ b \notin s =>
              DlOK(new_tx(h, at, b), d, s, Kept(dv, s), m, {Dci(at, p, new_tx(h, at, b))}, {})
         /\ UlOK(h, u, s, dv, m, {}, {}) =>
              UlOK(new_tx(h, at, b), u, {}, dv, m, {Dci(at, p, new_tx(h, at, b))}, {})
<1> DEFINE h1 == new_tx(h, at, b)  g == Dci(at, p, h1)  dv1 == Kept(dv, s)
<1> SUFFICES /\ h1 \in HarqProc /\ g \in Grant /\ Owned(h1, {g}, {})
             /\ DlOK(h, d, s, dv, m, {}, {}) /\ b \notin s => DlOK(h1, d, s, dv1, m, {g}, {})
             /\ UlOK(h, u, s, dv, m, {}, {}) => UlOK(h1, u, {}, dv, m, {g}, {})
  OBVIOUS
<1>1. h.ndi \in {0, 1} /\ 1 - h.ndi \in {0, 1} /\ 1 - h.ndi # h.ndi /\ m \in Nat
  BY Constants DEF Kinds, HarqProc
<1>2. /\ h1.active = TRUE /\ h1.ndi = 1 - h.ndi /\ h1.block = b /\ h1.slot_ack = at /\ h1.n_rtx = 0
  BY DEF new_tx
<1>3. h1 \in HarqProc BY <1>1, Constants DEF new_tx, HarqProc
<1> HIDE DEF h1
<1>4. /\ g.at = at /\ g.pid = p /\ g.ndi = h1.ndi /\ g.tb = b /\ g.answer = "pending"
      /\ g.pdu = None
  BY <1>2 DEF Dci
<1>5. g \in Grant BY <1>1, <1>2 DEF Dci, Grant, Slots
<1> HIDE DEF g
<1>6. Owned(h1, {g}, {}) BY <1>2, <1>4 DEF Owned
<1>7. Unheard({g}) BY <1>4 DEF Unheard
<1>8. InStep(h1, m, {g}) BY <1>1, <1>2, <1>7 DEF InStep
<1>9. ASSUME DlOK(h, d, s, dv, m, {}, {}), b \notin s PROVE DlOK(h1, d, s, dv1, m, {g}, {})
  <2>1. d.ndi # h1.ndi /\ OneBlock(s) BY <1>1, <1>2, <1>9 DEF DlOK
  <2>2. dv1[b] = 0 BY <1>9 DEF Kept
  <2> QED BY <1>2, <1>4, <1>8, <2>1, <2>2, NoneUnderWay DEF DlOK
<1>10. ASSUME UlOK(h, u, s, dv, m, {}, {}) PROVE UlOK(h1, u, {}, dv, m, {g}, {})
  <2>1. ~(u.ndi = h1.ndi /\ u.harq_buffer # None) BY <1>1, <1>2, <1>10 DEF UlOK
  <2>2. OneBlock({}) BY Constants DEF OneBlock
  <2> QED BY <1>2, <1>4, <1>8, <2>1, <2>2, NoneUnderWay DEF UlOK
<1> QED BY <1>3, <1>5, <1>6, <1>9, <1>10

-----------------------------------------------------------------------------
(* The steps of the scheduler                                              *)

(* A grant that is not answered is not due: the workers were before the    *)
(* scheduler.                                                              *)
LEMMA NotDue ==
  ASSUME HInv, ul[0] # "todo", NEW p \in Pids
  PROVE  \A g \in GrantsOf(p) : ~not_after(g.at, slot)
<1> SUFFICES ASSUME NEW j \in DOMAIN grants PROVE ~not_after(grants[j].at, slot)
  BY DEF GrantsOf, Of
<1> DEFINE a == grants[j].at
<1>1. a \in Slots /\ slot \in Slots BY GrantFields DEF HInv, Types
<1>2. 0 \in DOMAIN ul BY Constants DEF HInv, Types
<1>3. a # plus(slot, 0) /\ ahead(slot, a) < TxDelay + K BY <1>2 DEF HInv, SlotsOK
<1> HIDE DEF a
<1>4. /\ ahead(slot, a) \in 0..(SlotMod - 1) /\ plus(slot, ahead(slot, a)) = a
      /\ ahead(slot, a) \in 1..(TxDelay + K - 1) => ~not_after(a, slot)
  BY <1>1, AheadFacts
<1>5. ahead(slot, a) # 0 BY <1>3, <1>4
<1>6. ahead(slot, a) \in 1..(TxDelay + K - 1) BY <1>3, <1>4, <1>5, Constants
<1> QED BY <1>4, <1>6 DEF a

(* process_cc_events() and new_slot() leave every process in order: one    *)
(* that may be sent again has nothing under way.                           *)
LEMMA NewSlotOK ==
  ASSUME EndsAgree, HInv, ul[0] # "todo", NEW p \in Pids
  PROVE  /\ new_slot[p] \in HarqProc /\ new_slot[p].ndi = tb[p].ndi
         /\ Owned(new_slot[p], GrantsOf(p), {})
         /\ link = "dl" =>
              DlOK(new_slot[p], dl_ue[p], soft[p], delivered[p], missed[p], GrantsOf(p), {})
         /\ link = "ul" =>
              UlOK(new_slot[p], ul_ue[p], soft[p], delivered[p], missed[p], GrantsOf(p), {})
         /\ has_pending_retx(new_slot[p], slot) =>
              GrantsOf(p) = {} /\ new_slot[p].n_rtx + 1 <= MaxRetx
<1> DEFINE h == tb[p]  d == dl_ue[p]  u == ul_ue[p]  s == soft[p]  dv == delivered[p]  m == missed[p]
           G == GrantsOf(p)  E == EventsOf(p)  h1 == AfterAnswers(h, E)
<1>1. Types /\ ProcOK(p) BY DEF HInv
<1>2. Kinds(h, d, u, s, dv, m) BY <1>1, ProcKinds
<1>3. /\ Owned(h, G, E) /\ (link = "dl" => DlOK(h, d, s, dv, m, G, E))
      /\ (link = "ul" => UlOK(h, u, s, dv, m, G, E))
  BY <1>1 DEF ProcOK
<1>4. \A g \in G : ~not_after(g.at, slot) BY NotDue
<1>5. new_slot[p] = clear_if_maxretx(h1, slot)
  <2> DEFINE mine == {i \in DOMAIN events : events[i].pid = p}
  <2>1. mine = {} <=> E = {} BY DEF EventsOf, Of
  <2>2. (\E i \in mine : events[i].ack) <=> AckQueued(E) BY DEF EventsOf, Of, AckQueued
  <2>3. ack_info(h, \E i \in mine : events[i].ack) = ack_info(h, AckQueued(E))
    BY <2>2 DEF ack_info
  <2>4. after_events(p) = IF mine = {} THEN h ELSE ack_info(h, \E i \in mine : events[i].ack)
    BY DEF after_events
  <2>5. after_events(p) = h1 BY <2>1, <2>3, <2>4 DEF AfterAnswers
  <2> QED BY <2>5 DEF new_slot
<1>6. /\ h1 \in HarqProc /\ h1.ndi = h.ndi /\ Owned(h1, G, {})
      /\ DlOK(h, d, s, dv, m, G, E) => DlOK(h1, d, s, dv, m, G, {})
      /\ UlOK(h, u, s, dv, m, G, E) => UlOK(h1, u, s, dv, m, G, {})
  <2>1. h \in HarqProc BY <1>2 DEF Kinds
  <2> HIDE DEF h, d, u, s, dv, m, G, E
  <2> QED BY <1>3, <2>1, AnswersApplied
<1>7. Kinds(h1, d, u, s, dv, m) BY <1>2, <1>6 DEF Kinds
<1> DEFINE h2 == clear_if_maxretx(h1, slot)
<1>8. /\ h2 \in HarqProc /\ h2.ndi = h1.ndi /\ Owned(h2, G, {})
      /\ DlOK(h1, d, s, dv, m, G, {}) => DlOK(h2, d, s, dv, m, G, {})
      /\ UlOK(h1, u, s, dv, m, G, {}) => UlOK(h2, u, s, dv, m, G, {})
      /\ has_pending_retx(h2, slot) => G = {} /\ h2.n_rtx + 1 <= MaxRetx
  <2> HIDE DEF h1, d, u, s, dv, m, G
  <2> QED BY <1>4, <1>6, <1>7, ClearedOK
<1> HIDE DEF h1, h2
<1>9. new_slot[p] = h2 BY <1>5 DEF h2
<1> HIDE DEF G, d, u, s, dv, m
<1>10. /\ (link = "dl" => DlOK(h2, d, s, dv, m, G, {}))
       /\ (link = "ul" => UlOK(h2, u, s, dv, m, G, {}))
  BY <1>3, <1>6, <1>8
<1> QED BY <1>6, <1>8, <1>9, <1>10 DEF G, d, u, s, dv, m

(* The workers go on to the next slot.                                     *)
LEMMA NextSlotOK ==
  ASSUME HInv, ul[0] # "todo", NextSlot,
         \/ grants' = grants
         \/ \E g \in Grant : g.at = uci_slot /\ grants' = Append(grants, g)
  PROVE  /\ slot' \in Slots /\ ul' \in Works /\ SlotsOK(slot', ul', grants')
         /\ grants' \in Seq(Grant)
<1>1. grants \in Seq(Grant) /\ ul \in Works /\ slot \in Slots /\ SlotsOK(slot, ul, grants)
  BY DEF HInv, Types, Works
<1>2. slot' \in Slots
  <2>1. 1 \in Nat /\ 1 < SlotMod BY Constants
  <2>2. plus(slot, 1) \in Slots BY <1>1, <2>1, PlusAhead
  <2> QED BY <2>2 DEF NextSlot
<1>3. ul' \in Works BY <1>1 DEF NextSlot, Works
<1>4. SlotsOK(slot', ul', grants')
  <2>1. \/ grants' = grants
        \/ \E g \in Grant : g.at = plus(slot, TxDelay + K) /\ grants' = Append(grants, g)
    BY DEF uci_slot
  <2>2. SlotsOK(plus(slot, 1),
                [i \in DOMAIN ul |-> IF i + 1 \in DOMAIN ul THEN ul[i + 1] ELSE "todo"], grants')
    BY <1>1, <2>1, SlotPassed
  <2> QED BY <2>2 DEF NextSlot
<1> QED BY <1>1, <1>2, <1>3, <1>4

(* The scheduler grants nothing in a slot.                                 *)
LEMMA NoGrantInv ==
  ASSUME EndsAgree, HInv, NoGrant
  PROVE  HInv'
<1>1. ul[0] # "todo" /\ NextSlot /\ tb' = new_slot /\ events' = <<>>
      /\ UNCHANGED <<link, dl_ue, ul_ue, missed, grants, soft, delivered>>
  BY DEF NoGrant, NextSlot
<1>2. slot' \in Slots /\ ul' \in Works /\ SlotsOK(slot', ul', grants') BY <1>1, NextSlotOK
<1>3. Types'
  <2>1. tb' \in [Pids -> HarqProc]
    <3>1. \A p \in Pids : new_slot[p] \in HarqProc BY <1>1, NewSlotOK
    <3> QED BY <1>1, <3>1 DEF new_slot
  <2>2. events' \in Seq(Event) BY <1>1
  <2> QED BY <1>1, <1>2, <2>1, <2>2 DEF HInv, Types, Works
<1>4. ASSUME NEW q \in Pids PROVE ProcOK(q)'
  <2>1. GrantsOf(q)' = GrantsOf(q) BY <1>1 DEF GrantsOf
  <2>2. EventsOf(q)' = {} BY <1>1 DEF EventsOf, Of
  <2>3. /\ Owned(new_slot[q], GrantsOf(q), {})
        /\ link = "dl" =>
              DlOK(new_slot[q], dl_ue[q], soft[q], delivered[q], missed[q], GrantsOf(q), {})
        /\ link = "ul" =>
              UlOK(new_slot[q], ul_ue[q], soft[q], delivered[q], missed[q], GrantsOf(q), {})
    BY <1>1, NewSlotOK
  <2> QED BY <1>1, <2>1, <2>2, <2>3 DEF ProcOK
<1> QED BY <1>2, <1>3, <1>4 DEF HInv

(* The scheduler is not called for a slot whose work_ul() failed.          *)
LEMMA SkipSlotInv ==
  ASSUME HInv, SkipSlot
  PROVE  HInv'
<1>1. ul[0] # "todo" /\ NextSlot
      /\ UNCHANGED <<link, dl_ue, ul_ue, missed, tb, grants, events, soft, delivered>>
  BY DEF SkipSlot, NextSlot
<1>2. slot' \in Slots /\ ul' \in Works /\ SlotsOK(slot', ul', grants') BY <1>1, NextSlotOK
<1>3. Types' BY <1>1, <1>2 DEF HInv, Types, Works
<1>4. ASSUME NEW q \in Pids PROVE ProcOK(q)'
  <2>1. GrantsOf(q)' = GrantsOf(q) /\ EventsOf(q)' = EventsOf(q) BY <1>1 DEF GrantsOf, EventsOf
  <2>2. ProcOK(q) BY DEF HInv
  <2> QED BY <1>1, <2>1, <2>2, ProcUntouched
<1> QED BY <1>2, <1>3, <1>4 DEF HInv

(* The scheduler grants a slot to a process with nothing under way: it is  *)
(* enough to look at that process.                                         *)
LEMMA GrantFrame ==
  ASSUME EndsAgree, HInv, ul[0] # "todo", NextSlot, events' = <<>>,
         NEW p \in Pids, GrantsOf(p) = {}, NEW h1, NEW s1, NEW dv1, NEW g \in Grant,
         g.at = uci_slot, g.pid = p, grants' = Append(grants, g),
         tb' = [new_slot EXCEPT ![p] = h1], soft' = [soft EXCEPT ![p] = s1],
         delivered' = [delivered EXCEPT ![p] = dv1],
         Kinds(h1, dl_ue[p], ul_ue[p], s1, dv1, missed[p]), Owned(h1, {g}, {}),
         link = "dl" => DlOK(h1, dl_ue[p], s1, dv1, missed[p], {g}, {}),
         link = "ul" => UlOK(h1, ul_ue[p], s1, dv1, missed[p], {g}, {})
  PROVE  HInv'
<1>1. UNCHANGED <<link, dl_ue, ul_ue, missed>> BY DEF NextSlot
<1>2. /\ slot' \in Slots /\ ul' \in Works /\ SlotsOK(slot', ul', grants')
      /\ grants' \in Seq(Grant)
  <2>1. \E x \in Grant : x.at = uci_slot /\ grants' = Append(grants, x) OBVIOUS
  <2> QED BY <2>1, NextSlotOK
<1>3. Types /\ grants \in Seq(Grant) BY DEF HInv, Types
<1>4. new_slot \in [Pids -> HarqProc]
  <2>1. \A q \in Pids : new_slot[q] \in HarqProc BY NewSlotOK
  <2> QED BY <2>1 DEF new_slot
<1>5. Types'
  <2>1. h1 \in HarqProc /\ s1 \in SUBSET Blocks /\ dv1 \in [Blocks -> {0, 1}] BY DEF Kinds
  <2>2. tb' \in [Pids -> HarqProc] BY <1>4, <2>1
  <2>3. soft' \in [Pids -> SUBSET Blocks] BY <1>3, <2>1 DEF Types
  <2>4. delivered' \in [Pids -> [Blocks -> {0, 1}]] BY <1>3, <2>1 DEF Types
  <2>5. events' \in Seq(Event) OBVIOUS
  <2> QED BY <1>1, <1>2, <1>3, <2>2, <2>3, <2>4, <2>5 DEF Types, Works
<1>6. Of(grants', p) = {g} /\ \A q : q # p => Of(grants', q) = Of(grants, q)
  <2>1. /\ Of(Append(grants, g), g.pid) = Of(grants, g.pid) \cup {g}
        /\ \A q : q # g.pid => Of(Append(grants, g), q) = Of(grants, q)
    BY <1>3, AppendOf
  <2>2. Of(grants, p) = {} BY DEF GrantsOf
  <2> QED BY <2>1, <2>2
<1>7. \A q : EventsOf(q)' = {} /\ GrantsOf(q)' = Of(grants', q) BY DEF EventsOf, GrantsOf, Of
<1>8. ASSUME NEW q \in Pids PROVE ProcOK(q)'
  <2>1. CASE q = p
    <3>1. tb'[p] = h1 /\ soft'[p] = s1 /\ delivered'[p] = dv1 BY <1>3, <1>4 DEF Types
    <3>2. GrantsOf(p)' = {g} /\ EventsOf(p)' = {} BY <1>6, <1>7
    <3> QED BY <1>1, <2>1, <3>1, <3>2 DEF ProcOK
  <2>2. CASE q # p
    <3>1. tb'[q] = new_slot[q] /\ soft'[q] = soft[q] /\ delivered'[q] = delivered[q]
      BY <2>2, <1>3, <1>4 DEF Types
    <3>2. GrantsOf(q)' = GrantsOf(q) /\ EventsOf(q)' = {} BY <2>2, <1>6, <1>7 DEF GrantsOf
    <3>3. /\ Owned(new_slot[q], GrantsOf(q), {})
          /\ link = "dl" =>
               DlOK(new_slot[q], dl_ue[q], soft[q], delivered[q], missed[q], GrantsOf(q), {})
          /\ link = "ul" =>
               UlOK(new_slot[q], ul_ue[q], soft[q], delivered[q], missed[q], GrantsOf(q), {})
      BY NewSlotOK
    <3> QED BY <1>1, <3>1, <3>2, <3>3 DEF ProcOK
  <2> QED BY <2>1, <2>2
<1> QED BY <1>2, <1>5, <1>8 DEF HInv

(* The slot of an answer is one of the slots.                              *)
LEMMA UciSlot == slot \in Slots => uci_slot \in Slots
<1> SUFFICES ASSUME slot \in Slots PROVE uci_slot \in Slots OBVIOUS
<1> DEFINE D == TxDelay + K
<1>1. D \in Nat /\ D < SlotMod BY Constants
<1> HIDE DEF D
<1>2. plus(slot, D) \in Slots BY <1>1, PlusAhead
<1> QED BY <1>2 DEF uci_slot, D

(* A block is sent again.                                                  *)
LEMMA RetransmitInv ==
  ASSUME EndsAgree, HInv, NEW p \in Pids, Retransmit(p)
  PROVE  HInv'
<1> DEFINE h == new_slot[p]  at == uci_slot  h1 == new_retx(h, at)  g == Dci(at, p, h1)
           d == dl_ue[p]  u == ul_ue[p]  s == soft[p]  dv == delivered[p]  m == missed[p]
<1>1. /\ ul[0] # "todo" /\ NextSlot /\ events' = <<>> /\ UNCHANGED <<soft, delivered>>
      /\ pending(new_slot) # {} /\ p = first_of(pending(new_slot))
      /\ tb' = [new_slot EXCEPT ![p] = h1] /\ grants' = Append(grants, fill_dci(p, tb'[p]))
  BY DEF Retransmit
<1>2. p \in pending(new_slot)
  <2>1. pending(new_slot) \in SUBSET Nat BY Constants DEF pending
  <2> QED BY <1>1, <2>1, FirstOf
<1>3. has_pending_retx(h, slot) BY <1>2 DEF pending
<1>4. /\ h \in HarqProc /\ Owned(h, GrantsOf(p), {})
      /\ link = "dl" => DlOK(h, d, s, dv, m, GrantsOf(p), {})
      /\ link = "ul" => UlOK(h, u, s, dv, m, GrantsOf(p), {})
      /\ GrantsOf(p) = {} /\ h.n_rtx + 1 <= MaxRetx
  <2>1. has_pending_retx(new_slot[p], slot) =>
          GrantsOf(p) = {} /\ new_slot[p].n_rtx + 1 <= MaxRetx
    BY <1>1, NewSlotOK
  <2>2. /\ new_slot[p] \in HarqProc /\ Owned(new_slot[p], GrantsOf(p), {})
        /\ link = "dl" =>
              DlOK(new_slot[p], dl_ue[p], soft[p], delivered[p], missed[p], GrantsOf(p), {})
        /\ link = "ul" =>
              UlOK(new_slot[p], ul_ue[p], soft[p], delivered[p], missed[p], GrantsOf(p), {})
    BY <1>1, NewSlotOK
  <2> QED BY <1>3, <2>1, <2>2
<1>5. Types /\ slot \in Slots BY DEF HInv, Types
<1>6. at \in Slots BY <1>5, UciSlot
<1>7. Kinds(h, d, u, s, dv, m)
  <2>1. Kinds(tb[p], d, u, s, dv, m) BY <1>5, ProcKinds
  <2> QED BY <1>4, <2>1 DEF Kinds
<1>8. /\ Kinds(h1, d, u, s, dv, m) /\ g \in Grant /\ Owned(h1, {g}, {})
      /\ DlOK(h, d, s, dv, m, {}, {}) => DlOK(h1, d, s, dv, m, {g}, {})
      /\ UlOK(h, u, s, dv, m, {}, {}) => UlOK(h1, u, s, dv, m, {g}, {})
  <2>1. h.active BY <1>3 DEF has_pending_retx
  <2>2. Owned(h, {}, {}) /\ h.n_rtx + 1 <= MaxRetx /\ h \in HarqProc BY <1>4
  <2> HIDE DEF h, d, u, s, dv, m, at
  <2> QED BY <1>6, <1>7, <2>1, <2>2, RetxOK
<1>9. tb'[p] = h1 /\ grants' = Append(grants, g)
  <2>1. tb'[p] = h1 BY <1>1 DEF new_slot
  <2> QED BY <1>1, <2>1 DEF fill_dci, Dci
<1>10. soft' = [soft EXCEPT ![p] = s] /\ delivered' = [delivered EXCEPT ![p] = dv]
  BY <1>1, <1>5 DEF Types
<1>11. g.at = uci_slot /\ g.pid = p BY DEF Dci
<1>12. /\ (link = "dl" => DlOK(h1, dl_ue[p], s, dv, missed[p], {g}, {}))
       /\ (link = "ul" => UlOK(h1, ul_ue[p], s, dv, missed[p], {g}, {}))
       /\ Kinds(h1, dl_ue[p], ul_ue[p], s, dv, missed[p])
  BY <1>4, <1>8
<1> HIDE DEF h1, g, s, dv
<1> QED BY <1>1, <1>4, <1>8, <1>9, <1>10, <1>11, <1>12, GrantFrame

(* There is a name for a new block: one is in the process, and one in the  *)
(* softbuffer of a downlink.                                               *)
LEMMA NewBlock ==
  ASSUME HInv, NEW p \in Pids, GrantsOf(p) = {}
  PROVE  new_block(p) \in Blocks /\ (link = "dl" => new_block(p) \notin soft[p])
<1> DEFINE used == {tb[p].block} \cup granted(p) \cup (IF link = "dl" THEN soft[p] ELSE {})
<1>1. granted(p) = {} BY DEF GrantsOf, Of, granted
<1>2. OneBlock(soft[p])
  <2>1. ProcOK(p) /\ link \in {"dl", "ul"} BY DEF HInv, Types
  <2> QED BY <2>1 DEF ProcOK, DlOK, UlOK
<1>3. PICK b \in Blocks : soft[p] \subseteq {b} BY <1>2 DEF OneBlock
<1>4. used \subseteq {tb[p].block, b} BY <1>1, <1>3
<1> HIDE DEF used
<1>5. 1 \notin used \/ 2 \notin used \/ 3 \notin used BY <1>4
<1>6. Blocks \ used # {} /\ Blocks \ used \in SUBSET Nat BY <1>5, Constants
<1>7. first_of(Blocks \ used) \in Blocks \ used BY <1>6, FirstOf
<1>8. new_block(p) = first_of(Blocks \ used) BY DEF new_block, used
<1>9. link = "dl" => soft[p] \subseteq used BY DEF used
<1> QED BY <1>7, <1>8, <1>9

(* A new block is sent, or the UE is asked for one.                        *)
LEMMA NewTransmissionInv ==
  ASSUME EndsAgree, HInv, NewTransmission
  PROVE  HInv'
<1> DEFINE p == first_of(empty(new_slot))  h == new_slot[p]  at == uci_slot  b == new_block(p)
           h1 == new_tx(h, at, b)  g == Dci(at, p, h1)
           d == dl_ue[p]  u == ul_ue[p]  s == soft[p]  dv == delivered[p]  m == missed[p]
           s1 == IF link = "ul" THEN {} ELSE s
           dv1 == IF link = "dl" THEN Kept(dv, s) ELSE dv
<1>1. /\ ul[0] # "todo" /\ NextSlot /\ events' = <<>> /\ empty(new_slot) # {}
      /\ tb' = [new_slot EXCEPT ![p] = h1] /\ grants' = Append(grants, fill_dci(p, tb'[p]))
      /\ delivered' = (IF link = "dl" THEN forget(p, s) ELSE delivered)
      /\ soft' = (IF link = "ul" THEN [soft EXCEPT ![p] = {}] ELSE soft)
  BY DEF NewTransmission
<1>2. p \in Pids /\ ~h.active
  <2>1. empty(new_slot) \in SUBSET Nat BY Constants DEF empty
  <2>2. p \in empty(new_slot) BY <1>1, <2>1, FirstOf
  <2> HIDE DEF p
  <2> QED BY <2>2 DEF empty
<1>3. Types /\ slot \in Slots /\ link \in {"dl", "ul"} BY DEF HInv, Types
<1>4. at \in Slots BY <1>3, UciSlot
<1> HIDE DEF p
<1>5. /\ h \in HarqProc /\ Owned(h, GrantsOf(p), {})
      /\ link = "dl" => DlOK(h, d, s, dv, m, GrantsOf(p), {})
      /\ link = "ul" => UlOK(h, u, s, dv, m, GrantsOf(p), {})
  BY <1>1, <1>2, NewSlotOK
<1>6. GrantsOf(p) = {} BY <1>2, <1>5 DEF Owned
<1>7. b \in Blocks /\ (link = "dl" => b \notin s) BY <1>2, <1>6, NewBlock
<1>8. Kinds(h, d, u, s, dv, m)
  <2>1. Kinds(tb[p], d, u, s, dv, m) BY <1>2, <1>3, ProcKinds
  <2> QED BY <1>5, <2>1 DEF Kinds
<1>9. /\ h1 \in HarqProc /\ g \in Grant /\ Owned(h1, {g}, {})
      /\ DlOK(h, d, s, dv, m, {}, {}) /\ b \notin s => DlOK(h1, d, s, Kept(dv, s), m, {g}, {})
      /\ UlOK(h, u, s, dv, m, {}, {}) => UlOK(h1, u, {}, dv, m, {g}, {})
  <2> HIDE DEF h, d, u, s, dv, m, at, b
  <2> QED BY <1>2, <1>4, <1>7, <1>8, NewTxOK
<1>10. tb'[p] = h1 /\ grants' = Append(grants, g)
  <2>1. tb'[p] = h1 BY <1>1, <1>2 DEF new_slot
  <2> QED BY <1>1, <2>1 DEF fill_dci, Dci
<1>11. soft' = [soft EXCEPT ![p] = s1] BY <1>1, <1>2, <1>3 DEF Types
<1>12. delivered' = [delivered EXCEPT ![p] = dv1]
  <2>1. CASE link = "dl" BY <1>1, <2>1 DEF forget, Kept
  <2>2. CASE link # "dl" BY <1>1, <1>2, <1>3, <2>2 DEF Types
  <2> QED BY <2>1, <2>2
<1>13. Kinds(h1, d, u, s1, dv1, m)
  <2>1. s1 \in SUBSET Blocks BY <1>8 DEF Kinds
  <2>2. Kept(dv, s) \in [Blocks -> {0, 1}] BY <1>8 DEF Kinds, Kept
  <2>3. dv1 \in [Blocks -> {0, 1}] BY <1>8, <2>2 DEF Kinds
  <2> QED BY <1>8, <1>9, <2>1, <2>3 DEF Kinds
<1>14. g.at = uci_slot /\ g.pid = p BY DEF Dci
<1>15. /\ (link = "dl" => DlOK(h1, dl_ue[p], s1, dv1, missed[p], {g}, {}))
       /\ (link = "ul" => UlOK(h1, ul_ue[p], s1, dv1, missed[p], {g}, {}))
  BY <1>5, <1>6, <1>7, <1>9
<1>16. Kinds(h1, dl_ue[p], ul_ue[p], s1, dv1, missed[p]) BY <1>13
<1> HIDE DEF h1, g, s1, dv1
<1> QED BY <1>1, <1>2, <1>6, <1>9, <1>10, <1>11, <1>12, <1>14, <1>15, <1>16, GrantFrame

-----------------------------------------------------------------------------
(* The invariant holds                                                     *)

(* The invariant holds before anything is sent.                            *)
LEMMA InitInv == Init => HInv
<1> SUFFICES ASSUME Init PROVE HInv OBVIOUS
<1>1. 0 \in Slots /\ 0 \in 0..MaxRetx /\ 0 \in 0..max_harq_tx /\ 0 \in 0..MaxMissed
  BY Constants DEF Slots
<1>2. Types
  <2>1. tb \in [Pids -> HarqProc] BY <1>1 DEF Init, HarqProc
  <2>2. dl_ue \in [Pids -> DlProc] BY DEF Init, DlProc
  <2>3. ul_ue \in [Pids -> UlProc] BY <1>1 DEF Init, UlProc
  <2>4. /\ soft \in [Pids -> SUBSET Blocks] /\ delivered \in [Pids -> [Blocks -> {0, 1}]]
        /\ missed \in [Pids -> 0..MaxMissed]
    BY <1>1 DEF Init
  <2>5. grants \in Seq(Grant) /\ events \in Seq(Event) BY DEF Init
  <2>6. /\ link \in {"dl", "ul"} /\ slot \in Slots
        /\ ul \in [0..(Workers - 1) -> {"todo", "done", "failed"}]
    BY <1>1 DEF Init
  <2> QED BY <2>1, <2>2, <2>3, <2>4, <2>5, <2>6 DEF Types
<1>3. SlotsOK(slot, ul, grants) BY DEF Init, SlotsOK
<1>4. ASSUME NEW p \in Pids PROVE ProcOK(p)
  <2>1. GrantsOf(p) = {} /\ EventsOf(p) = {} BY DEF Init, GrantsOf, EventsOf, Of
  <2>2. tb[p].active = FALSE /\ tb[p].ndi = 0 BY DEF Init
  <2>3. dl_ue[p].ndi = 0 /\ ul_ue[p].harq_buffer = None /\ soft[p] = {} BY DEF Init
  <2>4. OneBlock(soft[p]) BY <2>3, Constants DEF OneBlock
  <2>5. Owned(tb[p], {}, {}) BY <2>2 DEF Owned
  <2>6. DlOK(tb[p], dl_ue[p], soft[p], delivered[p], missed[p], {}, {})
    BY <2>2, <2>3, <2>4, NoneUnderWay DEF DlOK
  <2>7. UlOK(tb[p], ul_ue[p], soft[p], delivered[p], missed[p], {}, {})
    BY <2>2, <2>3, <2>4, NoneUnderWay DEF UlOK
  <2> QED BY <2>1, <2>5, <2>6, <2>7 DEF ProcOK
<1> QED BY <1>2, <1>3, <1>4 DEF HInv

(* Every step of the UE, of the workers and of the scheduler keeps it.     *)
LEMMA StepInv ==
  ASSUME EndsAgree, HInv, [Next]_vars
  PROVE  HInv'
<1>1. CASE UeStep BY <1>1, MissDciInv, FailDecodingInv, NewGrantDlInv, NewGrantUlInv DEF UeStep
<1>2. CASE WorkerStep BY <1>2, FailUlInv, WorkUlInv DEF WorkerStep
<1>3. CASE SchedStep
  BY <1>3, RetransmitInv, NewTransmissionInv, NoGrantInv, SkipSlotInv DEF SchedStep
<1>4. CASE UNCHANGED vars
  <2>1. Types' BY <1>4 DEF HInv, Types, vars
  <2>2. SlotsOK(slot', ul', grants') BY <1>4 DEF HInv, vars
  <2>3. ASSUME NEW q \in Pids PROVE ProcOK(q)'
    <3>1. GrantsOf(q)' = GrantsOf(q) /\ EventsOf(q)' = EventsOf(q)
      BY <1>4 DEF GrantsOf, EventsOf, vars
    <3>2. ProcOK(q) BY DEF HInv
    <3> QED BY <1>4, <3>1, <3>2, ProcUntouched DEF vars
  <2> QED BY <2>1, <2>2, <2>3 DEF HInv
<1> QED BY <1>1, <1>2, <1>3, <1>4 DEF Next

(* The invariant holds in every state, as long as the two ends agree.      *)
THEOREM ProcessesKept == EndsAgree /\ Safety => []HInv
<1> SUFFICES ASSUME EndsAgree PROVE Safety => []HInv OBVIOUS
<1>1. Init => HInv BY InitInv
<1>2. HInv /\ [Next]_vars => HInv' BY StepInv
<1> QED BY <1>1, <1>2, PTL DEF Safety

(* For any number of processes, transmissions and workers: the answers and *)
(* the grants under way are for the block their process holds, and a       *)
(* positive answer that ack_info() will apply is for a block the UE has    *)
(* delivered.                                                              *)
THEOREM AcksForTheirBlock == EndsAgree /\ Safety => []AcksTrue
<1>1. HInv => AcksTrue
  <2> SUFFICES ASSUME HInv PROVE AcksTrue OBVIOUS
  <2>1. ASSUME NEW i \in DOMAIN events, events[i].ack
        PROVE  /\ tb[events[i].pid].block = events[i].tb
               /\ link = "dl" => delivered[events[i].pid][events[i].tb] > 0
    <3> DEFINE e == events[i]  p == e.pid
    <3>1. e \in Event BY DEF HInv, Types
    <3>2. p \in Pids /\ e \in EventsOf(p) BY <3>1 DEF Event, EventsOf, Of
    <3>3. ProcOK(p) BY <3>2 DEF HInv
    <3>4. tb[p].active /\ tb[p].block = e.tb BY <3>2, <3>3 DEF ProcOK, Owned
    <3>5. AckQueued(EventsOf(p)) BY <2>1, <3>2 DEF AckQueued
    <3>6. ASSUME link = "dl" PROVE delivered[p][e.tb] > 0
      <4>1. dl_ue[p].ndi = tb[p].ndi /\ dl_ue[p].acked BY <3>3, <3>5, <3>6 DEF ProcOK, DlOK
      <4>2. delivered[p][tb[p].block] = 1 BY <3>3, <3>4, <3>6, <4>1 DEF ProcOK, DlOK
      <4> QED BY <3>4, <4>2
    <3> QED BY <3>4, <3>6
  <2>2. ASSUME NEW j \in DOMAIN grants PROVE tb[grants[j].pid].block = grants[j].tb
    <3> DEFINE p == grants[j].pid
    <3>1. p \in Pids /\ grants[j] \in GrantsOf(p) BY GrantAlone DEF GrantsOf, Of
    <3>2. Owned(tb[p], GrantsOf(p), EventsOf(p)) BY <3>1 DEF HInv, ProcOK
    <3> QED BY <3>1, <3>2 DEF Owned
  <2> QED BY <2>1, <2>2 DEF AcksTrue
<1> QED BY <1>1, ProcessesKept, PTL

(* The fields keep their ranges, and no softbuffer gets the bits of two    *)
(* blocks: the NDI tells them apart to the last transmission either end    *)
(* allows.                                                                 *)
THEOREM BlocksKeptApart == EndsAgree /\ Safety => []BlocksApart
<1>1. HInv => TypeOK
  <2> SUFFICES ASSUME HInv PROVE TypeOK OBVIOUS
  <2>1. Types BY DEF HInv
  <2>2. link \in {"dl", "ul"} /\ slot \in 0..(SlotMod - 1) BY <2>1 DEF Types, Slots
  <2>3. \A i \in DOMAIN ul : ul[i] \in {"todo", "done", "failed"} BY <2>1 DEF Types
  <2>4. ASSUME NEW p \in Pids
        PROVE  /\ tb[p].n_rtx \in 0..MaxRetx /\ tb[p].block \in Blocks \cup {None}
               /\ dl_ue[p].ndi \in {0, 1} /\ ul_ue[p].nof_retx \in 0..max_harq_tx
    BY <2>1 DEF Types, HarqProc, DlProc, UlProc
  <2>5. \A j \in DOMAIN grants : grants[j] \in Grant BY <2>1 DEF Types
  <2> QED BY <2>2, <2>3, <2>4, <2>5 DEF TypeOK
<1>2. HInv => CombinesOneBlock
  <2> SUFFICES ASSUME HInv, NEW p \in Pids PROVE Cardinality(soft[p]) <= 1 BY DEF CombinesOneBlock
  <2>1. ProcOK(p) /\ link \in {"dl", "ul"} BY DEF HInv, Types
  <2>2. OneBlock(soft[p]) BY <2>1 DEF ProcOK, DlOK, UlOK
  <2>3. PICK b \in Blocks : soft[p] \subseteq {b} BY <2>2 DEF OneBlock
  <2>4. soft[p] = {} \/ soft[p] = {b} BY <2>3
  <2>5. Cardinality({}) = 0 /\ Cardinality({b}) = 1 BY FS_EmptySet, FS_Singleton
  <2> QED BY <2>4, <2>5
<1> QED BY <1>1, <1>2, ProcessesKept, PTL DEF BlocksApart

(* No block is delivered twice, whatever feedback is lost.                 *)
THEOREM OnceDelivered == EndsAgree /\ Safety => []DeliveredOnce
<1>1. ASSUME HInv, NEW p \in Pids, NEW b \in Blocks PROVE delivered[p][b] <= 1
  <2>1. delivered[p][b] \in {0, 1} BY <1>1 DEF HInv, Types
  <2> QED BY <2>1
<1>2. HInv => DeliveredOnce BY <1>1 DEF DeliveredOnce
<1> QED BY <1>2, ProcessesKept, PTL
=============================================================================
