-------------------------- MODULE RlcAmNrRx_proofs --------------------------
(***************************************************************************)
(* The receiver of RlcAmNrRx keeps its state variables in order and never  *)
(* fails an assertion of its own, for every window size, every SDU size    *)
(* and every set of PDUs the peer may send.                                *)
(***************************************************************************)
EXTENDS RlcAmNrRx, SequenceTheorems, WellFoundedInduction, TLAPS

-----------------------------------------------------------------------------
(* Induction over numbers, for a set given as a value, and the folds       *)

(* A set of natural numbers that is not empty has a least one.             *)
LEMMA LeastNumber ==
  ASSUME NEW S \in SUBSET Nat, S # {}
  PROVE  \E m \in S : \A n \in S : m <= n
<1> DEFINE Less == OpToRel(<, Nat)
<1>1. \A m, n \in Nat : <<n, m>> \in Less <=> n < m
  <2>1. Less = {ss \in Nat \X Nat : ss[1] < ss[2]}
    BY DEF OpToRel
  <2> HIDE DEF Less
  <2> QED BY <2>1
<1>2. PICK m \in S : \A n \in S : ~(<<n, m>> \in Less)
  <2>1. IsWellFoundedOn(Less, Nat)
    BY NatLessThanWellFounded, Zenon
  <2> HIDE DEF Less
  <2> QED BY <2>1, WFMin, Zenon
<1>3. \A n \in S : m <= n
  <2> HIDE DEF Less
  <2> SUFFICES ASSUME NEW n \in S PROVE m <= n
    OBVIOUS
  <2>1. m \in Nat /\ n \in Nat
    OBVIOUS
  <2>2. ~(n < m)
    BY <1>1, <1>2, <2>1, Zenon
  <2> QED BY <2>1, <2>2
<1> QED BY <1>3

(* Induction over the numbers up to n, for a set given as a value.         *)
LEMMA Induction ==
  ASSUME NEW n \in Nat, NEW S, 0 \in S, \A k \in 1..n : k - 1 \in S => k \in S
  PROVE  \A k \in 0..n : k \in S
<1> DEFINE Bad == {k \in 0..n : k \notin S}
<1> SUFFICES ASSUME Bad # {} PROVE FALSE
  OBVIOUS
<1>1. PICK m \in Bad : \A k \in Bad : m <= k
  <2>1. Bad \in SUBSET Nat
    OBVIOUS
  <2> HIDE DEF Bad
  <2> QED BY <2>1, LeastNumber
<1>2. m \in 1..n /\ m - 1 \in 0..n
  BY <1>1
<1>3. m - 1 \notin Bad
  BY <1>1, <1>2
<1> QED BY <1>1, <1>2, <1>3

(* The numbers up to k without the greatest are those up to k - 1.         *)
LEMMA PrefixMax ==
  ASSUME NEW n \in Nat, NEW k \in 1..n
  PROVE  /\ Max(1..k) = k /\ (1..k) \ {Max(1..k)} = 1..(k - 1) /\ 1..k # {}
         /\ 1..k \in SUBSET (1..n) /\ k \in 0..n /\ k - 1 \in 0..n
<1>1. \A x \in 1..k : (\A y \in 1..k : x >= y) <=> x = k
  OBVIOUS
<1>2. Max(1..k) = k
  BY <1>1 DEF Max
<1>3. (1..k) \ {k} = 1..(k - 1) /\ k \in 1..k
  OBVIOUS
<1> QED BY <1>2, <1>3

(* A set of numbers up to n that is not empty has a greatest one.          *)
LEMMA GreatestIn ==
  ASSUME NEW n \in Nat, NEW s \in SUBSET (0..n), s # {}
  PROVE  Max(s) \in s
<1> DEFINE up == {n - x : x \in s}
<1>1. \A x \in s : x \in Nat /\ n - x \in Nat /\ n - x \in up
  OBVIOUS
<1>2. up \in SUBSET Nat /\ up # {}
  BY <1>1
<1>3. PICK m \in up : \A k \in up : m <= k
  <2> HIDE DEF up
  <2> QED BY <1>2, LeastNumber
<1>4. PICK x \in s : m = n - x
  BY <1>3
<1>5. \A y \in s : x >= y
  <2> SUFFICES ASSUME NEW y \in s PROVE x >= y
    OBVIOUS
  <2>1. n - x <= n - y
    BY <1>1, <1>3, <1>4
  <2> QED BY <1>1, <2>1
<1> QED BY <1>5 DEF Max

(* What MapThenFoldSet iterates over the subsets of 1..n: the element with *)
(* the greatest number goes last.                                          *)
Iterates(g, n, base, F) ==
  \A s \in SUBSET (1..n) : g[s] = IF s = {} THEN base ELSE F[<<g[s \ {Max(s)}], Max(s)>>]

(* There is a function that does.                                          *)
LEMMA IterExists ==
  ASSUME NEW n \in Nat, NEW T, NEW base \in T, NEW F \in [T \X (1..n) -> T]
  PROVE  \E g \in [SUBSET (1..n) -> T] : Iterates(g, n, base, F)
<1> DEFINE Sub(k) == SUBSET (1..k)
           Is(g, k) == \A s \in Sub(k) : g[s] = IF s = {} THEN base ELSE F[<<g[s \ {Max(s)}], Max(s)>>]
           Good == {k \in 0..n : \E g \in [Sub(k) -> T] : Is(g, k)}
<1>1. 0 \in Good
  <2> DEFINE g == [s \in Sub(0) |-> base]
  <2>1. \A s \in Sub(0) : s = {}
    OBVIOUS
  <2>2. g \in [Sub(0) -> T] /\ Is(g, 0)
    BY <2>1
  <2> HIDE DEF g, Is, Sub
  <2> QED BY <2>2
<1>2. ASSUME NEW k \in 1..n, k - 1 \in Good PROVE k \in Good
  <2>1. PICK g \in [Sub(k - 1) -> T] : Is(g, k - 1)
    BY <1>2
  <2> DEFINE h == [s \in Sub(k) |-> IF k \in s THEN F[<<g[s \ {k}], k>>] ELSE g[s]]
  <2>2. ASSUME NEW s \in Sub(k), k \notin s PROVE s \in Sub(k - 1)
    BY <2>2
  <2>3. ASSUME NEW s \in Sub(k), k \in s PROVE Max(s) = k /\ s \ {k} \in Sub(k - 1) /\ s # {}
    <3>1. \A x \in s : (\A y \in s : x >= y) <=> x = k
      BY <2>3
    <3>2. Max(s) = k
      BY <2>3, <3>1 DEF Max
    <3> QED BY <3>2, <2>3
  <2>4. h \in [Sub(k) -> T]
    <3> SUFFICES ASSUME NEW s \in Sub(k) PROVE (IF k \in s THEN F[<<g[s \ {k}], k>>] ELSE g[s]) \in T
      OBVIOUS
    <3>1. CASE k \in s
      <4>1. g[s \ {k}] \in T
        BY <3>1, <2>3, <2>1
      <4> QED BY <3>1, <4>1
    <3>2. CASE k \notin s
      BY <3>2, <2>1, <2>2
    <3> QED BY <3>1, <3>2
  <2>5. ASSUME NEW s \in Sub(k)
        PROVE  h[s] = IF s = {} THEN base ELSE F[<<h[s \ {Max(s)}], Max(s)>>]
    <3>1. CASE k \in s
      <4>1. h[s \ {k}] = g[s \ {k}]
        BY <3>1, <2>3
      <4> QED BY <3>1, <4>1, <2>3
    <3>2. CASE k \notin s /\ s # {}
      <4>1. s \in Sub(k - 1) /\ h[s] = g[s]
        BY <3>2, <2>2
      <4>2. Max(s) \in s
        <5>1. n \in Nat /\ s \in SUBSET (0..n)
          BY <4>1
        <5> QED BY <5>1, <3>2, GreatestIn
      <4>3. s \ {Max(s)} \in Sub(k) /\ k \notin s \ {Max(s)}
        BY <3>2
      <4>4. h[s \ {Max(s)}] = g[s \ {Max(s)}]
        BY <4>3
      <4>5. g[s] = IF s = {} THEN base ELSE F[<<g[s \ {Max(s)}], Max(s)>>]
        BY <2>1, <4>1
      <4> QED BY <4>1, <4>4, <4>5, <3>2
    <3>3. CASE s = {}
      <4>1. s \in Sub(k - 1) /\ k \notin s
        BY <3>3, <2>2
      <4>2. g[s] = base
        BY <4>1, <2>1, <3>3
      <4> QED BY <4>1, <4>2, <3>3
    <3> QED BY <3>1, <3>2, <3>3
  <2>6. Is(h, k)
    BY <2>5
  <2> HIDE DEF h, Is
  <2> QED BY <2>4, <2>6
<1> HIDE DEF Good
<1>3. n \in Good
  BY <1>1, <1>2, Induction
<1> QED BY <1>3 DEF Good, Iterates

(* push_nack over a list of NACKs, one after the other.                    *)
LEMMA PushSteps ==
  ASSUME NEW N, NEW nacks \in Seq(N),
         \A q \in Seq(N), a \in N : push_nack(q, a) \in Seq(N)
  PROVE  \E f \in [0..Len(nacks) -> Seq(N)] :
           /\ f[0] = <<>> /\ f[Len(nacks)] = FoldLeft(push_nack, <<>>, nacks)
           /\ \A k \in 1..Len(nacks) : f[k] = push_nack(f[k - 1], nacks[k])
<1> DEFINE n == Len(nacks)
           T == Seq(N)
           P(h) == h = [x \in SUBSET (1..n) |-> IF x = {} THEN <<>> ELSE push_nack(h[x \ {Max(x)}], nacks[Max(x)])]
           F == [y \in T \X (1..n) |-> push_nack(y[1], nacks[y[2]])]
           h == CHOOSE h : P(h)
           f == [k \in 0..n |-> h[1..k]]
<1>1. n \in Nat /\ <<>> \in T /\ DOMAIN nacks = 1..n /\ \A k \in 1..n : nacks[k] \in N
  OBVIOUS
<1>2. F \in [T \X (1..n) -> T]
  BY <1>1
<1>3. PICK g \in [SUBSET (1..n) -> T] : Iterates(g, n, <<>>, F)
  <2> HIDE DEF F, T, n
  <2> QED BY <1>1, <1>2, IterExists
<1>4. P(g)
  <2> SUFFICES ASSUME NEW s \in SUBSET (1..n), s # {}
               PROVE  F[<<g[s \ {Max(s)}], Max(s)>>] = push_nack(g[s \ {Max(s)}], nacks[Max(s)])
    BY <1>3 DEF Iterates
  <2>1. Max(s) \in 1..n
    <3>1. s \in SUBSET (0..n)
      OBVIOUS
    <3>2. Max(s) \in s
      BY <1>1, <3>1, GreatestIn
    <3> QED BY <3>2
  <2>2. g[s \ {Max(s)}] \in T
    BY <1>3
  <2>3. ASSUME NEW a \in T, NEW m \in 1..n PROVE F[<<a, m>>] = push_nack(a, nacks[m])
    OBVIOUS
  <2> HIDE DEF F
  <2> QED BY <2>1, <2>2, <2>3
<1>5. P(h)
  <2> HIDE DEF P
  <2> QED BY <1>4
<1>0. \A x \in SUBSET (1..n) : h[x] = IF x = {} THEN <<>> ELSE push_nack(h[x \ {Max(x)}], nacks[Max(x)])
  <2> HIDE DEF h
  <2> QED BY <1>5
<1>6. FoldLeft(push_nack, <<>>, nacks) = h[1..n]
  <2>1. FoldLeft(push_nack, <<>>, nacks) = h[DOMAIN nacks]
    BY <1>1 DEF FoldLeft, MapThenFoldSet
  <2> QED BY <1>1, <2>1
<1> HIDE DEF h
<1>7. f[0] = <<>> /\ \A k \in 1..n : f[k] = push_nack(f[k - 1], nacks[k])
  <2>1. f[0] = <<>>
    <3>1. 1..0 = {} /\ {} \in SUBSET (1..n) /\ 0 \in 0..n
      BY <1>1
    <3> QED BY <1>0, <3>1
  <2>2. ASSUME NEW k \in 1..n PROVE f[k] = push_nack(f[k - 1], nacks[k])
    <3> HIDE DEF n
    <3>1. /\ Max(1..k) = k /\ (1..k) \ {Max(1..k)} = 1..(k - 1) /\ 1..k # {}
          /\ 1..k \in SUBSET (1..n) /\ k \in 0..n /\ k - 1 \in 0..n
      BY <1>1, PrefixMax
    <3>2. h[1..k] = push_nack(h[(1..k) \ {Max(1..k)}], nacks[Max(1..k)])
      BY <1>0, <3>1, Zenon
    <3>3. h[1..k] = push_nack(h[1..(k - 1)], nacks[k])
      BY <3>1, <3>2
    <3> QED BY <3>1, <3>3
  <2> QED BY <2>1, <2>2
<1>8. \A k \in 0..n : f[k] \in T
  <2> DEFINE S == {k \in 0..n : f[k] \in T}
  <2> HIDE DEF f, T
  <2>1. 0 \in S
    BY <1>1, <1>7
  <2>3. ASSUME NEW k \in 1..n, k - 1 \in S PROVE k \in S
    <3>1. f[k - 1] \in T /\ k \in 0..n /\ nacks[k] \in N
      BY <1>1, <2>3
    <3>2. push_nack(f[k - 1], nacks[k]) \in T
      BY <3>1 DEF T
    <3> QED BY <1>7, <3>1, <3>2
  <2> HIDE DEF S
  <2>2. \A k \in 0..n : k \in S
    BY <1>1, <2>1, <2>3, Induction
  <2> QED BY <2>2 DEF S
<1>9. f \in [0..n -> T] /\ f[n] = FoldLeft(push_nack, <<>>, nacks)
  BY <1>1, <1>6, <1>8
<1> HIDE DEF f
<1> QED BY <1>7, <1>9

(* A list of lists, joined one after the other.                            *)
LEMMA FlattenSteps ==
  ASSUME NEW N, NEW seqs \in Seq(Seq(N))
  PROVE  \E f \in [0..Len(seqs) -> Seq(N)] :
           /\ f[0] = <<>> /\ f[Len(seqs)] = FlattenSeq(seqs)
           /\ \A k \in 1..Len(seqs) : f[k] = f[k - 1] \o seqs[k]
<1> DEFINE n == Len(seqs)
           T == Seq(N)
           F == [y \in T \X (1..n) |-> y[1] \o seqs[y[2]]]
           P(h) == h = [i \in 1..n |-> IF i = 1 THEN seqs[i] ELSE h[i - 1] \o seqs[i]]
           h == CHOOSE h : P(h)
           f == [k \in 0..n |-> IF k = 0 THEN <<>> ELSE h[k]]
<1>1. n \in Nat /\ <<>> \in T /\ \A k \in 1..n : seqs[k] \in T
  OBVIOUS
<1>2. F \in [T \X (1..n) -> T]
  <2> SUFFICES ASSUME NEW y \in T \X (1..n) PROVE y[1] \o seqs[y[2]] \in T
    OBVIOUS
  <2>1. y[1] \in Seq(N) /\ seqs[y[2]] \in Seq(N)
    BY <1>1
  <2> QED BY <2>1
<1>3. PICK g \in [SUBSET (1..n) -> T] : Iterates(g, n, <<>>, F)
  <2> HIDE DEF F, T, n
  <2> QED BY <1>1, <1>2, IterExists
<1> DEFINE e == [i \in 1..n |-> g[1..i]]
<1>4. P(e)
  <2> SUFFICES ASSUME NEW i \in 1..n
               PROVE  g[1..i] = IF i = 1 THEN seqs[i] ELSE e[i - 1] \o seqs[i]
    OBVIOUS
  <2> HIDE DEF n
  <2>1. /\ Max(1..i) = i /\ (1..i) \ {Max(1..i)} = 1..(i - 1) /\ 1..i # {}
        /\ 1..i \in SUBSET (1..n) /\ i \in 0..n /\ i - 1 \in 0..n
    BY <1>1, PrefixMax
  <2>2. g[1..i] = F[<<g[1..(i - 1)], i>>]
    BY <1>3, <2>1 DEF Iterates
  <2>3. 1..(i - 1) \in SUBSET (1..n) /\ g[1..(i - 1)] \in T
    <3>1. 1..(i - 1) \in SUBSET (1..n)
      BY <2>1
    <3> QED BY <3>1, <1>3
  <2>4. g[1..i] = g[1..(i - 1)] \o seqs[i]
    BY <2>2, <2>3
  <2>5. CASE i = 1
    <3>1. g[1..(i - 1)] = <<>>
      <4>1. 1..(i - 1) = {}
        BY <2>5
      <4> QED BY <1>3, <2>3, <4>1 DEF Iterates
    <3>2. seqs[1] \in Seq(N)
      BY <1>1, <2>5
    <3> QED BY <2>4, <2>5, <3>1, <3>2, ConcatEmptySeq
  <2>6. CASE i # 1
    <3>1. i - 1 \in 1..n
      BY <2>6, <1>1
    <3> QED BY <2>4, <2>6, <3>1
  <2> QED BY <2>5, <2>6
<1>5. P(h)
  <2> HIDE DEF P, e
  <2> QED BY <1>4
<1>6. \A i \in 1..n : h[i] = IF i = 1 THEN seqs[i] ELSE h[i - 1] \o seqs[i]
  <2> HIDE DEF h
  <2> QED BY <1>5
<1>7. f[n] = FlattenSeq(seqs)
  <2>1. CASE n = 0
    BY <2>1 DEF FlattenSeq
  <2>2. CASE n # 0
    <3>1. FlattenSeq(seqs) = h[n]
      BY <2>2 DEF FlattenSeq
    <3> HIDE DEF h, n
    <3> QED BY <1>1, <2>2, <3>1
  <2> QED BY <2>1, <2>2
<1> HIDE DEF h, n, F, P, e
<1>8. \A k \in 0..n : f[k] = IF k = 0 THEN <<>> ELSE h[k]
  OBVIOUS
<1> HIDE DEF f
<1>9. f[0] = <<>> /\ \A k \in 1..n : f[k] = f[k - 1] \o seqs[k]
  <2>1. 0 \in 0..n /\ \A k \in 1..n : k \in 0..n /\ k - 1 \in 0..n
    BY <1>1
  <2>2. ASSUME NEW k \in 1..n PROVE f[k] = f[k - 1] \o seqs[k]
    <3>1. f[k] = h[k] /\ f[k - 1] = IF k = 1 THEN <<>> ELSE h[k - 1]
      BY <1>8, <2>1
    <3>2. CASE k = 1
      <4>1. f[k - 1] = <<>> /\ f[k] = seqs[1] /\ seqs[1] \in Seq(N)
        BY <1>1, <1>6, <3>1, <3>2
      <4>2. <<>> \o seqs[1] = seqs[1]
        BY <4>1, ConcatEmptySeq
      <4> QED BY <3>2, <4>1, <4>2
    <3>3. CASE k # 1
      BY <1>6, <3>1, <3>3
    <3> QED BY <3>2, <3>3
  <2> QED BY <1>8, <2>1, <2>2
<1>10. \A k \in 0..n : f[k] \in T
  <2> DEFINE S == {k \in 0..n : f[k] \in T}
  <2>1. 0 \in S
    <3> HIDE DEF T
    <3> QED BY <1>1, <1>9
  <2>2. ASSUME NEW k \in 1..n, k - 1 \in S PROVE k \in S
    <3>1. f[k - 1] \in Seq(N) /\ k \in 0..n /\ seqs[k] \in Seq(N)
      BY <1>1, <2>2
    <3>2. f[k - 1] \o seqs[k] \in T
      BY <3>1
    <3> HIDE DEF T
    <3> QED BY <1>9, <3>1, <3>2
  <2> HIDE DEF S
  <2>3. \A k \in 0..n : k \in S
    BY <1>1, <2>1, <2>2, Induction
  <2> QED BY <2>3 DEF S
<1>11. f \in [0..n -> T]
  <2>1. f = [k \in 0..n |-> f[k]]
    BY DEF f
  <2> HIDE DEF T
  <2> QED BY <1>10, <2>1
<1> QED BY <1>7, <1>9, <1>11 DEF n

-----------------------------------------------------------------------------
(* Modular arithmetic                                                      *)

(* A number within one turn of M is brought into 0..M-1 by adding M or not.*)
LEMMA ModOneTurn ==
  ASSUME NEW M \in Nat \ {0}, NEW x \in Int, -M <= x, x < M
  PROVE  x % M = IF x >= 0 THEN x ELSE x + M
<1>1. CASE x >= 0
  BY <1>1
<1>2. CASE x < 0
  <2>1. (x + M) \in 0..(M - 1)
    BY <1>2
  <2> QED BY <1>2, <2>1
<1> QED BY <1>1, <1>2

(* Distance from base to sn, in the two cases of a wrap-around or none.    *)
LEMMA ModBase ==
  ASSUME NEW sn \in SNs, NEW base \in SNs
  PROVE  /\ mod_base(sn, base) = IF sn >= base THEN sn - base ELSE sn - base + mod_nr
         /\ mod_base(sn, base) \in SNs
<1>1. mod_nr \in Nat \ {0} /\ sn - base \in Int /\ -mod_nr <= sn - base /\ sn - base < mod_nr
  BY TypesAssumption DEF SNs
<1>2. (sn - base) % mod_nr = IF sn - base >= 0 THEN sn - base ELSE sn - base + mod_nr
  BY <1>1, ModOneTurn
<1> QED BY <1>1, <1>2, TypesAssumption DEF mod_base, SNs

(* next_sn, prev_sn and same_slot without the modulo operator.             *)
LEMMA Neighbours ==
  ASSUME NEW sn \in SNs
  PROVE  /\ next_sn(sn) = IF sn = mod_nr - 1 THEN 0 ELSE sn + 1
         /\ prev_sn(sn) = IF sn = 0 THEN mod_nr - 1 ELSE sn - 1
         /\ same_slot(sn) = IF sn < AM_Window_Size THEN sn + AM_Window_Size
                                                   ELSE sn - AM_Window_Size
<1>1. mod_nr \in Nat \ {0} /\ sn \in 0..(mod_nr - 1)
  BY TypesAssumption DEF SNs
<1>2. (sn - 1) % mod_nr = IF sn - 1 >= 0 THEN sn - 1 ELSE sn - 1 + mod_nr
  <2> DEFINE x == sn - 1
  <2>1. x \in Int /\ -mod_nr <= x /\ x < mod_nr
    BY <1>1
  <2> HIDE DEF x
  <2>2. x % mod_nr = IF x >= 0 THEN x ELSE x + mod_nr
    BY <1>1, <2>1, ModOneTurn
  <2> QED BY <2>2 DEF x
<1>3. (sn + 1) % mod_nr = IF sn = mod_nr - 1 THEN 0 ELSE sn + 1
  BY <1>1
<1>4. (sn + AM_Window_Size) % mod_nr =
        IF sn < AM_Window_Size THEN sn + AM_Window_Size ELSE sn - AM_Window_Size
  <2>1. CASE sn < AM_Window_Size
    BY <2>1, <1>1, TypesAssumption
  <2>2. CASE sn >= AM_Window_Size
    <3>1. sn - AM_Window_Size \in 0..(mod_nr - 1)
      BY <2>2, <1>1, TypesAssumption
    <3>2. sn + AM_Window_Size = (sn - AM_Window_Size) + mod_nr
      BY <1>1, TypesAssumption
    <3> QED BY <2>2, <3>1, <3>2, <1>1, TypesAssumption
  <2> QED BY <2>1, <2>2, <1>1, TypesAssumption
<1> QED BY <1>1, <1>2, <1>3, <1>4 DEF next_sn, prev_sn, same_slot

(* The same for all pairs: a distance is a natural number below mod_nr.    *)
LEMMA Distance ==
  \A sn, base \in SNs : mod_base(sn, base) \in Nat /\ mod_base(sn, base) < mod_nr
<1> SUFFICES ASSUME NEW sn \in SNs, NEW base \in SNs
             PROVE  mod_base(sn, base) \in Nat /\ mod_base(sn, base) < mod_nr
  OBVIOUS
<1>1. mod_base(sn, base) \in SNs
  BY ModBase
<1> QED BY <1>1, TypesAssumption DEF SNs

(* Distances from two bases, and of the neighbours of an SN.               *)
LEMMA Rebase ==
  ASSUME NEW sn \in SNs, NEW old \in SNs, NEW new \in SNs
  PROVE  mod_base(sn, new) = IF mod_base(sn, old) >= mod_base(new, old)
                             THEN mod_base(sn, old) - mod_base(new, old)
                             ELSE mod_base(sn, old) - mod_base(new, old) + mod_nr
<1>1. mod_base(sn, new) = IF sn >= new THEN sn - new ELSE sn - new + mod_nr
  BY ModBase
<1>2. mod_base(sn, old) = IF sn >= old THEN sn - old ELSE sn - old + mod_nr
  BY ModBase
<1>3. mod_base(new, old) = IF new >= old THEN new - old ELSE new - old + mod_nr
  BY ModBase
<1> QED BY <1>1, <1>2, <1>3, TypesAssumption DEF SNs

(* Two sequence numbers at one distance from a base are the same.          *)
LEMMA SameDistance ==
  ASSUME NEW a \in SNs, NEW b \in SNs, NEW base \in SNs,
         mod_base(a, base) = mod_base(b, base)
  PROVE  a = b
<1>1. mod_base(a, base) = IF a >= base THEN a - base ELSE a - base + mod_nr
  BY ModBase
<1>2. mod_base(b, base) = IF b >= base THEN b - base ELSE b - base + mod_nr
  BY ModBase
<1>3. /\ a \in Int /\ b \in Int /\ base \in Int /\ mod_nr \in Int
      /\ 0 <= a /\ a < mod_nr /\ 0 <= b /\ b < mod_nr /\ 0 <= base /\ base < mod_nr
  BY TypesAssumption DEF SNs
<1>4. (IF a >= base THEN a - base ELSE a - base + mod_nr) =
      (IF b >= base THEN b - base ELSE b - base + mod_nr)
  BY <1>1, <1>2
<1> QED BY <1>3, <1>4

(* A sequence number has the distance 0 from itself.                       *)
LEMMA BaseDistance ==
  ASSUME NEW base \in SNs
  PROVE  mod_base(base, base) = 0
<1>1. mod_base(base, base) = base - base
  BY ModBase, TypesAssumption DEF SNs
<1> QED BY <1>1 DEF SNs

(* The next sequence number is one further from the base, except over the  *)
(* base.                                                                   *)
LEMMA NextDistance ==
  ASSUME NEW sn \in SNs, NEW base \in SNs
  PROVE  /\ next_sn(sn) \in SNs
         /\ mod_base(sn, base) < mod_nr - 1 =>
              mod_base(next_sn(sn), base) = mod_base(sn, base) + 1
<1>1. next_sn(sn) = (IF sn = mod_nr - 1 THEN 0 ELSE sn + 1) /\ next_sn(sn) \in SNs
  BY Neighbours, TypesAssumption DEF SNs
<1>2. mod_base(sn, base) = IF sn >= base THEN sn - base ELSE sn - base + mod_nr
  BY ModBase
<1>3. mod_base(next_sn(sn), base) =
        IF next_sn(sn) >= base THEN next_sn(sn) - base ELSE next_sn(sn) - base + mod_nr
  BY <1>1, ModBase
<1> QED BY <1>1, <1>2, <1>3, TypesAssumption DEF SNs

(* The sequence number before is one nearer to the base.                   *)
LEMMA PrevDistance ==
  ASSUME NEW sn \in SNs, NEW base \in SNs
  PROVE  /\ prev_sn(sn) \in SNs
         /\ sn # base => mod_base(prev_sn(sn), base) = mod_base(sn, base) - 1
         /\ prev_sn(next_sn(sn)) = sn
<1>1. prev_sn(sn) = (IF sn = 0 THEN mod_nr - 1 ELSE sn - 1) /\ prev_sn(sn) \in SNs
  BY Neighbours, TypesAssumption DEF SNs
<1>2. mod_base(sn, base) = IF sn >= base THEN sn - base ELSE sn - base + mod_nr
  BY ModBase
<1>3. mod_base(prev_sn(sn), base) =
        IF prev_sn(sn) >= base THEN prev_sn(sn) - base ELSE prev_sn(sn) - base + mod_nr
  BY <1>1, ModBase
<1>4. next_sn(sn) = (IF sn = mod_nr - 1 THEN 0 ELSE sn + 1) /\ next_sn(sn) \in SNs
  BY Neighbours, TypesAssumption DEF SNs
<1>5. prev_sn(next_sn(sn)) = IF next_sn(sn) = 0 THEN mod_nr - 1 ELSE next_sn(sn) - 1
  BY <1>4, Neighbours
<1> QED BY <1>1, <1>2, <1>3, <1>4, <1>5, TypesAssumption DEF SNs

(* The other sequence number of a slot is a whole window further.          *)
LEMMA SlotDistance ==
  ASSUME NEW sn \in SNs, NEW base \in SNs
  PROVE  /\ same_slot(sn) \in SNs
         /\ mod_base(sn, base) < AM_Window_Size =>
              mod_base(same_slot(sn), base) = mod_base(sn, base) + AM_Window_Size
<1>1. /\ same_slot(sn) = (IF sn < AM_Window_Size THEN sn + AM_Window_Size
                                                 ELSE sn - AM_Window_Size)
      /\ same_slot(sn) \in SNs
  BY Neighbours, TypesAssumption DEF SNs
<1>2. mod_base(sn, base) = IF sn >= base THEN sn - base ELSE sn - base + mod_nr
  BY ModBase
<1>3. mod_base(same_slot(sn), base) =
        IF same_slot(sn) >= base THEN same_slot(sn) - base ELSE same_slot(sn) - base + mod_nr
  BY <1>1, ModBase
<1> QED BY <1>1, <1>2, <1>3, TypesAssumption DEF SNs

-----------------------------------------------------------------------------
(* The loops over the window                                               *)

(* A set of sequence numbers that is not empty has a first one after base. *)
LEMMA FirstAfter ==
  ASSUME NEW base \in SNs, NEW S \in SUBSET SNs, S # {}
  PROVE  \E sn \in S : \A x \in S : mod_base(sn, base) <= mod_base(x, base)
<1> DEFINE T == {mod_base(x, base) : x \in S}
<1>1. T \subseteq Nat /\ T # {}
  BY Distance
<1> DEFINE Less == OpToRel(<, Nat)
<1>2. \A m, n \in Nat : <<n, m>> \in Less <=> n < m
  <2>1. Less = {ss \in Nat \X Nat : ss[1] < ss[2]}
    BY DEF OpToRel
  <2> HIDE DEF Less
  <2> QED BY <2>1
<1>3. PICK m \in T : \A n \in T : ~(<<n, m>> \in Less)
  <2>1. IsWellFoundedOn(Less, Nat)
    BY NatLessThanWellFounded, Zenon
  <2> HIDE DEF Less, T
  <2> QED BY <1>1, <2>1, WFMin, Zenon
<1>4. \A n \in T : m <= n
  <2> HIDE DEF Less, T
  <2> SUFFICES ASSUME NEW n \in T PROVE m <= n
    OBVIOUS
  <2>1. m \in Nat /\ n \in Nat
    BY <1>1
  <2>2. ~(n < m)
    BY <1>2, <1>3, <2>1, Zenon
  <2> QED BY <2>1, <2>2
<1>5. PICK sn \in S : m = mod_base(sn, base)
  BY <1>3
<1> QED BY <1>4, <1>5

(* The loops of handle_data_pdu() and timer_expired() end at the first SDU *)
(* that is not fully received, or at the upper end if there is none.       *)
LEMMA FirstNotReceived ==
  ASSUME rx_next \in SNs, NEW w, NEW from \in SNs, NEW to \in SNs,
         rx_mod_base_nr(from) <= rx_mod_base_nr(to),
         NEW x, x = first_not_received(w, from, to)
  PROVE  /\ x \in SNs
         /\ rx_mod_base_nr(from) <= rx_mod_base_nr(x)
         /\ rx_mod_base_nr(x) <= rx_mod_base_nr(to)
         /\ \A y \in SNs :
              rx_mod_base_nr(from) <= rx_mod_base_nr(y) /\ rx_mod_base_nr(y) < rx_mod_base_nr(x)
                => received(w, y)
         /\ rx_mod_base_nr(x) < rx_mod_base_nr(to) => ~received(w, x)
<1> DEFINE Missing == {sn \in SNs : /\ rx_mod_base_nr(from) <= rx_mod_base_nr(sn)
                                    /\ rx_mod_base_nr(sn) < rx_mod_base_nr(to)
                                    /\ ~received(w, sn)}
           First(sn) == \A y \in Missing : rx_mod_base_nr(sn) <= rx_mod_base_nr(y)
<1>1. \A sn \in SNs : rx_mod_base_nr(sn) \in Nat
  BY Distance DEF rx_mod_base_nr
<1>2. CASE Missing = {} /\ rx_mod_base_nr(from) >= rx_mod_base_nr(to)
  <2>1. x = from
    BY <1>2 DEF first_not_received
  <2> QED BY <1>1, <1>2, <2>1
<1>3. CASE Missing # {}
  <2>1. x = CHOOSE sn \in Missing : First(sn)
    BY <1>3 DEF first_not_received
  <2>2. \E sn \in Missing : First(sn)
    BY <1>3, FirstAfter DEF rx_mod_base_nr
  <2>3. x \in Missing /\ First(x)
    <3> HIDE DEF Missing, First
    <3> QED BY <2>1, <2>2
  <2> QED BY <1>1, <1>3, <2>3
<1>4. CASE Missing = {} /\ ~(rx_mod_base_nr(from) >= rx_mod_base_nr(to))
  <2>1. x = to
    BY <1>4 DEF first_not_received
  <2> QED BY <1>1, <1>4, <2>1
<1> QED BY <1>2, <1>3, <1>4

-----------------------------------------------------------------------------
(* The inductive invariant.  RxStateOrdered and ReassemblyTriggerValid are *)
(* not inductive by themselves: when t-Reassembly is started its trigger   *)
(* becomes RX_Next_Highest, so the SDU before that must be in the window   *)
(* whenever there is one, and no failed allocation has taken an SDU away.  *)
HighestPresent ==
  rx_next_highest # rx_next =>
    sdu_removed \/ rx_window[prev_sn(rx_next_highest)].present

RxInv == /\ RxTypeOK /\ RxStateOrdered /\ HighestPresent
         /\ ReassemblyTriggerValid /\ StateAssertionsHold

(* What is stored of a PDU is an SDU of the window.                        *)
LEMMA StoredSdu ==
  ASSUME RxTypeOK, NEW p \in DataPdu
  PROVE  /\ p.sn \in SNs /\ stored_sdu(p) \in RxSdu
         /\ stored_sdu(p).present /\ holds_data(stored_sdu(p))
<1>1. p \in DataPdu /\ p.sn \in SNs
  BY RxAssumption DEF DataPdu
<1>2. CASE p.si = "full"
  BY <1>1, <1>2 DEF stored_sdu, NoRxSdu, RxSdu, holds_data
<1>3. CASE p.si # "full"
  <2> DEFINE segs == rx_window[p.sn].segments \cup {segment_of(p)}
  <2>1. segment_of(p) \in Segment
    BY <1>1 DEF segment_of, Segment, DataPdu
  <2>2. rx_window[p.sn].segments \subseteq Segment
    BY <1>1 DEF RxTypeOK, RxSdu
  <2>3. segs \in SUBSET Segment
    BY <2>1, <2>2
  <2>4. stored_sdu(p) = update_segment_inventory(segs)
    BY <1>3 DEF stored_sdu
  <2>5. segs # {}
    OBVIOUS
  <2> HIDE DEF segs
  <2> QED BY <1>1, <2>3, <2>4, <2>5 DEF update_segment_inventory, RxSdu, holds_data
<1> QED BY <1>1, <1>2, <1>3

(* Storing a PDU of the receive window changes no other SDU of it: the SN  *)
(* that shares its slot is outside the window.                             *)
LEMMA WindowWith ==
  ASSUME RxInv, NEW p \in DataPdu, accepted(p)
  PROVE  /\ window_with(p) \in [SNs -> RxSdu]
         /\ window_with(p)[p.sn].present
         /\ \A x \in SNs : x # p.sn => /\ rx_window[x].present => window_with(p)[x] = rx_window[x]
                                       /\ window_with(p)[x].present => rx_window[x].present
                                       /\ window_with(p)[x] \in {rx_window[x], NoRxSdu}
<1>1. p.sn \in SNs /\ stored_sdu(p) \in RxSdu /\ stored_sdu(p).present
  BY StoredSdu DEF RxInv
<1>2. rx_next \in SNs /\ rx_window \in [SNs -> RxSdu] /\ rx_next_highest \in SNs
  BY DEF RxInv, RxTypeOK
<1>3. same_slot(p.sn) \in SNs
  BY <1>1, <1>2, SlotDistance
<1>4. NoRxSdu \in RxSdu /\ ~NoRxSdu.present
  BY DEF NoRxSdu, RxSdu
<1>5. ~rx_window[same_slot(p.sn)].present
  <2>1. mod_base(p.sn, rx_next) < AM_Window_Size
    BY DEF accepted, inside_rx_window, rx_mod_base_nr
  <2>2. mod_base(same_slot(p.sn), rx_next) = mod_base(p.sn, rx_next) + AM_Window_Size
    BY <1>1, <1>2, <2>1, SlotDistance
  <2>3. rx_window[same_slot(p.sn)].present =>
          mod_base(same_slot(p.sn), rx_next) < AM_Window_Size
    BY <1>3 DEF RxInv, RxStateOrdered, inside_rx_window, rx_mod_base_nr
  <2>4. mod_base(p.sn, rx_next) \in Nat
    BY <1>1, <1>2, Distance
  <2> QED BY <2>2, <2>3, <2>4, TypesAssumption
<1>6. \A x \in SNs : window_with(p)[x] = IF x = p.sn THEN stored_sdu(p)
                                         ELSE IF x = same_slot(p.sn) THEN NoRxSdu ELSE rx_window[x]
  BY <1>1, <1>2, <1>3 DEF window_with
<1>7. window_with(p) \in [SNs -> RxSdu]
  BY <1>1, <1>2, <1>3, <1>4 DEF window_with
<1>8. \A x \in SNs : x # p.sn => /\ rx_window[x].present => window_with(p)[x] = rx_window[x]
                                 /\ window_with(p)[x].present => rx_window[x].present
                                 /\ window_with(p)[x] \in {rx_window[x], NoRxSdu}
  BY <1>4, <1>5, <1>6
<1> QED BY <1>1, <1>6, <1>7, <1>8

(* RX_Next_Highest after a PDU: ahead of it and of what it was, inside the *)
(* window, and with the SDU before it stored.                              *)
LEMMA NewHighest ==
  ASSUME RxInv, NEW p \in DataPdu, accepted(p), NEW h, h = next_highest(p)
  PROVE  /\ h \in SNs
         /\ rx_mod_base_nr(rx_next_highest) <= rx_mod_base_nr(h)
         /\ rx_mod_base_nr(p.sn) < rx_mod_base_nr(h)
         /\ rx_mod_base_nr(h) <= AM_Window_Size
         /\ sdu_removed \/ window_with(p)[prev_sn(h)].present
         /\ \A x \in SNs : holds_data(window_with(p)[x]) => rx_mod_base_nr(x) < rx_mod_base_nr(h)
<1> USE DEF rx_mod_base_nr
<1>1. p.sn \in SNs /\ rx_next \in SNs /\ rx_next_highest \in SNs
  BY StoredSdu DEF RxInv, RxTypeOK
<1>2. /\ \A x \in SNs : mod_base(x, rx_next) \in Nat /\ mod_base(x, rx_next) < mod_nr
      /\ AM_Window_Size \in Nat /\ AM_Window_Size <= mod_nr - 1
  BY <1>1, Distance, TypesAssumption
<1>3. /\ mod_base(p.sn, rx_next) < AM_Window_Size
      /\ mod_base(rx_next_highest, rx_next) <= AM_Window_Size
      /\ \A x \in SNs : holds_data(rx_window[x]) =>
                          mod_base(x, rx_next) < mod_base(rx_next_highest, rx_next)
  BY DEF accepted, inside_rx_window, RxInv, RxStateOrdered
<1>4. next_sn(p.sn) \in SNs /\ mod_base(next_sn(p.sn), rx_next) = mod_base(p.sn, rx_next) + 1
  <2>1. mod_base(p.sn, rx_next) < mod_nr - 1
    BY <1>1, <1>2, <1>3, TypesAssumption
  <2> QED BY <1>1, <2>1, NextDistance
<1>5. /\ h \in SNs
      /\ mod_base(rx_next_highest, rx_next) <= mod_base(h, rx_next)
      /\ mod_base(p.sn, rx_next) < mod_base(h, rx_next)
      /\ mod_base(h, rx_next) <= AM_Window_Size
  BY <1>1, <1>2, <1>3, <1>4 DEF next_highest
<1>6. sdu_removed \/ window_with(p)[prev_sn(h)].present
  <2>1. CASE h = next_sn(p.sn)
    BY <1>1, <2>1, PrevDistance, WindowWith
  <2>2. CASE h # next_sn(p.sn)
    <3>1. h = rx_next_highest
      BY <2>2 DEF next_highest
    <3>2. h # rx_next
      BY <1>1, <1>2, <1>5, BaseDistance
    <3>3. (sdu_removed \/ rx_window[prev_sn(h)].present) /\ prev_sn(h) \in SNs
      BY <1>5, <1>1, <3>1, <3>2, PrevDistance DEF RxInv, HighestPresent
    <3> QED BY <3>3, WindowWith
  <2> QED BY <2>1, <2>2
<1>7. \A x \in SNs : holds_data(window_with(p)[x]) => mod_base(x, rx_next) < mod_base(h, rx_next)
  <2> SUFFICES ASSUME NEW x \in SNs, holds_data(window_with(p)[x])
               PROVE  mod_base(x, rx_next) < mod_base(h, rx_next)
    OBVIOUS
  <2>1. CASE x = p.sn
    BY <1>5, <2>1
  <2>2. CASE x # p.sn
    <3>1. holds_data(rx_window[x])
      BY <2>2, WindowWith DEF holds_data, NoRxSdu
    <3> QED BY <1>1, <1>2, <1>3, <1>5, <3>1
  <2> QED BY <2>1, <2>2
<1> QED BY <1>5, <1>6, <1>7

(* RX_Highest_Status after a PDU names an SDU that is not complete.        *)
LEMMA NewHighestStatus ==
  ASSUME RxInv, NEW p \in DataPdu, accepted(p), NEW s, s = next_highest_status(p)
  PROVE  /\ s \in SNs
         /\ rx_mod_base_nr(s) <= rx_mod_base_nr(next_highest(p))
         /\ ~received(window_with(p), s)
<1> DEFINE w == window_with(p)
           h == next_highest(p)
<1>1. p.sn \in SNs /\ rx_next \in SNs /\ rx_highest_status \in SNs /\ rx_next_highest \in SNs
  BY StoredSdu DEF RxInv, RxTypeOK
<1>2. /\ \A x \in SNs : rx_mod_base_nr(x) \in Nat /\ rx_mod_base_nr(x) < mod_nr
      /\ AM_Window_Size \in Nat /\ AM_Window_Size <= mod_nr - 1
  BY <1>1, Distance, TypesAssumption DEF rx_mod_base_nr
<1>3. /\ h \in SNs
      /\ rx_mod_base_nr(rx_next_highest) <= rx_mod_base_nr(h)
      /\ rx_mod_base_nr(p.sn) < rx_mod_base_nr(h)
      /\ rx_mod_base_nr(h) <= AM_Window_Size
      /\ \A x \in SNs : holds_data(w[x]) => rx_mod_base_nr(x) < rx_mod_base_nr(h)
  BY NewHighest
<1>4. /\ rx_mod_base_nr(rx_highest_status) <= rx_mod_base_nr(rx_next_highest)
      /\ ~received(rx_window, rx_highest_status)
  BY DEF RxInv, RxStateOrdered
<1> HIDE DEF w, h
<1>5. CASE received(w, p.sn) /\ p.sn = rx_highest_status
  <2>1. /\ next_sn(p.sn) \in SNs
        /\ rx_mod_base_nr(next_sn(p.sn)) = rx_mod_base_nr(p.sn) + 1
    <3>1. rx_mod_base_nr(p.sn) < mod_nr - 1
      BY <1>1, <1>2, <1>3, TypesAssumption
    <3> QED BY <1>1, <3>1, NextDistance DEF rx_mod_base_nr
  <2>2. rx_mod_base_nr(next_sn(p.sn)) <= rx_mod_base_nr(h)
    BY <1>1, <1>2, <1>3, <2>1
  <2>3. s = first_not_received(w, next_sn(p.sn), h)
    BY <1>5 DEF next_highest_status, w, h
  <2>4. /\ s \in SNs /\ rx_mod_base_nr(s) <= rx_mod_base_nr(h)
        /\ rx_mod_base_nr(s) < rx_mod_base_nr(h) => ~received(w, s)
    BY <1>1, <1>3, <2>1, <2>2, <2>3, FirstNotReceived
  <2>5. rx_mod_base_nr(s) = rx_mod_base_nr(h) => ~received(w, s)
    BY <1>2, <1>3, <2>4 DEF received, holds_data
  <2> QED BY <1>2, <1>3, <2>4, <2>5 DEF w, h
<1>6. CASE ~(received(w, p.sn) /\ p.sn = rx_highest_status)
  <2>1. s = rx_highest_status
    BY <1>6 DEF next_highest_status, w, h
  <2>2. ~received(w, s)
    <3>1. CASE s = p.sn
      BY <1>6, <2>1, <3>1
    <3>2. CASE s # p.sn
      BY <1>1, <1>4, <2>1, <3>2, WindowWith DEF received, w
    <3> QED BY <3>1, <3>2
  <2> QED BY <1>1, <1>2, <1>3, <1>4, <2>1, <2>2 DEF w, h
<1> QED BY <1>5, <1>6

(* RX_Next after a PDU names the first SDU that is not complete.           *)
LEMMA NewNext ==
  ASSUME RxInv, NEW p \in DataPdu, accepted(p), NEW n, n = next_rx_next(p)
  PROVE  /\ n \in SNs
         /\ rx_mod_base_nr(n) <= rx_mod_base_nr(next_highest(p))
         /\ ~received(window_with(p), n)
         /\ \A x \in SNs : rx_mod_base_nr(x) < rx_mod_base_nr(n) => received(window_with(p), x)
<1> DEFINE w == window_with(p)
           h == next_highest(p)
<1>1. p.sn \in SNs /\ rx_next \in SNs
  BY StoredSdu DEF RxInv, RxTypeOK
<1>2. /\ \A x \in SNs : rx_mod_base_nr(x) \in Nat
      /\ rx_mod_base_nr(rx_next) = 0
  BY <1>1, Distance, BaseDistance DEF rx_mod_base_nr
<1>3. /\ h \in SNs
      /\ \A x \in SNs : holds_data(w[x]) => rx_mod_base_nr(x) < rx_mod_base_nr(h)
  BY NewHighest
<1>4. ~received(rx_window, rx_next)
  BY DEF RxInv, RxStateOrdered
<1> HIDE DEF w, h
<1>5. CASE received(w, p.sn) /\ p.sn = rx_next
  <2>1. n = first_not_received(w, rx_next, h)
    BY <1>5 DEF next_rx_next, w, h
  <2>2. rx_mod_base_nr(rx_next) <= rx_mod_base_nr(h)
    BY <1>2, <1>3
  <2>3. /\ n \in SNs /\ rx_mod_base_nr(n) <= rx_mod_base_nr(h)
        /\ rx_mod_base_nr(n) < rx_mod_base_nr(h) => ~received(w, n)
        /\ \A y \in SNs :
             rx_mod_base_nr(rx_next) <= rx_mod_base_nr(y) /\ rx_mod_base_nr(y) < rx_mod_base_nr(n)
               => received(w, y)
    BY <1>1, <1>3, <2>1, <2>2, FirstNotReceived
  <2>4. rx_mod_base_nr(n) = rx_mod_base_nr(h) => ~received(w, n)
    BY <1>2, <1>3, <2>3 DEF received, holds_data
  <2> QED BY <1>2, <1>3, <2>3, <2>4 DEF w, h
<1>6. CASE ~(received(w, p.sn) /\ p.sn = rx_next)
  <2>1. n = rx_next
    BY <1>6 DEF next_rx_next, w, h
  <2>2. ~received(w, n)
    <3>1. CASE n = p.sn
      BY <1>6, <2>1, <3>1
    <3>2. CASE n # p.sn
      BY <1>1, <1>4, <2>1, <3>2, WindowWith DEF received, w
    <3> QED BY <3>1, <3>2
  <2> QED BY <1>1, <1>2, <1>3, <2>1, <2>2 DEF w, h
<1> QED BY <1>5, <1>6

-----------------------------------------------------------------------------
(* The steps of the receiver                                               *)

(* The invariant holds in the state the constructor leaves.                *)
LEMMA InitEstablishes == RxInit => RxInv
<1> SUFFICES ASSUME RxInit PROVE RxInv
  OBVIOUS
<1>1. 0 \in SNs /\ NoRxSdu \in RxSdu /\ ~NoRxSdu.present
  BY TypesAssumption DEF SNs, NoRxSdu, RxSdu
<1>2. RxTypeOK
  BY <1>1 DEF RxInit, RxTypeOK, RxAborts
<1>3. mod_base(0, 0) = 0
  BY <1>1, BaseDistance
<1>4. \A sn \in SNs : ~rx_window[sn].present /\ ~holds_data(rx_window[sn])
  BY <1>1 DEF RxInit, NoRxSdu, holds_data
<1>5. RxStateOrdered
  BY <1>1, <1>3, <1>4, TypesAssumption DEF RxInit, RxStateOrdered, rx_mod_base_nr, received
<1> QED BY <1>2, <1>5 DEF RxInv, RxInit, HighestPresent, ReassemblyTriggerValid, StateAssertionsHold

(* An accepted PDU, with the state variables it leaves behind.             *)
LEMMA AcceptedPreserves ==
  ASSUME RxInv, NEW p \in DataPdu, accepted(p), handle_data_pdu(p)
  PROVE  RxInv'
<1> DEFINE w == window_with(p)
           h == next_highest(p)
           s == next_highest_status(p)
           n == next_rx_next(p)
           u(x) == mod_base(x, rx_next)
           v(x) == mod_base(x, n)
           T == rx_next_status_trigger
           trigger == rx_next_status_trigger'
<1>1. /\ rx_next_highest' = h /\ rx_highest_status' = s /\ rx_next' = n
      /\ rx_window' = window_from(w, n)
      /\ update_reassembly_timer(n, h, window_from(w, n))
      /\ do_status' = (do_status \/ p.p)
      /\ UNCHANGED <<status_prohibit_timer, sdu_removed>>
  BY DEF handle_data_pdu
<1>2. /\ rx_next \in SNs /\ rx_next_highest \in SNs /\ T \in SNs
      /\ do_status \in BOOLEAN /\ status_prohibit_timer \in BOOLEAN
      /\ reassembly_timer \in BOOLEAN /\ rx_abort \in RxAborts /\ sdu_removed \in BOOLEAN
      /\ p \in DataPdu
  BY RxAssumption DEF RxInv, RxTypeOK
<1>3. /\ h \in SNs /\ u(rx_next_highest) <= u(h) /\ u(h) <= AM_Window_Size
      /\ sdu_removed \/ w[prev_sn(h)].present
      /\ \A x \in SNs : holds_data(w[x]) => u(x) < u(h)
  BY NewHighest DEF rx_mod_base_nr
<1>4. s \in SNs /\ u(s) <= u(h) /\ ~received(w, s)
  BY NewHighestStatus DEF rx_mod_base_nr
<1>5. /\ n \in SNs /\ u(n) <= u(h) /\ ~received(w, n)
      /\ \A x \in SNs : u(x) < u(n) => received(w, x)
  BY NewNext DEF rx_mod_base_nr
<1>6. /\ w \in [SNs -> RxSdu]
      /\ \A x \in SNs : rx_window[x].present => w[x].present
      /\ \A x \in SNs : w[x].present => u(x) < AM_Window_Size
  <2>1. \A x \in SNs : w[x].present => rx_window[x].present \/ x = p.sn
    BY WindowWith
  <2>2. u(p.sn) < AM_Window_Size /\ \A x \in SNs : rx_window[x].present => u(x) < AM_Window_Size
    BY DEF accepted, RxInv, RxStateOrdered, inside_rx_window, rx_mod_base_nr
  <2>3. w \in [SNs -> RxSdu] /\ \A x \in SNs : rx_window[x].present => w[x].present
    BY WindowWith
  <2> QED BY <2>1, <2>2, <2>3
<1> HIDE DEF w, h, s, n
<1>7. /\ \A x \in SNs : u(x) \in Nat /\ u(x) < mod_nr
      /\ \A x \in SNs : v(x) \in Nat /\ v(x) < mod_nr
      /\ AM_Window_Size \in Nat \ {0} /\ mod_nr = 2 * AM_Window_Size
  BY <1>2, <1>5, Distance, TypesAssumption
<1>8. \A x \in SNs : v(x) = IF u(x) >= u(n) THEN u(x) - u(n) ELSE u(x) - u(n) + mod_nr
  BY <1>2, <1>5, Rebase
<1>9. /\ rx_window' \in [SNs -> RxSdu]
      /\ \A x \in SNs : rx_window'[x] = IF u(x) < u(n) THEN NoRxSdu ELSE w[x]
      /\ ~NoRxSdu.present /\ ~holds_data(NoRxSdu)
  BY <1>1, <1>6 DEF window_from, rx_mod_base_nr, NoRxSdu, RxSdu, holds_data
<1>10. u(s) >= u(n)
  BY <1>4, <1>5, <1>7
<1>11. v(h) = u(h) - u(n) /\ v(s) = u(s) - u(n)
  BY <1>3, <1>4, <1>5, <1>7, <1>8, <1>10
<1>12. RxStateOrdered'
  <2>1. v(s) <= v(h) /\ v(h) <= AM_Window_Size
    BY <1>3, <1>4, <1>5, <1>7, <1>11
  <2>2. ~received(rx_window', n) /\ ~received(rx_window', s)
    BY <1>4, <1>5, <1>7, <1>9, <1>10 DEF received
  <2>3. \A x \in SNs : holds_data(rx_window'[x]) => v(x) < v(h)
    <3> SUFFICES ASSUME NEW x \in SNs, holds_data(rx_window'[x]) PROVE v(x) < v(h)
      OBVIOUS
    <3>1. u(x) >= u(n) /\ holds_data(w[x])
      BY <1>5, <1>7, <1>9
    <3>2. v(x) = u(x) - u(n) /\ u(x) < u(h)
      BY <1>3, <1>8, <3>1
    <3> QED BY <1>3, <1>5, <1>7, <1>11, <3>2
  <2>4. \A x \in SNs : rx_window'[x].present => v(x) < AM_Window_Size
    <3> SUFFICES ASSUME NEW x \in SNs, rx_window'[x].present PROVE v(x) < AM_Window_Size
      OBVIOUS
    <3>1. u(x) >= u(n) /\ w[x].present
      BY <1>5, <1>7, <1>9
    <3>2. v(x) = u(x) - u(n) /\ u(x) < AM_Window_Size
      BY <1>6, <1>8, <3>1
    <3> QED BY <1>5, <1>7, <3>1, <3>2
  <2> QED BY <1>1, <2>1, <2>2, <2>3, <2>4
      DEF RxStateOrdered, rx_mod_base_nr, received, holds_data, inside_rx_window
<1>13. ~sdu_removed /\ h # n => rx_window'[prev_sn(h)].present
  <2> SUFFICES ASSUME ~sdu_removed, h # n PROVE rx_window'[prev_sn(h)].present
    OBVIOUS
  <2>1. prev_sn(h) \in SNs /\ v(prev_sn(h)) = v(h) - 1
    BY <1>3, <1>5, PrevDistance
  <2>2. u(prev_sn(h)) >= u(n)
    <3>1. v(prev_sn(h)) < AM_Window_Size
      BY <1>3, <1>5, <1>7, <1>11, <2>1
    <3> HIDE DEF u, v
    <3> QED BY <1>3, <1>5, <1>7, <1>8, <2>1, <3>1
  <2> QED BY <1>3, <1>5, <1>7, <1>9, <2>1, <2>2
<1>14. /\ reassembly_timer => 0 < u(T) /\ u(T) <= u(rx_next_highest)
       /\ reassembly_timer /\ ~sdu_removed => rx_window[prev_sn(T)].present
  BY DEF RxInv, ReassemblyTriggerValid, rx_mod_base_nr
(* As long as the trigger is not behind the new RX_Next                    *)
<1>15. ASSUME reassembly_timer, T # n, v(T) < AM_Window_Size
       PROVE  0 < v(T) /\ v(T) <= v(h) /\ (sdu_removed \/ rx_window'[prev_sn(T)].present)
  <2>1. u(T) >= u(n)
    BY <1>2, <1>3, <1>5, <1>7, <1>8, <1>14, <1>15
  <2>2. v(T) = u(T) - u(n)
    BY <1>2, <1>8, <2>1
  <2>3. u(T) # u(n)
    BY <1>2, <1>5, <1>15, SameDistance
  <2>4. T # rx_next
    BY <1>2, <1>7, <1>14, <1>15, BaseDistance
  <2>5. prev_sn(T) \in SNs /\ u(prev_sn(T)) = u(T) - 1
    BY <1>2, <2>4, PrevDistance
  <2>6. ~sdu_removed => w[prev_sn(T)].present
    BY <1>6, <1>14, <1>15, <2>5
  <2>7. u(prev_sn(T)) >= u(n)
    BY <1>2, <1>5, <1>7, <2>1, <2>3, <2>5
  <2>8. ~sdu_removed => rx_window'[prev_sn(T)].present
    BY <1>5, <1>7, <1>9, <2>5, <2>6, <2>7
  <2> QED BY <1>2, <1>3, <1>5, <1>7, <1>11, <1>14, <1>15, <2>1, <2>2, <2>3, <2>8
<1>16. mod_base(n + 1, n) = 1
  <2>1. n \in Int /\ (n + 1) - n = 1 /\ 1 < mod_nr
    BY <1>5, <1>7 DEF SNs
  <2> QED BY <1>7, <2>1, ModOneTurn DEF mod_base
<1> DEFINE running == reassembly_timer /\ ~stop_reassembly(n, rx_window')
           start == ~running /\ start_reassembly(n, n, h, rx_window')
<1>17. /\ reassembly_timer' = (running \/ start)
       /\ trigger = IF start THEN h ELSE T
       /\ rx_abort' = IF reassembly_timer /\ v(T) = 1 /\ ~rx_window'[n].present
                      THEN "no_sdu_at_rx_next" ELSE rx_abort
  BY <1>1 DEF update_reassembly_timer
<1>18. running => 0 < v(T) /\ v(T) <= v(h) /\ (sdu_removed \/ rx_window'[prev_sn(T)].present)
  <2>1. running => reassembly_timer /\ T # n /\ v(T) < AM_Window_Size
    BY <1>2, <1>5, <1>7 DEF stop_reassembly
  <2> QED BY <1>15, <2>1
<1>19. start => 0 < v(h) /\ (sdu_removed \/ rx_window'[prev_sn(h)].present)
  <2> SUFFICES ASSUME start PROVE 0 < v(h) /\ (sdu_removed \/ rx_window'[prev_sn(h)].present)
    OBVIOUS
  <2>1. 0 < v(h)
    BY <1>3, <1>7, <1>16 DEF start_reassembly
  <2>2. h # n
    BY <1>5, <2>1, BaseDistance
  <2> QED BY <1>13, <2>1, <2>2
<1>20. reassembly_timer' => /\ 0 < v(trigger) /\ v(trigger) <= v(h)
                            /\ sdu_removed \/ rx_window'[prev_sn(trigger)].present
  <2> SUFFICES ASSUME reassembly_timer'
               PROVE  /\ 0 < v(trigger) /\ v(trigger) <= v(h)
                      /\ sdu_removed \/ rx_window'[prev_sn(trigger)].present
    OBVIOUS
  <2>1. v(h) \in Nat
    BY <1>3, <1>7
  <2> HIDE DEF running, start
  <2>2. CASE start
    <3>1. trigger = h
      BY <1>17, <2>2
    <3> QED BY <1>19, <2>1, <2>2, <3>1
  <2>3. CASE ~start
    <3>1. trigger = T /\ running
      BY <1>17, <2>3
    <3> QED BY <1>18, <3>1
  <2> QED BY <2>2, <2>3
<1>21. ~sdu_removed /\ reassembly_timer /\ v(T) = 1 => rx_window'[n].present
  <2> SUFFICES ASSUME ~sdu_removed, reassembly_timer, v(T) = 1 PROVE rx_window'[n].present
    OBVIOUS
  <2>1. u(T) = u(n) + 1
    BY <1>2, <1>3, <1>5, <1>7, <1>8, <1>14
  <2>2. T # rx_next
    BY <1>2, <1>7, <1>14, BaseDistance
  <2>3. prev_sn(T) \in SNs /\ u(prev_sn(T)) = u(n)
    BY <1>2, <1>5, <1>7, <2>1, <2>2, PrevDistance
  <2>4. prev_sn(T) = n
    BY <1>2, <1>5, <2>3, SameDistance
  <2> QED BY <1>5, <1>6, <1>7, <1>9, <1>14, <2>3, <2>4
<1>22. rx_abort' = rx_abort \/ (sdu_removed /\ rx_abort' = "no_sdu_at_rx_next")
  BY <1>17, <1>21
<1>23. RxTypeOK'
  <2>1. reassembly_timer' \in BOOLEAN /\ trigger \in SNs
    <3> HIDE DEF running, start
    <3> QED BY <1>2, <1>3, <1>17
  <2>2. do_status' \in BOOLEAN
    BY <1>1
  <2> QED BY <1>1, <1>2, <1>3, <1>4, <1>5, <1>9, <1>22, <2>1, <2>2 DEF RxTypeOK, RxAborts
<1>24. HighestPresent' /\ ReassemblyTriggerValid' /\ StateAssertionsHold'
  BY <1>1, <1>13, <1>20, <1>22
     DEF HighestPresent, ReassemblyTriggerValid, StateAssertionsHold, RxInv, rx_mod_base_nr
<1> QED BY <1>12, <1>23, <1>24 DEF RxInv

(* A PDU that is dropped, a status report and t-StatusProhibit leave the   *)
(* state variables and the window alone.                                   *)
LEMMA StateUnchanged ==
  ASSUME RxInv, UNCHANGED <<rxState, rx_window, reassembly_timer, sdu_removed>>,
         do_status' \in BOOLEAN, status_prohibit_timer' \in BOOLEAN,
         rx_abort' \in {rx_abort, "nack_so_reversed"}
  PROVE  RxInv'
<1>1. RxTypeOK'
  BY DEF RxInv, RxTypeOK, RxAborts, rxState
<1>2. StateAssertionsHold'
  BY DEF RxInv, StateAssertionsHold
<1>3. RxStateOrdered' /\ HighestPresent' /\ ReassemblyTriggerValid'
  BY DEF RxInv, RxStateOrdered, HighestPresent, ReassemblyTriggerValid, rxState,
         rx_mod_base_nr, inside_rx_window, received
<1> QED BY <1>1, <1>2, <1>3 DEF RxInv

(* handle_data_pdu() keeps the invariant, for a PDU that is stored or not. *)
LEMMA DataPreserves ==
  ASSUME RxInv, NEW p \in DataPdu, handle_data_pdu(p)
  PROVE  RxInv'
<1>1. CASE accepted(p)
  BY <1>1, AcceptedPreserves
<1>2. CASE ~accepted(p)
  <2>1. /\ UNCHANGED <<rxState, rx_window, reassembly_timer, sdu_removed>>
        /\ UNCHANGED rx_abort /\ UNCHANGED status_prohibit_timer
        /\ do_status' = (do_status \/ p.p)
    BY <1>2 DEF handle_data_pdu
  <2>2. do_status' \in BOOLEAN /\ status_prohibit_timer' \in BOOLEAN
    BY <2>1 DEF RxInv, RxTypeOK
  <2> QED BY <2>1, <2>2, StateUnchanged
<1> QED BY <1>1, <1>2

(* A PDU for which there is no buffer: it takes its SDU out of the window, *)
(* or leaves it as it was, if the window had it, or leaves an empty one.   *)
LEMMA WindowWithout ==
  ASSUME RxInv, NEW p \in DataPdu, handle_data_pdu_no_buffer(p)
  PROVE  /\ rx_window' \in [SNs -> RxSdu]
         /\ \A x \in SNs :
              \/ rx_window'[x] \in {rx_window[x], NoRxSdu}
              \/ x = p.sn /\ rx_window'[x] = NewRxSdu
         /\ ~sdu_removed' => ~sdu_removed /\ \A x \in SNs : rx_window[x].present =>
                                             rx_window'[x].present
<1>1. /\ p.sn \in SNs /\ rx_window \in [SNs -> RxSdu] /\ rx_next \in SNs
      /\ rx_window[p.sn] \in RxSdu /\ same_slot(p.sn) \in SNs
  BY StoredSdu, SlotDistance DEF RxInv, RxTypeOK
<1>2. /\ NoRxSdu \in RxSdu /\ ~NoRxSdu.present
      /\ NewRxSdu \in RxSdu /\ NewRxSdu.present
  BY DEF NoRxSdu, NewRxSdu, RxSdu
<1>3. PICK sdu \in {NoRxSdu, NewRxSdu, rx_window[p.sn]} :
        /\ rx_window' = [rx_window EXCEPT ![same_slot(p.sn)] = NoRxSdu, ![p.sn] = sdu]
        /\ sdu_removed' = (sdu_removed \/ (rx_window[p.sn].present /\ ~sdu.present))
  BY DEF handle_data_pdu_no_buffer, sdus_without_buffer
<1>5. sdu \in RxSdu
  BY <1>1, <1>2, <1>3
<1>6. \A x \in SNs : rx_window'[x] = IF x = p.sn THEN sdu
                                     ELSE IF x = same_slot(p.sn) THEN NoRxSdu ELSE rx_window[x]
  BY <1>1, <1>3
<1>7. rx_window' \in [SNs -> RxSdu]
  BY <1>1, <1>2, <1>3, <1>5
<1>8. ~rx_window[same_slot(p.sn)].present
  <2>1. mod_base(p.sn, rx_next) < AM_Window_Size
    BY DEF handle_data_pdu_no_buffer, accepted, inside_rx_window, rx_mod_base_nr
  <2>2. mod_base(same_slot(p.sn), rx_next) = mod_base(p.sn, rx_next) + AM_Window_Size
    BY <1>1, <2>1, SlotDistance
  <2>3. rx_window[same_slot(p.sn)].present =>
          mod_base(same_slot(p.sn), rx_next) < AM_Window_Size
    BY <1>1 DEF RxInv, RxStateOrdered, inside_rx_window, rx_mod_base_nr
  <2>4. mod_base(p.sn, rx_next) \in Nat
    BY <1>1, Distance
  <2> QED BY <2>2, <2>3, <2>4, TypesAssumption
<1>9. ASSUME NEW x \in SNs
      PROVE  \/ rx_window'[x] \in {rx_window[x], NoRxSdu}
             \/ x = p.sn /\ rx_window'[x] = NewRxSdu
  <2>1. CASE x = p.sn
    <3>1. rx_window'[x] = sdu
      BY <1>6, <2>1
    <3> QED BY <1>3, <2>1, <3>1
  <2>2. CASE x # p.sn
    BY <1>6, <2>2
  <2> QED BY <2>1, <2>2
<1>10. ASSUME ~sdu_removed'
       PROVE  ~sdu_removed /\ \A x \in SNs : rx_window[x].present => rx_window'[x].present
  BY <1>3, <1>6, <1>8, <1>10
<1> QED BY <1>7, <1>9, <1>10

(* It keeps the invariant.                                                 *)
LEMMA NoBufferPreserves ==
  ASSUME RxInv, NEW p \in DataPdu, handle_data_pdu_no_buffer(p)
  PROVE  RxInv'
<1>1. /\ do_status' = (do_status \/ p.p) /\ accepted(p)
      /\ sdu_removed' \in BOOLEAN
      /\ UNCHANGED <<rxState, status_prohibit_timer, reassembly_timer, rx_abort>>
  BY DEF handle_data_pdu_no_buffer, RxInv, RxTypeOK
<1>2. /\ rx_window' \in [SNs -> RxSdu] /\ rx_window \in [SNs -> RxSdu]
      /\ \A x \in SNs :
           \/ rx_window'[x] \in {rx_window[x], NoRxSdu}
           \/ x = p.sn /\ rx_window'[x] = NewRxSdu
      /\ ~sdu_removed' => ~sdu_removed /\ \A x \in SNs : rx_window[x].present =>
                                             rx_window'[x].present
  BY WindowWithout DEF RxInv, RxTypeOK
<1>3. /\ p.sn \in SNs /\ rx_next \in SNs /\ rx_highest_status \in SNs
      /\ rx_next_highest \in SNs /\ rx_next_status_trigger \in SNs
  BY StoredSdu DEF RxInv, RxTypeOK
<1>4. RxTypeOK'
  BY <1>1, <1>2 DEF RxInv, RxTypeOK, rxState
<1>5. \A x \in SNs : /\ holds_data(rx_window'[x]) => holds_data(rx_window[x])
                     /\ rx_window'[x].present => rx_window[x].present \/ x = p.sn
                     /\ received(rx_window', x) => received(rx_window, x)
  BY <1>2 DEF holds_data, received, NoRxSdu, NewRxSdu
<1>7. RxStateOrdered'
  <2>1. rx_mod_base_nr(p.sn) < AM_Window_Size
    BY <1>1 DEF accepted, inside_rx_window
  <2>2. UNCHANGED <<rx_next, rx_highest_status, rx_next_highest>>
    BY <1>1 DEF rxState
  <2>3. \A x \in SNs : rx_window'[x].present => mod_base(x, rx_next) < AM_Window_Size
    BY <1>5, <2>1 DEF RxInv, RxStateOrdered, inside_rx_window, rx_mod_base_nr
  <2>4. \A x \in SNs : holds_data(rx_window'[x]) =>
                         mod_base(x, rx_next) < mod_base(rx_next_highest, rx_next)
    BY <1>5 DEF RxInv, RxStateOrdered, rx_mod_base_nr
  <2>5. ~received(rx_window', rx_next) /\ ~received(rx_window', rx_highest_status)
    BY <1>3, <1>5 DEF RxInv, RxStateOrdered
  <2>6. /\ mod_base(rx_highest_status, rx_next) <= mod_base(rx_next_highest, rx_next)
        /\ mod_base(rx_next_highest, rx_next) <= AM_Window_Size
    BY DEF RxInv, RxStateOrdered, rx_mod_base_nr
  <2> QED BY <2>2, <2>3, <2>4, <2>5, <2>6
      DEF RxStateOrdered, rx_mod_base_nr, inside_rx_window, received, holds_data
<1>8. HighestPresent' /\ ReassemblyTriggerValid'
  <2>1. UNCHANGED <<rx_next, rx_next_status_trigger, rx_next_highest, reassembly_timer>>
    BY <1>1 DEF rxState
  <2>2. rx_next_highest # rx_next => prev_sn(rx_next_highest) \in SNs
    BY <1>3, PrevDistance
  <2>3. reassembly_timer => prev_sn(rx_next_status_trigger) \in SNs
    <3> SUFFICES ASSUME reassembly_timer PROVE prev_sn(rx_next_status_trigger) \in SNs
      OBVIOUS
    <3>1. 0 < mod_base(rx_next_status_trigger, rx_next)
      BY DEF RxInv, ReassemblyTriggerValid, rx_mod_base_nr
    <3>2. rx_next_status_trigger # rx_next
      BY <1>3, <3>1, BaseDistance
    <3> QED BY <1>3, <3>2, PrevDistance
  <2> QED BY <1>2, <2>1, <2>2, <2>3
      DEF RxInv, HighestPresent, ReassemblyTriggerValid, rx_mod_base_nr
<1>9. StateAssertionsHold'
  BY <1>1, <1>2 DEF RxInv, StateAssertionsHold, handle_data_pdu_no_buffer
<1> QED BY <1>4, <1>7, <1>8, <1>9 DEF RxInv

(* t-Reassembly expires: RX_Highest_Status moves on from the trigger, and  *)
(* a new trigger is RX_Next_Highest.                                       *)
LEMMA ReassemblyPreserves ==
  ASSUME RxInv, reassembly_expired
  PROVE  RxInv'
<1> DEFINE T == rx_next_status_trigger
           h == rx_next_highest
           s == first_not_received(rx_window, T, h)
           u(x) == mod_base(x, rx_next)
<1>1. /\ reassembly_timer
      /\ rx_highest_status' = s
      /\ rx_abort' = IF valid_rx_ack_sn(s) THEN rx_abort ELSE "highest_status_outside"
      /\ rx_next_status_trigger' \in {T, h}
      /\ reassembly_timer' \in BOOLEAN
      /\ do_status' = TRUE
      /\ UNCHANGED <<rx_next, rx_next_highest, rx_window, status_prohibit_timer, sdu_removed>>
  BY DEF reassembly_expired, start_reassembly
<1>2. /\ rx_next \in SNs /\ T \in SNs /\ h \in SNs /\ rx_window \in [SNs -> RxSdu]
      /\ status_prohibit_timer \in BOOLEAN /\ sdu_removed \in BOOLEAN /\ rx_abort \in RxAborts
  BY DEF RxInv, RxTypeOK
<1>3. /\ \A x \in SNs : u(x) \in Nat
      /\ AM_Window_Size \in Nat
  BY <1>2, Distance, TypesAssumption
<1>4. /\ 0 < u(T) /\ u(T) <= u(h) /\ u(h) <= AM_Window_Size
      /\ sdu_removed \/ rx_window[prev_sn(T)].present
      /\ ~received(rx_window, rx_next)
      /\ \A x \in SNs : holds_data(rx_window[x]) => u(x) < u(h)
      /\ \A x \in SNs : rx_window[x].present => u(x) < AM_Window_Size
  BY <1>1 DEF RxInv, RxStateOrdered, ReassemblyTriggerValid, rx_mod_base_nr, inside_rx_window
<1>5. /\ s \in SNs /\ u(T) <= u(s) /\ u(s) <= u(h)
      /\ u(s) < u(h) => ~received(rx_window, s)
  BY <1>2, <1>4, FirstNotReceived DEF rx_mod_base_nr
<1> HIDE DEF s
<1>6. ~received(rx_window, s)
  BY <1>2, <1>3, <1>4, <1>5 DEF received, holds_data
<1>7. rx_abort' = rx_abort
  BY <1>1, <1>2, <1>3, <1>4, <1>5 DEF valid_rx_ack_sn, rx_mod_base_nr
<1>8. sdu_removed \/ rx_window[prev_sn(h)].present
  <2>1. h # rx_next
    BY <1>2, <1>3, <1>4, BaseDistance
  <2> QED BY <2>1 DEF RxInv, HighestPresent
<1>9. RxTypeOK'
  BY <1>1, <1>2, <1>5, <1>7 DEF RxTypeOK
<1>10. RxStateOrdered'
  BY <1>1, <1>4, <1>5, <1>6 DEF RxStateOrdered, rx_mod_base_nr, received, inside_rx_window
<1>11. ReassemblyTriggerValid'
  BY <1>1, <1>2, <1>3, <1>4, <1>8 DEF ReassemblyTriggerValid, rx_mod_base_nr
<1>12. HighestPresent' /\ StateAssertionsHold'
  BY <1>1, <1>7, <1>8 DEF HighestPresent, StateAssertionsHold, RxInv
<1> QED BY <1>9, <1>10, <1>11, <1>12 DEF RxInv

(* reestablish() keeps the invariant.                                      *)
LEMMA ReestablishPreserves ==
  ASSUME RxInv, rx_reestablish
  PROVE  RxInv'
<1>1. 0 \in SNs /\ NoRxSdu \in RxSdu /\ ~NoRxSdu.present
  BY TypesAssumption DEF SNs, NoRxSdu, RxSdu
<1>2. RxTypeOK'
  BY <1>1 DEF rx_reestablish, RxInv, RxTypeOK
<1>3. mod_base(0, 0) = 0
  BY <1>1, BaseDistance
<1>4. \A sn \in SNs : ~rx_window'[sn].present /\ ~holds_data(rx_window'[sn])
  BY <1>1 DEF rx_reestablish, NoRxSdu, holds_data
<1>5. RxStateOrdered'
  BY <1>1, <1>3, <1>4, TypesAssumption DEF rx_reestablish, RxStateOrdered, rx_mod_base_nr, received, holds_data
<1>6. HighestPresent' /\ ReassemblyTriggerValid' /\ StateAssertionsHold'
  <2>1. rx_abort' = "none"
    BY DEF rx_reestablish
  <2> QED BY <2>1 DEF rx_reestablish, HighestPresent, ReassemblyTriggerValid, StateAssertionsHold
<1> QED BY <1>2, <1>5, <1>6 DEF RxInv

(* Every step of the receiver keeps the invariant.                         *)
LEMMA NextPreserves == RxInv /\ [RxNext]_rxVars => RxInv'
<1> SUFFICES ASSUME RxInv, [RxNext]_rxVars PROVE RxInv'
  OBVIOUS
<1>1. do_status \in BOOLEAN /\ status_prohibit_timer \in BOOLEAN
  BY DEF RxInv, RxTypeOK
<1>2. ASSUME NEW p \in Pdus, handle_data_pdu(p) PROVE RxInv'
  BY <1>2, DataPreserves, RxAssumption
<1>3. ASSUME NEW max_len \in StatusGrants, build_status_pdu(max_len) PROVE RxInv'
  <2>1. /\ UNCHANGED <<rxState, rx_window, reassembly_timer, sdu_removed>>
        /\ do_status' \in BOOLEAN /\ status_prohibit_timer' \in BOOLEAN
        /\ rx_abort' \in {rx_abort, "nack_so_reversed"}
    BY <1>3, Zenon DEF build_status_pdu
  <2> QED BY <2>1, StateUnchanged
<1>4. CASE status_prohibit_expired
  <2>1. /\ UNCHANGED <<rxState, rx_window, reassembly_timer, sdu_removed>>
        /\ do_status' \in BOOLEAN /\ status_prohibit_timer' \in BOOLEAN
        /\ rx_abort' = rx_abort
    BY <1>1, <1>4 DEF status_prohibit_expired
  <2> QED BY <2>1, StateUnchanged
<1>5. CASE reassembly_expired
  BY <1>5, ReassemblyPreserves
<1>6. CASE rx_reestablish
  BY <1>6, ReestablishPreserves
<1>7. ASSUME NEW p \in Pdus, handle_data_pdu_no_buffer(p) PROVE RxInv'
  BY <1>7, NoBufferPreserves, RxAssumption
<1>8. CASE UNCHANGED rxVars
  <2>1. /\ UNCHANGED <<rxState, rx_window, reassembly_timer, sdu_removed>>
        /\ do_status' \in BOOLEAN /\ status_prohibit_timer' \in BOOLEAN
        /\ rx_abort' = rx_abort
    BY <1>1, <1>8 DEF rxVars
  <2> QED BY <2>1, StateUnchanged
<1> QED BY <1>2, <1>3, <1>4, <1>5, <1>6, <1>7, <1>8 DEF RxNext

-----------------------------------------------------------------------------
(* The inductive invariant holds in every state the receiver reaches,      *)
(* whatever AMD PDUs arrive and in whatever order.                         *)
THEOREM RxInvariance == RxSpec => []RxInv
<1> QED BY InitEstablishes, NextPreserves, PTL DEF RxSpec

(* The variables of rlc_am_nr_rx keep their ranges.                        *)
THEOREM RxTypeCorrect == RxSpec => []RxTypeOK
<1>1. RxInv => RxTypeOK
  BY DEF RxInv
<1> QED BY <1>1, RxInvariance, PTL

(* RX_Next <= RX_Highest_Status <= RX_Next_Highest <= RX_Next +            *)
(* AM_Window_Size around the SN space, the first two name SDUs that are    *)
(* not complete, and nothing is stored outside the window.                 *)
THEOREM RxOrderCorrect == RxSpec => []RxStateOrdered
<1>1. RxInv => RxStateOrdered
  BY DEF RxInv
<1> QED BY <1>1, RxInvariance, PTL

(* While t-Reassembly runs its trigger is inside the window and the SDU    *)
(* before it is stored.                                                    *)
THEOREM TriggerCorrect == RxSpec => []ReassemblyTriggerValid
<1>1. RxInv => ReassemblyTriggerValid
  BY DEF RxInv
<1> QED BY <1>1, RxInvariance, PTL

(* The assertions of handle_data_pdu() and timer_expired() do not fail,    *)
(* whatever the peer sends, as long as no failed allocation takes an SDU   *)
(* out of the window.                                                      *)
THEOREM StateAssertions == RxSpec => []StateAssertionsHold
<1>1. RxInv => StateAssertionsHold
  BY DEF RxInv
<1> QED BY <1>1, RxInvariance, PTL

-----------------------------------------------------------------------------
(* Segments                                                                *)

(* What is kept of an SDU came in PDUs with its SN.                        *)
SegmentsReceived ==
  \A sn \in SNs :
    /\ ~rx_window[sn].present => rx_window[sn].segments = {}
    /\ \A s \in rx_window[sn].segments : \E q \in Pdus : q.sn = sn /\ s = segment_of(q)

SegmInv == RxInv /\ SegmentsReceived /\ SegmentsDisjoint

(* A PDU that passes the check for duplicate bytes overlaps no segment.    *)
LEMMA AcceptedApart ==
  ASSUME NoPduEncloses, SegmInv, NEW p \in Pdus, accepted(p), p.si # "full",
         NEW s \in rx_window[p.sn].segments
  PROVE  segm_end(s) <= p.so \/ segm_end(p) <= s.so
<1>1. p \in DataPdu /\ p.sn \in SNs
  BY RxAssumption DEF DataPdu
<1>2. rx_window[p.sn].present
  BY <1>1 DEF SegmInv, SegmentsReceived
<1>3. PICK q \in Pdus : q.sn = p.sn /\ s = segment_of(q)
  BY <1>1 DEF SegmInv, SegmentsReceived
<1>4. q \in DataPdu
  BY RxAssumption
<1>5. /\ p.so \in Nat /\ p.len \in Nat \ {0} /\ q.so \in Nat /\ q.len \in Nat \ {0}
      /\ s.so = q.so /\ s.len = q.len
  BY <1>1, <1>3, <1>4, TypesAssumption DEF DataPdu, segment_of
<1>6. ~(p.so \in s.so..(segm_end(s) - 1)) /\ ~((p.so + p.len - 1) \in s.so..(segm_end(s) - 1))
  BY <1>2 DEF accepted, duplicate_bytes
<1>7. ~(p.so < q.so /\ q.so + q.len < p.so + p.len)
  BY <1>3 DEF NoPduEncloses, segm_end
<1> QED BY <1>5, <1>6, <1>7 DEF segm_end

(* The segments of the window after a PDU is stored.                       *)
LEMMA StoredSegments ==
  ASSUME RxInv, NEW p \in Pdus, accepted(p), handle_data_pdu(p), NEW sn \in SNs
  PROVE  \/ rx_window'[sn] = NoRxSdu
         \/ rx_window'[sn] = rx_window[sn]
         \/ /\ sn = p.sn /\ rx_window'[sn].present
            /\ rx_window'[sn].segments \subseteq
                 IF p.si = "full" THEN {} ELSE rx_window[sn].segments \cup {segment_of(p)}
<1>1. rx_window' = window_from(window_with(p), next_rx_next(p))
  BY DEF handle_data_pdu
<1>2. rx_window'[sn] = NoRxSdu \/ rx_window'[sn] = window_with(p)[sn]
  BY <1>1 DEF window_from
<1>3. p.sn \in SNs /\ same_slot(p.sn) \in SNs /\ rx_window \in [SNs -> RxSdu]
  BY RxAssumption, StoredSdu, SlotDistance DEF RxInv, RxTypeOK
<1>4. window_with(p)[sn] = IF sn = p.sn THEN stored_sdu(p)
                           ELSE IF sn = same_slot(p.sn) THEN NoRxSdu ELSE rx_window[sn]
  BY <1>3 DEF window_with
<1>5. stored_sdu(p).present
      /\ stored_sdu(p).segments = IF p.si = "full" THEN {}
                                  ELSE rx_window[p.sn].segments \cup {segment_of(p)}
  BY DEF stored_sdu, update_segment_inventory, NoRxSdu
<1> QED BY <1>2, <1>4, <1>5

(* Storing a PDU keeps the segments of its SDU apart.                      *)
LEMMA SegmentsDataPreserves ==
  ASSUME NoPduEncloses, SegmInv, NEW p \in Pdus, accepted(p), handle_data_pdu(p)
  PROVE  SegmentsReceived' /\ SegmentsDisjoint'
<1>0. RxInv
  BY DEF SegmInv
<1> DEFINE W(sn) == rx_window'[sn]
<1>1. ASSUME NEW sn \in SNs
      PROVE  /\ ~W(sn).present => W(sn).segments = {}
             /\ \A s \in W(sn).segments : \E q \in Pdus : q.sn = sn /\ s = segment_of(q)
  <2>1. \/ W(sn) = NoRxSdu
        \/ W(sn) = rx_window[sn]
        \/ /\ sn = p.sn /\ W(sn).present
           /\ W(sn).segments \subseteq rx_window[sn].segments \cup {segment_of(p)}
    BY <1>0, <1>1, StoredSegments
  <2> QED BY <2>1 DEF SegmInv, SegmentsReceived, NoRxSdu
<1>2. ASSUME NEW sn \in SNs, NEW s \in W(sn).segments, NEW t \in W(sn).segments, s # t
      PROVE  segm_end(s) <= t.so \/ segm_end(t) <= s.so
  <2>1. CASE s \in rx_window[sn].segments /\ t \in rx_window[sn].segments
    BY <1>2, <2>1 DEF SegmInv, SegmentsDisjoint
  <2>2. CASE ~(s \in rx_window[sn].segments /\ t \in rx_window[sn].segments)
    <3>1. /\ sn = p.sn /\ p.si # "full"
          /\ {s, t} \subseteq rx_window[sn].segments \cup {segment_of(p)}
      BY <1>0, <1>2, <2>2, StoredSegments DEF NoRxSdu
    <3>2. segment_of(p).so = p.so /\ segm_end(segment_of(p)) = segm_end(p)
      BY DEF segment_of, segm_end
    <3>3. CASE s = segment_of(p) /\ t \in rx_window[p.sn].segments
      BY <3>1, <3>2, <3>3, AcceptedApart
    <3>4. CASE t = segment_of(p) /\ s \in rx_window[p.sn].segments
      BY <3>1, <3>2, <3>4, AcceptedApart
    <3> QED BY <1>2, <2>2, <3>1, <3>3, <3>4
  <2> QED BY <2>1, <2>2
<1>3. SegmentsReceived'
  BY <1>1 DEF SegmentsReceived, segment_of
<1>4. SegmentsDisjoint'
  BY <1>2 DEF SegmentsDisjoint, segm_end
<1> QED BY <1>3, <1>4

(* A step that leaves the window alone.                                    *)
LEMMA SegmentsKept ==
  ASSUME SegmentsReceived, SegmentsDisjoint, UNCHANGED rx_window
  PROVE  SegmentsReceived' /\ SegmentsDisjoint'
BY DEF SegmentsReceived, SegmentsDisjoint, segm_end, segment_of

(* Every step of the receiver keeps the segments of an SDU apart.          *)
LEMMA SegmentsPreserved ==
  ASSUME NoPduEncloses, SegmInv, [RxNext]_rxVars
  PROVE  SegmInv'
<1>1. RxInv' /\ SegmentsReceived /\ SegmentsDisjoint
  BY NextPreserves DEF SegmInv
<1>2. ASSUME NEW p \in Pdus, handle_data_pdu(p) PROVE SegmentsReceived' /\ SegmentsDisjoint'
  <2>1. CASE accepted(p)
    BY <1>2, <2>1, SegmentsDataPreserves
  <2>2. CASE ~accepted(p)
    BY <1>1, <1>2, <2>2, SegmentsKept DEF handle_data_pdu
  <2> QED BY <2>1, <2>2
<1>3. ASSUME \/ \E max_len \in StatusGrants : build_status_pdu(max_len)
             \/ status_prohibit_expired \/ reassembly_expired \/ UNCHANGED rxVars
      PROVE  SegmentsReceived' /\ SegmentsDisjoint'
  <2>1. UNCHANGED rx_window
    BY <1>3 DEF build_status_pdu, status_prohibit_expired, reassembly_expired, rxVars
  <2> QED BY <1>1, <2>1, SegmentsKept
<1>4. ASSUME rx_reestablish PROVE SegmentsReceived' /\ SegmentsDisjoint'
  <2>1. rx_window' = [sn \in SNs |-> NoRxSdu]
    BY <1>4 DEF rx_reestablish
  <2> QED BY <2>1 DEF SegmentsReceived, SegmentsDisjoint, NoRxSdu
<1>5. ASSUME NEW p \in Pdus, handle_data_pdu_no_buffer(p) PROVE SegmentsReceived' /\ SegmentsDisjoint'
  <2>1. \A x \in SNs : rx_window'[x] \in {rx_window[x], NoRxSdu, NewRxSdu}
    BY <1>1, <1>5, WindowWithout, RxAssumption DEF SegmInv
  <2>2. \A x \in SNs : rx_window'[x] = rx_window[x] \/ rx_window'[x].segments = {}
    BY <2>1 DEF NoRxSdu, NewRxSdu
  <2>3. SegmentsReceived'
    BY <1>1, <2>1, <2>2 DEF SegmentsReceived, NoRxSdu, NewRxSdu, segment_of
  <2>4. SegmentsDisjoint'
    BY <1>1, <2>2 DEF SegmentsDisjoint, segm_end
  <2> QED BY <2>3, <2>4
<1> QED BY <1>1, <1>2, <1>3, <1>4, <1>5 DEF RxNext, SegmInv

(* No bytes to be NACKed lie between two segments that are apart.          *)
LEMMA NotReversed == SegmInv => ~nack_so_reversed
<1> SUFFICES ASSUME SegmInv, nack_so_reversed PROVE FALSE
  OBVIOUS
<1>1. PICK sn \in SNs : \E s, t \in rx_window[sn].segments : t.so < s.so /\ s.so < segm_end(t)
  BY DEF nack_so_reversed
<1>2. PICK s \in rx_window[sn].segments, t \in rx_window[sn].segments :
        t.so < s.so /\ s.so < segm_end(t)
  BY <1>1
<1>3. rx_window[sn].segments \subseteq Segment
  BY <1>1 DEF SegmInv, RxInv, RxTypeOK, RxSdu
<1>4. /\ s.so \in Nat /\ s.len \in Nat \ {0} /\ t.so \in Nat /\ t.len \in Nat \ {0}
  BY <1>2, <1>3, TypesAssumption DEF Segment
<1>5. s # t
  BY <1>2, <1>4
<1>6. segm_end(s) <= t.so \/ segm_end(t) <= s.so
  BY <1>1, <1>2, <1>5 DEF SegmInv, SegmentsDisjoint
<1> QED BY <1>2, <1>4, <1>6 DEF segm_end

(* So a status report is built without a failed assertion.                 *)
LEMMA ReversedPreserved ==
  ASSUME SegmInv, rx_abort # "nack_so_reversed", [RxNext]_rxVars
  PROVE  rx_abort' # "nack_so_reversed"
<1>1. ASSUME NEW max_len \in StatusGrants, build_status_pdu(max_len)
      PROVE  rx_abort' # "nack_so_reversed"
  BY <1>1, NotReversed DEF build_status_pdu
<1>2. ASSUME NEW p \in Pdus, handle_data_pdu(p) PROVE rx_abort' # "nack_so_reversed"
  BY <1>2 DEF handle_data_pdu, update_reassembly_timer
<1>3. ASSUME NEW p \in Pdus, handle_data_pdu_no_buffer(p) PROVE rx_abort' # "nack_so_reversed"
  BY <1>3 DEF handle_data_pdu_no_buffer
<1>4. ASSUME reassembly_expired PROVE rx_abort' # "nack_so_reversed"
  BY <1>4 DEF reassembly_expired
<1>5. ASSUME status_prohibit_expired \/ rx_reestablish \/ UNCHANGED rxVars
      PROVE  rx_abort' # "nack_so_reversed"
  BY <1>5 DEF status_prohibit_expired, rx_reestablish, rxVars
<1> QED BY <1>1, <1>2, <1>3, <1>4, <1>5 DEF RxNext

(* The receiver starts without segments.                                   *)
LEMMA SegmentsInit == RxInit => SegmInv
<1> SUFFICES ASSUME RxInit PROVE SegmInv
  OBVIOUS
<1>1. SegmentsReceived /\ SegmentsDisjoint
  BY DEF RxInit, SegmentsReceived, SegmentsDisjoint, NoRxSdu
<1> QED BY <1>1, InitEstablishes DEF SegmInv

(* "discard segments with overlapping bytes" does what it says against any *)
(* peer that never sends a PDU whose bytes reach beyond those of another   *)
(* on both sides, in whatever order and however often its PDUs arrive.     *)
THEOREM SegmentsStayApart == NoPduEncloses /\ RxSpec => []SegmentsDisjoint
<1> SUFFICES ASSUME NoPduEncloses PROVE RxSpec => []SegmentsDisjoint
  OBVIOUS
<1>1. RxInit => SegmInv
  BY SegmentsInit
<1>2. SegmInv /\ [RxNext]_rxVars => SegmInv'
  BY SegmentsPreserved
<1>3. SegmInv => SegmentsDisjoint
  BY DEF SegmInv
<1> QED BY <1>1, <1>2, <1>3, PTL DEF RxSpec

(* State variables, window and timers of the receiver agree and none of    *)
(* its assertions fails, get_status_pdu()'s on the order of the missing    *)
(* bytes included, against such a peer; and if an allocation takes an SDU  *)
(* out of the window, only that on the SDU at RX_Next can fail.            *)
THEOREM RxCorrect == NoPduEncloses /\ RxSpec => []RxConsistent
<1> SUFFICES ASSUME NoPduEncloses PROVE RxSpec => []RxConsistent
  OBVIOUS
<1> DEFINE I == SegmInv /\ rx_abort # "nack_so_reversed"
<1>1. RxInit => I
  BY SegmentsInit DEF RxInit
<1>2. I /\ [RxNext]_rxVars => I'
  BY SegmentsPreserved, ReversedPreserved
<1>3. I => RxConsistent
  BY DEF SegmInv, RxInv, RxConsistent, RxAssertionsHold
<1> QED BY <1>1, <1>2, <1>3, PTL DEF RxSpec
=============================================================================
