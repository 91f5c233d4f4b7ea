-------------------------- MODULE MultiQueue_proofs --------------------------
(***************************************************************************)
(* multiqueue_handler for any number of pushing threads, any number of     *)
(* queues and any capacities: the circular buffers keep the order of the   *)
(* messages, the counters count the waiting threads, no wake-up is lost,   *)
(* and neither reset() nor stop() leaves a thread behind in push().        *)
(***************************************************************************)
EXTENDS MultiQueue, FiniteSetTheorems, SequenceTheorems, WellFoundedInduction, TLAPS

-----------------------------------------------------------------------------
(* The circular buffers                                                    *)

(* The constants as numbers.                                               *)
LEMMA Constants ==
  /\ MaxQueues \in Nat \ {0} /\ Queues = 1..MaxQueues /\ Queues \subseteq Nat \ {0} /\ 1 \in Queues
  /\ \A q \in Queues : Capacity[q] \in Nat \ {0}
  /\ IsFiniteSet(Pushers) /\ None = 0 /\ None \notin Pushers /\ None \notin Queues
BY QueueAssumption DEF Queues, None

(* An index goes around once at most.                                      *)
LEMMA Wrapped ==
  ASSUME NEW n \in Nat \ {0}, NEW x \in 0..(2 * n - 1)
  PROVE  x % n = (IF x < n THEN x ELSE x - n) /\ x % n \in 0..(n - 1)
OBVIOUS

(* The place behind n messages is none of theirs.                          *)
LEMMA PlaceBehind ==
  ASSUME NEW C \in Nat \ {0}, NEW r \in 0..(C - 1), NEW n \in 0..(C - 1)
  PROVE  /\ (r + n) % C \in 0..(C - 1)
         /\ \A i \in 1..n : (r + i - 1) % C # (r + n) % C /\ (r + i - 1) % C \in 0..(C - 1)
<1>2. (r + n) % C = (IF r + n < C THEN r + n ELSE r + n - C) /\ (r + n) % C \in 0..(C - 1)
  <2> DEFINE y == r + n
  <2>1. y \in 0..(2 * C - 1) OBVIOUS
  <2> HIDE DEF y
  <2>2. y % C = (IF y < C THEN y ELSE y - C) /\ y % C \in 0..(C - 1) BY <2>1, Wrapped
  <2> QED BY <2>2 DEF y
<1> SUFFICES ASSUME NEW i \in 1..n
             PROVE  (r + i - 1) % C # (r + n) % C /\ (r + i - 1) % C \in 0..(C - 1)
  BY <1>2
<1>3. r + i - 1 \in 0..(2 * C - 1) OBVIOUS
<1> DEFINE x == r + i - 1
<1>4. x % C = (IF x < C THEN x ELSE x - C) /\ x % C \in 0..(C - 1) BY <1>3, Wrapped
<1> QED BY <1>2, <1>4

(* Going on from the next place is the same as going on from this one.     *)
LEMMA NextPlace ==
  ASSUME NEW C \in Nat \ {0}, NEW r \in 0..(C - 1), NEW i \in 1..(C - 1), NEW r1, r1 = (r + 1) % C
  PROVE  /\ (r1 + i - 1) % C = (r + (i + 1) - 1) % C
         /\ (r1 + i - 1) % C # r /\ (r1 + i - 1) % C \in 0..(C - 1)
<1>2. r1 = (IF r + 1 < C THEN r + 1 ELSE r + 1 - C) /\ r1 \in 0..(C - 1)
  <2> DEFINE z == r + 1
  <2>1. z \in 0..(2 * C - 1) OBVIOUS
  <2> HIDE DEF z
  <2>2. z % C = (IF z < C THEN z ELSE z - C) /\ z % C \in 0..(C - 1) BY <2>1, Wrapped
  <2> QED BY <2>2 DEF z
<1> DEFINE x == r1 + i - 1  y == r + (i + 1) - 1
<1>3. x \in 0..(2 * C - 1) /\ y \in 0..(2 * C - 1) BY <1>2
<1> HIDE DEF x, y
<1>4. x % C = (IF x < C THEN x ELSE x - C) /\ x % C \in 0..(C - 1) BY <1>3, Wrapped
<1>5. y % C = (IF y < C THEN y ELSE y - C) BY <1>3, Wrapped
<1>6. x = r1 + i - 1 /\ y = r + i BY DEF x, y
<1>7. x % C = y % C /\ x % C # r BY <1>2, <1>3, <1>4, <1>5, <1>6
<1> QED BY <1>4, <1>7 DEF x, y

(* The buffers with their indices, which hold what they have to            *)
BuffersOK ==
  /\ DOMAIN buffer = Queues /\ rpos \in [Queues -> Nat] /\ count \in [Queues -> Nat]
  /\ fifo \in [Queues -> Seq(Message)]
  /\ \A q \in Queues : /\ rpos[q] \in 0..(Capacity[q] - 1) /\ count[q] \in 0..Capacity[q]
                       /\ buffer[q] \in [0..(Capacity[q] - 1) -> Message \cup {None}]
  /\ ContentsInOrder

(* A step changes one queue.                                               *)
LEMMA OneBuffer ==
  ASSUME BuffersOK, NEW q \in Queues, NEW b, NEW r, NEW n, NEW s \in Seq(Message),
         r \in 0..(Capacity[q] - 1), n \in 0..Capacity[q],
         b \in [0..(Capacity[q] - 1) -> Message \cup {None}],
         s = [i \in 1..n |-> b[(r + i - 1) % Capacity[q]]],
         buffer' = [buffer EXCEPT ![q] = b], rpos' = [rpos EXCEPT ![q] = r],
         count' = [count EXCEPT ![q] = n], fifo' = [fifo EXCEPT ![q] = s]
  PROVE  BuffersOK'
<1>1. Capacity[q] \in Nat /\ r \in Nat /\ n \in Nat BY Constants
<1>2. /\ buffer'[q] = b /\ rpos'[q] = r /\ count'[q] = n /\ fifo'[q] = s
      /\ \A x \in Queues \ {q} : /\ buffer'[x] = buffer[x] /\ rpos'[x] = rpos[x]
                                 /\ count'[x] = count[x] /\ fifo'[x] = fifo[x]
  BY DEF BuffersOK
<1>3. /\ DOMAIN buffer' = Queues /\ rpos' \in [Queues -> Nat] /\ count' \in [Queues -> Nat]
      /\ fifo' \in [Queues -> Seq(Message)]
  BY <1>1 DEF BuffersOK
<1>4. ASSUME NEW x \in Queues
      PROVE  /\ rpos'[x] \in 0..(Capacity[x] - 1) /\ count'[x] \in 0..Capacity[x]
             /\ buffer'[x] \in [0..(Capacity[x] - 1) -> Message \cup {None}]
             /\ fifo'[x] = [i \in 1..count'[x] |-> buffer'[x][(rpos'[x] + i - 1) % Capacity[x]]]
  <2>1. CASE x = q
    <3>1. /\ rpos'[x] = r /\ count'[x] = n /\ buffer'[x] = b /\ fifo'[x] = s BY <1>2, <2>1
    <3> QED BY <2>1, <3>1
  <2>2. CASE x # q BY <1>2, <2>2 DEF BuffersOK, ContentsInOrder
  <2> QED BY <2>1, <2>2
<1>5. ContentsInOrder' BY <1>4 DEF ContentsInOrder
<1> QED BY <1>3, <1>4, <1>5 DEF BuffersOK

(* A step changes none.                                                    *)
LEMMA BuffersUnchanged == BuffersOK /\ UNCHANGED <<buffer, rpos, count, fifo>> => BuffersOK'
BY DEF BuffersOK, ContentsInOrder

(* The place behind the last message is not one of theirs.                 *)
LEMMA PushBuffers ==
  ASSUME BuffersOK, NEW q \in Queues, NEW m \in Message, ~full(q), push(q, m)
  PROVE  BuffersOK'
<1> DEFINE C == Capacity[q]  r == rpos[q]  n == count[q]  b == buffer[q]
           w == (r + n) % C
<1>1. /\ C \in Nat \ {0} /\ r \in 0..(C - 1) /\ n \in 0..(C - 1)
      /\ b \in [0..(C - 1) -> Message \cup {None}]
      /\ fifo[q] = [i \in 1..n |-> b[(r + i - 1) % C]] /\ fifo[q] \in Seq(Message)
  BY Constants DEF BuffersOK, ContentsInOrder, full
<1>2. /\ buffer' = [buffer EXCEPT ![q] = [b EXCEPT ![w] = m]]
      /\ count' = [count EXCEPT ![q] = n + 1] /\ rpos' = rpos
      /\ fifo' = [fifo EXCEPT ![q] = Append(fifo[q], m)]
  BY DEF push, wpos
<1>3. /\ buffer'[q] = [b EXCEPT ![w] = m] /\ count'[q] = n + 1 /\ rpos'[q] = r
      /\ fifo'[q] = Append(fifo[q], m)
  BY <1>2 DEF BuffersOK
<1>4. w \in 0..(C - 1) /\ \A i \in 1..n : (r + i - 1) % C # w /\ (r + i - 1) % C \in 0..(C - 1)
  <2> HIDE DEF C, r, n
  <2> QED BY <1>1, PlaceBehind
<1>5. fifo'[q] = [i \in 1..(n + 1) |-> buffer'[q][(r + i - 1) % C]]
  <2> DEFINE s == fifo[q]  f == [i \in 1..(n + 1) |-> buffer'[q][(r + i - 1) % C]]
  <2>1. Len(s) = n /\ s \in Seq(Message) BY <1>1
  <2>2. /\ Append(s, m) \in Seq(Message) /\ Len(Append(s, m)) = n + 1
        /\ \A i \in 1..n : Append(s, m)[i] = s[i] /\ Append(s, m)[n + 1] = m
    BY <2>1, AppendProperties
  <2>3. \A i \in 1..n : f[i] = s[i] BY <1>1, <1>3, <1>4
  <2>4. f[n + 1] = m
    <3>1. r + (n + 1) - 1 = r + n /\ n + 1 \in 1..(n + 1) BY <1>1
    <3> QED BY <1>1, <1>3, <1>4, <3>1
  <2>5. DOMAIN Append(s, m) = 1..(n + 1) BY <2>2
  <2>6. \A i \in 1..(n + 1) : i \in 1..n \/ i = n + 1 BY <1>1
  <2> HIDE DEF f, s, n
  <2>7. \A i \in 1..(n + 1) : f[i] = Append(s, m)[i] BY <1>1, <2>2, <2>3, <2>4, <2>6
  <2>8. f = [i \in 1..(n + 1) |-> f[i]] BY DEF f
  <2>9. Append(s, m) = [i \in 1..(n + 1) |-> Append(s, m)[i]]
    <3>1. Append(s, m) \in [1..(n + 1) -> Message] BY <2>2, LenProperties
    <3> QED BY <3>1
  <2> QED BY <1>3, <2>7, <2>8, <2>9 DEF s, f
<1>6. [b EXCEPT ![w] = m] \in [0..(C - 1) -> Message \cup {None}] BY <1>1, <1>4
<1>7. n + 1 \in 0..C BY <1>1
<1>8. Append(fifo[q], m) \in Seq(Message) BY <1>1, AppendProperties
<1>9. Append(fifo[q], m) = [i \in 1..(n + 1) |-> [b EXCEPT ![w] = m][(r + i - 1) % C]]
  BY <1>3, <1>5
<1>10. rpos' = [rpos EXCEPT ![q] = r] BY <1>2 DEF BuffersOK
<1> HIDE DEF w
<1> QED BY <1>1, <1>2, <1>6, <1>7, <1>8, <1>9, <1>10, OneBuffer

(* The first message is taken, the others keep their places.               *)
LEMMA PopBuffers ==
  ASSUME BuffersOK, NEW q \in Queues, ~empty(q), pop(q)
  PROVE  BuffersOK'
<1> DEFINE C == Capacity[q]  r == rpos[q]  n == count[q]  b == buffer[q]  s == fifo[q]
           r1 == (r + 1) % C  b1 == [b EXCEPT ![r] = None]
<1>1. /\ C \in Nat \ {0} /\ r \in 0..(C - 1) /\ n \in 1..C
      /\ b \in [0..(C - 1) -> Message \cup {None}]
      /\ s = [i \in 1..n |-> b[(r + i - 1) % C]] /\ s \in Seq(Message)
  BY Constants DEF BuffersOK, ContentsInOrder, empty
<1>2. /\ buffer' = [buffer EXCEPT ![q] = b1] /\ rpos' = [rpos EXCEPT ![q] = r1]
      /\ count' = [count EXCEPT ![q] = n - 1] /\ fifo' = [fifo EXCEPT ![q] = Tail(s)]
  BY DEF pop
<1>3. r1 \in 0..(C - 1) /\ b1 \in [0..(C - 1) -> Message \cup {None}] /\ n - 1 \in 0..C
  <2>1. r1 \in 0..(C - 1)
    <3> HIDE DEF C, r
    <3>1. r + 1 \in 0..(2 * C - 1) BY <1>1
    <3> QED BY <1>1, <3>1, Wrapped
  <2> QED BY <1>1, <2>1
<1>4. \A i \in 1..(n - 1) : /\ (r1 + i - 1) % C = (r + (i + 1) - 1) % C
                            /\ (r1 + i - 1) % C # r /\ (r1 + i - 1) % C \in 0..(C - 1)
  <2> HIDE DEF C, r, n, b
  <2>1. \A i \in 1..(n - 1) : i \in 1..(C - 1) BY <1>1
  <2> QED BY <1>1, <2>1, NextPlace
<1>5. Tail(s) = [i \in 1..(n - 1) |-> b1[(r1 + i - 1) % C]] /\ Tail(s) \in Seq(Message)
  <2> DEFINE f == [i \in 1..(n - 1) |-> b1[(r1 + i - 1) % C]]
  <2>1. Len(s) = n /\ s # <<>> BY <1>1
  <2>2. /\ Tail(s) \in Seq(Message) /\ Len(Tail(s)) = n - 1
        /\ \A i \in 1..(n - 1) : Tail(s)[i] = s[i + 1]
    BY <1>1, <2>1, HeadTailProperties
  <2>3. \A i \in 1..(n - 1) : f[i] = s[i + 1]
    <3> SUFFICES ASSUME NEW i \in 1..(n - 1) PROVE f[i] = s[i + 1] OBVIOUS
    <3>1. f[i] = b[(r + (i + 1) - 1) % C] BY <1>1, <1>4
    <3>2. i + 1 \in 1..n BY <1>1
    <3> QED BY <1>1, <3>1, <3>2
  <2>4. DOMAIN Tail(s) = 1..(n - 1) /\ Tail(s) \in [1..(n - 1) -> Message]
    BY <2>2, LenProperties
  <2> HIDE DEF f, s, n
  <2>5. \A i \in 1..(n - 1) : f[i] = Tail(s)[i] BY <2>2, <2>3
  <2>6. f = [i \in 1..(n - 1) |-> f[i]] BY DEF f
  <2>7. Tail(s) = [i \in 1..(n - 1) |-> Tail(s)[i]] BY <2>4
  <2> QED BY <2>2, <2>5, <2>6, <2>7 DEF f
<1> HIDE DEF r1, b1
<1> QED BY <1>2, <1>3, <1>5, OneBuffer

(* Nothing is left.                                                        *)
LEMMA ClearBuffers ==
  ASSUME BuffersOK, NEW q \in Queues, clear(q)
  PROVE  BuffersOK'
<1> DEFINE b == [i \in 0..(Capacity[q] - 1) |-> None]
<1>1. Capacity[q] \in Nat \ {0} /\ rpos[q] \in 0..(Capacity[q] - 1)
  BY Constants DEF BuffersOK
<1>2. 0 \in 0..Capacity[q] /\ b \in [0..(Capacity[q] - 1) -> Message \cup {None}] /\ <<>> \in Seq(Message)
  BY <1>1
<1>3. <<>> = [i \in 1..0 |-> b[(rpos[q] + i - 1) % Capacity[q]]] OBVIOUS
<1>4. /\ buffer' = [buffer EXCEPT ![q] = b] /\ rpos' = [rpos EXCEPT ![q] = rpos[q]]
      /\ count' = [count EXCEPT ![q] = 0] /\ fifo' = [fifo EXCEPT ![q] = <<>>]
  BY DEF clear, BuffersOK
<1> HIDE DEF b
<1> QED BY <1>1, <1>2, <1>3, <1>4, OneBuffer

-----------------------------------------------------------------------------
(* The inductive invariant                                                 *)

ConsumerAt == {"out", "asleep", "search", "notify", "leaving", "ended"}
OwnerAt    == {"idle", "set", "notify", "check", "waiting", "cv", "cv_woken"}

HandlerOK ==
  /\ mutex \in {"free", "consumer", "owner"} /\ running \in BOOLEAN /\ consumer_state \in BOOLEAN
  /\ nof_queues \in 0..MaxQueues /\ spin_idx \in Nat /\ (spin_idx = 0 \/ spin_idx < nof_queues)
  /\ active \in [Queues -> BOOLEAN] /\ handles \subseteq 1..nof_queues
  /\ consumer \in [at : ConsumerAt, q : Queues \cup {None}, count : Nat, collisions : Nat]
  /\ consumer.at \in {"search", "notify"} =>
       consumer.q \in Queues /\ (consumer.q <= nof_queues \/ consumer.q = 1)
  /\ owner \in [at : OwnerAt, q : Nat, for : {"none", "reset", "recycle", "signal", "join"}]

(* A thread that is in a call is at a queue                                *)
AtQueue == {p \in PusherState : p.at = "idle" \/ p.q \in Queues}

WaitersOK ==
  /\ pusher \in [Pushers -> AtQueue] /\ nof_waiting \in [Queues -> Nat]
  /\ WaitersCounted

(* What reset() and stop() have got to: the queues they have passed are    *)
(* not active, after the join phase nobody is inside them, and a queue is  *)
(* active only as long as there is a handle of it.                         *)
OwnerOK ==
  /\ owner.at = "idle" <=> owner.for = "none"
  /\ owner.at \in {"notify", "check", "waiting"} => owner.q \in 1..nof_queues /\ ~active[owner.q]
  /\ owner.for \in {"reset", "recycle"} =>
       owner.q \in 1..nof_queues /\ owner.at \in {"set", "notify", "check", "waiting"}
  /\ owner.for = "signal" =>
       /\ owner.at \in {"set", "notify", "cv", "cv_woken"}
       /\ \A q \in 1..nof_queues : q < owner.q => ~active[q]
  /\ owner.at \in {"cv", "cv_woken"} => owner.for = "signal" /\ owner.q > nof_queues
  /\ owner.for = "join" =>
       /\ owner.at \in {"set", "check", "waiting"}
       /\ \A q \in Queues : q < owner.q => inside(q) = {}
  /\ owner.for \in {"signal", "join"} => owner.q >= 1 /\ ~running
  /\ ~running /\ owner.for # "signal" => \A q \in Queues : ~active[q]
  /\ \A q \in Queues : active[q] =>
       q <= nof_queues /\ (q \in handles \/ (owner.for = "reset" /\ owner.q = q))
  /\ \A q \in Queues : inside(q) # {} => q <= nof_queues

QInv == /\ BuffersOK /\ HandlerOK /\ WaitersOK /\ OwnerOK
        /\ NoLostWakeUp /\ NoPusherLeftBehind

(* The threads at a queue are finitely many.                               *)
LEMMA ThreadSets ==
  ASSUME NEW q
  PROVE  /\ inside(q) \subseteq Pushers /\ waiting(q) \subseteq inside(q)
         /\ IsFiniteSet(inside(q)) /\ IsFiniteSet(Woken(q))
         /\ Cardinality(inside(q)) \in Nat /\ Cardinality(Woken(q)) \in Nat
         /\ Cardinality(inside(q)) <= Cardinality(Pushers)
         /\ Cardinality(inside(q)) = 0 <=> inside(q) = {}
<1>1. inside(q) \subseteq Pushers /\ waiting(q) \subseteq inside(q) BY DEF inside, waiting
<1>2. Woken(q) \subseteq Pushers BY <1>1 DEF Woken
<1>3. IsFiniteSet(inside(q)) /\ IsFiniteSet(Woken(q)) /\ Cardinality(inside(q)) <= Cardinality(Pushers)
  BY <1>1, <1>2, Constants, FS_Subset
<1> QED BY <1>1, <1>3, FS_CardinalityType, FS_EmptySet

(* A thread goes from one state to another.                                *)
LEMMA MovePusher ==
  ASSUME pusher \in [Pushers -> AtQueue], NEW t \in Pushers, NEW r \in AtQueue,
         pusher' = [pusher EXCEPT ![t] = r]
  PROVE  /\ pusher' \in [Pushers -> AtQueue]
         /\ \A q \in Queues :
              /\ inside(q)' = IF r.at \in {"blocked", "woken"} /\ r.q = q
                                THEN inside(q) \cup {t} ELSE inside(q) \ {t}
              /\ waiting(q)' = IF r.at = "blocked" /\ r.q = q
                                THEN waiting(q) \cup {t} ELSE waiting(q) \ {t}
              /\ Woken(q)' = IF r.at = "woken" /\ r.q = q
                                THEN Woken(q) \cup {t} ELSE Woken(q) \ {t}
              /\ t \in inside(q) <=> pusher[t].at \in {"blocked", "woken"} /\ pusher[t].q = q
              /\ t \in waiting(q) <=> pusher[t].at = "blocked" /\ pusher[t].q = q
              /\ t \in Woken(q) <=> pusher[t].at = "woken" /\ pusher[t].q = q
<1>1. pusher' \in [Pushers -> AtQueue] /\ pusher'[t] = r
      /\ \A u \in Pushers \ {t} : pusher'[u] = pusher[u]
  OBVIOUS
<1> SUFFICES ASSUME NEW q \in Queues
             PROVE  /\ inside(q)' = IF r.at \in {"blocked", "woken"} /\ r.q = q
                                      THEN inside(q) \cup {t} ELSE inside(q) \ {t}
                    /\ waiting(q)' = IF r.at = "blocked" /\ r.q = q
                                      THEN waiting(q) \cup {t} ELSE waiting(q) \ {t}
                    /\ Woken(q)' = IF r.at = "woken" /\ r.q = q
                                      THEN Woken(q) \cup {t} ELSE Woken(q) \ {t}
                    /\ t \in inside(q) <=> pusher[t].at \in {"blocked", "woken"} /\ pusher[t].q = q
                    /\ t \in waiting(q) <=> pusher[t].at = "blocked" /\ pusher[t].q = q
                    /\ t \in Woken(q) <=> pusher[t].at = "woken" /\ pusher[t].q = q
  BY <1>1
<1>2. \A p \in AtQueue : p = [at |-> "blocked", q |-> q] <=> p.at = "blocked" /\ p.q = q
  BY DEF AtQueue, PusherState
<1>3. waiting(q) = {u \in Pushers : pusher[u].at = "blocked" /\ pusher[u].q = q}
  BY <1>2 DEF waiting
<1>4. waiting(q)' = {u \in Pushers : pusher'[u].at = "blocked" /\ pusher'[u].q = q}
  BY <1>1, <1>2 DEF waiting
<1>5. Woken(q) = {u \in Pushers : pusher[u].at = "woken" /\ pusher[u].q = q}
  BY <1>3 DEF Woken, inside
<1>6. Woken(q)' = {u \in Pushers : pusher'[u].at = "woken" /\ pusher'[u].q = q}
  BY <1>4 DEF Woken, inside
<1>7. inside(q)' = IF r.at \in {"blocked", "woken"} /\ r.q = q THEN inside(q) \cup {t} ELSE inside(q) \ {t}
  BY <1>1 DEF inside
<1>8. waiting(q)' = IF r.at = "blocked" /\ r.q = q THEN waiting(q) \cup {t} ELSE waiting(q) \ {t}
  BY <1>1, <1>3, <1>4
<1>9. Woken(q)' = IF r.at = "woken" /\ r.q = q THEN Woken(q) \cup {t} ELSE Woken(q) \ {t}
  BY <1>1, <1>5, <1>6
<1> QED BY <1>3, <1>5, <1>7, <1>8, <1>9 DEF inside

(* Where a thread is.                                                      *)
LEMMA Placed ==
  ASSUME pusher \in [Pushers -> AtQueue], NEW t \in Pushers
  PROVE  \A q \in Queues :
           /\ t \in inside(q) <=> pusher[t].at \in {"blocked", "woken"} /\ pusher[t].q = q
           /\ t \in waiting(q) <=> pusher[t].at = "blocked" /\ pusher[t].q = q
           /\ t \in Woken(q) <=> pusher[t].at = "woken" /\ pusher[t].q = q
<1> SUFFICES ASSUME NEW q \in Queues
             PROVE  /\ t \in inside(q) <=> pusher[t].at \in {"blocked", "woken"} /\ pusher[t].q = q
                    /\ t \in waiting(q) <=> pusher[t].at = "blocked" /\ pusher[t].q = q
                    /\ t \in Woken(q) <=> pusher[t].at = "woken" /\ pusher[t].q = q
  OBVIOUS
<1>1. \A p \in AtQueue : p = [at |-> "blocked", q |-> q] <=> p.at = "blocked" /\ p.q = q
  BY DEF AtQueue, PusherState
<1>2. t \in waiting(q) <=> pusher[t].at = "blocked" /\ pusher[t].q = q BY <1>1 DEF waiting
<1> QED BY <1>2 DEF Woken, inside

(* No thread goes anywhere.                                                *)
LEMMA PushersUnchanged ==
  UNCHANGED pusher => \A q \in Queues : /\ inside(q)' = inside(q) /\ waiting(q)' = waiting(q)
                                        /\ Woken(q)' = Woken(q)
BY DEF inside, waiting, Woken

(* With fewer threads inside, what is said of the owner still holds.       *)
LEMMA FewerInside ==
  ASSUME OwnerOK, NoPusherLeftBehind, \A x \in Queues : inside(x)' \subseteq inside(x),
         UNCHANGED <<active, owner, handles, nof_queues, running>>
  PROVE  OwnerOK' /\ NoPusherLeftBehind'
BY DEF OwnerOK, NoPusherLeftBehind

(* The handler, the popping thread and the owner do nothing.               *)
LEMMA HandlerUnchanged ==
  HandlerOK /\ UNCHANGED <<handlerVars, active, consumer, owner, handles>> => HandlerOK'
BY DEF HandlerOK, handlerVars

(* The loop of push_(): a thread waits only at a full queue, and one that  *)
(* had been woken uses the place it was woken for.                         *)
LEMMA PushLoop ==
  ASSUME QInv, NEW t \in Pushers, NEW q \in Queues, NEW waited \in {0, 1},
         waited = 0 => pusher[t] = Idle,
         waited = 1 => pusher[t].at = "woken" /\ pusher[t].q = q,
         push_loop(t, q, waited), UNCHANGED <<handlerVars, consumer, owner, handles>>
  PROVE  QInv'
<1> USE DEF QInv
<1>0. /\ pusher \in [Pushers -> AtQueue] /\ nof_waiting \in [Queues -> Nat]
      /\ count[q] \in Nat /\ Capacity[q] \in Nat /\ count[q] <= Capacity[q]
      /\ \A x \in Queues : nof_waiting[x] = Cardinality(inside(x))
      /\ active' = active
  <2>1. active' = active BY DEF push_loop
  <2>2. Capacity[q] \in Nat /\ count[q] \in 0..Capacity[q] BY Constants DEF BuffersOK
  <2> QED BY <2>1, <2>2 DEF WaitersOK, WaitersCounted
<1>1. HandlerOK' BY <1>0, HandlerUnchanged
<1>2. /\ waited = 1 <=> t \in inside(q)
      /\ \A x \in Queues : x # q => t \notin inside(x)
      /\ \A x \in Queues : t \notin waiting(x)
      /\ waited = 1 <=> t \in Woken(q)
      /\ \A x \in Queues : x # q => t \notin Woken(x)
  <2>1. waited = 0 => pusher[t].at = "idle" BY DEF Idle
  <2> QED BY <1>0, <2>1, Placed
<1>3. CASE /\ active[q] /\ full(q)
           /\ nof_waiting' = [nof_waiting EXCEPT ![q] = @ - waited + 1]
           /\ pusher' = [pusher EXCEPT ![t] = [at |-> "blocked", q |-> q]]
           /\ UNCHANGED <<active, buffer, rpos, count, fifo>>
  <2> DEFINE r == [at |-> "blocked", q |-> q]
  <2>1. r \in AtQueue /\ r.at = "blocked" /\ r.q = q BY DEF AtQueue, PusherState
  <2> HIDE DEF r
  <2>2. pusher' = [pusher EXCEPT ![t] = r] BY <1>3 DEF r
  <2>3. /\ pusher' \in [Pushers -> AtQueue]
        /\ \A x \in Queues :
             /\ inside(x)' = (IF x = q THEN inside(x) \cup {t} ELSE inside(x))
             /\ waiting(x)' = (IF x = q THEN waiting(x) \cup {t} ELSE waiting(x))
             /\ Woken(x)' = (IF x = q THEN Woken(x) \ {t} ELSE Woken(x))
    <3>1. /\ pusher' \in [Pushers -> AtQueue]
          /\ \A x \in Queues :
             /\ inside(x)' = (IF x = q THEN inside(x) \cup {t} ELSE inside(x) \ {t})
             /\ waiting(x)' = (IF x = q THEN waiting(x) \cup {t} ELSE waiting(x) \ {t})
             /\ Woken(x)' = Woken(x) \ {t}
      <4>1. r.at \in {"blocked", "woken"} /\ r.at # "woken" BY <2>1
      <4>2. /\ pusher' \in [Pushers -> AtQueue]
            /\ \A x \in Queues :
                 /\ inside(x)' = IF r.at \in {"blocked", "woken"} /\ r.q = x
                                   THEN inside(x) \cup {t} ELSE inside(x) \ {t}
                 /\ waiting(x)' = IF r.at = "blocked" /\ r.q = x
                                   THEN waiting(x) \cup {t} ELSE waiting(x) \ {t}
                 /\ Woken(x)' = IF r.at = "woken" /\ r.q = x
                                   THEN Woken(x) \cup {t} ELSE Woken(x) \ {t}
        BY <1>0, <2>1, <2>2, MovePusher
      <4> QED BY <2>1, <4>1, <4>2
    <3>2. \A x \in Queues : x # q => /\ inside(x) \ {t} = inside(x) /\ waiting(x) \ {t} = waiting(x)
                                    /\ Woken(x) \ {t} = Woken(x)
      BY <1>2
    <3> QED BY <3>1, <3>2
  <2>4. BuffersOK' BY <1>3, BuffersUnchanged
  <2>5. WaitersOK'
    <3>1. Cardinality(inside(q) \cup {t}) = Cardinality(inside(q)) - waited + 1
      <4>1. Cardinality(inside(q)) \in Nat /\ IsFiniteSet(inside(q)) BY ThreadSets
      <4>2. Cardinality(inside(q) \cup {t}) =
              IF t \in inside(q) THEN Cardinality(inside(q)) ELSE Cardinality(inside(q)) + 1
        BY <4>1, FS_AddElement
      <4> QED BY <1>2, <4>1, <4>2
    <3>2. nof_waiting'[q] = Cardinality(inside(q)') /\ nof_waiting'[q] \in Nat
      <4>1. Cardinality(inside(q)') = Cardinality(inside(q)) - waited + 1 BY <2>3, <3>1
      <4>2. nof_waiting'[q] = nof_waiting[q] - waited + 1 BY <1>0, <1>3
      <4>3. Cardinality(inside(q)) \in Nat BY ThreadSets
      <4>4. waited = 1 => Cardinality(inside(q)) # 0 BY <1>2, ThreadSets
      <4> QED BY <1>0, <4>1, <4>2, <4>3, <4>4
    <3>3. \A x \in Queues : x # q => nof_waiting'[x] = Cardinality(inside(x)')
      BY <1>0, <1>3, <2>3
    <3>4. nof_waiting' \in [Queues -> Nat] BY <1>0, <1>3, <3>2
    <3> QED BY <2>3, <3>2, <3>3, <3>4 DEF WaitersOK, WaitersCounted
  <2>6. OwnerOK'
    <3>1. q <= nof_queues /\ owner.for # "join" BY <1>3 DEF OwnerOK
    <3> QED BY <1>0, <2>3, <3>1 DEF OwnerOK, handlerVars
  <2>7. NoLostWakeUp'
    <3>1. ASSUME NEW x \in Queues, waiting(x)' # {}
          PROVE  IF active'[x]
                  THEN Capacity[x] - count'[x] <=
                       Cardinality(Woken(x)') + (IF consumer'.at = "notify" /\ consumer'.q = x THEN 1 ELSE 0)
                  ELSE owner'.at = "notify" /\ owner'.q = x
      <4>1. CASE x = q
        <5>1. Capacity[q] - count'[q] = 0 BY <1>0, <1>3 DEF full
        <5>2. Cardinality(Woken(q) \ {t}) \in Nat
          BY ThreadSets, FS_RemoveElement, FS_CardinalityType
        <5>3. active'[q] BY <1>3
        <5>4. Cardinality(Woken(q)') \in Nat BY <2>3, <5>2
        <5> QED BY <4>1, <5>1, <5>3, <5>4
      <4>2. CASE x # q BY <1>0, <1>3, <2>3, <3>1, <4>2 DEF NoLostWakeUp
      <4> QED BY <4>1, <4>2
    <3> QED BY <3>1 DEF NoLostWakeUp
  <2>8. NoPusherLeftBehind'
    <3>1. q \in handles \/ (owner.for = "reset" /\ owner.q = q) BY <1>3 DEF OwnerOK
    <3>2. owner.for = "reset" => owner.at # "idle" BY DEF OwnerOK
    <3> QED BY <1>0, <1>3, <2>3, <3>1, <3>2 DEF NoPusherLeftBehind
  <2> QED BY <1>1, <2>4, <2>5, <2>6, <2>7, <2>8
<1>4. ASSUME NEW r \in AtQueue, r.at \notin {"blocked", "woken"},
             pusher' = [pusher EXCEPT ![t] = r],
             nof_waiting' = [nof_waiting EXCEPT ![q] = @ - waited]
      PROVE  /\ WaitersOK' /\ OwnerOK' /\ NoPusherLeftBehind'
             /\ \A x \in Queues :
                  /\ waiting(x)' = waiting(x)
                  /\ Cardinality(Woken(x)') = Cardinality(Woken(x)) - (IF x = q THEN waited ELSE 0)
  <2>1. /\ pusher' \in [Pushers -> AtQueue]
        /\ \A x \in Queues :
             /\ inside(x)' = (IF x = q THEN inside(x) \ {t} ELSE inside(x))
             /\ waiting(x)' = waiting(x)
             /\ Woken(x)' = (IF x = q THEN Woken(x) \ {t} ELSE Woken(x))
    <3>1. /\ pusher' \in [Pushers -> AtQueue]
          /\ \A x \in Queues : /\ inside(x)' = inside(x) \ {t} /\ waiting(x)' = waiting(x) \ {t}
                               /\ Woken(x)' = Woken(x) \ {t}
      BY <1>0, <1>4, MovePusher
    <3>2. \A x \in Queues : /\ waiting(x) \ {t} = waiting(x)
                            /\ x # q => inside(x) \ {t} = inside(x) /\ Woken(x) \ {t} = Woken(x)
      BY <1>2
    <3> QED BY <3>1, <3>2
  <2>2. Cardinality(inside(q) \ {t}) = Cardinality(inside(q)) - waited
    <3>1. Cardinality(inside(q)) \in Nat /\ IsFiniteSet(inside(q)) BY ThreadSets
    <3>2. Cardinality(inside(q) \ {t}) =
            IF t \in inside(q) THEN Cardinality(inside(q)) - 1 ELSE Cardinality(inside(q))
      BY <3>1, FS_RemoveElement
    <3> QED BY <1>2, <3>1, <3>2
  <2>3. Cardinality(Woken(q) \ {t}) = Cardinality(Woken(q)) - waited
    <3>1. Cardinality(Woken(q)) \in Nat /\ IsFiniteSet(Woken(q)) BY ThreadSets
    <3>2. Cardinality(Woken(q) \ {t}) =
            IF t \in Woken(q) THEN Cardinality(Woken(q)) - 1 ELSE Cardinality(Woken(q))
      BY <3>1, FS_RemoveElement
    <3> QED BY <1>2, <3>1, <3>2
  <2>4. WaitersOK'
    <3>1. nof_waiting'[q] = Cardinality(inside(q)') /\ nof_waiting'[q] \in Nat
      <4>1. nof_waiting'[q] = Cardinality(inside(q) \ {t}) BY <1>0, <1>4, <2>2
      <4>2. IsFiniteSet(inside(q) \ {t}) BY ThreadSets, FS_RemoveElement
      <4> QED BY <2>1, <4>1, <4>2, FS_CardinalityType
    <3>2. \A x \in Queues : x # q => nof_waiting'[x] = Cardinality(inside(x)')
      BY <1>0, <1>4, <2>1
    <3>3. nof_waiting' \in [Queues -> Nat] BY <1>0, <1>4, <3>1
    <3> QED BY <2>1, <3>1, <3>2, <3>3 DEF WaitersOK, WaitersCounted
  <2>5. OwnerOK' /\ NoPusherLeftBehind'
    BY <1>0, <2>1, FewerInside DEF handlerVars
  <2>6. \A x \in Queues : Cardinality(Woken(x)) \in Nat BY ThreadSets
  <2>7. \A x \in Queues : Cardinality(Woken(x)') = Cardinality(Woken(x)) - (IF x = q THEN waited ELSE 0)
    <3>1. Cardinality(Woken(q)') = Cardinality(Woken(q)) - waited BY <2>1, <2>3
    <3>2. \A x \in Queues : x # q => Cardinality(Woken(x)') = Cardinality(Woken(x)) - 0
      BY <2>1, <2>6
    <3> QED BY <3>1, <3>2
  <2> QED BY <2>1, <2>4, <2>5, <2>7
<1>5. CASE /\ ~active[q]
           /\ nof_waiting' = [nof_waiting EXCEPT ![q] = @ - waited]
           /\ pusher' = [pusher EXCEPT ![t] = [at |-> "leaving", q |-> q]]
           /\ UNCHANGED <<active, buffer, rpos, count, fifo>>
  <2>1. [at |-> "leaving", q |-> q] \in AtQueue BY DEF AtQueue, PusherState
  <2>2. /\ WaitersOK' /\ OwnerOK' /\ NoPusherLeftBehind'
        /\ \A x \in Queues :
                  /\ waiting(x)' = waiting(x)
                  /\ Cardinality(Woken(x)') = Cardinality(Woken(x)) - (IF x = q THEN waited ELSE 0)
    BY <1>4, <1>5, <2>1
  <2>3. NoLostWakeUp'
    <3>1. \A x \in Queues : Cardinality(Woken(x)) \in Nat BY ThreadSets
    <3>2. \A x \in Queues : x # q => Cardinality(Woken(x)') = Cardinality(Woken(x)) BY <2>2, <3>1
    <3> QED BY <1>5, <2>2, <3>2 DEF NoLostWakeUp
  <2> QED BY <1>1, <1>5, <2>2, <2>3, BuffersUnchanged
<1>6. CASE /\ active[q] /\ ~full(q)
           /\ nof_waiting' = [nof_waiting EXCEPT ![q] = @ - waited]
           /\ push(q, t)
           /\ pusher' = [pusher EXCEPT ![t] = Idle]
           /\ UNCHANGED active
  <2>1. Idle \in AtQueue /\ Idle.at = "idle" BY DEF AtQueue, PusherState, Idle
  <2>2. /\ WaitersOK' /\ OwnerOK' /\ NoPusherLeftBehind'
        /\ \A x \in Queues :
                  /\ waiting(x)' = waiting(x)
                  /\ Cardinality(Woken(x)') = Cardinality(Woken(x)) - (IF x = q THEN waited ELSE 0)
    BY <1>4, <1>6, <2>1
  <2>3. BuffersOK' BY <1>6, PushBuffers DEF Message
  <2>4. NoLostWakeUp'
    <3> SUFFICES ASSUME NEW x \in Queues, waiting(x) # {}
                 PROVE  IF active[x]
                          THEN Capacity[x] - count'[x] <=
                               Cardinality(Woken(x)') + (IF consumer.at = "notify" /\ consumer.q = x THEN 1 ELSE 0)
                          ELSE owner.at = "notify" /\ owner.q = x
      BY <1>0, <2>2 DEF NoLostWakeUp
    <3>1. count'[x] = count[x] + (IF x = q THEN 1 ELSE 0) BY <1>6 DEF push, BuffersOK
    <3>2. Cardinality(Woken(x)) \in Nat /\ count[x] \in Nat /\ Capacity[x] \in Nat
      BY ThreadSets, Constants DEF BuffersOK
    <3>3. IF active[x]
            THEN Capacity[x] - count[x] <=
                 Cardinality(Woken(x)) + (IF consumer.at = "notify" /\ consumer.q = x THEN 1 ELSE 0)
            ELSE owner.at = "notify" /\ owner.q = x
      BY DEF NoLostWakeUp
    <3> QED BY <2>2, <3>1, <3>2, <3>3
  <2> QED BY <1>1, <2>2, <2>3, <2>4
<1> QED BY <1>3, <1>5, <1>6 DEF push_loop

(* push() is called.                                                       *)
LEMMA PushQInv == ASSUME QInv, NEW t \in Pushers, NEW q \in Queues, Push(t, q) PROVE QInv'
BY PushLoop DEF Push

(* A thread that was woken goes on in the loop.                            *)
LEMMA RetryQInv == ASSUME QInv, NEW t \in Pushers, Retry(t) PROVE QInv'
<1>1. pusher[t].at = "woken" /\ pusher[t].q \in Queues
  <2>1. pusher[t] \in AtQueue BY DEF QInv, WaitersOK
  <2> QED BY <2>1 DEF Retry, AtQueue
<1> QED BY <1>1, PushLoop DEF Retry

(* What is waited for stays when neither the threads nor the places        *)
(* change: no notification that is due is taken back.                      *)
LEMMA WakeUpsKept ==
  ASSUME QInv, \A x \in Queues : waiting(x)' = waiting(x) /\ Woken(x)' = Woken(x),
         UNCHANGED <<active, count>>, consumer.at # "notify" \/ consumer' = consumer,
         owner.at = "notify" => owner'.at = "notify" /\ owner'.q = owner.q
  PROVE  NoLostWakeUp'
<1> SUFFICES ASSUME NEW x \in Queues, waiting(x) # {}
             PROVE  IF active[x]
                      THEN Capacity[x] - count[x] <=
                           Cardinality(Woken(x)) + (IF consumer'.at = "notify" /\ consumer'.q = x THEN 1 ELSE 0)
                      ELSE owner'.at = "notify" /\ owner'.q = x
  BY DEF NoLostWakeUp
<1>1. IF active[x]
        THEN Capacity[x] - count[x] <=
             Cardinality(Woken(x)) + (IF consumer.at = "notify" /\ consumer.q = x THEN 1 ELSE 0)
        ELSE owner.at = "notify" /\ owner.q = x
  BY DEF QInv, NoLostWakeUp
<1>2. CASE consumer' = consumer BY <1>1, <1>2
<1>3. CASE consumer.at # "notify"
  <2>1. Cardinality(Woken(x)) \in Nat /\ count[x] \in Nat /\ Capacity[x] \in Nat
    BY ThreadSets, Constants DEF QInv, BuffersOK
  <2> QED BY <1>1, <1>3, <2>1
<1> QED BY <1>2, <1>3

(* try_push() does not wait.                                               *)
LEMMA TryPushQInv == ASSUME QInv, NEW t \in Pushers, NEW q \in Queues, TryPush(t, q) PROVE QInv'
<1> USE DEF QInv, TryPush, threads
<1>0. UNCHANGED <<handlerVars, active, nof_waiting, pusher, consumer, owner, handles>>
  BY DEF portVars
<1>1. \A x \in Queues : inside(x)' = inside(x) /\ waiting(x)' = waiting(x) /\ Woken(x)' = Woken(x)
  BY <1>0, PushersUnchanged
<1>2. HandlerOK' BY <1>0, HandlerUnchanged
<1>3. OwnerOK' /\ NoPusherLeftBehind' BY <1>0, <1>1, FewerInside DEF handlerVars
<1>4. WaitersOK' BY <1>0, <1>1 DEF WaitersOK, WaitersCounted
<1>5. CASE active[q] /\ ~full(q) /\ push(q, t)
  <2>1. BuffersOK' BY <1>5, PushBuffers DEF Message
  <2>2. NoLostWakeUp'
    <3> SUFFICES ASSUME NEW x \in Queues, waiting(x) # {}
                 PROVE  IF active[x]
                          THEN Capacity[x] - count'[x] <=
                               Cardinality(Woken(x)) + (IF consumer.at = "notify" /\ consumer.q = x THEN 1 ELSE 0)
                          ELSE owner.at = "notify" /\ owner.q = x
      BY <1>0, <1>1 DEF NoLostWakeUp
    <3>1. count'[x] = count[x] + (IF x = q THEN 1 ELSE 0) BY <1>5 DEF push, BuffersOK
    <3>2. Cardinality(Woken(x)) \in Nat /\ count[x] \in Nat /\ Capacity[x] \in Nat
      BY ThreadSets, Constants DEF BuffersOK
    <3>3. IF active[x]
            THEN Capacity[x] - count[x] <=
                 Cardinality(Woken(x)) + (IF consumer.at = "notify" /\ consumer.q = x THEN 1 ELSE 0)
            ELSE owner.at = "notify" /\ owner.q = x
      BY DEF NoLostWakeUp
    <3> QED BY <3>1, <3>2, <3>3
  <2> QED BY <1>2, <1>3, <1>4, <2>1, <2>2
<1>6. CASE UNCHANGED <<portVars, fifo>>
  <2>1. BuffersOK' BY <1>6, BuffersUnchanged DEF portVars
  <2>2. NoLostWakeUp' BY <1>0, <1>1, <1>6, WakeUpsKept DEF portVars
  <2> QED BY <1>2, <1>3, <1>4, <2>1, <2>2
<1> QED BY <1>5, <1>6

(* A blocked thread is woken, by a notification or by itself.              *)
LEMMA WakeOne ==
  ASSUME QInv, NEW t \in Pushers, NEW q \in Queues, pusher[t].at = "blocked", pusher[t].q = q,
         pusher' = [pusher EXCEPT ![t].at = "woken"],
         UNCHANGED <<active, nof_waiting, owner, handles, nof_queues, running, count>>
  PROVE  /\ WaitersOK' /\ OwnerOK' /\ NoPusherLeftBehind'
         /\ \A x \in Queues :
              /\ waiting(x)' = waiting(x) \ {t}
              /\ Cardinality(Woken(x)') = Cardinality(Woken(x)) + (IF x = q THEN 1 ELSE 0)
<1> USE DEF QInv
<1> DEFINE r == [at |-> "woken", q |-> q]
<1>1. pusher \in [Pushers -> AtQueue] BY DEF WaitersOK
<1>2. pusher' = [pusher EXCEPT ![t] = r]
  <2>1. pusher[t] \in PusherState BY <1>1 DEF AtQueue
  <2>2. [pusher[t] EXCEPT !.at = "woken"] = r BY <2>1 DEF PusherState
  <2>3. pusher' = [pusher EXCEPT ![t] = [pusher[t] EXCEPT !.at = "woken"]] OBVIOUS
  <2> HIDE DEF r
  <2> QED BY <2>2, <2>3
<1>3. r \in AtQueue /\ r.at = "woken" /\ r.q = q /\ r.at # "blocked" BY DEF AtQueue, PusherState
<1> HIDE DEF r
<1>4. /\ pusher' \in [Pushers -> AtQueue]
      /\ \A x \in Queues :
           /\ inside(x)' = IF r.at \in {"blocked", "woken"} /\ r.q = x
                             THEN inside(x) \cup {t} ELSE inside(x) \ {t}
           /\ waiting(x)' = IF r.at = "blocked" /\ r.q = x
                             THEN waiting(x) \cup {t} ELSE waiting(x) \ {t}
           /\ Woken(x)' = IF r.at = "woken" /\ r.q = x
                             THEN Woken(x) \cup {t} ELSE Woken(x) \ {t}
  BY <1>1, <1>2, <1>3, MovePusher
<1>5. \A x \in Queues : (t \in inside(x) <=> x = q) /\ t \notin Woken(x)
  BY <1>1, Placed
<1>6. \A x \in Queues : /\ inside(x)' = inside(x) /\ waiting(x)' = waiting(x) \ {t}
                        /\ Woken(x)' = IF x = q THEN Woken(x) \cup {t} ELSE Woken(x)
  <2> SUFFICES ASSUME NEW x \in Queues
               PROVE  /\ inside(x)' = inside(x) /\ waiting(x)' = waiting(x) \ {t}
                      /\ Woken(x)' = IF x = q THEN Woken(x) \cup {t} ELSE Woken(x)
    OBVIOUS
  <2>1. waiting(x)' = waiting(x) \ {t} BY <1>3, <1>4
  <2>2. CASE x = q
    <3>1. inside(x)' = inside(x) \cup {t} /\ Woken(x)' = Woken(x) \cup {t} BY <1>3, <1>4, <2>2
    <3> QED BY <1>5, <2>1, <2>2, <3>1
  <2>3. CASE x # q
    <3>1. inside(x)' = inside(x) \ {t} /\ Woken(x)' = Woken(x) \ {t} BY <1>3, <1>4, <2>3
    <3> QED BY <1>5, <2>1, <2>3, <3>1
  <2> QED BY <2>2, <2>3
<1>7. WaitersOK' BY <1>4, <1>6 DEF WaitersOK, WaitersCounted
<1>8. OwnerOK' /\ NoPusherLeftBehind' BY <1>6, FewerInside
<1>9. \A x \in Queues : IsFiniteSet(Woken(x)) /\ Cardinality(Woken(x)) \in Nat BY ThreadSets
<1>10. Cardinality(Woken(q) \cup {t}) = Cardinality(Woken(q)) + 1
  BY <1>5, <1>9, FS_AddElement
<1>11. Cardinality(Woken(q)') = Cardinality(Woken(q)) + 1 BY <1>6, <1>10
<1>12. \A x \in Queues : x # q => Cardinality(Woken(x)') = Cardinality(Woken(x)) + 0 BY <1>6, <1>9
<1> QED BY <1>6, <1>7, <1>8, <1>11, <1>12

(* A condition variable wakes a thread by itself.                          *)
LEMMA SpuriousQInv == ASSUME QInv, NEW t \in Pushers, SpuriousWakeUp(t) PROVE QInv'
<1> USE DEF QInv, SpuriousWakeUp, portVars, handlerVars
<1> DEFINE q == pusher[t].q
<1>1. q \in Queues
  <2>1. pusher[t] \in AtQueue BY DEF WaitersOK
  <2> QED BY <2>1 DEF AtQueue
<1> HIDE DEF q
<1>2. pusher[t].q = q BY DEF q
<1>3. /\ WaitersOK' /\ OwnerOK' /\ NoPusherLeftBehind'
      /\ \A x \in Queues :
           /\ waiting(x)' = waiting(x) \ {t}
           /\ Cardinality(Woken(x)') = Cardinality(Woken(x)) + (IF x = q THEN 1 ELSE 0)
  BY <1>1, <1>2, WakeOne
<1>4. NoLostWakeUp'
  <2> SUFFICES ASSUME NEW x \in Queues, waiting(x)' # {}
               PROVE  IF active[x]
                        THEN Capacity[x] - count[x] <=
                             Cardinality(Woken(x)') + (IF consumer.at = "notify" /\ consumer.q = x THEN 1 ELSE 0)
                        ELSE owner.at = "notify" /\ owner.q = x
    BY DEF NoLostWakeUp
  <2>1. Cardinality(Woken(x)) \in Nat /\ count[x] \in Nat /\ Capacity[x] \in Nat
    BY ThreadSets, Constants DEF BuffersOK
  <2>2. waiting(x) # {} BY <1>3
  <2>3. IF active[x]
          THEN Capacity[x] - count[x] <=
               Cardinality(Woken(x)) + (IF consumer.at = "notify" /\ consumer.q = x THEN 1 ELSE 0)
          ELSE owner.at = "notify" /\ owner.q = x
    BY <2>2 DEF NoLostWakeUp
  <2> QED BY <1>3, <2>1, <2>3
<1>5. BuffersOK' BY BuffersUnchanged
<1>6. HandlerOK' BY HandlerUnchanged
<1> QED BY <1>3, <1>4, <1>5, <1>6

(* A thread leaves push(), and tells the owner that may wait for it.       *)
LEMMA LeaveQInv == ASSUME QInv, NEW t \in Pushers, Leave(t) PROVE QInv'
<1> USE DEF QInv, Leave, portVars, handlerVars
<1>1. pusher \in [Pushers -> AtQueue] BY DEF WaitersOK
<1>2. Idle \in AtQueue /\ Idle.at = "idle" BY DEF AtQueue, PusherState, Idle
<1>3. /\ pusher' \in [Pushers -> AtQueue]
      /\ \A x \in Queues : /\ inside(x)' = inside(x) \ {t} /\ waiting(x)' = waiting(x) \ {t}
                           /\ Woken(x)' = Woken(x) \ {t}
  BY <1>1, <1>2, MovePusher
<1>4. \A x \in Queues : t \notin inside(x) /\ t \notin waiting(x) /\ t \notin Woken(x)
  BY <1>1, Placed
<1>5. \A x \in Queues : inside(x)' = inside(x) /\ waiting(x)' = waiting(x) /\ Woken(x)' = Woken(x)
  <2>1. \A x \in Queues : /\ inside(x) \ {t} = inside(x) /\ waiting(x) \ {t} = waiting(x)
                          /\ Woken(x) \ {t} = Woken(x)
    BY <1>4
  <2> QED BY <1>3, <2>1
<1>6. /\ owner' = owner \/ (owner.at = "waiting" /\ owner'.at = "check")
      /\ owner'.q = owner.q /\ owner'.for = owner.for
      /\ owner' \in [at : OwnerAt, q : Nat, for : {"none", "reset", "recycle", "signal", "join"}]
  BY DEF HandlerOK, OwnerAt
<1>7. HandlerOK' BY <1>6 DEF HandlerOK
<1>8. WaitersOK' BY <1>3, <1>5 DEF WaitersOK, WaitersCounted
<1>9. OwnerOK' /\ NoPusherLeftBehind' BY <1>5, <1>6 DEF OwnerOK, NoPusherLeftBehind
<1>10. NoLostWakeUp' BY <1>5, <1>6, WakeUpsKept
<1> QED BY <1>7, <1>8, <1>9, <1>10, BuffersUnchanged

(* Steps of the popping thread that leave the queues and the other threads *)
(* alone.                                                                  *)
LEMMA ConsumerOnly ==
  ASSUME QInv, consumer.at # "notify", UNCHANGED <<running, nof_queues, idle_queue_vars>>,
         HandlerOK'
  PROVE  QInv'
<1> USE DEF QInv, idle_queue_vars, portVars
<1>1. \A x \in Queues : inside(x)' = inside(x) /\ waiting(x)' = waiting(x) /\ Woken(x)' = Woken(x)
  BY PushersUnchanged
<1>2. WaitersOK' BY <1>1 DEF WaitersOK, WaitersCounted
<1>3. OwnerOK' /\ NoPusherLeftBehind' BY <1>1, FewerInside
<1>4. NoLostWakeUp' BY <1>1, WakeUpsKept
<1> QED BY <1>2, <1>3, <1>4, BuffersUnchanged

(* A popping thread outside of a search.                                   *)
LEMMA OutsideSearch ==
  ASSUME NEW at \in ConsumerAt \ {"search", "notify"}
  PROVE  /\ Consumer(at) \in [at : ConsumerAt, q : Queues \cup {None}, count : Nat, collisions : Nat]
         /\ Consumer(at).at = at /\ Consumer(at).at \notin {"search", "notify"}
BY DEF Consumer

(* A popping thread in a search.                                           *)
LEMMA InSearch ==
  ASSUME HandlerOK, consumer.at = "search"
  PROVE  /\ consumer.q \in Queues /\ (consumer.q <= nof_queues \/ consumer.q = 1)
         /\ consumer.count \in Nat /\ consumer.collisions \in Nat
         /\ nof_queues > 0 => next_q \in 1..nof_queues /\ next_q \in Queues
<1>1. /\ consumer.q \in Queues /\ (consumer.q <= nof_queues \/ consumer.q = 1)
      /\ consumer.count \in Nat /\ consumer.collisions \in Nat /\ nof_queues \in 0..MaxQueues
  BY DEF HandlerOK
<1>2. consumer.q \in 1..MaxQueues /\ MaxQueues \in Nat BY <1>1, Constants
<1>3. nof_queues > 0 => next_q \in 1..nof_queues BY <1>1, <1>2 DEF next_q
<1> QED BY <1>1, <1>3, Constants

(* wait_pop() begins, or ends because the handler stops.                   *)
LEMMA EnterQInv == QInv /\ EnterWaitPop => QInv'
<1> SUFFICES ASSUME QInv, EnterWaitPop PROVE QInv' OBVIOUS
<1> USE DEF QInv, EnterWaitPop
<1>1. HandlerOK'
  <2>0. UNCHANGED <<running, spin_idx, nof_queues, active, handles, owner>>
    BY DEF idle_queue_vars, portVars
  <2>1. CASE running
    <3>1. spin_idx \in Nat /\ nof_queues \in 0..MaxQueues /\ (spin_idx = 0 \/ spin_idx < nof_queues)
      BY DEF HandlerOK
    <3>2. spin_idx + 1 \in Queues /\ (spin_idx + 1 <= nof_queues \/ spin_idx + 1 = 1)
      BY <3>1, Constants
    <3>3. /\ consumer' \in [at : ConsumerAt, q : Queues \cup {None}, count : Nat, collisions : Nat]
          /\ consumer'.q = spin_idx + 1
      BY <2>1, <3>2 DEF ConsumerAt
    <3> QED BY <2>0, <2>1, <3>2, <3>3 DEF HandlerOK
  <2>2. CASE ~running
    <3>1. /\ consumer' \in [at : ConsumerAt, q : Queues \cup {None}, count : Nat, collisions : Nat]
          /\ consumer'.at \notin {"search", "notify"}
      <4>1. "leaving" \in ConsumerAt \ {"search", "notify"} BY DEF ConsumerAt
      <4> QED BY <2>2, <4>1, OutsideSearch
    <3>2. mutex' = mutex /\ consumer_state' = FALSE BY <2>2
    <3> QED BY <2>0, <3>1, <3>2 DEF HandlerOK
  <2> QED BY <2>1, <2>2
<1> QED BY <1>1, ConsumerOnly

(* The search goes on, or ends.                                            *)
LEMMA SearchQInv == QInv /\ (PassEmpty \/ Collide \/ Sleep) => QInv'
<1> SUFFICES ASSUME QInv, PassEmpty \/ Collide \/ Sleep PROVE QInv' OBVIOUS
<1> USE DEF QInv
<1>0. consumer.at = "search" BY DEF PassEmpty, Collide, Sleep, searching
<1>1. UNCHANGED <<running, spin_idx, nof_queues, consumer_state, idle_queue_vars>>
  BY DEF PassEmpty, Collide, Sleep, handlerVars
<1>2. /\ consumer.q \in Queues /\ (consumer.q <= nof_queues \/ consumer.q = 1)
      /\ consumer.count \in Nat /\ consumer.collisions \in Nat
      /\ nof_queues > 0 => next_q \in 1..nof_queues /\ next_q \in Queues
  BY <1>0, InSearch
<1>3. nof_queues \in Nat BY Constants DEF HandlerOK
<1>4. CASE PassEmpty \/ Collide
  <2>1. nof_queues > 0 BY <1>2, <1>3, <1>4 DEF PassEmpty, Collide, searching
  <2>2. /\ consumer'.q = next_q /\ mutex' = mutex
        /\ consumer' \in [at : ConsumerAt, q : Queues \cup {None}, count : Nat, collisions : Nat]
    <3>1. consumer \in [at : ConsumerAt, q : Queues \cup {None}, count : Nat, collisions : Nat]
      BY DEF HandlerOK
    <3>2. next_q \in Queues /\ consumer.count + 1 \in Nat /\ consumer.collisions + 1 \in Nat
      BY <1>2, <2>1
    <3>3. CASE PassEmpty
      <4>1. consumer' = [consumer EXCEPT !.q = next_q, !.count = consumer.count + 1] /\ mutex' = mutex
        BY <3>3 DEF PassEmpty, handlerVars
      <4> QED BY <3>1, <3>2, <4>1
    <3>4. CASE Collide
      <4>1. /\ consumer' = [consumer EXCEPT !.q = next_q, !.count = 1, !.collisions = consumer.collisions + 1]
            /\ mutex' = mutex
        BY <3>4 DEF Collide, handlerVars
      <4> QED BY <3>1, <3>2, <4>1
    <3> QED BY <1>4, <3>3, <3>4
  <2>3. HandlerOK' BY <1>1, <1>2, <1>3, <2>1, <2>2 DEF HandlerOK, idle_queue_vars, portVars
  <2> QED BY <1>0, <1>1, <2>3, ConsumerOnly
<1>5. CASE Sleep
  <2>1. HandlerOK'
    BY <1>1, <1>5, OutsideSearch DEF Sleep, HandlerOK, idle_queue_vars, portVars, ConsumerAt
  <2> QED BY <1>0, <1>1, <2>1, ConsumerOnly
<1> QED BY <1>4, <1>5

(* Every pop from a queue with waiting threads owes one of them a wake-up. *)
LEMMA PopQInv == ASSUME QInv, NEW q \in Queues, PopFrom(q) PROVE QInv'
<1> USE DEF QInv, PopFrom
<1>0. consumer.at = "search" /\ consumer.q = q BY DEF searching
<1>1. \A x \in Queues : inside(x)' = inside(x) /\ waiting(x)' = waiting(x) /\ Woken(x)' = Woken(x)
  BY PushersUnchanged
<1>2. BuffersOK' BY PopBuffers
<1>3. WaitersOK' BY <1>1 DEF WaitersOK, WaitersCounted
<1>4. OwnerOK' /\ NoPusherLeftBehind' BY <1>1, FewerInside
<1>5. consumer \in [at : ConsumerAt, q : Queues \cup {None}, count : Nat, collisions : Nat]
  BY DEF HandlerOK
<1>6. HandlerOK'
  <2>1. spin_idx' \in Nat /\ spin_idx' < nof_queues
    <3>1. spin_idx \in Nat /\ consumer.count \in Nat /\ nof_queues \in Nat /\ consumer.count < nof_queues
      BY <1>5, Constants DEF HandlerOK, searching
    <3>2. (spin_idx + consumer.count + 1) % nof_queues \in 0..(nof_queues - 1) BY <3>1
    <3> QED BY <3>1, <3>2 DEF next_spin
  <2>2. CASE must_notify(q)
    <3>1. /\ consumer' \in [at : ConsumerAt, q : Queues \cup {None}, count : Nat, collisions : Nat]
          /\ consumer'.q = q /\ UNCHANGED <<mutex, consumer_state>>
      BY <1>0, <1>5, <2>2 DEF ConsumerAt
    <3> QED BY <1>0, <2>1, <3>1 DEF HandlerOK
  <2>3. CASE ~must_notify(q)
    <3>1. consumer' = Consumer("out") /\ mutex' = "free" /\ consumer_state' = FALSE BY <2>3
    <3>2. /\ consumer' \in [at : ConsumerAt, q : Queues \cup {None}, count : Nat, collisions : Nat]
          /\ consumer'.at \notin {"search", "notify"}
      BY <3>1, OutsideSearch DEF ConsumerAt
    <3> QED BY <2>1, <3>1, <3>2 DEF HandlerOK
  <2> QED BY <2>2, <2>3
<1>7. NoLostWakeUp'
  <2> SUFFICES ASSUME NEW x \in Queues, waiting(x) # {}
               PROVE  IF active[x]
                        THEN Capacity[x] - count'[x] <=
                             Cardinality(Woken(x)) + (IF consumer'.at = "notify" /\ consumer'.q = x THEN 1 ELSE 0)
                        ELSE owner.at = "notify" /\ owner.q = x
    BY <1>1 DEF NoLostWakeUp
  <2>1. IF active[x] THEN Capacity[x] - count[x] <= Cardinality(Woken(x))
        ELSE owner.at = "notify" /\ owner.q = x
    <3>1. Cardinality(Woken(x)) \in Nat BY ThreadSets
    <3> QED BY <1>0, <3>1 DEF NoLostWakeUp
  <2>2. Cardinality(Woken(x)) \in Nat /\ count[x] \in Nat /\ Capacity[x] \in Nat
    BY ThreadSets, Constants DEF BuffersOK
  <2>3. count'[x] = count[x] - (IF x = q THEN 1 ELSE 0) BY DEF pop, BuffersOK
  <2>4. CASE x = q
    <3>1. must_notify(q)
      <4>1. inside(q) # {} BY <2>4, ThreadSets
      <4>2. Cardinality(inside(q)) # 0 /\ Cardinality(inside(q)) \in Nat BY <4>1, ThreadSets
      <4>3. nof_waiting[q] = Cardinality(inside(q)) BY DEF WaitersOK, WaitersCounted
      <4> QED BY <4>2, <4>3 DEF must_notify
    <3>2. consumer'.at = "notify" /\ consumer'.q = x BY <1>0, <1>5, <2>4, <3>1
    <3> QED BY <2>1, <2>2, <2>3, <2>4, <3>2
  <2>5. CASE x # q
    BY <2>1, <2>2, <2>3, <2>5
  <2> QED BY <2>4, <2>5
<1> QED BY <1>2, <1>3, <1>4, <1>6, <1>7

(* The notification that is due wakes a thread, if one still waits.        *)
LEMMA NotifyQInv == QInv /\ Notify => QInv'
<1> SUFFICES ASSUME QInv, Notify PROVE QInv' OBVIOUS
<1> USE DEF QInv, Notify, portVars
<1> DEFINE q == consumer.q
<1>1. q \in Queues BY DEF HandlerOK
<1>2. BuffersOK' BY BuffersUnchanged
<1>3. HandlerOK'
  <2>1. /\ consumer' \in [at : ConsumerAt, q : Queues \cup {None}, count : Nat, collisions : Nat]
        /\ consumer'.at \notin {"search", "notify"}
    BY OutsideSearch DEF ConsumerAt
  <2> QED BY <2>1 DEF HandlerOK
<1>4. consumer'.at # "notify" BY DEF Consumer
<1>5. \A x \in Queues : Cardinality(Woken(x)) \in Nat /\ count[x] \in Nat /\ Capacity[x] \in Nat
  BY ThreadSets, Constants DEF BuffersOK
<1>6. CASE waiting(q) = {} /\ UNCHANGED pusher
  <2>1. \A x \in Queues : inside(x)' = inside(x) /\ waiting(x)' = waiting(x) /\ Woken(x)' = Woken(x)
    BY <1>6, PushersUnchanged
  <2>2. WaitersOK' BY <1>6, <2>1 DEF WaitersOK, WaitersCounted
  <2>3. OwnerOK' /\ NoPusherLeftBehind' BY <2>1, FewerInside
  <2>4. NoLostWakeUp'
    <3> SUFFICES ASSUME NEW x \in Queues, waiting(x) # {}
                 PROVE  IF active[x]
                          THEN Capacity[x] - count[x] <= Cardinality(Woken(x)) + 0
                          ELSE owner.at = "notify" /\ owner.q = x
      BY <1>4, <2>1 DEF NoLostWakeUp
    <3>1. x # q BY <1>6
    <3> QED BY <1>5, <3>1 DEF NoLostWakeUp
  <2> QED BY <1>2, <1>3, <2>2, <2>3, <2>4
<1>7. ASSUME NEW t \in waiting(q), pusher' = [pusher EXCEPT ![t].at = "woken"]
      PROVE  QInv'
  <2>0. t \in Pushers /\ pusher[t].at = "blocked" /\ pusher[t].q = q BY <1>7 DEF waiting
  <2> HIDE DEF q
  <2>1. /\ WaitersOK' /\ OwnerOK' /\ NoPusherLeftBehind'
        /\ \A x \in Queues :
             /\ waiting(x)' = waiting(x) \ {t}
             /\ Cardinality(Woken(x)') = Cardinality(Woken(x)) + (IF x = q THEN 1 ELSE 0)
    BY <1>1, <1>7, <2>0, WakeOne
  <2>2. NoLostWakeUp'
    <3> SUFFICES ASSUME NEW x \in Queues, waiting(x)' # {}
                 PROVE  IF active[x]
                          THEN Capacity[x] - count[x] <= Cardinality(Woken(x)') + 0
                          ELSE owner.at = "notify" /\ owner.q = x
      BY <1>4 DEF NoLostWakeUp
    <3>1. waiting(x) # {} BY <2>1
    <3>2. IF active[x]
            THEN Capacity[x] - count[x] <= Cardinality(Woken(x)) + (IF q = x THEN 1 ELSE 0)
            ELSE owner.at = "notify" /\ owner.q = x
      BY <3>1 DEF NoLostWakeUp, q
    <3> QED BY <1>5, <2>1, <3>2
  <2> QED BY <1>2, <1>3, <2>1, <2>2
<1> QED BY <1>6, <1>7 DEF notify_one_full

(* What the owner does, and its fields after a step.                       *)
OwnerCall == [at : OwnerAt, q : Nat, for : {"none", "reset", "recycle", "signal", "join"}]

(* The fields of the owner after a step of it.                             *)
LEMMA OwnerFields ==
  ASSUME NEW o \in OwnerCall, o.for # "none"
  PROVE  /\ \A a \in OwnerAt : /\ [o EXCEPT !.at = a] \in OwnerCall
                               /\ [o EXCEPT !.at = a].at = a /\ [o EXCEPT !.at = a].q = o.q
                               /\ [o EXCEPT !.at = a].for = o.for
         /\ done_with(o) \in OwnerCall
         /\ o.for = "recycle" => done_with(o) = NoCall
         /\ o.for = "reset" => /\ done_with(o).at = "set" /\ done_with(o).q = o.q
                               /\ done_with(o).for = "recycle"
         /\ o.for \in {"signal", "join"} => /\ done_with(o).at = "set" /\ done_with(o).q = o.q + 1
                                            /\ done_with(o).for = o.for
         /\ after_set(o) \in OwnerCall /\ after_set(o).for = o.for
         /\ o.for = "signal" => after_set(o).at = "set" /\ after_set(o).q = o.q + 1
         /\ o.for # "signal" => after_set(o).at = "check" /\ after_set(o).q = o.q
         /\ NoCall \in OwnerCall /\ NoCall.at = "idle" /\ NoCall.for = "none"
<1>1. \A a \in OwnerAt : /\ [o EXCEPT !.at = a] \in OwnerCall
                         /\ [o EXCEPT !.at = a].at = a /\ [o EXCEPT !.at = a].q = o.q
                         /\ [o EXCEPT !.at = a].for = o.for
  BY DEF OwnerCall
<1>2. NoCall \in OwnerCall /\ NoCall.at = "idle" /\ NoCall.for = "none"
  BY DEF NoCall, OwnerCall, OwnerAt, None
<1>3. o.for \in {"signal", "join"} => /\ done_with(o) \in OwnerCall /\ done_with(o).at = "set"
                                     /\ done_with(o).q = o.q + 1 /\ done_with(o).for = o.for
  <2> SUFFICES ASSUME o.for \in {"signal", "join"}
               PROVE  /\ done_with(o) \in OwnerCall /\ done_with(o).at = "set"
                      /\ done_with(o).q = o.q + 1 /\ done_with(o).for = o.for
    OBVIOUS
  <2> DEFINE n == o.q + 1  d == [o EXCEPT !.at = "set", !.q = n]
  <2>1. n \in Nat /\ "set" \in OwnerAt BY DEF OwnerCall, OwnerAt
  <2>2. done_with(o) = d BY DEF done_with
  <2> HIDE DEF n
  <2>3. d \in OwnerCall /\ d.at = "set" /\ d.q = n /\ d.for = o.for BY <2>1 DEF OwnerCall
  <2> HIDE DEF d
  <2> QED BY <2>2, <2>3 DEF n
<1>4. o.for = "reset" => /\ done_with(o) \in OwnerCall /\ done_with(o).at = "set"
                        /\ done_with(o).q = o.q /\ done_with(o).for = "recycle"
  <2> SUFFICES ASSUME o.for = "reset"
               PROVE  /\ done_with(o) \in OwnerCall /\ done_with(o).at = "set"
                      /\ done_with(o).q = o.q /\ done_with(o).for = "recycle"
    OBVIOUS
  <2> DEFINE d == [o EXCEPT !.at = "set", !.for = "recycle"]
  <2>1. done_with(o) = d BY DEF done_with
  <2>2. d \in OwnerCall /\ d.at = "set" /\ d.q = o.q /\ d.for = "recycle" BY DEF OwnerCall, OwnerAt
  <2> HIDE DEF d
  <2> QED BY <2>1, <2>2
<1>10. o.for = "recycle" => done_with(o) = NoCall BY DEF done_with
<1>11. done_with(o) \in OwnerCall BY <1>2, <1>3, <1>4, <1>10 DEF OwnerCall
<1>5. "check" \in OwnerAt BY DEF OwnerAt
<1>6. o.for # "signal" => after_set(o) = [o EXCEPT !.at = "check"] BY DEF after_set
<1>7. o.for = "signal" => after_set(o) = done_with(o) BY DEF after_set
<1>8. o.for # "signal" => after_set(o) \in OwnerCall /\ after_set(o).at = "check"
                          /\ after_set(o).q = o.q /\ after_set(o).for = o.for
  BY <1>1, <1>5, <1>6
<1>9. o.for = "signal" => after_set(o) \in OwnerCall /\ after_set(o).at = "set"
                          /\ after_set(o).q = o.q + 1 /\ after_set(o).for = o.for
  BY <1>3, <1>7
<1> QED BY <1>1, <1>2, <1>3, <1>4, <1>8, <1>9, <1>10, <1>11

(* Steps of the owner that leave the queues and the other threads alone    *)
(* and take back no notification.                                          *)
LEMMA OwnerOnly ==
  ASSUME QInv, UNCHANGED <<portVars, fifo, pusher, consumer, consumer_state, spin_idx, nof_queues>>,
         owner.at # "notify", owner' \in OwnerCall, mutex' \in {"free", "consumer", "owner"},
         running' \in BOOLEAN, handles' \subseteq handles, OwnerOK', NoPusherLeftBehind'
  PROVE  QInv'
<1> USE DEF QInv, portVars
<1>1. \A x \in Queues : inside(x)' = inside(x) /\ waiting(x)' = waiting(x) /\ Woken(x)' = Woken(x)
  BY PushersUnchanged
<1>2. WaitersOK' BY <1>1 DEF WaitersOK, WaitersCounted
<1>3. NoLostWakeUp' BY <1>1, WakeUpsKept
<1>4. HandlerOK' BY DEF HandlerOK, OwnerCall
<1> QED BY <1>2, <1>3, <1>4, BuffersUnchanged

(* The last wait_pop() tells stop() that it has ended.                     *)
LEMMA LeaveWaitPopQInv == QInv /\ LeaveWaitPop => QInv'
<1> SUFFICES ASSUME QInv, LeaveWaitPop PROVE QInv' OBVIOUS
<1> USE DEF QInv, LeaveWaitPop, portVars, handlerVars
<1>1. \A x \in Queues : inside(x)' = inside(x) /\ waiting(x)' = waiting(x) /\ Woken(x)' = Woken(x)
  BY PushersUnchanged
<1>2. WaitersOK' BY <1>1 DEF WaitersOK, WaitersCounted
<1>3. /\ owner' = owner \/ (owner.at = "cv" /\ owner'.at = "cv_woken")
      /\ owner'.q = owner.q /\ owner'.for = owner.for /\ owner' \in OwnerCall
  BY DEF HandlerOK, OwnerCall, OwnerAt
<1>4. /\ consumer' \in [at : ConsumerAt, q : Queues \cup {None}, count : Nat, collisions : Nat]
      /\ consumer'.at \notin {"search", "notify"}
  BY OutsideSearch DEF ConsumerAt
<1>5. HandlerOK' BY <1>3, <1>4 DEF HandlerOK, OwnerCall
<1>6. OwnerOK' /\ NoPusherLeftBehind' BY <1>1, <1>3 DEF OwnerOK, NoPusherLeftBehind
<1>7. NoLostWakeUp' BY <1>1, <1>3, WakeUpsKept
<1> QED BY <1>2, <1>5, <1>6, <1>7, BuffersUnchanged

(* Where the owner is in a call.                                           *)
LEMMA OwnerFacts ==
  ASSUME QInv
  PROVE  /\ owner \in OwnerCall /\ nof_queues \in Nat /\ nof_queues <= MaxQueues
         /\ owner.at # "idle" => owner.for \in {"reset", "recycle", "signal", "join"}
         /\ \A x \in Queues : x \in Nat /\ x >= 1
         /\ \A x \in 1..nof_queues : x \in Queues
<1>1. owner \in OwnerCall /\ nof_queues \in Nat /\ nof_queues <= MaxQueues
  BY Constants DEF QInv, HandlerOK, OwnerCall
<1>2. owner.at # "idle" => owner.for \in {"reset", "recycle", "signal", "join"}
  BY <1>1 DEF QInv, OwnerOK, OwnerCall
<1> QED BY <1>1, <1>2, Constants

(* reset() gives the handle back before it deactivates the queue.          *)
LEMMA ResetQInv == ASSUME QInv, NEW q \in Queues, Reset(q) PROVE QInv'
<1> USE DEF QInv, Reset
<1>0. UNCHANGED <<portVars, fifo, pusher, consumer, consumer_state, spin_idx, nof_queues, mutex, running, active>>
  BY DEF handlerVars, portVars
<1>1. \A x \in Queues : inside(x)' = inside(x) BY PushersUnchanged
<1>2. owner.for = "none" BY DEF OwnerOK
<1>3. owner' \in OwnerCall /\ owner'.at = "set" /\ owner'.q = q /\ owner'.for = "reset"
  BY Constants DEF OwnerCall, OwnerAt
<1>4. q \in 1..nof_queues BY DEF HandlerOK
<1>5. OwnerOK'
  <2>1. \A x \in Queues : active[x] => x <= nof_queues /\ (x \in handles' \/ q = x)
    BY <1>2 DEF OwnerOK
  <2>2. ~running => \A x \in Queues : ~active[x] BY <1>2 DEF OwnerOK
  <2>3. \A x \in Queues : inside(x) # {} => x <= nof_queues BY DEF OwnerOK
  <2> QED BY <1>0, <1>1, <1>3, <1>4, <2>1, <2>2, <2>3 DEF OwnerOK
<1>6. NoPusherLeftBehind' BY <1>0, <1>1, <1>3 DEF NoPusherLeftBehind
<1>7. mutex' \in {"free", "consumer", "owner"} /\ running' \in BOOLEAN BY <1>0 DEF HandlerOK
<1>8. handles' \subseteq handles /\ owner.at # "notify" OBVIOUS
<1> QED BY <1>0, <1>3, <1>5, <1>6, <1>7, <1>8, OwnerOnly

(* stop() begins.                                                          *)
LEMMA StopQInv == QInv /\ Stop => QInv'
<1> SUFFICES ASSUME QInv, Stop PROVE QInv' OBVIOUS
<1> USE DEF QInv, Stop
<1>0. active' = active /\ handles' = handles BY DEF portVars
<1>1. \A x \in Queues : inside(x)' = inside(x) BY PushersUnchanged
<1>2. owner.for = "none" BY DEF OwnerOK
<1>3. owner' \in OwnerCall /\ owner'.at = "set" /\ owner'.q = 1 /\ owner'.for = "signal"
  BY DEF OwnerCall, OwnerAt
<1>5. OwnerOK'
  <2>1. \A x \in Queues : active[x] => x <= nof_queues /\ x \in handles BY <1>2 DEF OwnerOK
  <2>2. \A x \in 1..nof_queues : ~(x < 1) BY OwnerFacts
  <2>3. \A x \in Queues : inside(x) # {} => x <= nof_queues BY DEF OwnerOK
  <2> QED BY <1>0, <1>1, <1>3, <2>1, <2>2, <2>3 DEF OwnerOK
<1>6. NoPusherLeftBehind' BY <1>3 DEF NoPusherLeftBehind
<1> QED BY <1>0, <1>3, <1>5, <1>6, OwnerOnly

(* The owner looks whether threads are left inside push().                 *)
LEMMA CheckQInv == QInv /\ CheckPushers => QInv'
<1> SUFFICES ASSUME QInv, CheckPushers PROVE QInv' OBVIOUS
<1> USE DEF QInv, CheckPushers
<1>0. /\ UNCHANGED <<portVars, fifo, pusher, consumer, consumer_state, spin_idx, nof_queues>>
      /\ UNCHANGED <<mutex, running, active, handles>>
  BY DEF handlerVars, portVars
<1>1. \A x \in Queues : inside(x)' = inside(x) BY PushersUnchanged
<1>2. /\ owner \in OwnerCall /\ owner.for \in {"reset", "recycle", "join"} /\ owner.q \in 1..nof_queues
      /\ owner.q \in Queues /\ ~active[owner.q]
  BY OwnerFacts DEF OwnerOK
<1>3. mutex' \in {"free", "consumer", "owner"} /\ running' \in BOOLEAN BY <1>0 DEF HandlerOK
<1>4. CASE nof_waiting[owner.q] > 0
  <2>1. owner' \in OwnerCall /\ owner'.at = "waiting" /\ owner'.q = owner.q /\ owner'.for = owner.for
    BY <1>2, <1>4, OwnerFields DEF OwnerAt
  <2>2. OwnerOK' /\ NoPusherLeftBehind' BY <1>0, <1>1, <1>2, <2>1 DEF OwnerOK, NoPusherLeftBehind
  <2> QED BY <1>0, <1>3, <2>1, <2>2, OwnerOnly
<1>5. CASE ~(nof_waiting[owner.q] > 0)
  <2>1. inside(owner.q) = {}
    <3>1. Cardinality(inside(owner.q)) \in Nat BY ThreadSets
    <3>2. nof_waiting[owner.q] = Cardinality(inside(owner.q)) BY <1>2 DEF WaitersOK, WaitersCounted
    <3>3. Cardinality(inside(owner.q)) = 0 BY <1>5, <3>1, <3>2
    <3> QED BY <3>3, ThreadSets
  <2>2. owner' = done_with(owner) BY <1>5
  <2>5. CASE owner.for = "reset"
    <3>1. /\ owner' \in OwnerCall /\ owner'.at = "set" /\ owner'.q = owner.q
          /\ owner'.for = "recycle"
      BY <1>2, <2>2, <2>5, OwnerFields
    <3>2. OwnerOK' BY <1>0, <1>1, <1>2, <2>5, <3>1 DEF OwnerOK
    <3>3. NoPusherLeftBehind' BY <1>0, <1>1, <2>1, <2>5, <3>1 DEF NoPusherLeftBehind
    <3> QED BY <1>0, <1>3, <3>1, <3>2, <3>3, OwnerOnly
  <2>3. CASE owner.for = "recycle"
    <3>1. owner' \in OwnerCall /\ owner'.at = "idle" /\ owner'.for = "none"
      BY <1>2, <2>2, <2>3, OwnerFields
    <3>2. \A x \in Queues : active[x] => x <= nof_queues /\ x \in handles
      BY <1>2, <2>3 DEF OwnerOK
    <3>3. OwnerOK'
      <4>1. ~running => \A x \in Queues : ~active[x] BY <2>3 DEF OwnerOK
      <4>2. \A x \in Queues : inside(x) # {} => x <= nof_queues BY DEF OwnerOK
      <4> QED BY <1>0, <1>1, <3>1, <3>2, <4>1, <4>2 DEF OwnerOK
    <3>4. NoPusherLeftBehind' BY <1>0, <1>1, <2>1, <2>3 DEF NoPusherLeftBehind
    <3> QED BY <1>0, <1>3, <3>1, <3>3, <3>4, OwnerOnly
  <2>4. CASE owner.for = "join"
    <3>1. owner' \in OwnerCall /\ owner'.at = "set" /\ owner'.for = "join" /\ owner'.q = owner.q + 1
      <4>1. owner.for # "none" /\ owner.for \in {"signal", "join"} BY <2>4
      <4>2. /\ done_with(owner) \in OwnerCall /\ done_with(owner).at = "set"
            /\ done_with(owner).q = owner.q + 1 /\ done_with(owner).for = owner.for
        BY <1>2, <4>1, OwnerFields
      <4> QED BY <2>2, <2>4, <4>2
    <3>2. \A x \in Queues : x < owner.q + 1 => inside(x) = {}
      <4>1. \A x \in Queues : x < owner.q => inside(x) = {} BY <2>4 DEF OwnerOK
      <4>2. owner.q \in Nat BY <1>2, Constants
      <4>3. \A x \in Queues : x < owner.q + 1 => x < owner.q \/ x = owner.q BY <4>2, Constants
      <4> QED BY <2>1, <4>1, <4>3
    <3>3. OwnerOK'
      <4>1. ~running /\ \A x \in Queues : ~active[x] BY <2>4 DEF OwnerOK
      <4>2. \A x \in Queues : inside(x) # {} => x <= nof_queues BY DEF OwnerOK
      <4>3. owner.q + 1 >= 1 BY <1>2, Constants
      <4> QED BY <1>0, <1>1, <3>1, <3>2, <4>1, <4>2, <4>3 DEF OwnerOK
    <3>4. NoPusherLeftBehind' BY <3>1 DEF NoPusherLeftBehind
    <3> QED BY <1>0, <1>3, <3>1, <3>3, <3>4, OwnerOnly
  <2> QED BY <1>2, <2>3, <2>4, <2>5
<1> QED BY <1>4, <1>5

(* stop() waits for the popping thread, and goes on when it has ended.     *)
LEMMA WaitForConsumerQInv == QInv /\ (WaitForConsumer \/ RetakeMutex) => QInv'
<1> SUFFICES ASSUME QInv, WaitForConsumer \/ RetakeMutex PROVE QInv' OBVIOUS
<1> USE DEF QInv
<1>0. /\ UNCHANGED <<portVars, fifo, pusher, consumer, consumer_state, spin_idx, nof_queues>>
      /\ UNCHANGED <<running, active, handles>> /\ mutex' \in {"free", "consumer", "owner"}
      /\ owner.at # "notify"
  BY DEF WaitForConsumer, RetakeMutex, portVars, HandlerOK
<1>1. \A x \in Queues : inside(x)' = inside(x) BY <1>0, PushersUnchanged
<1>2. owner \in OwnerCall /\ owner.for = "signal" /\ owner.q > nof_queues /\ ~running
      /\ owner.q \in Nat /\ nof_queues \in Nat
  BY OwnerFacts DEF OwnerOK, WaitForConsumer, RetakeMutex, past_last, OwnerCall
<1>3. \A x \in Queues : ~active[x]
  <2> SUFFICES ASSUME NEW x \in Queues, active[x] PROVE FALSE OBVIOUS
  <2>1. x <= nof_queues /\ x \in Nat /\ x >= 1 BY OwnerFacts DEF OwnerOK
  <2>2. x \in 1..nof_queues /\ x < owner.q BY <1>2, <2>1
  <2> QED BY <1>2, <2>2 DEF OwnerOK
<1>4. running' \in BOOLEAN BY <1>0 DEF HandlerOK
<1>5. \A x \in Queues : inside(x) # {} => x <= nof_queues BY DEF OwnerOK
<1>6. CASE owner'.for = "signal" /\ owner'.q = owner.q /\ owner'.at \in {"cv", "set"} /\ owner' \in OwnerCall
  <2>1. OwnerOK' BY <1>0, <1>1, <1>2, <1>3, <1>5, <1>6 DEF OwnerOK
  <2>2. NoPusherLeftBehind' BY <1>6 DEF NoPusherLeftBehind
  <2> QED BY <1>0, <1>4, <1>6, <2>1, <2>2, OwnerOnly
<1>7. CASE owner' = [at |-> "set", q |-> 1, for |-> "join"]
  <2>1. owner' \in OwnerCall /\ owner'.at = "set" /\ owner'.q = 1 /\ owner'.for = "join"
    BY <1>7 DEF OwnerCall, OwnerAt
  <2>2. \A x \in Queues : ~(x < 1) BY OwnerFacts
  <2>3. OwnerOK' BY <1>0, <1>1, <1>2, <1>3, <1>5, <2>1, <2>2 DEF OwnerOK
  <2>4. NoPusherLeftBehind' BY <2>1 DEF NoPusherLeftBehind
  <2> QED BY <1>0, <1>4, <2>1, <2>3, <2>4, OwnerOnly
<1>8. "cv" \in OwnerAt /\ "set" \in OwnerAt BY DEF OwnerAt
<1>9. \/ owner' = [owner EXCEPT !.at = "cv"] \/ owner' = [owner EXCEPT !.at = "set"]
      \/ owner' = [at |-> "set", q |-> 1, for |-> "join"]
  BY DEF WaitForConsumer, RetakeMutex
<1>10. CASE owner' = [owner EXCEPT !.at = "cv"]
  BY <1>2, <1>6, <1>8, <1>10, OwnerFields
<1>11. CASE owner' = [owner EXCEPT !.at = "set"]
  BY <1>2, <1>6, <1>8, <1>11, OwnerFields
<1> QED BY <1>7, <1>9, <1>10, <1>11

(* stop() returns: nobody is inside any queue.                             *)
LEMMA StoppedQInv == QInv /\ Stopped => QInv'
<1> SUFFICES ASSUME QInv, Stopped PROVE QInv' OBVIOUS
<1> USE DEF QInv, Stopped
<1>0. UNCHANGED <<active, handles>> BY DEF portVars
<1>1. \A x \in Queues : inside(x)' = inside(x) BY PushersUnchanged
<1>2. owner' \in OwnerCall /\ owner'.at = "idle" /\ owner'.for = "none"
  BY OwnerFacts, OwnerFields
<1>3. \A x \in Queues : inside(x) = {}
  <2> SUFFICES ASSUME NEW x \in Queues, inside(x) # {} PROVE FALSE OBVIOUS
  <2>1. x <= nof_queues /\ x \in Nat /\ nof_queues \in Nat BY OwnerFacts DEF OwnerOK
  <2>2. owner.q \in Nat /\ owner.q > nof_queues BY OwnerFacts DEF past_last, OwnerCall
  <2>3. x < owner.q BY <2>1, <2>2
  <2> QED BY <2>3 DEF OwnerOK
<1>4. OwnerOK'
  <2>1. ~running /\ \A x \in Queues : ~active[x] BY DEF OwnerOK
  <2> QED BY <1>0, <1>1, <1>2, <1>3, <2>1 DEF OwnerOK
<1>5. NoPusherLeftBehind' BY <1>1, <1>3 DEF NoPusherLeftBehind
<1>6. running' \in BOOLEAN BY DEF HandlerOK
<1> QED BY <1>0, <1>2, <1>4, <1>5, <1>6, OwnerOnly

(* The owner after set_active(false) and its notification.                 *)
LEMMA AfterSet ==
  ASSUME QInv, owner.at \in {"set", "notify"}, ~past_last, owner' = after_set(owner),
         UNCHANGED <<active, handles, nof_queues, running>>,
         owner.q \in Queues, ~active[owner.q],
         \A x \in Queues : inside(x)' = inside(x)
  PROVE  owner' \in OwnerCall /\ OwnerOK' /\ NoPusherLeftBehind'
<1> USE DEF QInv
<1>1. /\ owner \in OwnerCall /\ owner.for \in {"reset", "recycle", "signal", "join"} /\ owner.q \in Nat
      /\ nof_queues \in Nat /\ owner.q >= 1
  BY OwnerFacts DEF OwnerCall
<1>2. owner.q \in 1..nof_queues BY <1>1 DEF past_last, OwnerOK
<1>3. /\ owner' \in OwnerCall /\ owner'.for = owner.for
      /\ owner.for = "signal" => owner'.at = "set" /\ owner'.q = owner.q + 1
      /\ owner.for # "signal" => owner'.at = "check" /\ owner'.q = owner.q
  <2>1. owner.for # "none" BY <1>1
  <2> QED BY <1>1, <2>1, OwnerFields
<1>4. \A x \in Queues : inside(x) # {} => x <= nof_queues BY DEF OwnerOK
<1>5. CASE owner.for = "signal"
  <2>1. owner'.at = "set" /\ owner'.q = owner.q + 1 /\ owner'.for = "signal" BY <1>3, <1>5
  <2>2. \A x \in 1..nof_queues : x < owner.q + 1 => ~active[x]
    <3>1. \A x \in 1..nof_queues : x < owner.q + 1 => x < owner.q \/ x = owner.q BY <1>1
    <3> QED BY <1>5, <3>1 DEF OwnerOK
  <2>3. owner.q + 1 >= 1 /\ ~running BY <1>1, <1>5 DEF OwnerOK
  <2>4. \A x \in Queues : active[x] => x <= nof_queues /\ x \in handles BY <1>5 DEF OwnerOK
  <2>5. OwnerOK' BY <1>4, <2>1, <2>2, <2>3, <2>4 DEF OwnerOK
  <2>6. NoPusherLeftBehind' BY <2>1 DEF NoPusherLeftBehind
  <2> QED BY <1>3, <2>5, <2>6
<1>6. CASE owner.for # "signal"
  <2>1. owner'.at = "check" /\ owner'.q = owner.q /\ owner'.for = owner.for BY <1>3, <1>6
  <2>2. OwnerOK' BY <1>1, <1>2, <1>4, <1>6, <2>1 DEF OwnerOK
  <2>3. NoPusherLeftBehind' BY <2>1 DEF NoPusherLeftBehind
  <2> QED BY <1>3, <2>2, <2>3
<1> QED BY <1>5, <1>6

(* set_active(false): a queue that was active is emptied, and its threads  *)
(* are to be notified next.                                                *)
LEMMA SetInactiveQInv == QInv /\ SetInactive => QInv'
<1> SUFFICES ASSUME QInv, SetInactive PROVE QInv' OBVIOUS
<1> USE DEF QInv, SetInactive
<1>0. UNCHANGED <<nof_waiting, pusher, consumer, handles, mutex, running, consumer_state, spin_idx, nof_queues>>
  BY DEF handlerVars
<1>1. \A x \in Queues : inside(x)' = inside(x) /\ waiting(x)' = waiting(x) /\ Woken(x)' = Woken(x)
  BY PushersUnchanged
<1>2. /\ owner \in OwnerCall /\ owner.for \in {"reset", "recycle", "signal", "join"} /\ owner.q \in Nat
      /\ nof_queues \in Nat
  BY OwnerFacts DEF OwnerCall
<1>3. owner.q \in 1..nof_queues /\ owner.q \in Queues
  <2>1. owner.q \in 1..nof_queues BY <1>2 DEF past_last, OwnerOK
  <2> QED BY <2>1, OwnerFacts
<1>4. CASE active[owner.q]
  <2>1. active' = [active EXCEPT ![owner.q] = FALSE] /\ clear(owner.q) /\ owner' = [owner EXCEPT !.at = "notify"]
    BY <1>4
  <2>2. owner' \in OwnerCall /\ owner'.at = "notify" /\ owner'.q = owner.q /\ owner'.for = owner.for
    BY <1>2, <2>1, OwnerFields DEF OwnerAt
  <2>3. active \in [Queues -> BOOLEAN] BY DEF HandlerOK
  <2>4. /\ active' \in [Queues -> BOOLEAN] /\ ~active'[owner.q]
        /\ \A x \in Queues : x # owner.q => active'[x] = active[x]
    BY <1>3, <2>1, <2>3
  <2>5. BuffersOK' BY <1>3, <2>1, ClearBuffers
  <2>6. WaitersOK' BY <1>0, <1>1 DEF WaitersOK, WaitersCounted
  <2>7. HandlerOK' BY <1>0, <2>2, <2>4 DEF HandlerOK, OwnerCall
  <2>8. OwnerOK'
    <3>1. owner.for # "join" BY <1>3, <1>4 DEF OwnerOK
    <3>2. ~running /\ owner.for # "signal" => \A x \in Queues : ~active[x] BY DEF OwnerOK
    <3>3. \A x \in Queues : active'[x] => active[x] BY <2>4
    <3>4. \A x \in 1..nof_queues : active'[x] => active[x] BY <3>3, OwnerFacts
    <3>5. owner.for = "signal" => \A x \in 1..nof_queues : x < owner.q => ~active'[x]
      BY <3>4 DEF OwnerOK
    <3>6. \A x \in Queues : active'[x] =>
             x <= nof_queues /\ (x \in handles \/ (owner.for = "reset" /\ owner.q = x))
      BY <3>3 DEF OwnerOK
    <3> QED BY <1>0, <1>1, <1>2, <1>3, <2>2, <2>4, <3>1, <3>2, <3>3, <3>5, <3>6 DEF OwnerOK
  <2>9. NoPusherLeftBehind' BY <1>0, <1>1, <2>2, <2>4 DEF NoPusherLeftBehind
  <2>10. NoLostWakeUp'
    <3> SUFFICES ASSUME NEW x \in Queues, waiting(x) # {}
                 PROVE  IF active'[x]
                          THEN Capacity[x] - count'[x] <=
                               Cardinality(Woken(x)) + (IF consumer.at = "notify" /\ consumer.q = x THEN 1 ELSE 0)
                          ELSE owner'.at = "notify" /\ owner'.q = x
      BY <1>0, <1>1 DEF NoLostWakeUp
    <3>1. CASE x = owner.q BY <2>2, <2>4, <3>1
    <3>2. CASE x # owner.q
      <4>1. count'[x] = count[x] BY <2>1, <3>2 DEF clear, BuffersOK
      <4>2. active[x] /\ active'[x] BY <2>4, <3>2 DEF NoLostWakeUp
      <4> QED BY <4>1, <4>2 DEF NoLostWakeUp
    <3> QED BY <3>1, <3>2
  <2> QED BY <2>5, <2>6, <2>7, <2>8, <2>9, <2>10
<1>5. CASE ~active[owner.q]
  <2>1. owner' = after_set(owner) /\ UNCHANGED <<active, buffer, rpos, count, fifo>> BY <1>5
  <2>2. owner' \in OwnerCall /\ OwnerOK' /\ NoPusherLeftBehind'
    BY <1>0, <1>1, <1>3, <1>5, <2>1, AfterSet
  <2>3. mutex' \in {"free", "consumer", "owner"} /\ running' \in BOOLEAN BY <1>0 DEF HandlerOK
  <2> QED BY <1>0, <2>1, <2>2, <2>3, OwnerOnly DEF portVars
<1> QED BY <1>4, <1>5

(* cv_full.notify_all(): all the threads at the queue are awake.           *)
LEMMA NotifyPushersQInv == QInv /\ NotifyPushers => QInv'
<1> SUFFICES ASSUME QInv, NotifyPushers PROVE QInv' OBVIOUS
<1> USE DEF QInv, NotifyPushers, handlerVars, portVars
<1>1. /\ owner \in OwnerCall /\ owner.for \in {"reset", "recycle", "signal", "join"} /\ owner.q \in Nat
      /\ nof_queues \in Nat /\ owner.q \in 1..nof_queues /\ owner.q \in Queues /\ ~active[owner.q]
  BY OwnerFacts DEF OwnerCall, OwnerOK
<1>2. pusher \in [Pushers -> AtQueue] BY DEF WaitersOK
<1>3. /\ pusher' \in [Pushers -> AtQueue]
      /\ \A t \in Pushers :
           /\ pusher'[t].q = pusher[t].q
           /\ pusher'[t].at = IF pusher[t].at = "blocked" /\ pusher[t].q = owner.q THEN "woken"
                                                                                 ELSE pusher[t].at
  <2>1. pusher' = [t \in Pushers |-> IF t \in waiting(owner.q) THEN [pusher[t] EXCEPT !.at = "woken"]
                                                                ELSE pusher[t]]
    BY DEF notify_all_full
  <2>2. \A t \in Pushers : t \in waiting(owner.q) <=> pusher[t].at = "blocked" /\ pusher[t].q = owner.q
    BY <1>1, <1>2, Placed
  <2>3. ASSUME NEW t \in Pushers
        PROVE  /\ pusher'[t] \in AtQueue /\ pusher'[t].q = pusher[t].q
               /\ pusher'[t].at = IF pusher[t].at = "blocked" /\ pusher[t].q = owner.q THEN "woken"
                                                                                     ELSE pusher[t].at
    <3>1. pusher[t] \in AtQueue BY <1>2
    <3>2. CASE t \in waiting(owner.q)
      <4>1. pusher'[t] = [pusher[t] EXCEPT !.at = "woken"] BY <2>1, <3>2
      <4>2. pusher[t].at = "blocked" /\ pusher[t].q = owner.q BY <2>2, <3>2
      <4> QED BY <1>1, <3>1, <4>1, <4>2 DEF AtQueue, PusherState
    <3>3. CASE t \notin waiting(owner.q) BY <2>1, <2>2, <3>1, <3>3
    <3> QED BY <3>2, <3>3
  <2> QED BY <2>1, <2>3
<1>4. \A x \in Queues : inside(x)' = inside(x) BY <1>3 DEF inside
<1>5. \A x \in Queues : waiting(x)' = (IF x = owner.q THEN {} ELSE waiting(x))
  <2> SUFFICES ASSUME NEW x \in Queues PROVE waiting(x)' = (IF x = owner.q THEN {} ELSE waiting(x))
    OBVIOUS
  <2>1. \A p \in AtQueue : p = [at |-> "blocked", q |-> x] <=> p.at = "blocked" /\ p.q = x
    BY DEF AtQueue, PusherState
  <2>2. \A t \in Pushers : /\ t \in waiting(x) <=> pusher[t].at = "blocked" /\ pusher[t].q = x
                           /\ t \in waiting(x)' <=> pusher'[t].at = "blocked" /\ pusher'[t].q = x
    BY <1>2, <1>3, <2>1 DEF waiting
  <2>3. waiting(x) \subseteq Pushers /\ waiting(x)' \subseteq Pushers BY DEF waiting
  <2> QED BY <1>3, <2>2, <2>3
<1>6. WaitersOK' BY <1>3, <1>4 DEF WaitersOK, WaitersCounted
<1>7. ~past_last BY <1>1 DEF past_last
<1>8. owner' \in OwnerCall /\ OwnerOK' /\ NoPusherLeftBehind' BY <1>1, <1>4, <1>7, AfterSet
<1>9. HandlerOK' BY <1>8 DEF HandlerOK, OwnerCall
<1>10. NoLostWakeUp'
  <2> SUFFICES ASSUME NEW x \in Queues, waiting(x)' # {}
               PROVE  /\ active[x]
                      /\ Capacity[x] - count[x] <=
                           Cardinality(Woken(x)') + (IF consumer.at = "notify" /\ consumer.q = x THEN 1 ELSE 0)
    BY DEF NoLostWakeUp
  <2>1. x # owner.q /\ waiting(x) # {} BY <1>5
  <2>2. Woken(x)' = Woken(x) BY <1>4, <1>5, <2>1 DEF Woken
  <2> QED BY <2>1, <2>2 DEF NoLostWakeUp
<1> QED BY <1>6, <1>8, <1>9, <1>10, BuffersUnchanged

(* A set of naturals that is not empty has a least element, which is what  *)
(* Min() chooses.                                                          *)
LEMMA MinIn ==
  ASSUME NEW S \in SUBSET Nat, S # {}
  PROVE  Min(S) \in S
<1> DEFINE Less == OpToRel(<, Nat)
<1>1. \A m, n \in Nat : <<n, m>> \in Less <=> n < m
  <2>1. Less = {p \in Nat \X Nat : p[1] < p[2]} BY DEF OpToRel
  <2> HIDE DEF Less
  <2> QED BY <2>1
<1>2. PICK x \in S : \A y \in S : ~(<<y, x>> \in Less)
  <2>1. IsWellFoundedOn(Less, Nat) BY NatLessThanWellFounded, Zenon
  <2> HIDE DEF Less
  <2> QED BY <2>1, WFMin, Zenon
<1>3. \A y \in S : x =< y
  <2> SUFFICES ASSUME NEW y \in S PROVE x =< y OBVIOUS
  <2>1. x \in Nat /\ y \in Nat OBVIOUS
  <2>2. ~(y < x)
    <3> HIDE DEF Less
    <3> QED BY <1>1, <1>2, <2>1, Zenon
  <2> QED BY <2>1, <2>2
<1> QED BY <1>3 DEF Min

(* A queue is used only when nobody waits in it any more.                  *)
LEMMA AddQueueQInv == ASSUME QInv, NEW c, AddQueue(c) PROVE QInv'
<1> USE DEF QInv, AddQueue
<1> DEFINE reuse == free_queues(c)
           q     == IF reuse = {} THEN nof_queues + 1 ELSE Min(reuse)
<1>0. /\ nof_queues \in Nat /\ nof_queues <= MaxQueues /\ owner.for = "none"
      /\ \A x \in Queues : x \in Nat /\ x >= 1
  BY OwnerFacts DEF OwnerOK
<1>1. /\ q \in Queues /\ active' = [active EXCEPT ![q] = TRUE] /\ handles' = handles \cup {q}
      /\ nof_queues' = IF q > nof_queues THEN q ELSE nof_queues
  OBVIOUS
<1>2. ~active[q]
  <2>1. CASE reuse = {}
    <3>1. q = nof_queues + 1 BY <2>1
    <3>2. ~(q <= nof_queues) BY <1>0, <3>1
    <3> QED BY <1>1, <3>2 DEF OwnerOK
  <2>2. CASE reuse # {}
    <3>1. reuse \in SUBSET Nat BY <1>0 DEF free_queues
    <3>2. q \in reuse BY <2>2, <3>1, MinIn
    <3> QED BY <3>2 DEF free_queues
  <2> QED BY <2>1, <2>2
<1> HIDE DEF q, reuse
<1>3. /\ active \in [Queues -> BOOLEAN] /\ active' \in [Queues -> BOOLEAN] /\ active'[q]
      /\ \A x \in Queues : x # q => active'[x] = active[x]
  BY <1>1 DEF HandlerOK
<1>4. nof_queues' \in Nat /\ nof_queues <= nof_queues' /\ q <= nof_queues' /\ nof_queues' <= MaxQueues /\ q \in Nat
  BY <1>0, <1>1, Constants
<1>5. \A x \in Queues : inside(x)' = inside(x) /\ waiting(x)' = waiting(x) /\ Woken(x)' = Woken(x)
  BY PushersUnchanged DEF threads
<1>6. UNCHANGED <<mutex, running, consumer_state, spin_idx, buffer, rpos, count, nof_waiting, pusher, consumer, owner, fifo>>
  BY DEF threads
<1>7. BuffersOK' BY <1>6, BuffersUnchanged
<1>8. WaitersOK' BY <1>5, <1>6 DEF WaitersOK, WaitersCounted
<1>9. HandlerOK'
  <2>1. handles' \subseteq 1..nof_queues'
    <3>1. \A x \in handles : x \in 1..nof_queues BY DEF HandlerOK
    <3>2. \A x \in handles : x \in 1..nof_queues' BY <1>0, <1>4, <3>1
    <3>3. q \in 1..nof_queues' BY <1>0, <1>1, <1>4
    <3> QED BY <1>1, <3>2, <3>3
  <2>2. nof_queues' \in 0..MaxQueues BY <1>4, Constants
  <2>3. spin_idx' \in Nat /\ (spin_idx' = 0 \/ spin_idx' < nof_queues') BY <1>0, <1>4, <1>6 DEF HandlerOK
  <2>4. consumer.at \in {"search", "notify"} =>
          consumer.q \in Queues /\ (consumer.q <= nof_queues' \/ consumer.q = 1)
    BY <1>0, <1>4 DEF HandlerOK
  <2> QED BY <1>3, <1>6, <2>1, <2>2, <2>3, <2>4 DEF HandlerOK
<1>10. OwnerOK'
  <2>1. \A x \in Queues : active'[x] => x <= nof_queues' /\ x \in handles'
    <3>1. \A x \in Queues : active[x] => x <= nof_queues /\ x \in handles BY <1>0 DEF OwnerOK
    <3> QED BY <1>0, <1>1, <1>3, <1>4, <3>1
  <2>2. \A x \in Queues : inside(x) # {} => x <= nof_queues' BY <1>0, <1>4 DEF OwnerOK
  <2> QED BY <1>0, <1>5, <1>6, <2>1, <2>2 DEF OwnerOK
<1>11. NoPusherLeftBehind' BY <1>1, <1>3, <1>5 DEF NoPusherLeftBehind
<1>12. NoLostWakeUp'
  <2>1. waiting(q) = {} BY <1>1, <1>2 DEF NoLostWakeUp
  <2> QED BY <1>3, <1>5, <1>6, <2>1 DEF NoLostWakeUp
<1> QED BY <1>7, <1>8, <1>9, <1>10, <1>11, <1>12

(* There are no queues and no waiting threads.                             *)
LEMMA InitQInv == Init => QInv
<1> SUFFICES ASSUME Init PROVE QInv OBVIOUS
<1> USE DEF Init
<1>1. \A q \in Queues : inside(q) = {} /\ waiting(q) = {}
  BY DEF inside, waiting, Idle
<1>2. BuffersOK
  <2>1. \A q \in Queues : /\ rpos[q] \in 0..(Capacity[q] - 1) /\ count[q] \in 0..Capacity[q]
                          /\ buffer[q] \in [0..(Capacity[q] - 1) -> Message \cup {None}]
    BY Constants
  <2>2. ContentsInOrder
    <3> SUFFICES ASSUME NEW q \in Queues
                 PROVE  fifo[q] = [i \in 1..count[q] |-> buffer[q][(rpos[q] + i - 1) % Capacity[q]]]
      BY DEF ContentsInOrder
    <3>1. fifo[q] = <<>> /\ count[q] = 0 OBVIOUS
    <3> HIDE DEF Init
    <3> QED BY <3>1
  <2>3. fifo \in [Queues -> Seq(Message)] OBVIOUS
  <2> QED BY <2>1, <2>2, <2>3 DEF BuffersOK
<1>3. HandlerOK
  <2>1. /\ consumer \in [at : ConsumerAt, q : Queues \cup {None}, count : Nat, collisions : Nat]
        /\ consumer.at \notin {"search", "notify"}
    BY OutsideSearch DEF ConsumerAt
  <2>2. owner \in OwnerCall BY DEF NoCall, OwnerCall, OwnerAt, None
  <2>3. nof_queues \in 0..MaxQueues /\ spin_idx \in Nat /\ handles \subseteq 1..nof_queues BY Constants
  <2>4. active \in [Queues -> BOOLEAN] /\ running \in BOOLEAN /\ consumer_state \in BOOLEAN OBVIOUS
  <2> QED BY <2>1, <2>2, <2>3, <2>4 DEF HandlerOK, OwnerCall
<1>4. WaitersOK
  <2>1. Idle \in AtQueue BY DEF Idle, AtQueue, PusherState
  <2>2. \A q \in Queues : Cardinality(inside(q)) = 0 BY <1>1, FS_EmptySet
  <2> QED BY <2>1, <2>2 DEF WaitersOK, WaitersCounted
<1>5. OwnerOK BY <1>1 DEF OwnerOK, NoCall
<1>6. NoLostWakeUp /\ NoPusherLeftBehind BY <1>1 DEF NoLostWakeUp, NoPusherLeftBehind
<1> QED BY <1>2, <1>3, <1>4, <1>5, <1>6 DEF QInv

(* A step that changes nothing.                                            *)
LEMMA StutterQInv == QInv /\ UNCHANGED vars => QInv'
<1> SUFFICES ASSUME QInv, UNCHANGED vars PROVE QInv' OBVIOUS
<1> USE DEF QInv, vars, handlerVars, portVars, threads
<1>1. \A x \in Queues : inside(x)' = inside(x) /\ waiting(x)' = waiting(x) /\ Woken(x)' = Woken(x)
  BY PushersUnchanged
<1>2. WaitersOK' BY <1>1 DEF WaitersOK, WaitersCounted
<1>3. OwnerOK' /\ NoPusherLeftBehind' BY <1>1, FewerInside
<1>4. NoLostWakeUp' BY <1>1, WakeUpsKept
<1> QED BY <1>2, <1>3, <1>4, BuffersUnchanged, HandlerUnchanged

(* Every step keeps the invariant.                                         *)
LEMMA NextQInv == QInv /\ [Next]_vars => QInv'
<1> SUFFICES ASSUME QInv, [Next]_vars PROVE QInv' OBVIOUS
<1>1. ASSUME NEW t \in Pushers, PusherStep(t) \/ SpuriousWakeUp(t) PROVE QInv'
  BY <1>1, RetryQInv, LeaveQInv, SpuriousQInv DEF PusherStep
<1>2. ASSUME NEW t \in Pushers, NEW q \in Queues, Push(t, q) \/ TryPush(t, q) PROVE QInv'
  BY <1>2, PushQInv, TryPushQInv
<1>3. CASE ConsumerStep
  BY <1>3, EnterQInv, PopQInv, NotifyQInv, SearchQInv, LeaveWaitPopQInv DEF ConsumerStep
<1>4. CASE OwnerStep \/ Stop
  BY <1>4, SetInactiveQInv, NotifyPushersQInv, CheckQInv, WaitForConsumerQInv, StoppedQInv, StopQInv
  DEF OwnerStep
<1>5. ASSUME NEW q \in Queues, AddQueue(Capacity[q]) \/ Reset(q) PROVE QInv'
  BY <1>5, AddQueueQInv, ResetQInv
<1> QED BY <1>1, <1>2, <1>3, <1>4, <1>5, StutterQInv DEF Next

(* The invariant holds always, without any fairness.                       *)
LEMMA QInvAlways == Safety => []QInv
BY InitQInv, NextQInv, PTL DEF Safety

-----------------------------------------------------------------------------
(* The theorems                                                            *)

(* The indices of the circular buffers keep their ranges, the messages     *)
(* come out in the order they were accepted, and nof_waiting counts the    *)
(* threads in the wait loop of push_().                                    *)
THEOREM QueuesKept == Safety => []QueuesConsistent
<1>1. QInv => QueuesConsistent
  <2> SUFFICES ASSUME QInv PROVE QueuesConsistent OBVIOUS
  <2>1. nof_waiting \in [Queues -> 0..Cardinality(Pushers)]
    <3>1. Cardinality(Pushers) \in Nat BY Constants, FS_CardinalityType
    <3>2. \A q \in Queues : nof_waiting[q] \in Nat /\ nof_waiting[q] <= Cardinality(Pushers)
      BY ThreadSets DEF QInv, WaitersOK, WaitersCounted
    <3>3. \A q \in Queues : nof_waiting[q] \in 0..Cardinality(Pushers) BY <3>1, <3>2
    <3> QED BY <3>3 DEF QInv, WaitersOK
  <2>2. pusher \in [Pushers -> PusherState] BY DEF QInv, WaitersOK, AtQueue
  <2>3. TypeOK BY <2>1, <2>2 DEF QInv, HandlerOK, BuffersOK, TypeOK
  <2> QED BY <2>3 DEF QInv, BuffersOK, WaitersOK, QueuesConsistent
<1> QED BY <1>1, QInvAlways, PTL

(* No wake-up is lost: pop_() notifies outside of the mutex of the queue,  *)
(* and still there is for every free place a thread that is awake or about *)
(* to be notified, and deactivation wakes them all.                        *)
THEOREM WakeUpsNotLost == Safety => []NoLostWakeUp
<1>1. QInv => NoLostWakeUp BY DEF QInv
<1> QED BY <1>1, QInvAlways, PTL

(* Neither reset() nor stop() returns with a thread left inside push(),    *)
(* and add_queue() uses no queue again that one is left in.                *)
THEOREM PushersNotLeftBehind == Safety => []NoPusherLeftBehind
<1>1. QInv => NoPusherLeftBehind BY DEF QInv
<1> QED BY <1>1, QInvAlways, PTL
=============================================================================
