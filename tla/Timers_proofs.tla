---------------------------- MODULE Timers_proofs ----------------------------
(***************************************************************************)
(* Proofs about Timers, for every number of timers, size of the wheel and  *)
(* range of tic_t.  For every use the callers make of it, the wheel, the   *)
(* free list and the two counters agree with the timers' states; for       *)
(* callers that make none of the delicate uses, no expiry is missed.       *)
(***************************************************************************)
EXTENDS Timers, FiniteSetTheorems, TLAPS

(* A remainder is an index: slots and tics are reduced with it.            *)
LEMMA ModRange ==
  ASSUME NEW a \in Int, NEW b \in Nat \ {0}
  PROVE  a % b \in 0..(b - 1)
OBVIOUS

(* The slot of a timeout is a slot of the wheel.                           *)
LEMMA WheelPosInSlots ==
  ASSUME NEW x \in Tics
  PROVE  wheel_pos(x) \in Slots
BY ModRange, TimersAssumption DEF wheel_pos, Slots, Tics

(* The clock is kept in its range by the modulus.                          *)
LEMMA TicInTics ==
  ASSUME NEW a \in Int
  PROVE  a % TicMod \in Tics
BY ModRange, TimersAssumption DEF Tics

(* pop() unlinks the timer and nothing else.                               *)
LEMMA PopElems ==
  ASSUME NEW l \in Seq(Ids), Distinct(l), NEW t \in Elems(l)
  PROVE  /\ pop(l, t) \in Seq(Ids)
         /\ Distinct(pop(l, t))
         /\ Elems(pop(l, t)) = Elems(l) \ {t}
         /\ Len(pop(l, t)) = Len(l) - 1
<1> DEFINE p == CHOOSE i \in DOMAIN l : l[i] = t
           m == pop(l, t)
<1>1. p \in 1..Len(l) /\ l[p] = t
  <2>1. \E i \in DOMAIN l : l[i] = t
    BY DEF Elems
  <2>2. p \in DOMAIN l /\ l[p] = t
    BY <2>1
  <2> QED BY <2>2
<1>2. m = [i \in 1..(Len(l) - 1) |-> IF i < p THEN l[i] ELSE l[i + 1]]
  BY DEF pop
<1>3. Len(l) - 1 \in Nat
  BY <1>1
<1>4. \A i \in 1..(Len(l) - 1) : m[i] = IF i < p THEN l[i] ELSE l[i + 1]
  BY <1>2
<1>5. \A i \in 1..Len(l) : l[i] \in Ids
  OBVIOUS
<1> HIDE DEF p, m
<1>6. m \in Seq(Ids) /\ Len(m) = Len(l) - 1 /\ DOMAIN m = 1..(Len(l) - 1)
  <2>1. m \in [1..(Len(l) - 1) -> Ids]
    <3>1. \A i \in 1..(Len(l) - 1) : (IF i < p THEN l[i] ELSE l[i + 1]) \in Ids
      BY <1>5, <1>3, <1>1
    <3> QED BY <1>2, <3>1
  <2> QED BY <2>1, <1>3
<1>7. Distinct(m)
  <2> SUFFICES ASSUME NEW i \in 1..(Len(l) - 1), NEW j \in 1..(Len(l) - 1), m[i] = m[j]
               PROVE  i = j
    BY <1>6 DEF Distinct
  <2>1. \A a, b \in 1..Len(l) : l[a] = l[b] => a = b
    BY DEF Distinct
  <2>2. i \in 1..Len(l) /\ i + 1 \in 1..Len(l) /\ j \in 1..Len(l) /\ j + 1 \in 1..Len(l)
    BY <1>3
  <2>3. CASE i < p /\ j < p
    BY <2>1, <2>2, <2>3, <1>4
  <2>4. CASE i < p /\ ~(j < p)
    <3>1. l[i] = l[j + 1]
      BY <2>4, <1>4
    <3> QED BY <2>1, <2>2, <2>4, <3>1, <1>1
  <2>5. CASE ~(i < p) /\ j < p
    <3>1. l[i + 1] = l[j]
      BY <2>5, <1>4
    <3> QED BY <2>1, <2>2, <2>5, <3>1, <1>1
  <2>6. CASE ~(i < p) /\ ~(j < p)
    <3>1. l[i + 1] = l[j + 1]
      BY <2>6, <1>4
    <3> QED BY <2>1, <2>2, <3>1
  <2> QED BY <2>3, <2>4, <2>5, <2>6
<1>8. ASSUME NEW x
      PROVE  x \in Elems(m) <=> x \in Elems(l) \ {t}
  <2>1. ASSUME x \in Elems(m) PROVE x \in Elems(l) \ {t}
    <3>1. PICK i \in 1..(Len(l) - 1) : m[i] = x
      BY <2>1, <1>6 DEF Elems
    <3>2. PICK k \in 1..Len(l) : x = l[k] /\ k # p
      BY <3>1, <1>4, <1>1, <1>3
    <3> QED BY <3>2, <1>1 DEF Elems, Distinct
  <2>2. ASSUME x \in Elems(l) \ {t} PROVE x \in Elems(m)
    <3>1. PICK k \in 1..Len(l) : l[k] = x
      BY <2>2 DEF Elems
    <3>2. k # p
      BY <3>1, <2>2, <1>1
    <3>3. CASE k < p
      <4>1. k \in 1..(Len(l) - 1) /\ m[k] = x
        BY <3>3, <3>1, <1>4, <1>1, <1>3
      <4> QED BY <4>1, <1>6 DEF Elems
    <3>4. CASE k > p
      <4>1. k - 1 \in 1..(Len(l) - 1) /\ m[k - 1] = x
        BY <3>4, <3>1, <1>4, <1>1, <1>3
      <4> QED BY <4>1, <1>6 DEF Elems
    <3> QED BY <3>2, <3>3, <3>4, <1>1
  <2> QED BY <2>1, <2>2
<1>9. Elems(m) = Elems(l) \ {t}
  BY <1>8
<1> QED BY <1>6, <1>7, <1>9 DEF m

(* push_front() links the timer at the head.                               *)
LEMMA PushElems ==
  ASSUME NEW l \in Seq(Ids), Distinct(l), NEW t \in Ids, t \notin Elems(l)
  PROVE  /\ push_front(l, t) \in Seq(Ids)
         /\ Distinct(push_front(l, t))
         /\ Elems(push_front(l, t)) = Elems(l) \cup {t}
         /\ Len(push_front(l, t)) = Len(l) + 1
<1> DEFINE m == push_front(l, t)
<1>1. m \in Seq(Ids) /\ Len(m) = Len(l) + 1 /\ DOMAIN m = 1..(Len(l) + 1)
  BY DEF push_front
<1>2. m[1] = t /\ \A i \in 1..Len(l) : m[i + 1] = l[i]
  BY DEF push_front
<1>3. \A i \in 2..(Len(l) + 1) : i - 1 \in 1..Len(l) /\ m[i] = l[i - 1]
  BY <1>2
<1> HIDE DEF m
<1>4. Distinct(m)
  <2> SUFFICES ASSUME NEW i \in 1..(Len(l) + 1), NEW j \in 1..(Len(l) + 1), m[i] = m[j]
               PROVE  i = j
    BY <1>1 DEF Distinct
  <2>1. CASE i = 1 /\ j = 1
    BY <2>1
  <2>2. CASE i = 1 /\ j # 1
    BY <2>2, <1>2, <1>3 DEF Elems
  <2>3. CASE i # 1 /\ j = 1
    BY <2>3, <1>2, <1>3 DEF Elems
  <2>4. CASE i # 1 /\ j # 1
    BY <2>4, <1>3 DEF Distinct
  <2> QED BY <2>1, <2>2, <2>3, <2>4
<1>5. ASSUME NEW x
      PROVE  x \in Elems(m) <=> x \in Elems(l) \cup {t}
  <2>1. ASSUME x \in Elems(m) PROVE x \in Elems(l) \cup {t}
    BY <2>1, <1>1, <1>2, <1>3 DEF Elems
  <2>2. ASSUME x \in Elems(l) PROVE x \in Elems(m)
    <3>1. PICK k \in 1..Len(l) : l[k] = x
      BY <2>2 DEF Elems
    <3> QED BY <3>1, <1>1, <1>2 DEF Elems
  <2>3. t \in Elems(m)
    BY <1>1, <1>2 DEF Elems
  <2> QED BY <2>1, <2>2, <2>3
<1>6. Elems(m) = Elems(l) \cup {t}
  BY <1>5
<1> QED BY <1>1, <1>4, <1>6 DEF m

-----------------------------------------------------------------------------
(* The timers and the wheel: what start_run_, stop_timer_ and the scan     *)
(* keep between them.                                                      *)
WheelTypeOK ==
  /\ timers \in [Ids -> TimerImpl]
  /\ time_wheel \in [Slots -> Seq(Ids)]
  /\ nof_timers_running \in Nat

WheelInv == WheelTypeOK /\ WheelMatchesTimers /\ RunningCountExact

(* The timers that run can be counted.                                     *)
LEMMA RunningFinite ==
  IsFiniteSet(Running) /\ Cardinality(Running) \in Nat
<1>1. IsFiniteSet(Ids)
  BY FS_Interval, TimersAssumption DEF Ids
<1>2. Running \subseteq Ids
  BY DEF Running
<1> QED BY <1>1, <1>2, FS_Subset, FS_CardinalityType

(* The fields of a timer have their ranges.                                *)
LEMMA TimerFields ==
  ASSUME WheelTypeOK, NEW t \in Ids
  PROVE  /\ timers[t] \in TimerImpl
         /\ timers[t].timeout \in Tics /\ timers[t].duration \in Tics
         /\ timers[t].callback \in Callbacks
         /\ timers[t].flag \in {"STOPPED", "RUNNING", "EXPIRED"}
         /\ wheel_pos(timers[t].timeout) \in Slots
BY WheelPosInSlots DEF WheelTypeOK, TimerImpl

(* The running set grows or shrinks by the timer an operation is about.    *)
LEMMA RunningAdd ==
  ASSUME RunningCountExact, NEW t \in Ids, ~is_running(t), Running' = Running \cup {t},
         nof_timers_running' = nof_timers_running + 1
  PROVE  RunningCountExact' /\ nof_timers_running' \in Nat
<1>1. t \notin Running
  BY DEF Running
<1>2. Cardinality(Running \cup {t}) = Cardinality(Running) + 1
  BY <1>1, RunningFinite, FS_AddElement
<1> QED BY <1>2, RunningFinite DEF RunningCountExact

(* One timer less runs, and the counter is one less.                       *)
LEMMA RunningRemove ==
  ASSUME RunningCountExact, NEW t \in Ids, is_running(t), Running' = Running \ {t},
         nof_timers_running' = nof_timers_running - 1
  PROVE  RunningCountExact' /\ nof_timers_running' \in Nat
<1>1. t \in Running
  BY DEF Running
<1>2. Cardinality(Running \ {t}) = Cardinality(Running) - 1 /\ IsFiniteSet(Running \ {t})
  BY <1>1, RunningFinite, FS_RemoveElement
<1>3. Cardinality(Running \ {t}) \in Nat
  BY <1>2, FS_CardinalityType
<1> QED BY <1>2, <1>3, RunningFinite DEF RunningCountExact

(* stop_timer_, as stop(), release() and the expiry in step_all() use it:  *)
(* the timer's new state is any that is not running.                       *)
LEMMA StopKeepsWheel ==
  ASSUME WheelInv, NEW t \in Ids, NEW tm \in TimerImpl, tm.flag # "RUNNING",
         stop_timer(t), timers' = [timers EXCEPT ![t] = tm]
  PROVE  WheelInv'
<1> DEFINE from == wheel_pos(timers[t].timeout)
<1>1. from \in Slots
  BY TimerFields DEF WheelInv
<1>2. /\ timers' \in [Ids -> TimerImpl]
      /\ timers'[t] = tm
      /\ \A u \in Ids \ {t} : timers'[u] = timers[u]
  BY DEF WheelInv, WheelTypeOK
<1>3. \A u \in Ids : is_running(u)' <=> is_running(u) /\ u # t
  BY <1>2 DEF is_running
<1>4. Running' = Running \ {t}
  BY <1>3 DEF Running
<1>5. CASE is_running(t)
  <2> DEFINE l == time_wheel[from]
  <2>1. l \in Seq(Ids) /\ Distinct(l) /\ t \in Elems(l)
    BY <1>1, <1>5 DEF WheelInv, WheelTypeOK, WheelMatchesTimers
  <2>2. /\ time_wheel' = [time_wheel EXCEPT ![from] = pop(l, t)]
        /\ nof_timers_running' = nof_timers_running - 1
    BY <1>5 DEF stop_timer
  <2>3. /\ pop(l, t) \in Seq(Ids) /\ Distinct(pop(l, t))
        /\ Elems(pop(l, t)) = Elems(l) \ {t}
    BY <2>1, PopElems
  <2>4. /\ time_wheel' \in [Slots -> Seq(Ids)]
        /\ time_wheel'[from] = pop(l, t)
        /\ \A s \in Slots \ {from} : time_wheel'[s] = time_wheel[s]
    BY <2>2, <2>3, <1>1 DEF WheelInv, WheelTypeOK
  <2>5. \A s \in Slots : Distinct(time_wheel'[s])
    BY <2>3, <2>4 DEF WheelInv, WheelMatchesTimers
  <2>6. ASSUME NEW s \in Slots, NEW u \in Ids
        PROVE  u \in Elems(time_wheel'[s])
                 <=> is_running(u)' /\ wheel_pos(timers'[u].timeout) = s
    <3>1. CASE u = t
      BY <3>1, <1>3, <2>3, <2>4, <1>5 DEF WheelInv, WheelMatchesTimers
    <3>2. CASE u # t
      <4>1. u \in Elems(time_wheel'[s]) <=> u \in Elems(time_wheel[s])
        BY <3>2, <2>3, <2>4
      <4> QED BY <4>1, <3>2, <1>2, <1>3 DEF WheelInv, WheelMatchesTimers
    <3> QED BY <3>1, <3>2
  <2>7. RunningCountExact' /\ nof_timers_running' \in Nat
    BY <1>4, <1>5, <2>2, RunningRemove DEF WheelInv
  <2> QED BY <1>2, <2>4, <2>5, <2>6, <2>7 DEF WheelInv, WheelTypeOK, WheelMatchesTimers
<1>6. CASE ~is_running(t)
  <2>1. time_wheel' = time_wheel /\ nof_timers_running' = nof_timers_running
    BY <1>6 DEF stop_timer
  <2>2. \A u \in Ids : is_running(u)' <=> is_running(u)
    BY <1>3, <1>6
  <2>3. Running' = Running
    BY <2>2 DEF Running
  <2>4. \A u \in Ids : is_running(u) => timers'[u] = timers[u]
    BY <1>2, <1>6
  <2> QED BY <1>2, <2>1, <2>2, <2>3, <2>4
          DEF WheelInv, WheelTypeOK, WheelMatchesTimers, RunningCountExact
<1> QED BY <1>5, <1>6

(* start_run_: a (re)started timer is linked in its new slot only.         *)
LEMMA StartKeepsWheel ==
  ASSUME WheelInv, cur_time \in Tics, NEW t \in Ids, NEW d \in Tics, NEW cb \in Callbacks,
         start_run(t, d, cb)
  PROVE  WheelInv'
<1> DEFINE duration    == IF d = 0 THEN timers[t].duration ELSE d
           new_timeout == (cur_time + duration) % TicMod
           from        == wheel_pos(timers[t].timeout)
           to          == wheel_pos(new_timeout)
           Popped(s)   == IF is_running(t) /\ s = from THEN pop(time_wheel[s], t)
                                                       ELSE time_wheel[s]
           tm          == [allocated |-> TRUE, flag |-> "RUNNING", duration |-> duration,
                           timeout |-> new_timeout, callback |-> cb]
<1>1. duration \in Tics /\ from \in Slots
  BY TimerFields DEF WheelInv
<1>2. new_timeout \in Tics
  <2>1. cur_time + duration \in Int
    BY <1>1 DEF Tics
  <2> QED BY <2>1, TicInTics
<1>3. to \in Slots
  BY <1>2, WheelPosInSlots
<1>4. tm \in TimerImpl /\ tm.flag = "RUNNING" /\ tm.timeout = new_timeout
  BY <1>1, <1>2 DEF TimerImpl
<1>5. /\ timers' = [timers EXCEPT ![t] = tm]
      /\ time_wheel' = IF is_running(t) /\ from = to
                       THEN time_wheel
                       ELSE [s \in Slots |-> IF s = to
                                             THEN push_front(Popped(s), t)
                                             ELSE Popped(s)]
      /\ nof_timers_running' = IF is_running(t) THEN nof_timers_running
                                                ELSE nof_timers_running + 1
  BY DEF start_run
<1> HIDE DEF duration, new_timeout, from, to, tm
<1>6. /\ timers' \in [Ids -> TimerImpl]
      /\ timers'[t].flag = "RUNNING" /\ wheel_pos(timers'[t].timeout) = to
      /\ \A u \in Ids \ {t} : timers'[u] = timers[u]
  BY <1>4, <1>5 DEF WheelInv, WheelTypeOK, to
<1>7. \A u \in Ids : is_running(u)' <=> is_running(u) \/ u = t
  BY <1>6 DEF is_running
<1>8. Running' = Running \cup {t}
  BY <1>7 DEF Running
<1>9. RunningCountExact' /\ nof_timers_running' \in Nat
  <2>1. CASE is_running(t)
    <3>1. Running' = Running
      BY <1>8, <2>1 DEF Running
    <3> QED BY <3>1, <2>1, <1>5 DEF WheelInv, WheelTypeOK, RunningCountExact
  <2>2. CASE ~is_running(t)
    BY <2>2, <1>5, <1>8, RunningAdd DEF WheelInv
  <2> QED BY <2>1, <2>2
<1>10. \A s \in Slots : /\ Popped(s) \in Seq(Ids) /\ Distinct(Popped(s))
                        /\ ~(is_running(t) /\ from = to) /\ s = to => t \notin Elems(Popped(s))
                        /\ s # to /\ s = from /\ is_running(t) => t \notin Elems(Popped(s))
                        /\ \A u \in Ids \ {t} : u \in Elems(Popped(s)) <=> u \in Elems(time_wheel[s])
  <2> SUFFICES ASSUME NEW s \in Slots
               PROVE  /\ Popped(s) \in Seq(Ids) /\ Distinct(Popped(s))
                      /\ ~(is_running(t) /\ from = to) /\ s = to => t \notin Elems(Popped(s))
                      /\ s # to /\ s = from /\ is_running(t) => t \notin Elems(Popped(s))
                      /\ \A u \in Ids \ {t} : u \in Elems(Popped(s)) <=> u \in Elems(time_wheel[s])
    OBVIOUS
  <2>1. /\ time_wheel[s] \in Seq(Ids) /\ Distinct(time_wheel[s])
        /\ t \in Elems(time_wheel[s]) <=> is_running(t) /\ from = s
    BY DEF WheelInv, WheelTypeOK, WheelMatchesTimers, from
  <2>2. CASE is_running(t) /\ s = from
    <3>1. Popped(s) = pop(time_wheel[s], t)
      BY <2>2
    <3>2. /\ pop(time_wheel[s], t) \in Seq(Ids) /\ Distinct(pop(time_wheel[s], t))
          /\ Elems(pop(time_wheel[s], t)) = Elems(time_wheel[s]) \ {t}
      BY <2>1, <2>2, PopElems
    <3> QED BY <3>1, <3>2
  <2>3. CASE ~(is_running(t) /\ s = from)
    <3>1. Popped(s) = time_wheel[s]
      BY <2>3
    <3> QED BY <3>1, <2>1, <2>3
  <2> QED BY <2>2, <2>3
<1>11. /\ time_wheel' \in [Slots -> Seq(Ids)]
       /\ \A s \in Slots : Distinct(time_wheel'[s])
       /\ \A s \in Slots : t \in Elems(time_wheel'[s]) <=> s = to
       /\ \A s \in Slots : \A u \in Ids \ {t} :
            u \in Elems(time_wheel'[s]) <=> u \in Elems(time_wheel[s])
  <2>1. CASE is_running(t) /\ from = to
    <3>1. time_wheel' = time_wheel
      BY <1>5, <2>1
    <3> QED BY <3>1, <2>1 DEF WheelInv, WheelTypeOK, WheelMatchesTimers, from
  <2>2. CASE ~(is_running(t) /\ from = to)
    <3>1. time_wheel' = [s \in Slots |-> IF s = to THEN push_front(Popped(s), t) ELSE Popped(s)]
      BY <1>5, <2>2
    <3> HIDE DEF Popped
    <3>2. /\ push_front(Popped(to), t) \in Seq(Ids)
          /\ Distinct(push_front(Popped(to), t))
          /\ Elems(push_front(Popped(to), t)) = Elems(Popped(to)) \cup {t}
      BY <1>3, <1>10, <2>2, PushElems
    <3>3. time_wheel' \in [Slots -> Seq(Ids)]
      BY <3>1, <3>2, <1>10
    <3>4. time_wheel'[to] = push_front(Popped(to), t)
      BY <3>1, <1>3
    <3>5. \A s \in Slots \ {to} : time_wheel'[s] = Popped(s)
      BY <3>1
    <3>6. \A s \in Slots \ {to} : t \notin Elems(Popped(s))
      <4> SUFFICES ASSUME NEW s \in Slots \ {to} PROVE t \notin Elems(Popped(s))
        OBVIOUS
      <4>1. CASE is_running(t) /\ s = from
        BY <4>1, <1>10
      <4>2. CASE ~(is_running(t) /\ s = from)
        <5>1. Popped(s) = time_wheel[s]
          BY <4>2 DEF Popped
        <5> QED BY <5>1, <4>2 DEF WheelInv, WheelMatchesTimers, from
      <4> QED BY <4>1, <4>2
    <3> QED BY <3>2, <3>3, <3>4, <3>5, <3>6, <1>10
  <2> QED BY <2>1, <2>2
<1>12. ASSUME NEW s \in Slots, NEW u \in Ids
       PROVE  u \in Elems(time_wheel'[s])
                <=> is_running(u)' /\ wheel_pos(timers'[u].timeout) = s
  <2>1. CASE u = t
    BY <2>1, <1>6, <1>7, <1>11
  <2>2. CASE u # t
    <3>1. u \in Elems(time_wheel[s]) <=> is_running(u) /\ wheel_pos(timers[u].timeout) = s
      BY DEF WheelInv, WheelMatchesTimers
    <3> QED BY <3>1, <2>2, <1>6, <1>7, <1>11
  <2> QED BY <2>1, <2>2
<1> QED BY <1>6, <1>9, <1>11, <1>12 DEF WheelInv, WheelTypeOK, WheelMatchesTimers

-----------------------------------------------------------------------------
(* The free list: what allocation and release keep.                        *)
FreeTypeOK ==
  /\ timers \in [Ids -> TimerImpl]
  /\ timer_list_size \in 0..MaxTimers
  /\ free_list \in Seq(Ids) /\ nof_free_timers \in Nat
  /\ held \subseteq Ids

FreeInv == FreeTypeOK /\ FreeListMatchesAllocation

(* An operation on a timer that is allocated, and stays so.                *)
LEMMA AllocatedKeepsFree ==
  ASSUME FreeInv, NEW t \in Ids, timers[t].allocated,
         NEW tm \in TimerImpl, tm.allocated,
         timers' = [timers EXCEPT ![t] = tm], UNCHANGED allocVars
  PROVE  FreeInv'
<1>1. /\ timers' \in [Ids -> TimerImpl]
      /\ timers'[t].allocated
      /\ \A u \in Ids \ {t} : timers'[u] = timers[u]
  BY DEF FreeInv, FreeTypeOK
<1>2. UNCHANGED <<timer_list_size, free_list, nof_free_timers, held>>
  BY DEF allocVars
<1>3. \A u \in Ids : /\ timers'[u].allocated <=> timers[u].allocated
                     /\ ~timers'[u].allocated => timers'[u] = timers[u]
  BY <1>1
<1> QED BY <1>1, <1>2, <1>3 DEF FreeInv, FreeTypeOK, FreeListMatchesAllocation

(* alloc_timer hands out a timer that is idle and that nobody holds.       *)
LEMMA AllocIdIdle ==
  ASSUME FreeInv, alloc_timer
  PROVE  alloc_id \in Ids /\ timers[alloc_id] = NewTimer /\ alloc_id \notin held
<1>1. CASE free_list # <<>>
  <2>1. alloc_id = free_list[1] /\ 1 \in DOMAIN free_list /\ free_list[1] \in Ids
    BY <1>1 DEF alloc_id, FreeInv, FreeTypeOK
  <2>2. alloc_id \in Elems(free_list)
    BY <2>1 DEF Elems
  <2> QED BY <2>1, <2>2 DEF FreeInv, FreeListMatchesAllocation
<1>2. CASE free_list = <<>>
  <2>1. alloc_id = timer_list_size /\ timer_list_size < MaxTimers
    BY <1>2 DEF alloc_id, alloc_timer
  <2>2. alloc_id \in Ids /\ ~(alloc_id < timer_list_size)
    BY <2>1, TimersAssumption DEF Ids, FreeInv, FreeTypeOK
  <2> QED BY <2>2 DEF FreeInv, FreeListMatchesAllocation
<1> QED BY <1>1, <1>2

(* alloc_timer() takes its timer out of the free list, or grows the deque. *)
LEMMA AllocKeepsFree ==
  ASSUME FreeInv, alloc_timer, NEW tm \in TimerImpl, tm.allocated,
         timers' = [timers EXCEPT ![alloc_id] = tm], held' \subseteq held \cup {alloc_id}
  PROVE  FreeInv'
<1> DEFINE t == alloc_id
<1>1. t \in Ids /\ timers[t] = NewTimer /\ ~timers[t].allocated
  BY AllocIdIdle DEF NewTimer
<1>2. /\ timers' \in [Ids -> TimerImpl]
      /\ timers'[t].allocated
      /\ \A u \in Ids \ {t} : timers'[u] = timers[u]
  BY <1>1 DEF FreeInv, FreeTypeOK
<1>3. held' \subseteq Ids
  BY <1>1 DEF FreeInv, FreeTypeOK
<1>4. \A u \in Ids : ~timers'[u].allocated => timers'[u] = NewTimer /\ u \notin held'
  BY <1>2 DEF FreeInv, FreeListMatchesAllocation
<1>5. CASE free_list # <<>>
  <2>1. /\ t = free_list[1] /\ free_list' = Tail(free_list)
        /\ nof_free_timers' = nof_free_timers - 1 /\ timer_list_size' = timer_list_size
    BY <1>5 DEF alloc_id, alloc_timer, FreeInv, FreeTypeOK
  <2>2. /\ free_list \in Seq(Ids) /\ Len(free_list) \in Nat \ {0}
        /\ nof_free_timers = Len(free_list) /\ Distinct(free_list)
        /\ DOMAIN free_list = 1..Len(free_list)
    BY <1>5 DEF FreeInv, FreeTypeOK, FreeListMatchesAllocation
  <2>3. /\ free_list' \in Seq(Ids) /\ Len(free_list') = Len(free_list) - 1
        /\ DOMAIN free_list' = 1..(Len(free_list) - 1)
        /\ \A i \in 1..(Len(free_list) - 1) : free_list'[i] = free_list[i + 1]
    BY <2>1, <2>2
  <2>4. Distinct(free_list')
    <3> SUFFICES ASSUME NEW i \in 1..(Len(free_list) - 1), NEW j \in 1..(Len(free_list) - 1),
                        free_list'[i] = free_list'[j]
                 PROVE  i = j
      BY <2>3 DEF Distinct
    <3>1. i + 1 \in DOMAIN free_list /\ j + 1 \in DOMAIN free_list
      BY <2>2
    <3>2. free_list[i + 1] = free_list[j + 1]
      BY <2>3
    <3>3. i + 1 = j + 1
      BY <3>1, <3>2, <2>2 DEF Distinct
    <3> QED BY <3>3
  <2>5. ASSUME NEW u \in Ids
        PROVE  u \in Elems(free_list') <=> u \in Elems(free_list) /\ u # t
    <3>1. ASSUME u \in Elems(free_list') PROVE u \in Elems(free_list) /\ u # t
      <4>1. PICK i \in 1..(Len(free_list) - 1) : free_list'[i] = u
        BY <3>1, <2>3 DEF Elems
      <4>2. i + 1 \in DOMAIN free_list /\ free_list[i + 1] = u /\ i + 1 # 1 /\ 1 \in DOMAIN free_list
        BY <4>1, <2>2, <2>3
      <4> QED BY <4>2, <2>1, <2>2 DEF Elems, Distinct
    <3>2. ASSUME u \in Elems(free_list), u # t PROVE u \in Elems(free_list')
      <4>1. PICK i \in 1..Len(free_list) : free_list[i] = u
        BY <3>2, <2>2 DEF Elems
      <4>2. i - 1 \in 1..(Len(free_list) - 1) /\ free_list'[i - 1] = u
        BY <4>1, <3>2, <2>1, <2>2, <2>3
      <4> QED BY <4>2, <2>3 DEF Elems
    <3> QED BY <3>1, <3>2
  <2>6. \A u \in Ids : u \in Elems(free_list')
                         <=> u < timer_list_size' /\ ~timers'[u].allocated
    BY <2>1, <2>5, <1>1, <1>2 DEF FreeInv, FreeListMatchesAllocation
  <2>7. t \in Elems(free_list)
    BY <2>1, <2>2 DEF Elems
  <2>8. \A u \in Ids : timers'[u].allocated => u < timer_list_size'
    BY <2>1, <2>7, <1>1, <1>2 DEF FreeInv, FreeListMatchesAllocation
  <2>9. nof_free_timers' = Len(free_list') /\ nof_free_timers' \in Nat
    BY <2>1, <2>2, <2>3
  <2> QED BY <2>1, <2>3, <2>4, <2>6, <2>8, <2>9, <1>2, <1>3, <1>4
          DEF FreeInv, FreeTypeOK, FreeListMatchesAllocation
<1>6. CASE free_list = <<>>
  <2>1. /\ t = timer_list_size /\ timer_list_size < MaxTimers
        /\ timer_list_size' = timer_list_size + 1
        /\ free_list' = free_list /\ nof_free_timers' = nof_free_timers
    BY <1>6 DEF alloc_id, alloc_timer
  <2>2. timer_list_size' \in 0..MaxTimers
    BY <2>1, TimersAssumption DEF FreeInv, FreeTypeOK
  <2>3. \A u \in Ids : u < timer_list_size' <=> u < timer_list_size \/ u = t
    BY <2>1 DEF Ids, FreeInv, FreeTypeOK
  <2>4. \A u \in Ids : u \in Elems(free_list')
                         <=> u < timer_list_size' /\ ~timers'[u].allocated
    <3>1. t \notin Elems(free_list)
      BY <1>6 DEF Elems
    <3> QED BY <2>1, <2>3, <3>1, <1>2 DEF FreeInv, FreeListMatchesAllocation
  <2>5. \A u \in Ids : timers'[u].allocated => u < timer_list_size'
    BY <2>3, <1>2 DEF FreeInv, FreeListMatchesAllocation
  <2> QED BY <2>1, <2>2, <2>4, <2>5, <1>2, <1>3, <1>4
          DEF FreeInv, FreeTypeOK, FreeListMatchesAllocation
<1> QED BY <1>5, <1>6

(* dealloc_timer() puts a timer that was allocated in the free list.       *)
LEMMA DeallocKeepsFree ==
  ASSUME FreeInv, NEW t \in Ids, timers[t].allocated,
         timers' = [timers EXCEPT ![t] = NewTimer],
         free_list' = push_front(free_list, t), nof_free_timers' = nof_free_timers + 1,
         timer_list_size' = timer_list_size, held' = held \ {t}
  PROVE  FreeInv'
<1>1. NewTimer \in TimerImpl /\ ~NewTimer.allocated
  BY TimersAssumption DEF NewTimer, TimerImpl, Callbacks, Tics
<1>2. /\ timers' \in [Ids -> TimerImpl]
      /\ timers'[t] = NewTimer
      /\ \A u \in Ids \ {t} : timers'[u] = timers[u]
  BY <1>1 DEF FreeInv, FreeTypeOK
<1>3. free_list \in Seq(Ids) /\ Distinct(free_list) /\ t \notin Elems(free_list)
  BY DEF FreeInv, FreeTypeOK, FreeListMatchesAllocation
<1>4. /\ free_list' \in Seq(Ids) /\ Distinct(free_list')
      /\ Elems(free_list') = Elems(free_list) \cup {t}
      /\ Len(free_list') = Len(free_list) + 1
  BY <1>3, PushElems
<1>5. t < timer_list_size
  BY DEF FreeInv, FreeListMatchesAllocation
<1>6. \A u \in Ids : u \in Elems(free_list') <=> u < timer_list_size' /\ ~timers'[u].allocated
  BY <1>1, <1>2, <1>4, <1>5 DEF FreeInv, FreeListMatchesAllocation
<1>7. \A u \in Ids : ~timers'[u].allocated => timers'[u] = NewTimer /\ u \notin held'
  BY <1>1, <1>2 DEF FreeInv, FreeListMatchesAllocation
<1>8. \A u \in Ids : timers'[u].allocated => u < timer_list_size'
  BY <1>1, <1>2 DEF FreeInv, FreeListMatchesAllocation
<1>9. held' \subseteq Ids /\ nof_free_timers' = Len(free_list') /\ nof_free_timers' \in Nat
  BY <1>4 DEF FreeInv, FreeTypeOK, FreeListMatchesAllocation
<1> QED BY <1>2, <1>4, <1>6, <1>7, <1>8, <1>9
        DEF FreeInv, FreeTypeOK, FreeListMatchesAllocation

-----------------------------------------------------------------------------
(* The inductive invariant                                                 *)
StepTypeOK ==
  /\ cur_time \in Tics
  /\ pc \in {"idle", "scan", "callback", "deferred"}
  /\ it \in Ids \cup {None} /\ timer \in Ids \cup {None}
  /\ in_window => timer \in Ids

IInv == WheelInv /\ FreeInv /\ StepTypeOK /\ DeferredTimerPrivate

(* The inductive invariant has the invariants of the run as parts.         *)
LEMMA IInvImplies ==
  IInv => TypeOK /\ WheelMatchesTimers /\ RunningCountExact /\ FreeListMatchesAllocation
BY DEF IInv, WheelInv, FreeInv, WheelTypeOK, FreeTypeOK, StepTypeOK, TypeOK

(* A timer as the constructor makes it is stopped.                         *)
LEMMA NewTimerType == NewTimer \in TimerImpl /\ NewTimer.flag = "STOPPED"
BY TimersAssumption DEF NewTimer, TimerImpl, Callbacks, Tics

(* The invariant holds for an empty timer_handler.                         *)
LEMMA InitEstablishes == Init => IInv
<1> SUFFICES ASSUME Init PROVE IInv
  OBVIOUS
<1> USE DEF Init
<1>1. timers \in [Ids -> TimerImpl] /\ \A t \in Ids : timers[t] = NewTimer
  BY NewTimerType
<1>2. /\ free_list \in Seq(Ids) /\ Len(free_list) = Capacity /\ DOMAIN free_list = 1..Capacity
      /\ \A i \in 1..Capacity : free_list[i] = i - 1
  BY TimersAssumption DEF Ids
<1>3. Distinct(free_list)
  BY <1>2, TimersAssumption DEF Distinct
<1>4. \A t \in Ids : t \in Elems(free_list) <=> t < Capacity
  <2> SUFFICES ASSUME NEW t \in Ids PROVE t \in Elems(free_list) <=> t < Capacity
    OBVIOUS
  <2>1. t < Capacity => t + 1 \in 1..Capacity /\ free_list[t + 1] = t
    BY <1>2, TimersAssumption DEF Ids
  <2>2. t \in Elems(free_list) => t < Capacity
    BY <1>2, TimersAssumption DEF Elems
  <2> QED BY <2>1, <2>2, <1>2 DEF Elems
<1>5. FreeInv
  BY <1>1, <1>2, <1>3, <1>4, TimersAssumption
     DEF FreeInv, FreeTypeOK, FreeListMatchesAllocation, NewTimer
<1>6. Running = {} /\ \A t \in Ids : ~is_running(t)
  BY <1>1 DEF Running, is_running, NewTimer
<1>7. WheelInv
  <2>1. \A s \in Slots : time_wheel[s] = <<>> /\ Distinct(time_wheel[s]) /\ Elems(time_wheel[s]) = {}
    BY DEF Distinct, Elems
  <2> QED BY <1>1, <1>6, <2>1, FS_EmptySet
          DEF WheelInv, WheelTypeOK, WheelMatchesTimers, RunningCountExact
<1>8. StepTypeOK /\ DeferredTimerPrivate
  BY <1>1, TimersAssumption DEF StepTypeOK, Tics, None, in_window, DeferredTimerPrivate, NewTimer
<1> QED BY <1>5, <1>7, <1>8 DEF IInv

(* The iterator of the scan always points to a timer, or to the end.       *)
LEMMA IteratorType ==
  ASSUME WheelTypeOK
  PROVE  /\ \A s \in Slots : begin(time_wheel[s]) \in Ids \cup {None}
         /\ \A t \in Ids : next_node(t) \in Ids \cup {None}
<1>1. \A s \in Slots : time_wheel[s] \in Seq(Ids)
  BY DEF WheelTypeOK
<1>2. \A s \in Slots : begin(time_wheel[s]) \in Ids \cup {None}
  BY <1>1 DEF begin
<1>3. ASSUME NEW t \in Ids PROVE next_node(t) \in Ids \cup {None}
  <2> DEFINE Here(s) == {i \in DOMAIN time_wheel[s] : time_wheel[s][i] = t}
             s == CHOOSE s \in Slots : Here(s) # {}
             i == CHOOSE i \in Here(s) : TRUE
  <2>1. CASE \E slot \in Slots : Here(slot) # {}
    <3>1. s \in Slots /\ Here(s) # {}
      BY <2>1
    <3>2. i \in Here(s)
      BY <3>1
    <3>3. next_node(t) = IF i < Len(time_wheel[s]) THEN time_wheel[s][i + 1] ELSE None
      BY <2>1 DEF next_node
    <3>4. time_wheel[s] \in Seq(Ids) /\ i \in 1..Len(time_wheel[s])
      BY <3>1, <3>2, <1>1
    <3> HIDE DEF s, i
    <3> QED BY <3>3, <3>4
  <2>2. CASE ~ \E slot \in Slots : Here(slot) # {}
    BY <2>2 DEF next_node
  <2> QED BY <2>1, <2>2
<1> QED BY <1>2, <1>3

(* A timer somebody has a handle to is allocated and is not a deferred one *)
LEMMA HeldTimer ==
  ASSUME IInv, NEW t \in held
  PROVE  t \in Ids /\ timers[t].allocated /\ timers[t].callback # "deferred"
BY DEF IInv, FreeInv, FreeTypeOK, FreeListMatchesAllocation, DeferredTimerPrivate

(* What a caller does to a timer it holds keeps every deferred timer.      *)
LEMMA HeldKeepsDeferred ==
  ASSUME IInv, NEW t \in held, NEW tm \in TimerImpl, tm.callback # "deferred",
         timers' = [timers EXCEPT ![t] = tm], held' \subseteq held, UNCHANGED <<pc, timer>>
  PROVE  DeferredTimerPrivate'
<1>1. t \in Ids /\ timers \in [Ids -> TimerImpl]
  BY HeldTimer DEF IInv, FreeInv, FreeTypeOK
<1>2. timers'[t].callback # "deferred" /\ \A u \in Ids \ {t} : timers'[u] = timers[u]
  BY <1>1
<1>3. pc = "deferred" => timer \in Ids /\ timer # t
  BY HeldTimer DEF IInv, StepTypeOK, in_window, DeferredTimerPrivate
<1> QED BY <1>2, <1>3 DEF IInv, DeferredTimerPrivate

(* What leaves step_all() where it is keeps its variables in range.        *)
LEMMA StepUnchanged ==
  ASSUME StepTypeOK, UNCHANGED stepVars
  PROVE  StepTypeOK'
BY DEF StepTypeOK, stepVars, in_window

(* start_run_ leaves the timer allocated, with the callback it was given.  *)
LEMMA StartedTimer ==
  ASSUME WheelTypeOK, cur_time \in Tics, NEW t \in Ids, NEW d \in Tics, NEW cb \in Callbacks,
         start_run(t, d, cb)
  PROVE  \E tm \in TimerImpl : /\ tm.allocated /\ tm.callback = cb
                               /\ timers' = [timers EXCEPT ![t] = tm]
<1> DEFINE duration == IF d = 0 THEN timers[t].duration ELSE d
           timeout  == (cur_time + duration) % TicMod
           tm       == [allocated |-> TRUE, flag |-> "RUNNING", duration |-> duration,
                        timeout |-> timeout, callback |-> cb]
<1>1. duration \in Tics
  BY TimerFields
<1>2. timeout \in Tics
  <2>1. cur_time + duration \in Int
    BY <1>1 DEF Tics
  <2> QED BY <2>1, TicInTics
<1>3. timers' = [timers EXCEPT ![t] = tm]
  BY DEF start_run
<1> HIDE DEF duration, timeout
<1>4. tm \in TimerImpl /\ tm.allocated /\ tm.callback = cb
  BY <1>1, <1>2 DEF TimerImpl
<1> QED BY <1>3, <1>4

(* An operation on a held timer that changes nothing but the timer and the *)
(* wheel keeps the invariant if it keeps the wheel's part.                 *)
LEMMA HeldOperation ==
  ASSUME IInv, NEW t \in held, WheelInv',
         NEW tm \in TimerImpl, tm.allocated, tm.callback # "deferred",
         timers' = [timers EXCEPT ![t] = tm], UNCHANGED <<allocVars, stepVars>>
  PROVE  IInv'
<1>1. t \in Ids /\ timers[t].allocated
  BY HeldTimer
<1>2. FreeInv'
  BY <1>1, AllocatedKeepsFree DEF IInv
<1>3. StepTypeOK'
  BY StepUnchanged DEF IInv
<1>4. held' \subseteq held /\ UNCHANGED <<pc, timer>>
  BY DEF allocVars, stepVars
<1>5. DeferredTimerPrivate'
  BY <1>4, HeldKeepsDeferred
<1> QED BY <1>2, <1>3, <1>5 DEF IInv

(* set() keeps the invariant.                                              *)
LEMMA SetPreserves ==
  ASSUME IInv, NEW t \in Ids, NEW d \in Durations, NEW cb \in {"keep", "user"}, set(t, d, cb)
  PROVE  IInv'
<1> DEFINE duration == IF d = 0 THEN 1 ELSE d
           callback == IF cb = "keep" THEN timers[t].callback ELSE cb
<1>1. t \in held /\ UNCHANGED <<allocVars, stepVars>>
  BY DEF set
<1>2. callback \in Callbacks /\ callback # "deferred"
  <2>1. timers[t].callback \in Callbacks
    BY TimerFields DEF IInv, WheelInv
  <2> QED BY <1>1, <2>1, HeldTimer DEF Callbacks
<1>3. duration \in Tics /\ 0 \in Tics
  BY TimersAssumption DEF Tics
<1>4. \/ start_run(t, duration, callback)
      \/ /\ ~is_running(t)
         /\ timers' = [timers EXCEPT ![t] = [allocated |-> TRUE, flag |-> "STOPPED",
                         duration |-> duration, timeout |-> 0, callback |-> callback]]
         /\ UNCHANGED <<time_wheel, nof_timers_running>>
  BY DEF set
<1> HIDE DEF duration, callback
<1>5. CASE start_run(t, duration, callback)
  <2>1. WheelInv'
    BY <1>2, <1>3, <1>5, StartKeepsWheel DEF IInv, StepTypeOK
  <2>2. \E tm \in TimerImpl : /\ tm.allocated /\ tm.callback = callback
                              /\ timers' = [timers EXCEPT ![t] = tm]
    BY <1>2, <1>3, <1>5, StartedTimer DEF IInv, StepTypeOK, WheelInv
  <2> QED BY <1>1, <1>2, <2>1, <2>2, HeldOperation
<1>6. CASE /\ ~is_running(t)
           /\ timers' = [timers EXCEPT ![t] = [allocated |-> TRUE, flag |-> "STOPPED",
                           duration |-> duration, timeout |-> 0, callback |-> callback]]
           /\ UNCHANGED <<time_wheel, nof_timers_running>>
  <2> DEFINE tm == [allocated |-> TRUE, flag |-> "STOPPED", duration |-> duration,
                    timeout |-> 0, callback |-> callback]
  <2>1. tm \in TimerImpl /\ tm.allocated /\ tm.callback # "deferred" /\ tm.flag # "RUNNING"
    BY <1>2, <1>3 DEF TimerImpl
  <2> HIDE DEF tm
  <2>2. timers' = [timers EXCEPT ![t] = tm]
    BY <1>6 DEF tm
  <2>3. stop_timer(t)
    BY <1>6 DEF stop_timer
  <2>4. WheelInv'
    BY <2>1, <2>2, <2>3, StopKeepsWheel DEF IInv
  <2> QED BY <1>1, <2>1, <2>2, <2>4, HeldOperation
<1> QED BY <1>4, <1>5, <1>6

(* run() keeps the invariant.                                              *)
LEMMA RunPreserves ==
  ASSUME IInv, NEW t \in Ids, run(t)
  PROVE  IInv'
<1>1. /\ t \in held /\ UNCHANGED <<allocVars, stepVars>>
      /\ start_run(t, 0, timers[t].callback)
  BY DEF run
<1>2. timers[t].callback \in Callbacks /\ timers[t].callback # "deferred" /\ 0 \in Tics
  <2>1. timers[t].callback \in Callbacks
    BY TimerFields DEF IInv, WheelInv
  <2> QED BY <1>1, <2>1, HeldTimer, TimersAssumption DEF Tics
<1>3. WheelInv'
  BY <1>1, <1>2, StartKeepsWheel DEF IInv, StepTypeOK
<1>4. \E tm \in TimerImpl : /\ tm.allocated /\ tm.callback = timers[t].callback
                            /\ timers' = [timers EXCEPT ![t] = tm]
  BY <1>1, <1>2, StartedTimer DEF IInv, StepTypeOK, WheelInv
<1> QED BY <1>1, <1>2, <1>3, <1>4, HeldOperation

(* stop_timer_ changes nothing of the timer's record but the flag.         *)
LEMMA StoppedTimer ==
  ASSUME NEW tm \in TimerImpl, NEW e \in BOOLEAN
  PROVE  /\ stopped(tm, e) \in TimerImpl
         /\ stopped(tm, e).flag # "RUNNING"
         /\ stopped(tm, e).allocated = tm.allocated
         /\ stopped(tm, e).callback = tm.callback
<1>1. CASE tm.flag = "RUNNING"
  <2>1. stopped(tm, e) = [tm EXCEPT !.flag = IF e THEN "EXPIRED" ELSE "STOPPED"]
    BY <1>1 DEF stopped
  <2> QED BY <2>1 DEF TimerImpl
<1>2. CASE tm.flag # "RUNNING"
  BY <1>2 DEF stopped
<1> QED BY <1>1, <1>2

(* stop() keeps the invariant.                                             *)
LEMMA StopPreserves ==
  ASSUME IInv, NEW t \in Ids, stop(t)
  PROVE  IInv'
<1> DEFINE tm == stopped(timers[t], FALSE)
<1>1. /\ t \in held /\ UNCHANGED <<allocVars, stepVars>> /\ stop_timer(t)
      /\ timers' = [timers EXCEPT ![t] = tm]
  BY DEF stop
<1>2. timers[t] \in TimerImpl /\ timers[t].allocated /\ timers[t].callback # "deferred"
  BY <1>1, HeldTimer, TimerFields DEF IInv, WheelInv
<1>3. tm \in TimerImpl /\ tm.flag # "RUNNING" /\ tm.allocated /\ tm.callback # "deferred"
  BY <1>2, StoppedTimer
<1> HIDE DEF tm
<1>4. WheelInv'
  BY <1>1, <1>3, StopKeepsWheel DEF IInv
<1> QED BY <1>1, <1>3, <1>4, HeldOperation

(* release() keeps the invariant.                                          *)
LEMMA ReleasePreserves ==
  ASSUME IInv, NEW t \in Ids, release(t)
  PROVE  IInv'
<1>1. /\ t \in held /\ dealloc_timer(t) /\ held' = held \ {t}
      /\ timer_list_size' = timer_list_size /\ UNCHANGED stepVars
  BY DEF release
<1>2. timers[t].allocated
  BY <1>1, HeldTimer
<1>3. /\ stop_timer(t) /\ timers' = [timers EXCEPT ![t] = NewTimer]
      /\ free_list' = push_front(free_list, t) /\ nof_free_timers' = nof_free_timers + 1
  BY <1>1, <1>2 DEF dealloc_timer
<1>4. WheelInv'
  BY <1>3, NewTimerType, StopKeepsWheel DEF IInv
<1>5. FreeInv'
  BY <1>1, <1>2, <1>3, DeallocKeepsFree DEF IInv
<1>6. StepTypeOK'
  BY <1>1, StepUnchanged DEF IInv
<1>7. DeferredTimerPrivate'
  <2>1. NewTimer.callback # "deferred" /\ UNCHANGED <<pc, timer>> /\ held' \subseteq held
    BY <1>1 DEF NewTimer, stepVars
  <2> QED BY <1>1, <1>3, <2>1, NewTimerType, HeldKeepsDeferred
<1> QED BY <1>4, <1>5, <1>6, <1>7 DEF IInv

(* A step that leaves timers and wheel alone keeps their agreement.        *)
LEMMA WheelUnchanged ==
  ASSUME WheelInv, UNCHANGED <<timers, time_wheel, nof_timers_running>>
  PROVE  WheelInv'
BY DEF WheelInv, WheelTypeOK, WheelMatchesTimers, RunningCountExact, Running, is_running

(* A step that leaves timers and free list alone keeps their agreement.    *)
LEMMA FreeUnchanged ==
  ASSUME FreeInv, UNCHANGED <<timers, timer_list_size, free_list, nof_free_timers>>,
         held' \subseteq held
  PROVE  FreeInv'
BY DEF FreeInv, FreeTypeOK, FreeListMatchesAllocation

(* A handle that is overwritten is lost, and nothing else changes.         *)
LEMMA OverwritePreserves ==
  ASSUME IInv, NEW t \in Ids, overwrite_handle(t)
  PROVE  IInv'
<1>1. /\ held' \subseteq held /\ UNCHANGED stepVars
      /\ UNCHANGED <<timers, timer_list_size, free_list, nof_free_timers>>
      /\ UNCHANGED <<time_wheel, nof_timers_running>>
  BY DEF overwrite_handle
<1>2. WheelInv' /\ FreeInv' /\ StepTypeOK'
  BY <1>1, WheelUnchanged, FreeUnchanged, StepUnchanged DEF IInv
<1>3. DeferredTimerPrivate'
  BY <1>1 DEF IInv, DeferredTimerPrivate, stepVars
<1> QED BY <1>2, <1>3 DEF IInv

(* Handing out a timer leaves the deferred ones alone.                     *)
LEMMA AllocKeepsDeferred ==
  ASSUME IInv, alloc_timer, NEW tm \in TimerImpl, tm.allocated,
         timers' = [timers EXCEPT ![alloc_id] = tm], UNCHANGED <<pc, timer>>,
         \/ tm.callback # "deferred" /\ held' = held \cup {alloc_id}
         \/ held' = held
  PROVE  DeferredTimerPrivate'
<1>1. /\ alloc_id \in Ids /\ timers[alloc_id] = NewTimer /\ alloc_id \notin held
      /\ timers \in [Ids -> TimerImpl]
  BY AllocIdIdle DEF IInv, FreeInv, FreeTypeOK
<1>2. timers'[alloc_id] = tm /\ \A u \in Ids \ {alloc_id} : timers'[u] = timers[u]
  BY <1>1
<1>3. pc = "deferred" => timer \in Ids /\ timer # alloc_id
  BY <1>1 DEF IInv, StepTypeOK, in_window, DeferredTimerPrivate, NewTimer
<1>4. \A u \in Ids : timers'[u].callback = "deferred" => timers'[u].allocated /\ u \notin held'
  BY <1>1, <1>2 DEF IInv, DeferredTimerPrivate
<1> QED BY <1>2, <1>3, <1>4 DEF IInv, DeferredTimerPrivate

(* get_unique_timer() keeps the invariant.                                 *)
LEMMA GetUniqueTimerPreserves ==
  ASSUME IInv, get_unique_timer
  PROVE  IInv'
<1> DEFINE tm == [NewTimer EXCEPT !.allocated = TRUE]
<1>1. /\ alloc_timer /\ held' = held \cup {alloc_id} /\ UNCHANGED stepVars
      /\ UNCHANGED <<time_wheel, nof_timers_running>>
      /\ timers' = [timers EXCEPT ![alloc_id].allocated = TRUE]
  BY DEF get_unique_timer
<1>2. alloc_id \in Ids /\ timers[alloc_id] = NewTimer
  BY <1>1, AllocIdIdle DEF IInv
<1>3. timers' = [timers EXCEPT ![alloc_id] = tm]
  BY <1>1, <1>2
<1>4. /\ tm \in TimerImpl /\ tm.allocated /\ tm.callback # "deferred" /\ tm.flag # "RUNNING"
      /\ ~is_running(alloc_id)
  BY <1>2, NewTimerType DEF TimerImpl, NewTimer, is_running
<1> HIDE DEF tm
<1>5. stop_timer(alloc_id)
  BY <1>1, <1>4 DEF stop_timer
<1>6. WheelInv'
  BY <1>2, <1>3, <1>4, <1>5, StopKeepsWheel DEF IInv
<1>7. FreeInv'
  BY <1>1, <1>3, <1>4, AllocKeepsFree DEF IInv
<1>8. StepTypeOK' /\ UNCHANGED <<pc, timer>>
  BY <1>1, StepUnchanged DEF IInv, stepVars
<1>9. DeferredTimerPrivate'
  BY <1>1, <1>3, <1>4, <1>8, AllocKeepsDeferred
<1> QED BY <1>6, <1>7, <1>8, <1>9 DEF IInv

(* defer_callback() keeps the invariant.                                   *)
LEMMA DeferCallbackPreserves ==
  ASSUME IInv, NEW d \in Durations, defer_callback(d)
  PROVE  IInv'
<1> DEFINE duration == IF d = 0 THEN 1 ELSE d
<1>1. /\ alloc_timer /\ start_run(alloc_id, duration, "deferred")
      /\ held' = held /\ UNCHANGED stepVars
  BY DEF defer_callback
<1>2. alloc_id \in Ids
  BY <1>1, AllocIdIdle DEF IInv
<1>3. duration \in Tics /\ "deferred" \in Callbacks
  BY TimersAssumption DEF Tics, Callbacks
<1> HIDE DEF duration
<1>4. WheelInv'
  BY <1>1, <1>2, <1>3, StartKeepsWheel DEF IInv, StepTypeOK
<1>5. PICK tm \in TimerImpl : tm.allocated /\ timers' = [timers EXCEPT ![alloc_id] = tm]
  BY <1>1, <1>2, <1>3, StartedTimer DEF IInv, StepTypeOK, WheelInv
<1>6. FreeInv'
  BY <1>1, <1>5, AllocKeepsFree DEF IInv
<1>7. StepTypeOK' /\ UNCHANGED <<pc, timer>>
  BY <1>1, StepUnchanged DEF IInv, stepVars
<1>8. DeferredTimerPrivate'
  BY <1>1, <1>5, <1>7, AllocKeepsDeferred
<1> QED BY <1>4, <1>6, <1>7, <1>8 DEF IInv

(* stop_all() keeps the invariant.                                         *)
LEMMA StopAllPreserves ==
  ASSUME IInv, stop_all
  PROVE  IInv'
<1>1. /\ timers' = [t \in Ids |-> stopped(timers[t], FALSE)]
      /\ time_wheel' = [s \in Slots |-> <<>>] /\ nof_timers_running' = 0
      /\ UNCHANGED <<timer_list_size, free_list, nof_free_timers, held>>
      /\ UNCHANGED stepVars /\ UNCHANGED <<pc, timer>>
  BY DEF stop_all, allocVars, stepVars
<1>2. \A t \in Ids : timers[t] \in TimerImpl
  BY DEF IInv, WheelInv, WheelTypeOK
<1>3. \A t \in Ids : /\ timers'[t] \in TimerImpl /\ timers'[t].flag # "RUNNING"
                     /\ timers'[t].allocated = timers[t].allocated
                     /\ timers'[t].callback = timers[t].callback
  BY <1>1, <1>2, StoppedTimer
<1>4. timers' \in [Ids -> TimerImpl]
  BY <1>1, <1>3
<1>5. Running' = {} /\ \A t \in Ids : ~is_running(t)'
  BY <1>3 DEF Running, is_running
<1>6. WheelInv'
  <2>1. \A s \in Slots : Distinct(time_wheel'[s]) /\ Elems(time_wheel'[s]) = {}
    BY <1>1 DEF Distinct, Elems
  <2>2. time_wheel' \in [Slots -> Seq(Ids)]
    BY <1>1
  <2> QED BY <1>1, <1>4, <1>5, <2>1, <2>2, FS_EmptySet
          DEF WheelInv, WheelTypeOK, WheelMatchesTimers, RunningCountExact
<1>7. \A t \in Ids : ~timers[t].allocated => timers'[t] = timers[t]
  BY <1>1 DEF stopped, IInv, FreeInv, FreeListMatchesAllocation, NewTimer
<1>8. FreeInv'
  BY <1>1, <1>3, <1>4, <1>7 DEF IInv, FreeInv, FreeTypeOK, FreeListMatchesAllocation
<1>9. StepTypeOK'
  BY <1>1, StepUnchanged DEF IInv
<1>10. DeferredTimerPrivate'
  BY <1>1, <1>3 DEF IInv, DeferredTimerPrivate, StepTypeOK, in_window
<1> QED BY <1>6, <1>8, <1>9, <1>10 DEF IInv

(* One turn of the loop of step_all() keeps the invariant.                 *)
LEMMA StepScanPreserves ==
  ASSUME IInv, step_scan
  PROVE  IInv'
<1>1. /\ it \in Ids /\ it' = next_node(it) /\ cur_time' = cur_time
      /\ UNCHANGED <<timer_list_size, free_list, nof_free_timers, held>>
  BY DEF step_scan, IInv, StepTypeOK, allocVars
<1>2. it' \in Ids \cup {None}
  BY <1>1, IteratorType DEF IInv, WheelInv
<1>3. timers[it] \in TimerImpl /\ timers[it].callback \in Callbacks
  BY <1>1, TimerFields DEF IInv, WheelInv
<1>4. CASE timers[it].timeout = cur_time_local
  <2> DEFINE tm == stopped(timers[it], TRUE)
  <2>1. /\ stop_timer(it) /\ timers' = [timers EXCEPT ![it] = tm]
        /\ pc' = CASE timers[it].callback = "none" -> "scan"
                   [] timers[it].callback = "user" -> "callback"
                   [] OTHER -> "deferred"
        /\ timer' = IF timers[it].callback = "none" THEN timer ELSE it
    BY <1>4 DEF step_scan
  <2>2. /\ tm \in TimerImpl /\ tm.flag # "RUNNING" /\ tm.allocated = timers[it].allocated
        /\ tm.callback = timers[it].callback
    BY <1>3, StoppedTimer
  <2>3. ~timers[it].allocated => tm = timers[it]
    BY <1>1 DEF stopped, IInv, FreeInv, FreeListMatchesAllocation, NewTimer
  <2> HIDE DEF tm
  <2>4. WheelInv'
    BY <1>1, <2>1, <2>2, StopKeepsWheel DEF IInv
  <2>5. /\ timers' \in [Ids -> TimerImpl]
        /\ \A u \in Ids : /\ timers'[u].allocated = timers[u].allocated
                          /\ timers'[u].callback = timers[u].callback
                          /\ ~timers[u].allocated => timers'[u] = timers[u]
    BY <1>1, <2>1, <2>2, <2>3 DEF IInv, WheelInv, WheelTypeOK
  <2>6. FreeInv'
    BY <1>1, <2>5 DEF IInv, FreeInv, FreeTypeOK, FreeListMatchesAllocation
  <2>7. \/ timers[it].callback = "none" /\ pc' = "scan" /\ timer' = timer
        \/ timers[it].callback = "user" /\ pc' = "callback" /\ timer' = it
        \/ timers[it].callback = "deferred" /\ pc' = "deferred" /\ timer' = it
    BY <1>3, <2>1 DEF Callbacks
  <2>8. StepTypeOK'
    BY <1>1, <1>2, <2>7 DEF IInv, StepTypeOK, in_window
  <2>9. DeferredTimerPrivate'
    BY <1>1, <2>5, <2>7 DEF IInv, DeferredTimerPrivate
  <2> QED BY <2>4, <2>6, <2>8, <2>9 DEF IInv
<1>5. CASE timers[it].timeout # cur_time_local
  <2>1. UNCHANGED <<timers, time_wheel, nof_timers_running, pc, timer>>
    BY <1>5 DEF step_scan
  <2>2. WheelInv' /\ FreeInv'
    BY <1>1, <2>1, WheelUnchanged, FreeUnchanged DEF IInv
  <2>3. StepTypeOK' /\ DeferredTimerPrivate'
    BY <1>1, <1>2, <2>1 DEF IInv, StepTypeOK, in_window, DeferredTimerPrivate
  <2> QED BY <2>2, <2>3 DEF IInv
<1> QED BY <1>4, <1>5

(* The lambda of defer_callback() frees its timer and keeps the invariant. *)
LEMMA DeferredDeallocatePreserves ==
  ASSUME IInv, deferred_deallocate
  PROVE  IInv'
<1>1. /\ pc = "deferred" /\ dealloc_timer(timer) /\ pc' = "callback"
      /\ UNCHANGED <<timer_list_size, held, cur_time, it, timer>>
  BY DEF deferred_deallocate
<1>2. timer \in Ids /\ timers[timer].allocated /\ timer \notin held
  BY <1>1 DEF IInv, StepTypeOK, in_window, DeferredTimerPrivate
<1>3. /\ stop_timer(timer) /\ timers' = [timers EXCEPT ![timer] = NewTimer]
      /\ free_list' = push_front(free_list, timer) /\ nof_free_timers' = nof_free_timers + 1
  BY <1>1, <1>2 DEF dealloc_timer
<1>4. WheelInv'
  BY <1>2, <1>3, NewTimerType, StopKeepsWheel DEF IInv
<1>5. FreeInv'
  <2>1. held' = held \ {timer}
    BY <1>1, <1>2
  <2> QED BY <1>1, <1>2, <1>3, <2>1, DeallocKeepsFree DEF IInv
<1>6. StepTypeOK'
  BY <1>1, <1>2 DEF IInv, StepTypeOK, in_window
<1>7. DeferredTimerPrivate'
  <2>1. timers \in [Ids -> TimerImpl] /\ NewTimer.callback # "deferred"
    BY DEF IInv, WheelInv, WheelTypeOK, NewTimer
  <2>2. timers'[timer].callback # "deferred" /\ \A u \in Ids \ {timer} : timers'[u] = timers[u]
    BY <2>1, <1>2, <1>3
  <2> QED BY <1>1, <2>2 DEF IInv, DeferredTimerPrivate
<1> QED BY <1>4, <1>5, <1>6, <1>7 DEF IInv

(* The steps of step_all() that only move its own control.                 *)
LEMMA ControlPreserves ==
  ASSUME IInv, step_begin \/ callback_return \/ step_end
  PROVE  IInv'
<1>1. UNCHANGED <<timers, time_wheel, nof_timers_running>> /\ UNCHANGED allocVars
  BY DEF step_begin, callback_return, step_end
<1>2. WheelInv' /\ FreeInv'
  BY <1>1, WheelUnchanged, FreeUnchanged DEF IInv, allocVars
<1>3. cur_time_local \in Tics
  BY TicInTics DEF cur_time_local, IInv, StepTypeOK, Tics
<1>4. begin(time_wheel[wheel_pos(cur_time_local)]) \in Ids \cup {None}
  BY <1>3, WheelPosInSlots, IteratorType DEF IInv, WheelInv
<1>5. StepTypeOK' /\ pc' # "deferred"
  BY <1>3, <1>4 DEF IInv, StepTypeOK, in_window, step_begin, callback_return, step_end
<1>6. DeferredTimerPrivate'
  BY <1>1, <1>5 DEF IInv, DeferredTimerPrivate, allocVars
<1> QED BY <1>2, <1>5, <1>6 DEF IInv

(* Every step keeps the invariant.                                         *)
LEMMA NextPreserves == IInv /\ [Next]_vars => IInv'
<1> SUFFICES ASSUME IInv, [Next]_vars PROVE IInv'
  OBVIOUS
<1>1. CASE step_all
  BY <1>1, StepScanPreserves, DeferredDeallocatePreserves, ControlPreserves DEF step_all
<1>2. CASE Caller
  BY <1>2, GetUniqueTimerPreserves, StopAllPreserves, DeferCallbackPreserves, RunPreserves,
     StopPreserves, ReleasePreserves, OverwritePreserves, SetPreserves DEF Caller
<1>3. CASE UNCHANGED vars
  <2>1. UNCHANGED <<timers, time_wheel, nof_timers_running>> /\ UNCHANGED allocVars
        /\ UNCHANGED stepVars
    BY <1>3 DEF vars, allocVars, stepVars
  <2>2. WheelInv' /\ FreeInv' /\ StepTypeOK'
    BY <2>1, WheelUnchanged, FreeUnchanged, StepUnchanged DEF IInv, allocVars
  <2>3. DeferredTimerPrivate'
    BY <2>1 DEF IInv, DeferredTimerPrivate, allocVars, stepVars
  <2> QED BY <2>2, <2>3 DEF IInv
<1> QED BY <1>1, <1>2, <1>3 DEF Next

-----------------------------------------------------------------------------
(* The inductive invariant holds in every state timer_handler reaches,     *)
(* whatever its callers do while step_all() is in a callback.              *)
THEOREM Invariance == Spec => []IInv
BY InitEstablishes, NextPreserves, PTL DEF Spec

(* Wheel, states, counter, free list and handles of timer_handler agree,   *)
(* also in the window that step_all() opens around a callback, for every   *)
(* use the callers make of it.                                             *)
THEOREM TimersCorrect == Spec => []TimersConsistent
<1>1. IInv => TimersConsistent
  <2>1. IInv => DeferredTimerPrivate BY DEF IInv
  <2> QED BY <2>1, IInvImplies DEF TimersConsistent
<1> QED BY <1>1, Invariance, PTL

(* Type correctness of timer_handler.                                      *)
THEOREM TypeCorrect == Spec => []TypeOK
BY Invariance, IInvImplies, PTL

(* A timer is linked in the slot of its timeout, once, exactly while it    *)
(* runs: no operation, in no interleaving with step_all(), corrupts an     *)
(* intrusive list.                                                         *)
THEOREM WheelCorrect == Spec => []WheelMatchesTimers
BY Invariance, IInvImplies, PTL

(* nof_running_timers() is the number of running timers.                   *)
THEOREM RunningCountCorrect == Spec => []RunningCountExact
BY Invariance, IInvImplies, PTL

(* The free list is exactly the timers that are not allocated, so the      *)
(* assertion of alloc_timer never fails.                                   *)
THEOREM FreeListCorrect == Spec => []FreeListMatchesAllocation
BY Invariance, IInvImplies, PTL

(* The lambda of defer_callback() frees the timer it was created with.     *)
THEOREM DeferredCorrect == Spec => []DeferredTimerPrivate
<1>1. IInv => DeferredTimerPrivate
  BY DEF IInv
<1> QED BY <1>1, Invariance, PTL

-----------------------------------------------------------------------------
(* Expiry on time, for callers that leave the timer step_all() looks at    *)
(* next alone, start nothing in its window that is due at the tick, and    *)
(* run no timer without a duration.                                        *)

(* The slot that step_all() scans, the ticks a timer has left, and the     *)
(* order of a list.                                                        *)
due_slot == time_wheel[wheel_pos(cur_time_local)]
remaining(t) == (timers[t].timeout - cur_time) % TicMod
Before(l, a, b) == \E i, j \in DOMAIN l : l[i] = a /\ l[j] = b /\ i <= j

(* A running timer has a tick left, and not more than its duration.        *)
RemainingInv == \A t \in Ids : is_running(t) => remaining(t) \in 1..timers[t].duration

(* During a scan the iterator is linked in the slot, and a timer that is   *)
(* due still lies ahead of it; the timer of a deferred call has expired.   *)
ScanInv ==
  pc # "idle" =>
    /\ it # None => it \in Elems(due_slot)
    /\ \A t \in Ids : is_running(t) /\ timers[t].timeout = cur_time_local =>
                        it # None /\ Before(due_slot, it, t)
    /\ pc = "deferred" => ~is_running(timer)

ExpiryInv == IInv /\ RemainingInv /\ ScanInv

(* Reducing a number that is at most one turn out of range.                *)
LEMMA ModOneTurn ==
  ASSUME NEW M \in Nat \ {0}, NEW x \in Int, -M <= x, x < 2 * M
  PROVE  x % M = IF x < 0 THEN x + M ELSE IF x < M THEN x ELSE x - M
<1>1. CASE x < 0
  <2>1. x + M \in 0..(M - 1) BY <1>1
  <2> QED BY <1>1, <2>1
<1>2. CASE 0 <= x /\ x < M BY <1>2
<1>3. CASE x >= M
  <2>1. x - M \in 0..(M - 1) BY <1>3
  <2> QED BY <1>3, <2>1
<1> QED BY <1>1, <1>2, <1>3

(* A timer that is started now has its duration left; the tick takes one   *)
(* away; and what is left says whether a timer is due.                     *)
LEMMA TicArithmetic ==
  ASSUME NEW M \in Nat \ {0, 1}, NEW c \in 0..(M - 1), NEW d \in 0..(M - 1), NEW x \in 0..(M - 1)
  PROVE  /\ (((c + d) % M) - c) % M = d
         /\ (x - c) % M \in 0..(M - 1)
         /\ (x - c) % M >= 1 => (x - ((c + 1) % M)) % M = ((x - c) % M) - 1
         /\ (x - c) % M = 1 <=> x = (c + 1) % M
<1>1. ASSUME NEW e \in 0..(M - 1)
      PROVE  (c + e) % M = IF c + e < M THEN c + e ELSE c + e - M
  <2> DEFINE y == c + e
  <2>1. y \in Int /\ -M <= y /\ y < 2 * M /\ ~(y < 0) OBVIOUS
  <2> HIDE DEF y
  <2>2. y % M = IF y < M THEN y ELSE y - M BY <2>1, ModOneTurn
  <2> QED BY <2>2 DEF y
<1>2. (c + 1) % M = IF c + 1 < M THEN c + 1 ELSE 0
  <2>1. 1 \in 0..(M - 1) /\ (~(c + 1 < M) => c + 1 - M = 0) OBVIOUS
  <2> QED BY <1>1, <2>1
<1>3. (x - c) % M = IF x < c THEN x - c + M ELSE x - c
  <2>1. x - c \in Int /\ -M <= x - c /\ x - c < 2 * M /\ x - c < M OBVIOUS
  <2>2. x - c < 0 <=> x < c OBVIOUS
  <2> QED BY <2>1, <2>2, ModOneTurn
<1>4. (((c + d) % M) - c) % M = d
  <2>1. CASE c + d < M
    <3>1. ((c + d) % M) - c = d BY <1>1, <2>1
    <3> QED BY <3>1, ModOneTurn
  <2>2. CASE c + d >= M
    <3>1. ((c + d) % M) - c = d - M BY <1>1, <2>2
    <3>2. (d - M) % M = d
      <4>1. d - M \in Int /\ -M <= d - M /\ d - M < 0 OBVIOUS
      <4>2. (d - M) % M = d - M + M BY <4>1, ModOneTurn
      <4> QED BY <4>2
    <3> QED BY <3>1, <3>2
  <2> QED BY <2>1, <2>2
<1>5. (x - c) % M >= 1 => (x - ((c + 1) % M)) % M = ((x - c) % M) - 1
  <2>1. CASE c + 1 < M
    <3> DEFINE y == x - (c + 1)
    <3>1. y \in Int /\ -M <= y /\ y < 2 * M /\ y < M /\ (y < 0 <=> x < c + 1) BY <2>1
    <3>2. y % M = IF y < 0 THEN y + M ELSE y
      <4> HIDE DEF y
      <4> QED BY <3>1, ModOneTurn
    <3> QED BY <1>2, <1>3, <2>1, <3>1, <3>2
  <2>2. CASE c + 1 = M
    <3>1. (x - 0) % M = x BY ModOneTurn
    <3> QED BY <1>2, <1>3, <2>2, <3>1
  <2> QED BY <2>1, <2>2
<1> QED BY <1>2, <1>3, <1>4, <1>5

(* An element of a list is where it is.                                    *)
LEMMA BeforeSelf == ASSUME NEW l, NEW x PROVE x \in Elems(l) <=> \E i \in DOMAIN l : l[i] = x
BY DEF Elems

(* pop() keeps the order of the others.                                    *)
LEMMA PopOrder ==
  ASSUME NEW l \in Seq(Ids), Distinct(l), NEW t \in Elems(l),
         NEW u, NEW v, u # t, v # t, Before(l, u, v)
  PROVE  Before(pop(l, t), u, v)
<1> DEFINE p == CHOOSE i \in DOMAIN l : l[i] = t
           m == pop(l, t)
<1>1. p \in 1..Len(l) /\ l[p] = t
  <2>1. \E i \in DOMAIN l : l[i] = t BY DEF Elems
  <2>2. p \in DOMAIN l /\ l[p] = t BY <2>1
  <2> QED BY <2>2
<1>2. m = [i \in 1..(Len(l) - 1) |-> IF i < p THEN l[i] ELSE l[i + 1]] BY DEF pop
<1>3. /\ DOMAIN m = 1..(Len(l) - 1)
      /\ \A i \in 1..(Len(l) - 1) : m[i] = IF i < p THEN l[i] ELSE l[i + 1]
  BY <1>2
<1>4. PICK i \in 1..Len(l), j \in 1..Len(l) : l[i] = u /\ l[j] = v /\ i <= j BY DEF Before
<1> HIDE DEF p, m
<1> DEFINE moved(k) == IF k < p THEN k ELSE k - 1
<1>5. ASSUME NEW k \in 1..Len(l), k # p
      PROVE  moved(k) \in 1..(Len(l) - 1) /\ m[moved(k)] = l[k]
  BY <1>1, <1>3, <1>5
<1>6. i # p /\ j # p BY <1>1, <1>4
<1>7. moved(i) <= moved(j) BY <1>1, <1>4, <1>6
<1>8. moved(i) \in DOMAIN m /\ moved(j) \in DOMAIN m /\ m[moved(i)] = u /\ m[moved(j)] = v
  BY <1>3, <1>4, <1>5, <1>6
<1> HIDE DEF moved
<1> QED BY <1>7, <1>8 DEF Before, m

(* push_front() keeps the order of the others.                             *)
LEMMA PushOrder ==
  ASSUME NEW l \in Seq(Ids), NEW t \in Ids, NEW u, NEW v, Before(l, u, v)
  PROVE  Before(push_front(l, t), u, v)
<1> DEFINE m == push_front(l, t)
<1>1. DOMAIN m = 1..(Len(l) + 1) /\ \A i \in 1..Len(l) : m[i + 1] = l[i]
  BY DEF push_front
<1>2. PICK i \in 1..Len(l), j \in 1..Len(l) : l[i] = u /\ l[j] = v /\ i <= j BY DEF Before
<1> HIDE DEF m
<1>3. /\ i + 1 \in DOMAIN m /\ j + 1 \in DOMAIN m /\ i + 1 <= j + 1
      /\ m[i + 1] = u /\ m[j + 1] = v
  BY <1>1, <1>2
<1> QED BY <1>3 DEF Before, m

(* What an operation on timer t leaves of the order of the others.         *)
OrderKept(t) ==
  \A s \in Slots : \A u, v \in Ids \ {t} :
    Before(time_wheel[s], u, v) => Before(time_wheel'[s], u, v)

(* stop_timer_ keeps the order of the others.                              *)
LEMMA StopOrder == ASSUME WheelInv, NEW t \in Ids, stop_timer(t) PROVE OrderKept(t)
<1> SUFFICES ASSUME NEW s \in Slots, NEW u \in Ids \ {t}, NEW v \in Ids \ {t},
                    Before(time_wheel[s], u, v)
             PROVE  Before(time_wheel'[s], u, v)
  BY DEF OrderKept
<1>1. time_wheel[s] \in Seq(Ids) /\ Distinct(time_wheel[s]) /\ time_wheel \in [Slots -> Seq(Ids)]
  BY DEF WheelInv, WheelTypeOK, WheelMatchesTimers
<1>2. CASE is_running(t) /\ s = wheel_pos(timers[t].timeout)
  <2>1. t \in Elems(time_wheel[s]) BY <1>2 DEF WheelInv, WheelMatchesTimers
  <2>2. time_wheel'[s] = pop(time_wheel[s], t) BY <1>1, <1>2 DEF stop_timer
  <2> QED BY <1>1, <2>1, <2>2, PopOrder
<1>3. CASE ~(is_running(t) /\ s = wheel_pos(timers[t].timeout))
  <2>1. time_wheel'[s] = time_wheel[s] BY <1>1, <1>3 DEF stop_timer
  <2> QED BY <2>1
<1> QED BY <1>2, <1>3

(* start_run_ keeps the order of the others.                               *)
LEMMA StartOrder ==
  ASSUME WheelInv, NEW t \in Ids, NEW d, NEW cb, start_run(t, d, cb) PROVE OrderKept(t)
<1> DEFINE duration    == IF d = 0 THEN timers[t].duration ELSE d
           from        == wheel_pos(timers[t].timeout)
           to          == wheel_pos((cur_time + duration) % TicMod)
           Popped(s)   == IF is_running(t) /\ s = from THEN pop(time_wheel[s], t)
                                                       ELSE time_wheel[s]
<1>1. time_wheel' = IF is_running(t) /\ from = to
                    THEN time_wheel
                    ELSE [s \in Slots |-> IF s = to THEN push_front(Popped(s), t)
                                                    ELSE Popped(s)]
  BY DEF start_run
<1> HIDE DEF to
<1> SUFFICES ASSUME NEW s \in Slots, NEW u \in Ids \ {t}, NEW v \in Ids \ {t},
                    Before(time_wheel[s], u, v)
             PROVE  Before(time_wheel'[s], u, v)
  BY DEF OrderKept
<1>2. time_wheel[s] \in Seq(Ids) /\ Distinct(time_wheel[s])
  BY DEF WheelInv, WheelTypeOK, WheelMatchesTimers
<1>3. Popped(s) \in Seq(Ids) /\ Before(Popped(s), u, v)
  <2>1. CASE is_running(t) /\ s = from
    <3>1. t \in Elems(time_wheel[s]) BY <2>1 DEF WheelInv, WheelMatchesTimers
    <3>2. Popped(s) = pop(time_wheel[s], t) BY <2>1
    <3> QED BY <1>2, <3>1, <3>2, PopElems, PopOrder
  <2>2. CASE ~(is_running(t) /\ s = from)
    <3>1. Popped(s) = time_wheel[s] BY <2>2
    <3> QED BY <1>2, <3>1
  <2> QED BY <2>1, <2>2
<1>4. time_wheel'[s] = time_wheel[s] \/ time_wheel'[s] = Popped(s)
        \/ time_wheel'[s] = push_front(Popped(s), t)
  BY <1>1
<1> HIDE DEF Popped
<1>5. Before(push_front(Popped(s), t), u, v) BY <1>3, PushOrder
<1> QED BY <1>3, <1>4, <1>5

(* An operation on one timer keeps the invariant if that timer is not the  *)
(* one the iterator points to and is not due, when it runs then.           *)
LEMMA OneTimerKeeps ==
  ASSUME ExpiryInv, UNCHANGED stepVars, NEW t \in Ids,
         \A u \in Ids \ {t} : timers'[u] = timers[u], OrderKept(t),
         pc # "idle" => t # it, pc = "deferred" => t # timer,
         is_running(t)' => /\ remaining(t)' \in 1..timers'[t].duration
                           /\ pc # "idle" => timers'[t].timeout # cur_time_local
  PROVE  RemainingInv' /\ ScanInv'
<1>1. /\ UNCHANGED <<cur_time, pc, it, timer>> /\ cur_time_local' = cur_time_local
      /\ it \in Ids \cup {None} /\ cur_time \in Tics
      /\ pc = "deferred" => timer \in Ids
  BY DEF stepVars, cur_time_local, ExpiryInv, IInv, StepTypeOK, in_window
<1>2. RemainingInv'
  <2> SUFFICES ASSUME NEW u \in Ids, is_running(u)'
               PROVE  remaining(u)' \in 1..timers'[u].duration
    BY DEF RemainingInv
  <2>1. CASE u = t BY <2>1
  <2>2. CASE u # t
    BY <1>1, <2>2 DEF ExpiryInv, RemainingInv, remaining, is_running
  <2> QED BY <2>1, <2>2
<1>3. wheel_pos(cur_time_local) \in Slots
  BY <1>1, TicInTics, WheelPosInSlots DEF cur_time_local, Tics
<1>4. due_slot' = time_wheel'[wheel_pos(cur_time_local)]
  BY <1>1 DEF due_slot, wheel_pos
<1>5. \A u, v \in Ids \ {t} : Before(due_slot, u, v) => Before(due_slot', u, v)
  BY <1>3, <1>4 DEF OrderKept, due_slot
<1>6. ASSUME pc # "idle"
      PROVE  /\ it # None => it \in Elems(due_slot')
             /\ \A u \in Ids : is_running(u)' /\ timers'[u].timeout = cur_time_local =>
                                 it # None /\ Before(due_slot', it, u)
             /\ pc = "deferred" => ~is_running(timer)'
  <2>1. /\ it # None => it \in Elems(due_slot)
        /\ \A u \in Ids : is_running(u) /\ timers[u].timeout = cur_time_local =>
                            it # None /\ Before(due_slot, it, u)
        /\ pc = "deferred" => ~is_running(timer)
    BY <1>6 DEF ExpiryInv, ScanInv
  <2>2. ASSUME it # None PROVE it \in Elems(due_slot')
    <3>1. Before(due_slot, it, it)
      <4>1. PICK i \in DOMAIN due_slot : due_slot[i] = it BY <2>1, <2>2, BeforeSelf
      <4>2. i <= i
        <5>1. due_slot \in Seq(Ids) BY <1>3 DEF due_slot, ExpiryInv, IInv, WheelInv, WheelTypeOK
        <5> QED BY <5>1
      <4> QED BY <4>1, <4>2 DEF Before
    <3>2. Before(due_slot', it, it) BY <1>1, <1>5, <1>6, <2>2, <3>1
    <3> QED BY <3>2 DEF Before, Elems
  <2>3. ASSUME NEW u \in Ids, is_running(u)', timers'[u].timeout = cur_time_local
        PROVE  it # None /\ Before(due_slot', it, u)
    <3>1. u # t BY <1>6, <2>3
    <3>2. is_running(u) /\ timers[u].timeout = cur_time_local BY <2>3, <3>1 DEF is_running
    <3>3. it # None /\ Before(due_slot, it, u) BY <2>1, <3>2
    <3> QED BY <1>1, <1>5, <1>6, <3>1, <3>3
  <2>4. ASSUME pc = "deferred" PROVE ~is_running(timer)'
    <3>1. timer \in Ids \ {t} BY <1>1, <2>4
    <3>2. ~is_running(timer) BY <2>1, <2>4
    <3> QED BY <1>1, <3>1, <3>2 DEF is_running
  <2> QED BY <2>2, <2>3, <2>4
<1>7. ScanInv' BY <1>1, <1>6 DEF ScanInv
<1> QED BY <1>2, <1>7

(* Started with a duration of its own, a timer has all of it left, and is  *)
(* due at the next tick only when that is 1.                               *)
LEMMA StartedRemaining ==
  ASSUME WheelInv, cur_time \in Tics, UNCHANGED cur_time, NEW t \in Ids, NEW d \in Tics,
         NEW cb, start_run(t, d, cb), d # 0 \/ timers[t].duration # 0
  PROVE  LET duration == IF d = 0 THEN timers[t].duration ELSE d
         IN  /\ \A u \in Ids \ {t} : timers'[u] = timers[u]
             /\ remaining(t)' \in 1..timers'[t].duration
             /\ timers'[t].timeout = cur_time_local <=> duration = 1
<1> DEFINE duration == IF d = 0 THEN timers[t].duration ELSE d
           tm == [allocated |-> TRUE, flag |-> "RUNNING", duration |-> duration,
                  timeout |-> (cur_time + duration) % TicMod, callback |-> cb]
<1>1. duration \in Tics /\ duration # 0 /\ timers \in [Ids -> TimerImpl]
  BY TimerFields DEF WheelInv, WheelTypeOK
<1>2. timers' = [timers EXCEPT ![t] = tm] BY DEF start_run
<1> HIDE DEF duration
<1>3. /\ timers'[t].timeout = (cur_time + duration) % TicMod /\ timers'[t].duration = duration
      /\ \A u \in Ids \ {t} : timers'[u] = timers[u]
  BY <1>1, <1>2
<1>4. TicMod \in Nat \ {0, 1} /\ cur_time \in 0..(TicMod - 1) /\ duration \in 0..(TicMod - 1)
  BY <1>1, TimersAssumption DEF Tics
<1>5. (((cur_time + duration) % TicMod) - cur_time) % TicMod = duration
  BY <1>4, TicArithmetic
<1>6. remaining(t)' = duration BY <1>3, <1>5 DEF remaining
<1>7. duration \in 1..duration BY <1>1 DEF Tics
<1>8. timers'[t].timeout = cur_time_local <=> duration = 1
  <2> DEFINE x == (cur_time + duration) % TicMod
  <2>1. x \in 0..(TicMod - 1) BY <1>4, TicInTics DEF Tics
  <2>2. (x - cur_time) % TicMod = 1 <=> x = (cur_time + 1) % TicMod
    <3> HIDE DEF x
    <3> QED BY <1>4, <2>1, TicArithmetic
  <2> QED BY <1>3, <1>5, <2>2 DEF cur_time_local
<1> QED BY <1>3, <1>6, <1>7, <1>8 DEF duration

(* The timer a caller has a handle to is not that of a deferred call, and  *)
(* without touch_next it is not the one the scan looks at next.            *)
LEMMA NotInTheWay ==
  ASSUME Uses = {}, ExpiryInv, mutex_free, NEW t \in held, MayTouch(t)
  PROVE  t \in Ids /\ (pc # "idle" => t # it) /\ (pc = "deferred" => t # timer)
<1>1. t \in Ids /\ timers[t].callback # "deferred" BY HeldTimer DEF ExpiryInv
<1> QED BY <1>1
           DEF MayTouch, mutex_free, in_window, ExpiryInv, IInv, StepTypeOK, DeferredTimerPrivate

(* Neither is a timer that was free until now.                             *)
LEMMA FreeNotInTheWay ==
  ASSUME ExpiryInv, alloc_timer
  PROVE  /\ alloc_id \in Ids /\ timers[alloc_id] = NewTimer /\ ~is_running(alloc_id)
         /\ pc # "idle" => alloc_id # it
         /\ pc = "deferred" => alloc_id # timer
<1>1. alloc_id \in Ids /\ timers[alloc_id] = NewTimer BY AllocIdIdle DEF ExpiryInv, IInv
<1>2. ~is_running(alloc_id) /\ timers[alloc_id].callback # "deferred"
  BY <1>1 DEF NewTimer, is_running
<1>3. wheel_pos(cur_time_local) \in Slots
  BY TicInTics, WheelPosInSlots DEF cur_time_local, Tics, ExpiryInv, IInv, StepTypeOK
<1>4. alloc_id \notin Elems(due_slot)
  BY <1>1, <1>2, <1>3 DEF due_slot, ExpiryInv, IInv, WheelInv, WheelMatchesTimers
<1>5. alloc_id # None BY <1>1, TimersAssumption DEF Ids, None
<1> QED BY <1>1, <1>2, <1>4, <1>5 DEF ExpiryInv, ScanInv, IInv, DeferredTimerPrivate

(* set() extends a running timer or gives a stopped one its duration.      *)
LEMMA SetOnTime ==
  ASSUME Uses = {}, ExpiryInv, NEW t \in Ids, NEW d \in Durations, NEW cb \in {"keep", "user"},
         set(t, d, cb)
  PROVE  RemainingInv' /\ ScanInv'
<1> DEFINE duration == IF d = 0 THEN 1 ELSE d
           callback == IF cb = "keep" THEN timers[t].callback ELSE cb
<1>1. mutex_free /\ t \in held /\ MayTouch(t) /\ UNCHANGED stepVars BY DEF set
<1>2. t \in Ids /\ (pc # "idle" => t # it) /\ (pc = "deferred" => t # timer)
  BY <1>1, NotInTheWay
<1>3. duration \in Tics /\ duration # 0 BY TimersAssumption DEF Tics
<1>4. WheelInv /\ cur_time \in Tics /\ timers \in [Ids -> TimerImpl] /\ UNCHANGED cur_time
  BY <1>1 DEF ExpiryInv, IInv, StepTypeOK, WheelInv, WheelTypeOK, stepVars
<1>5. CASE MayStart(duration) /\ start_run(t, duration, callback)
  <2> HIDE DEF duration, callback
  <2>1. OrderKept(t) BY <1>4, <1>5, StartOrder
  <2>2. /\ \A u \in Ids \ {t} : timers'[u] = timers[u]
        /\ remaining(t)' \in 1..timers'[t].duration
        /\ timers'[t].timeout = cur_time_local <=> duration = 1
    BY <1>3, <1>4, <1>5, StartedRemaining
  <2>3. pc # "idle" => duration # 1
    BY <1>1, <1>5 DEF MayStart, mutex_free, in_window, ExpiryInv, IInv, StepTypeOK
  <2> QED BY <1>1, <1>2, <2>1, <2>2, <2>3, OneTimerKeeps
<1>6. CASE /\ ~is_running(t) /\ UNCHANGED time_wheel
           /\ timers' = [timers EXCEPT ![t] =
                [allocated |-> TRUE, flag |-> "STOPPED", duration |-> duration, timeout |-> 0,
                 callback |-> callback]]
  <2>1. ~is_running(t)' /\ \A u \in Ids \ {t} : timers'[u] = timers[u]
    BY <1>4, <1>6 DEF is_running
  <2>2. OrderKept(t) BY <1>6 DEF OrderKept
  <2> QED BY <1>1, <1>2, <2>1, <2>2, OneTimerKeeps
<1> QED BY <1>5, <1>6 DEF set

(* run() of a timer that has a duration.                                   *)
LEMMA RunOnTime ==
  ASSUME Uses = {}, ExpiryInv, NEW t \in Ids, run(t) PROVE RemainingInv' /\ ScanInv'
<1> DEFINE cb == timers[t].callback
<1>1. /\ mutex_free /\ t \in held /\ MayTouch(t) /\ UNCHANGED stepVars
      /\ MayStart(timers[t].duration) /\ timers[t].duration # 0 /\ start_run(t, 0, cb)
  BY DEF run
<1> HIDE DEF cb
<1>2. t \in Ids /\ (pc # "idle" => t # it) /\ (pc = "deferred" => t # timer)
  BY <1>1, NotInTheWay
<1>3. WheelInv /\ cur_time \in Tics /\ UNCHANGED cur_time /\ 0 \in Tics
  BY <1>1, TimersAssumption DEF ExpiryInv, IInv, StepTypeOK, stepVars, Tics
<1>4. OrderKept(t) BY <1>1, <1>3, StartOrder
<1>5. /\ \A u \in Ids \ {t} : timers'[u] = timers[u]
      /\ remaining(t)' \in 1..timers'[t].duration
      /\ timers'[t].timeout = cur_time_local <=> timers[t].duration = 1
  BY <1>1, <1>3, StartedRemaining
<1>6. pc # "idle" => timers[t].duration # 1
  BY <1>1 DEF MayStart, mutex_free, in_window, ExpiryInv, IInv, StepTypeOK
<1> QED BY <1>1, <1>2, <1>4, <1>5, <1>6, OneTimerKeeps

(* stop() and release(): one timer less to wait for.                       *)
LEMMA StopOnTime ==
  ASSUME Uses = {}, ExpiryInv, NEW t \in Ids, stop(t) \/ release(t)
  PROVE  RemainingInv' /\ ScanInv'
<1>1. mutex_free /\ t \in held /\ MayTouch(t) /\ UNCHANGED stepVars BY DEF stop, release
<1>2. t \in Ids /\ (pc # "idle" => t # it) /\ (pc = "deferred" => t # timer)
  BY <1>1, NotInTheWay
<1>3. WheelInv /\ timers \in [Ids -> TimerImpl] /\ timers[t].allocated
  BY <1>1, HeldTimer DEF ExpiryInv, IInv, WheelInv, WheelTypeOK
<1>4. stop_timer(t) /\ \E tm : tm.flag # "RUNNING" /\ timers' = [timers EXCEPT ![t] = tm]
  <2>1. CASE stop(t)
    <3>1. timers[t] \in TimerImpl BY <1>3
    <3>2. stopped(timers[t], FALSE).flag # "RUNNING" BY <3>1, StoppedTimer
    <3> QED BY <2>1, <3>2 DEF stop
  <2>2. CASE release(t) BY <1>3, <2>2, NewTimerType DEF release, dealloc_timer
  <2> QED BY <2>1, <2>2
<1>5. ~is_running(t)' /\ \A u \in Ids \ {t} : timers'[u] = timers[u]
  BY <1>3, <1>4 DEF is_running
<1>6. OrderKept(t) BY <1>3, <1>4, StopOrder
<1> QED BY <1>1, <1>2, <1>5, <1>6, OneTimerKeeps

(* get_unique_timer() and defer_callback() take a timer that was free.     *)
LEMMA AllocOnTime ==
  ASSUME Uses = {}, ExpiryInv, get_unique_timer \/ \E d \in Durations : defer_callback(d)
  PROVE  RemainingInv' /\ ScanInv'
<1>1. mutex_free /\ alloc_timer /\ UNCHANGED stepVars BY DEF get_unique_timer, defer_callback
<1>2. PICK t \in Ids : t = alloc_id BY <1>1, FreeNotInTheWay
<1>3. /\ timers[t] = NewTimer /\ ~is_running(t)
      /\ pc # "idle" => t # it
      /\ pc = "deferred" => t # timer
  BY <1>1, <1>2, FreeNotInTheWay
<1>4. WheelInv /\ cur_time \in Tics /\ timers \in [Ids -> TimerImpl] /\ UNCHANGED cur_time
  BY <1>1 DEF ExpiryInv, IInv, StepTypeOK, WheelInv, WheelTypeOK, stepVars
<1>5. CASE get_unique_timer
  <2>1. timers' = [timers EXCEPT ![t].allocated = TRUE] /\ UNCHANGED time_wheel
    BY <1>2, <1>5 DEF get_unique_timer
  <2>2. ~is_running(t)' /\ \A u \in Ids \ {t} : timers'[u] = timers[u]
    BY <1>3, <1>4, <2>1 DEF is_running, NewTimer
  <2>3. OrderKept(t) BY <2>1 DEF OrderKept
  <2> QED BY <1>1, <1>3, <2>2, <2>3, OneTimerKeeps
<1>6. ASSUME NEW d \in Durations, defer_callback(d) PROVE RemainingInv' /\ ScanInv'
  <2> DEFINE duration == IF d = 0 THEN 1 ELSE d
  <2>1. duration \in Tics /\ duration # 0 BY TimersAssumption DEF Tics
  <2>2. MayStart(duration) /\ start_run(t, duration, "deferred")
    BY <1>2, <1>6 DEF defer_callback
  <2> HIDE DEF duration
  <2>3. OrderKept(t) BY <1>4, <2>2, StartOrder
  <2>4. /\ \A u \in Ids \ {t} : timers'[u] = timers[u]
        /\ remaining(t)' \in 1..timers'[t].duration
        /\ timers'[t].timeout = cur_time_local <=> duration = 1
    BY <1>4, <2>1, <2>2, StartedRemaining
  <2>5. pc # "idle" => duration # 1
    BY <1>1, <2>2 DEF MayStart, mutex_free, in_window, ExpiryInv, IInv, StepTypeOK
  <2> QED BY <1>1, <1>3, <2>3, <2>4, <2>5, OneTimerKeeps
<1> QED BY <1>5, <1>6

(* stop_all() leaves none to wait for.                                     *)
LEMMA StopAllOnTime ==
  ASSUME Uses = {}, ExpiryInv, stop_all PROVE RemainingInv' /\ ScanInv'
<1>1. /\ timers' = [t \in Ids |-> stopped(timers[t], FALSE)] /\ mutex_free
      /\ in_window => it = None
      /\ UNCHANGED <<pc, it, timer>>
  BY DEF stop_all, stepVars
<1>2. \A t \in Ids : timers[t] \in TimerImpl
  BY DEF ExpiryInv, IInv, WheelInv, WheelTypeOK
<1>3. \A t \in Ids : timers'[t].flag # "RUNNING" BY <1>1, <1>2, StoppedTimer
<1>4. \A t \in Ids : ~is_running(t)' BY <1>3 DEF is_running
<1>5. pc # "idle" => it = None
  BY <1>1 DEF mutex_free, in_window, ExpiryInv, IInv, StepTypeOK
<1>6. pc = "deferred" => timer \in Ids BY DEF in_window, ExpiryInv, IInv, StepTypeOK
<1>7. pc = "deferred" => ~is_running(timer)' BY <1>1, <1>3, <1>6 DEF is_running
<1> QED BY <1>1, <1>4, <1>5, <1>7 DEF RemainingInv, ScanInv

-----------------------------------------------------------------------------
(* The scan                                                                *)

(* next_node() of a linked timer is the next one of its slot.              *)
LEMMA NextNodeOf ==
  ASSUME WheelInv, NEW s \in Slots, NEW k \in DOMAIN time_wheel[s]
  PROVE  next_node(time_wheel[s][k]) =
           IF k < Len(time_wheel[s]) THEN time_wheel[s][k + 1] ELSE None
<1> DEFINE t == time_wheel[s][k]
           Here(r) == {i \in DOMAIN time_wheel[r] : time_wheel[r][i] = t}
           slot == CHOOSE r \in Slots : Here(r) # {}
           pos == CHOOSE i \in Here(slot) : TRUE
<1>1. time_wheel[s] \in Seq(Ids) /\ Distinct(time_wheel[s]) /\ t \in Ids
  BY DEF WheelInv, WheelTypeOK, WheelMatchesTimers
<1>2. Here(s) # {} OBVIOUS
<1>3. slot \in Slots /\ Here(slot) # {} BY <1>2
<1>4. pos \in Here(slot) BY <1>3
<1>5. slot = s
  <2>1. t \in Elems(time_wheel[slot]) /\ t \in Elems(time_wheel[s]) BY <1>3 DEF Elems
  <2> HIDE DEF t, slot
  <2> QED BY <1>1, <1>3, <2>1 DEF WheelInv, WheelMatchesTimers
<1>6. pos = k
  <2>1. pos \in DOMAIN time_wheel[s] /\ time_wheel[s][pos] = time_wheel[s][k] BY <1>4, <1>5
  <2> HIDE DEF pos
  <2> QED BY <1>1, <2>1 DEF Distinct
<1>7. next_node(t) = IF pos < Len(time_wheel[slot]) THEN time_wheel[slot][pos + 1] ELSE None
  BY <1>2 DEF next_node
<1> HIDE DEF slot, pos
<1> QED BY <1>5, <1>6, <1>7

(* What lies behind a timer of a list lies at or behind the next one.      *)
LEMMA NextBefore ==
  ASSUME NEW l \in Seq(Ids), Distinct(l), NEW k \in DOMAIN l, NEW v, Before(l, l[k], v), v # l[k]
  PROVE  k < Len(l) /\ Before(l, l[k + 1], v)
<1>1. PICK i \in 1..Len(l), j \in 1..Len(l) : l[i] = l[k] /\ l[j] = v /\ i <= j BY DEF Before
<1>2. i = k /\ j # k /\ k \in 1..Len(l) BY <1>1 DEF Distinct
<1>3. k < Len(l) /\ k + 1 \in 1..Len(l) /\ k + 1 <= j BY <1>1, <1>2
<1> QED BY <1>1, <1>3 DEF Before

(* The slot that is scanned.                                               *)
LEMMA DueSlot ==
  ASSUME IInv
  PROVE  /\ wheel_pos(cur_time_local) \in Slots /\ cur_time_local \in Tics
         /\ due_slot \in Seq(Ids) /\ Distinct(due_slot)
         /\ \A t \in Ids : is_running(t) /\ timers[t].timeout = cur_time_local =>
                             t \in Elems(due_slot)
         /\ \A t \in Elems(due_slot) : t \in Ids /\ t # None /\ is_running(t)
<1>1. cur_time_local \in Tics BY TicInTics DEF cur_time_local, Tics, IInv, StepTypeOK
<1>2. wheel_pos(cur_time_local) \in Slots BY <1>1, WheelPosInSlots
<1>3. due_slot \in Seq(Ids) /\ Distinct(due_slot)
  BY <1>2 DEF due_slot, IInv, WheelInv, WheelTypeOK, WheelMatchesTimers
<1>4. \A t \in Elems(due_slot) : t \in Ids /\ t # None
  BY <1>3, TimersAssumption DEF Elems, Ids, None
<1>5. \A t \in Ids : t \in Elems(due_slot)
                       <=> is_running(t) /\ wheel_pos(timers[t].timeout) = wheel_pos(cur_time_local)
  BY <1>2 DEF due_slot, IInv, WheelInv, WheelMatchesTimers
<1> QED BY <1>1, <1>2, <1>3, <1>4, <1>5

(* The scan starts at the head of the slot.                                *)
LEMMA BeginOnTime == ASSUME ExpiryInv, step_begin PROVE RemainingInv' /\ ScanInv'
<1>1. /\ UNCHANGED <<timers, time_wheel, cur_time>> /\ pc' = "scan" /\ it' = begin(due_slot)
  BY DEF step_begin, due_slot
<1>2. RemainingInv' BY <1>1 DEF ExpiryInv, RemainingInv, remaining, is_running
<1>3. UNCHANGED <<due_slot, cur_time_local>> /\ \A t \in Ids : is_running(t)' = is_running(t)
  BY <1>1 DEF due_slot, cur_time_local, wheel_pos, is_running
<1>4. due_slot \in Seq(Ids) BY DueSlot DEF ExpiryInv
<1>5. it' # None => it' \in Elems(due_slot)
  BY <1>1, <1>4 DEF begin, Elems
<1>6. ASSUME NEW t \in Elems(due_slot) PROVE it' # None /\ Before(due_slot, it', t)
  <2>1. PICK j \in 1..Len(due_slot) : due_slot[j] = t BY <1>4, <1>6 DEF Elems
  <2>2. it' = due_slot[1] /\ 1 \in 1..Len(due_slot) /\ 1 <= j BY <1>1, <1>4, <2>1 DEF begin
  <2>3. it' # None BY <1>4, <2>2, TimersAssumption DEF Ids, None
  <2> QED BY <1>4, <2>1, <2>2, <2>3 DEF Before
<1>7. \A t \in Ids : is_running(t)' /\ timers'[t].timeout = cur_time_local' =>
                       it' # None /\ Before(due_slot', it', t)
  BY <1>1, <1>3, <1>6, DueSlot DEF ExpiryInv
<1>8. ScanInv' BY <1>1, <1>3, <1>5, <1>7 DEF ScanInv
<1> QED BY <1>2, <1>8

(* One turn of the loop: the timers that are due lie behind the next one   *)
(* then, and the one that expires does not run any more.                   *)
LEMMA ScanOnTime == ASSUME ExpiryInv, step_scan PROVE RemainingInv' /\ ScanInv'
<1>1. /\ pc = "scan" /\ it # None /\ it' = next_node(it) /\ UNCHANGED cur_time
      /\ it \in Ids /\ IInv /\ WheelInv
  BY DEF step_scan, ExpiryInv, IInv, StepTypeOK
<1> DEFINE s == wheel_pos(cur_time_local)
<1>2. /\ s \in Slots /\ due_slot \in Seq(Ids) /\ Distinct(due_slot) /\ due_slot = time_wheel[s]
      /\ \A t \in Elems(due_slot) : t \in Ids /\ t # None
  BY <1>1, DueSlot DEF due_slot
<1>3. due_slot' = time_wheel'[s] /\ cur_time_local' = cur_time_local
  BY <1>1 DEF due_slot, cur_time_local, wheel_pos
<1>4. /\ it \in Elems(due_slot)
      /\ \A t \in Ids : is_running(t) /\ timers[t].timeout = cur_time_local =>
                          Before(due_slot, it, t)
  BY <1>1 DEF ExpiryInv, ScanInv
<1> HIDE DEF s
<1>5. PICK k \in DOMAIN due_slot : due_slot[k] = it BY <1>4 DEF Elems
<1>6. it' = IF k < Len(due_slot) THEN due_slot[k + 1] ELSE None
  BY <1>1, <1>2, <1>5, NextNodeOf
<1>7. it' # None => it' \in Elems(due_slot) /\ it' # it /\ it' \in Ids
  <2> SUFFICES ASSUME it' # None PROVE it' \in Elems(due_slot) /\ it' # it /\ it' \in Ids
    OBVIOUS
  <2>1. it' = due_slot[k + 1] /\ k + 1 \in DOMAIN due_slot /\ k + 1 # k BY <1>2, <1>6
  <2> QED BY <1>2, <1>5, <2>1 DEF Elems, Distinct
<1>8. ASSUME NEW t \in Ids, t # it, is_running(t), timers[t].timeout = cur_time_local
      PROVE  it' # None /\ Before(due_slot, it', t)
  <2>1. Before(due_slot, it, t) BY <1>4, <1>8
  <2>2. k < Len(due_slot) /\ Before(due_slot, due_slot[k + 1], t)
    BY <1>2, <1>5, <1>8, <2>1, NextBefore
  <2>3. it' = due_slot[k + 1] /\ k + 1 \in DOMAIN due_slot BY <1>2, <1>6, <2>2
  <2>4. it' # None BY <1>2, <2>3 DEF Elems
  <2> QED BY <2>2, <2>3, <2>4
<1>9. CASE timers[it].timeout = cur_time_local
  <2>1. PICK x \in Ids : x = it BY <1>1
  <2>2. /\ stop_timer(x) /\ timers' = [timers EXCEPT ![x] = stopped(timers[x], TRUE)]
        /\ pc' \in {"scan", "callback", "deferred"}
        /\ pc' = "deferred" => timer' = x
    BY <1>9, <2>1 DEF step_scan
  <2>3. timers \in [Ids -> TimerImpl] BY <1>1 DEF WheelInv, WheelTypeOK
  <2>4. ~is_running(x)' /\ \A u \in Ids \ {x} : timers'[u] = timers[u]
    <3>1. timers[x] \in TimerImpl BY <2>3
    <3>2. stopped(timers[x], TRUE).flag # "RUNNING" BY <3>1, StoppedTimer
    <3> QED BY <2>2, <2>3, <3>2 DEF is_running
  <2>5. OrderKept(x) BY <1>1, <2>2, StopOrder
  <2>6. \A u, v \in Ids \ {x} : Before(due_slot, u, v) => Before(due_slot', u, v)
    BY <1>2, <1>3, <2>5 DEF OrderKept
  <2>7. RemainingInv'
    BY <1>1, <2>4 DEF ExpiryInv, RemainingInv, remaining, is_running
  <2>8. it' # None => it' \in Elems(due_slot')
    <3> SUFFICES ASSUME it' # None PROVE it' \in Elems(due_slot') OBVIOUS
    <3>1. PICK j \in DOMAIN due_slot : due_slot[j] = it' BY <1>7 DEF Elems
    <3>2. j <= j BY <1>2
    <3>3. Before(due_slot, it', it') BY <3>1, <3>2 DEF Before
    <3>4. Before(due_slot', it', it') BY <1>7, <2>1, <2>6, <3>3
    <3> QED BY <3>4 DEF Before, Elems
  <2>9. ASSUME NEW t \in Ids, is_running(t)', timers'[t].timeout = cur_time_local
        PROVE  it' # None /\ Before(due_slot', it', t)
    <3>1. t # x BY <2>4, <2>9
    <3>2. is_running(t) /\ timers[t].timeout = cur_time_local
      BY <2>4, <2>9, <3>1 DEF is_running
    <3>3. it' # None /\ Before(due_slot, it', t) BY <1>8, <2>1, <3>1, <3>2
    <3> QED BY <1>7, <2>1, <2>6, <3>1, <3>3
  <2>10. pc' = "deferred" => ~is_running(timer)' BY <2>2, <2>4 DEF is_running
  <2>11. ScanInv' BY <1>3, <2>8, <2>9, <2>10 DEF ScanInv
  <2> QED BY <2>7, <2>11
<1>10. CASE timers[it].timeout # cur_time_local
  <2>1. UNCHANGED <<timers, time_wheel, pc>> BY <1>10 DEF step_scan
  <2>2. RemainingInv'
    BY <1>1, <2>1 DEF ExpiryInv, RemainingInv, remaining, is_running
  <2>3. due_slot' = due_slot BY <1>2, <1>3, <2>1
  <2>4. \A t \in Ids : is_running(t)' /\ timers'[t].timeout = cur_time_local =>
                         it' # None /\ Before(due_slot, it', t)
    BY <1>8, <1>10, <2>1 DEF is_running
  <2>5. ScanInv' BY <1>1, <1>3, <1>7, <2>1, <2>3, <2>4 DEF ScanInv
  <2> QED BY <2>2, <2>5
<1> QED BY <1>9, <1>10

(* The lambda of a deferred call frees a timer that does not run.          *)
LEMMA DeferredOnTime ==
  ASSUME ExpiryInv, deferred_deallocate PROVE RemainingInv' /\ ScanInv'
<1>1. PICK x \in Ids : x = timer
  BY DEF deferred_deallocate, ExpiryInv, IInv, StepTypeOK, in_window
<1>2. /\ pc = "deferred" /\ pc' = "callback" /\ UNCHANGED <<cur_time, it>>
      /\ timers[x].allocated /\ ~is_running(x) /\ timers \in [Ids -> TimerImpl]
  BY <1>1 DEF deferred_deallocate, ExpiryInv, IInv, ScanInv, DeferredTimerPrivate, WheelInv,
              WheelTypeOK
<1>3. UNCHANGED time_wheel /\ timers' = [timers EXCEPT ![x] = NewTimer]
  BY <1>1, <1>2 DEF deferred_deallocate, dealloc_timer, stop_timer
<1>4. ~is_running(x)' /\ \A u \in Ids \ {x} : timers'[u] = timers[u]
  BY <1>2, <1>3, NewTimerType DEF is_running
<1>5. RemainingInv'
  BY <1>2, <1>4 DEF ExpiryInv, RemainingInv, remaining, is_running
<1>6. UNCHANGED <<due_slot, cur_time_local>>
  BY <1>2, <1>3 DEF due_slot, cur_time_local, wheel_pos
<1>7. \A t \in Ids : is_running(t)' /\ timers'[t].timeout = cur_time_local =>
                       is_running(t) /\ timers[t].timeout = cur_time_local
  BY <1>4 DEF is_running
<1>8. ScanInv' BY <1>2, <1>6, <1>7 DEF ExpiryInv, ScanInv
<1> QED BY <1>5, <1>8

(* When the scan is over nothing is due, so the tick may be counted.       *)
LEMMA EndOnTime == ASSUME ExpiryInv, step_end PROVE RemainingInv' /\ ScanInv'
<1>1. /\ pc = "scan" /\ it = None /\ pc' = "idle" /\ UNCHANGED timers
      /\ cur_time' = (cur_time + 1) % TicMod /\ cur_time_local = (cur_time + 1) % TicMod
  BY DEF step_end, cur_time_local
<1>2. ASSUME NEW t \in Ids, is_running(t) PROVE remaining(t)' \in 1..timers[t].duration
  <2> DEFINE x == timers[t].timeout
             d == timers[t].duration
             c == cur_time
  <2>1. /\ TicMod \in Nat \ {0, 1} /\ c \in 0..(TicMod - 1) /\ x \in 0..(TicMod - 1)
        /\ d \in 0..(TicMod - 1)
    BY TimerFields, TimersAssumption DEF ExpiryInv, IInv, StepTypeOK, WheelInv, Tics
  <2>2. x # cur_time_local BY <1>1, <1>2 DEF ExpiryInv, ScanInv
  <2>3. (x - c) % TicMod \in 1..d BY <1>2 DEF ExpiryInv, RemainingInv, remaining
  <2>4. remaining(t)' = (x - ((c + 1) % TicMod)) % TicMod BY <1>1 DEF remaining
  <2> HIDE DEF x, d, c
  <2>5. (x - c) % TicMod # 1 BY <1>1, <2>1, <2>2, TicArithmetic DEF c
  <2>6. (x - ((c + 1) % TicMod)) % TicMod = ((x - c) % TicMod) - 1
    <3>1. (x - c) % TicMod >= 1 => (x - ((c + 1) % TicMod)) % TicMod = ((x - c) % TicMod) - 1
      BY <2>1, TicArithmetic
    <3>2. (x - c) % TicMod >= 1 BY <2>1, <2>3
    <3> QED BY <3>1, <3>2
  <2>7. ((x - c) % TicMod) - 1 \in 1..d BY <2>1, <2>3, <2>5
  <2> QED BY <2>4, <2>6, <2>7 DEF d
<1>3. RemainingInv' BY <1>1, <1>2 DEF RemainingInv, is_running
<1> QED BY <1>1, <1>3 DEF ScanInv

(* A step that leaves timers, wheel and scan where they are.               *)
LEMMA SameOnTime ==
  ASSUME ExpiryInv, UNCHANGED <<timers, time_wheel, cur_time, it>>,
         UNCHANGED <<pc, timer>> \/ callback_return
  PROVE  RemainingInv' /\ ScanInv'
<1>1. RemainingInv' BY DEF ExpiryInv, RemainingInv, remaining, is_running
<1>2. UNCHANGED <<due_slot, cur_time_local>> /\ \A t \in Ids : is_running(t)' = is_running(t)
  BY DEF due_slot, cur_time_local, wheel_pos, is_running
<1>3. CASE UNCHANGED <<pc, timer>>
  <2>1. is_running(timer)' = is_running(timer) BY <1>3 DEF is_running
  <2> QED BY <1>1, <1>2, <1>3, <2>1 DEF ExpiryInv, ScanInv
<1>4. CASE callback_return
  BY <1>1, <1>2, <1>4 DEF ExpiryInv, ScanInv, callback_return
<1> QED BY <1>3, <1>4

(* For such callers the invariant is inductive.                            *)
LEMMA ExpiryInductive == Uses = {} /\ ExpiryInv /\ [Next]_vars => ExpiryInv'
<1> SUFFICES ASSUME Uses = {}, ExpiryInv, [Next]_vars PROVE ExpiryInv' OBVIOUS
<1>1. IInv' BY NextPreserves DEF ExpiryInv
<1>2. RemainingInv' /\ ScanInv'
  <2>1. CASE step_all
    <3>1. CASE callback_return BY <3>1, SameOnTime DEF callback_return
    <3> QED BY <2>1, <3>1, BeginOnTime, ScanOnTime, DeferredOnTime, EndOnTime DEF step_all
  <2>2. ASSUME NEW t \in Ids, overwrite_handle(t) PROVE RemainingInv' /\ ScanInv'
    BY <2>2, SameOnTime DEF overwrite_handle, stepVars
  <2>3. CASE UNCHANGED vars BY <2>3, SameOnTime DEF vars
  <2>4. CASE Caller
    BY <2>2, <2>4, AllocOnTime, StopAllOnTime, RunOnTime, StopOnTime, SetOnTime DEF Caller
  <2> QED BY <2>1, <2>3, <2>4 DEF Next
<1> QED BY <1>1, <1>2 DEF ExpiryInv

(* It holds initially.                                                     *)
LEMMA ExpiryInitial == Init => ExpiryInv
<1> SUFFICES ASSUME Init PROVE ExpiryInv OBVIOUS
<1>1. \A t \in Ids : ~is_running(t) BY DEF Init, is_running, NewTimer
<1> QED BY <1>1, InitEstablishes DEF ExpiryInv, RemainingInv, ScanInv, Init

(* What has elapsed of a timer that has r ticks left.                      *)
LEMMA ElapsedArithmetic ==
  ASSUME NEW M \in Nat \ {0, 1}, NEW c \in 0..(M - 1), NEW d \in 0..(M - 1), NEW x \in 0..(M - 1),
         (x - c) % M \in 1..d
  PROVE  (d - (x - c)) % M <= d
<1>1. (x - c) % M = IF x < c THEN x - c + M ELSE x - c
  <2>1. x - c \in Int /\ -M <= x - c /\ x - c < 2 * M /\ x - c < M /\ (x - c < 0 <=> x < c)
    OBVIOUS
  <2> QED BY <2>1, ModOneTurn
<1> DEFINE y == d - (x - c)
<1>2. y \in Int /\ -M <= y /\ y < 2 * M OBVIOUS
<1>3. x < c => M <= y /\ y - M <= d BY <1>1
<1>4. ~(x < c) => 0 <= y /\ y < M /\ y <= d BY <1>1
<1> HIDE DEF y
<1>5. y % M = IF y < 0 THEN y + M ELSE IF y < M THEN y ELSE y - M BY <1>2, ModOneTurn
<1>6. y % M <= d BY <1>2, <1>3, <1>4, <1>5
<1> QED BY <1>6 DEF y

(* time_elapsed() of a running timer never exceeds its duration(): no      *)
(* expiry is missed, over the wrap of tic_t too, as long as the callers    *)
(* make none of the delicate uses around a callback.                       *)
THEOREM NoExpiryMissed == Uses = {} /\ Spec => []ElapsedWithinDuration
<1>1. ExpiryInv => ElapsedWithinDuration
  <2> SUFFICES ASSUME ExpiryInv, NEW t \in Ids, is_running(t)
               PROVE  time_elapsed(t) <= timers[t].duration
    BY DEF ElapsedWithinDuration
  <2> DEFINE x == timers[t].timeout
             d == timers[t].duration
  <2>1. /\ TicMod \in Nat \ {0, 1} /\ cur_time \in 0..(TicMod - 1) /\ x \in 0..(TicMod - 1)
        /\ d \in 0..(TicMod - 1)
    BY TimerFields, TimersAssumption DEF ExpiryInv, IInv, StepTypeOK, WheelInv, Tics
  <2>2. (x - cur_time) % TicMod \in 1..d BY DEF ExpiryInv, RemainingInv, remaining
  <2>3. time_elapsed(t) = (d - (x - cur_time)) % TicMod BY DEF time_elapsed, is_running
  <2> HIDE DEF x, d
  <2> QED BY <2>1, <2>2, <2>3, ElapsedArithmetic DEF d
<1>2. Uses = {} /\ ExpiryInv /\ [Next]_vars => (Uses = {} /\ ExpiryInv)' BY ExpiryInductive
<1> QED BY <1>1, <1>2, ExpiryInitial, PTL DEF Spec
=============================================================================
