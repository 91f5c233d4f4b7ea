------------------------------- MODULE Timers -------------------------------
(***************************************************************************)
(* isrran::timer_handler (lib/include/isrran/common/timers.h): the timer   *)
(* wheel every layer of the stack takes its timers from.  One thread calls *)
(* step_all(); it scans one slot of the wheel under the mutex and gives    *)
(* the mutex up around every callback.  Every other operation is one       *)
(* critical section, so it can happen whenever step_all() is not scanning, *)
(* the window around a callback included (the callback itself and other    *)
(* threads are the callers).                                               *)
(***************************************************************************)
EXTENDS Integers, Sequences, FiniteSets

CONSTANTS Capacity,     \* timers the constructor reserves
          MaxTimers,    \* bound on the growth of timer_list
          WHEEL_SIZE,   \* slots of the wheel (2^16 in the code)
          TicMod,       \* values of tic_t (2^32 in the code)
          Durations,    \* durations passed to set() and defer_callback()
          Uses          \* the delicate uses the callers make (see UseNames)

(* touch_next : inside the unlocked window, operating on the very timer    *)
(*              step_all() will look at next                               *)
(* start_short: inside that window, starting a timer that is due at the    *)
(*              tick being processed (duration 1)                          *)
(* run_unset  : run() on a timer whose duration was never set              *)
UseNames == {"touch_next", "start_short", "run_unset"}

ASSUME TimersAssumption ==
  /\ MaxTimers \in Nat \ {0}
  /\ Capacity \in 0..MaxTimers
  /\ WHEEL_SIZE \in Nat \ {0}
  /\ TicMod \in Nat \ {0, 1}
  /\ TicMod % WHEEL_SIZE = 0
  /\ Durations \subseteq 0..(TicMod - 1)
  /\ Uses \subseteq UseNames

VARIABLES timers,          \* timer_list: the timer_impl of every id
          timer_list_size, \* timer_list.size()
          free_list, nof_free_timers,
          time_wheel, nof_timers_running,
          cur_time,
          held,            \* ids a unique_timer handle of a caller points to
          pc,              \* where step_all() is
          it,              \* its iterator: the timer to look at next
          timer            \* the timer whose callback it is running

vars == <<timers, timer_list_size, free_list, nof_free_timers, time_wheel,
          nof_timers_running, cur_time, held, pc, it, timer>>
allocVars == <<timer_list_size, free_list, nof_free_timers, held>>
stepVars  == <<cur_time, pc, it, timer>>

Ids   == 0..(MaxTimers - 1)
Slots == 0..(WHEEL_SIZE - 1)
Tics  == 0..(TicMod - 1)
None  == -1                \* nullptr

(* "none": empty move_callback; "deferred": the lambda of defer_callback() *)
Callbacks == {"none", "user", "deferred"}

TimerImpl == [allocated : BOOLEAN, flag : {"STOPPED", "RUNNING", "EXPIRED"},
              duration : Tics, timeout : Tics, callback : Callbacks]

NewTimer == [allocated |-> FALSE, flag |-> "STOPPED", duration |-> 0,
             timeout |-> 0, callback |-> "none"]

-----------------------------------------------------------------------------
(* intrusive lists: the front is the head of the sequence                  *)
push_front(l, t) == <<t>> \o l

pop(l, t) ==
  LET p == CHOOSE i \in DOMAIN l : l[i] = t
  IN  [i \in 1..(Len(l) - 1) |-> IF i < p THEN l[i] ELSE l[i + 1]]

begin(l) == IF l = <<>> THEN None ELSE Head(l)

(* (bug) pop() has cleared the pointer before it is read                   *)
next_node_Cleared(t) == None

(* Node t's next_node.  pop() clears it, so a node in no list has none.    *)
next_node(t) ==
  LET Here(s) == {i \in DOMAIN time_wheel[s] : time_wheel[s][i] = t}
      s == CHOOSE s \in Slots : Here(s) # {}
      i == CHOOSE i \in Here(s) : TRUE
  IN  IF \E slot \in Slots : Here(slot) # {}
      THEN IF i < Len(time_wheel[s]) THEN time_wheel[s][i + 1] ELSE None
      ELSE None

is_running(t)   == timers[t].flag = "RUNNING"
wheel_pos(time) == time % WHEEL_SIZE

(* (bug) the tick is not counted                                           *)
cur_time_local_Stuck == cur_time

cur_time_local  == (cur_time + 1) % TicMod

(* timer_impl::time_elapsed_(), in uint32_t arithmetic                     *)
time_elapsed(t) ==
  CASE timers[t].flag = "RUNNING" ->
         (timers[t].duration - (timers[t].timeout - cur_time)) % TicMod
    [] timers[t].flag = "EXPIRED" -> timers[t].duration
    [] OTHER -> 0

(* start_run_: state and wheel of timer t, (re)started with duration d     *)
start_run(t, d, cb) ==
  LET old         == timers[t]
      duration    == IF d = 0 THEN old.duration ELSE d
      new_timeout == (cur_time + duration) % TicMod
      from        == wheel_pos(old.timeout)
      to          == wheel_pos(new_timeout)
      Popped(s)   == IF is_running(t) /\ s = from THEN pop(time_wheel[s], t)
                                                  ELSE time_wheel[s]
  IN  /\ timers' = [timers EXCEPT ![t] =
                      [allocated |-> TRUE, flag |-> "RUNNING",
                       duration |-> duration, timeout |-> new_timeout,
                       callback |-> cb]]
      /\ time_wheel' = IF is_running(t) /\ from = to
                       THEN time_wheel
                       ELSE [s \in Slots |-> IF s = to
                                             THEN push_front(Popped(s), t)
                                             ELSE Popped(s)]
      /\ nof_timers_running' = IF is_running(t) THEN nof_timers_running
                                                ELSE nof_timers_running + 1

(* stop_timer_: what is left of the wheel and of the counter               *)
stop_timer(t) ==
  /\ time_wheel' = IF is_running(t)
                   THEN [time_wheel EXCEPT ![wheel_pos(timers[t].timeout)] = pop(@, t)]
                   ELSE time_wheel
  /\ nof_timers_running' = IF is_running(t) THEN nof_timers_running - 1
                                            ELSE nof_timers_running

stopped(tm, expiry) ==
  IF tm.flag = "RUNNING"
  THEN [tm EXCEPT !.flag = IF expiry THEN "EXPIRED" ELSE "STOPPED"]
  ELSE tm

(* alloc_timer: the id handed out, and the free list and deque it leaves   *)
alloc_id == IF free_list # <<>> THEN Head(free_list) ELSE timer_list_size

alloc_timer ==
  IF free_list # <<>>
  THEN /\ free_list' = Tail(free_list)
       /\ nof_free_timers' = nof_free_timers - 1
       /\ UNCHANGED timer_list_size
  ELSE /\ timer_list_size < MaxTimers
       /\ timer_list_size' = timer_list_size + 1
       /\ UNCHANGED <<free_list, nof_free_timers>>

(* dealloc_timer_: keeps id, clears state and callback                     *)
dealloc_timer(t) ==
  IF timers[t].allocated
  THEN /\ stop_timer(t)
       /\ timers' = [timers EXCEPT ![t] = NewTimer]
       /\ free_list' = push_front(free_list, t)
       /\ nof_free_timers' = nof_free_timers + 1
  ELSE UNCHANGED <<timers, time_wheel, nof_timers_running, free_list, nof_free_timers>>

-----------------------------------------------------------------------------
(* timer_handler(capacity): ascending ids in the free list                 *)
Init ==
  /\ timers = [t \in Ids |-> NewTimer]
  /\ timer_list_size = Capacity
  /\ free_list = [i \in 1..Capacity |-> i - 1]
  /\ nof_free_timers = Capacity
  /\ time_wheel = [s \in Slots |-> <<>>]
  /\ nof_timers_running = 0
  /\ cur_time = 0
  /\ held = {}
  /\ pc = "idle" /\ it = None /\ timer = None

mutex_free == pc # "scan"
in_window  == pc \in {"callback", "deferred"}

(* What the callers refrain from, unless Uses says otherwise               *)
MayTouch(t) == in_window /\ t = it => "touch_next" \in Uses
MayStart(d) == in_window /\ d = 1 => "start_short" \in Uses

(* get_unique_timer                                                        *)
get_unique_timer ==
  /\ mutex_free
  /\ alloc_timer
  /\ timers' = [timers EXCEPT ![alloc_id].allocated = TRUE]
  /\ held' = held \cup {alloc_id}
  /\ UNCHANGED <<time_wheel, nof_timers_running, stepVars>>

(* unique_timer::set(duration) and set(duration, callback); a running      *)
(* timer is extended, a duration of 0 becomes 1                            *)
set(t, d, cb) ==
  LET duration == IF d = 0 THEN 1 ELSE d
      callback == IF cb = "keep" THEN timers[t].callback ELSE cb
  IN  /\ mutex_free /\ t \in held /\ MayTouch(t)
      /\ \/ /\ is_running(t) /\ MayStart(duration)
            /\ start_run(t, duration, callback)
         \/ /\ ~is_running(t)
            /\ timers' = [timers EXCEPT ![t] =
                            [allocated |-> TRUE, flag |-> "STOPPED",
                             duration |-> duration, timeout |-> 0,
                             callback |-> callback]]
            /\ UNCHANGED <<time_wheel, nof_timers_running>>
      /\ UNCHANGED <<allocVars, stepVars>>

run(t) ==
  /\ mutex_free /\ t \in held /\ MayTouch(t) /\ MayStart(timers[t].duration)
  /\ timers[t].duration = 0 => "run_unset" \in Uses
  /\ start_run(t, 0, timers[t].callback)
  /\ UNCHANGED <<allocVars, stepVars>>

stop(t) ==
  /\ mutex_free /\ t \in held /\ MayTouch(t)
  /\ stop_timer(t)
  /\ timers' = [timers EXCEPT ![t] = stopped(@, FALSE)]
  /\ UNCHANGED <<allocVars, stepVars>>

release(t) ==
  /\ mutex_free /\ t \in held /\ MayTouch(t)
  /\ dealloc_timer(t)
  /\ held' = held \ {t}
  /\ UNCHANGED <<timer_list_size, stepVars>>

(* unique_timer& operator=(unique_timer&&): the handle that is assigned to *)
(* is overwritten, and the timer it pointed to is not released             *)
overwrite_handle(t) ==
  /\ t \in held
  /\ held' = held \ {t}
  /\ UNCHANGED <<timers, timer_list_size, free_list, nof_free_timers,
                 time_wheel, nof_timers_running, stepVars>>

(* (bug) the caller keeps a handle to the timer of a deferred call         *)
defer_callback_Held(d) ==
  LET duration == IF d = 0 THEN 1 ELSE d
  IN  /\ mutex_free /\ MayStart(duration)
      /\ alloc_timer
      /\ start_run(alloc_id, duration, "deferred")
      /\ held' = held \cup {alloc_id}
      /\ UNCHANGED stepVars

(* defer_callback: alloc_timer, set and run.  No other caller has a handle *)
(* to the timer, so the three critical sections are one step here.         *)
defer_callback(d) ==
  LET duration == IF d = 0 THEN 1 ELSE d
  IN  /\ mutex_free /\ MayStart(duration)
      /\ alloc_timer
      /\ start_run(alloc_id, duration, "deferred")
      /\ UNCHANGED <<held, stepVars>>

stop_all ==
  /\ mutex_free
  /\ in_window /\ it # None => "touch_next" \in Uses
  /\ timers' = [t \in Ids |-> stopped(timers[t], FALSE)]
  /\ time_wheel' = [s \in Slots |-> <<>>]
  /\ nof_timers_running' = 0
  /\ UNCHANGED <<allocVars, stepVars>>

-----------------------------------------------------------------------------
(* step_all(), one action per stretch of the loop                          *)
step_begin ==
  /\ pc = "idle"
  /\ pc' = "scan"
  /\ it' = begin(time_wheel[wheel_pos(cur_time_local)])
  /\ UNCHANGED <<timers, time_wheel, nof_timers_running, allocVars, cur_time, timer>>

(* One turn of the loop: ++it happens before the timer leaves the slot     *)
step_scan ==
  /\ pc = "scan" /\ it # None
  /\ it' = next_node(it)
  /\ IF timers[it].timeout = cur_time_local
     THEN /\ stop_timer(it)
          /\ timers' = [timers EXCEPT ![it] = stopped(@, TRUE)]
          /\ pc' = CASE timers[it].callback = "none" -> "scan"
                     [] timers[it].callback = "user" -> "callback"
                     [] OTHER -> "deferred"
          /\ timer' = IF timers[it].callback = "none" THEN timer ELSE it
     ELSE UNCHANGED <<timers, time_wheel, nof_timers_running, pc, timer>>
  /\ UNCHANGED <<allocVars, cur_time>>

(* the lambda of defer_callback, after func(): auto-deletes the timer      *)
deferred_deallocate ==
  /\ pc = "deferred"
  /\ dealloc_timer(timer)
  /\ pc' = "callback"
  /\ UNCHANGED <<timer_list_size, held, cur_time, it, timer>>

callback_return ==
  /\ pc = "callback"
  /\ pc' = "scan" /\ timer' = None
  /\ UNCHANGED <<timers, time_wheel, nof_timers_running, allocVars, cur_time, it>>

step_end ==
  /\ pc = "scan" /\ it = None
  /\ pc' = "idle"
  /\ cur_time' = cur_time_local
  /\ UNCHANGED <<timers, time_wheel, nof_timers_running, allocVars, it, timer>>

step_all == step_begin \/ step_scan \/ deferred_deallocate \/ callback_return \/ step_end

Caller ==
  \/ get_unique_timer
  \/ stop_all
  \/ \E d \in Durations : defer_callback(d)
  \/ \E t \in Ids : \/ run(t) \/ stop(t) \/ release(t) \/ overwrite_handle(t)
                    \/ \E d \in Durations, cb \in {"keep", "user"} : set(t, d, cb)

Next == step_all \/ Caller

(* The stack thread keeps calling step_all(), and every callback returns   *)
Spec == Init /\ [][Next]_vars /\ WF_vars(step_all)

-----------------------------------------------------------------------------
(* Properties                                                              *)

(* Every variable keeps the range its C++ declaration gives it.            *)
TypeOK ==
  /\ timers \in [Ids -> TimerImpl]
  /\ timer_list_size \in 0..MaxTimers
  /\ free_list \in Seq(Ids) /\ nof_free_timers \in Nat
  /\ time_wheel \in [Slots -> Seq(Ids)] /\ nof_timers_running \in Nat
  /\ cur_time \in Tics
  /\ held \subseteq Ids
  /\ pc \in {"idle", "scan", "callback", "deferred"}
  /\ it \in Ids \cup {None} /\ timer \in Ids \cup {None}
  /\ in_window => timer \in Ids

(* The wheel and the timer states, updated separately by start_run_,       *)
(* stop_timer_ and the scan, agree: a timer is linked in the slot of its   *)
(* timeout, once, exactly while it is running (a node linked twice or in   *)
(* the wrong slot corrupts the intrusive list).                            *)
Distinct(l) == \A i, j \in DOMAIN l : l[i] = l[j] => i = j
Elems(l)    == {l[i] : i \in DOMAIN l}

WheelMatchesTimers ==
  /\ \A s \in Slots : Distinct(time_wheel[s])
  /\ \A s \in Slots, t \in Ids :
        t \in Elems(time_wheel[s]) <=> is_running(t) /\ wheel_pos(timers[t].timeout) = s

(* nof_running_timers(): incremented and decremented in four places, it is *)
(* the number of running timers.                                           *)
Running == {t \in Ids : is_running(t)}
RunningCountExact == nof_timers_running = Cardinality(Running)

(* The free list holds, once each, the ids of timer_list that are not      *)
(* allocated (the assertion of alloc_timer), no caller's handle points to  *)
(* one of them, none of them runs, and nof_timers() counts the others.     *)
FreeListMatchesAllocation ==
  /\ Distinct(free_list)
  /\ \A t \in Ids : t \in Elems(free_list) <=> t < timer_list_size /\ ~timers[t].allocated
  /\ \A t \in Ids : ~timers[t].allocated => timers[t] = NewTimer /\ t \notin held
  /\ \A t \in Ids : timers[t].allocated => t < timer_list_size
  /\ nof_free_timers = Len(free_list)

(* A timer of defer_callback() belongs to its own lambda alone: no caller  *)
(* has a handle to it, and it is still that timer when the lambda frees it *)
(* (else the lambda would free a timer somebody else was given).           *)
DeferredTimerPrivate ==
  /\ \A t \in Ids : timers[t].callback = "deferred" => timers[t].allocated /\ t \notin held
  /\ pc = "deferred" => timers[timer].callback = "deferred"

(* timer_handler keeps one fact in several places (wheel, states, counter, *)
(* free list, handles), which agree whenever its mutex is free: also in    *)
(* the window around a callback, whoever uses it and for what.             *)
TimersConsistent ==
  /\ TypeOK
  /\ WheelMatchesTimers /\ RunningCountExact
  /\ FreeListMatchesAllocation /\ DeferredTimerPrivate

(* What timers_test4 asserts of every running timer (timer_test.cc:274):   *)
(* time_elapsed() <= duration().  A timer whose expiry a tick has missed   *)
(* breaks it one tick later and stays in the wheel for 2^32 ticks.         *)
ElapsedWithinDuration ==
  \A t \in Ids : is_running(t) => time_elapsed(t) <= timers[t].duration

(* Whatever the callers do meanwhile, a timer that runs towards a timeout  *)
(* does not keep it for ever: it expires, or is stopped or moved.          *)
NoTimerRunsForEver ==
  \A t \in Ids : \A x \in Tics :
    (is_running(t) /\ timers[t].timeout = x) ~> ~(is_running(t) /\ timers[t].timeout = x)
=============================================================================
