----------------------------- MODULE MultiQueue -----------------------------
(***************************************************************************)
(* multiqueue_handler (lib/include/isrran/common/multiqueue.h), the task   *)
(* queues of task_scheduler: threads push to ports of bounded capacity,    *)
(* one thread, the stack, pops from them, and one, the owner of the        *)
(* handles, adds and resets queues and stops the handler.  A step is what  *)
(* a thread does between taking a mutex and letting go of it or waiting on *)
(* a condition variable; a notify after the unlock is a step of its own.   *)
(***************************************************************************)
EXTENDS Naturals, Sequences, FiniteSets, FiniteSetsExt

CONSTANTS Pushers,              \* the threads that push
          MaxQueues,            \* bound: queues.size()
          Capacity,             \* capacity of every queue
          MaxCollisions         \* bound: failed try_to_lock of the consumer in one search

Queues == 1..MaxQueues
None   == 0

ASSUME QueueAssumption ==
  /\ MaxQueues \in Nat \ {0} /\ Capacity \in [Queues -> Nat \ {0}]
  /\ MaxCollisions \in Nat /\ IsFiniteSet(Pushers) /\ None \notin Pushers

VARIABLES mutex,                \* multiqueue_handler::mutex: who has it
          running, consumer_state, spin_idx, nof_queues,
          active, buffer, rpos, count, nof_waiting,     \* of every input_port_impl
          pusher,               \* what every pusher is doing, where, and with which message
          consumer,             \* what the popping thread is doing
          owner,                \* what the thread that has the handles is doing
          handles,              \* the queues it has handles of
          fifo                  \* what a queue has to hold: the messages it accepted, in order

handlerVars == <<mutex, running, consumer_state, spin_idx, nof_queues>>
portVars    == <<active, buffer, rpos, count, nof_waiting>>
threads     == <<pusher, consumer, owner>>
vars == <<handlerVars, portVars, threads, handles, fifo>>

(* A message is named by the thread that pushes it.                        *)
Message == Pushers

(* "blocked": in cv_full.wait(); "woken": notified, the mutex not taken    *)
(* yet; "leaving": about to notify cv_exit                                 *)
PusherState == [at : {"idle", "blocked", "woken", "leaving"}, q : Queues \cup {None}]
Idle == [at |-> "idle", q |-> None]

Consumer(at) == [at |-> at, q |-> None, count |-> 0, collisions |-> 0]
NoCall == [at |-> "idle", q |-> None, for |-> "none"]

Init ==
  /\ mutex = "free" /\ running = TRUE /\ consumer_state = FALSE
  /\ spin_idx = 0 /\ nof_queues = 0
  /\ active = [q \in Queues |-> FALSE]
  /\ buffer = [q \in Queues |-> [i \in 0..(Capacity[q] - 1) |-> None]]
  /\ rpos = [q \in Queues |-> 0] /\ count = [q \in Queues |-> 0]
  /\ nof_waiting = [q \in Queues |-> 0]
  /\ pusher = [t \in Pushers |-> Idle]
  /\ consumer = Consumer("out") /\ owner = NoCall
  /\ handles = {}
  /\ fifo = [q \in Queues |-> <<>>]

-----------------------------------------------------------------------------
(* dyn_circular_buffer                                                     *)

full(q)  == count[q] = Capacity[q]
empty(q) == count[q] = 0
top(q)   == buffer[q][rpos[q]]

(* Where the next message goes; the bug forgets the wrap of the indices.   *)
wpos_NoWrap(q) == IF count[q] + rpos[q] < Capacity[q] THEN rpos[q] + count[q] ELSE Capacity[q] - 1
wpos(q) == (rpos[q] + count[q]) % Capacity[q]

push(q, msg) ==
  /\ buffer' = [buffer EXCEPT ![q][wpos(q)] = msg]
  /\ count' = [count EXCEPT ![q] = @ + 1]
  /\ fifo' = [fifo EXCEPT ![q] = Append(@, msg)]
  /\ UNCHANGED rpos

pop(q) ==
  /\ buffer' = [buffer EXCEPT ![q][rpos[q]] = None]
  /\ rpos' = [rpos EXCEPT ![q] = (@ + 1) % Capacity[q]]
  /\ count' = [count EXCEPT ![q] = @ - 1]
  /\ fifo' = [fifo EXCEPT ![q] = Tail(@)]

(* clear() leaves rpos where it is                                         *)
clear(q) ==
  /\ count' = [count EXCEPT ![q] = 0]
  /\ buffer' = [buffer EXCEPT ![q] = [i \in 0..(Capacity[q] - 1) |-> None]]
  /\ fifo' = [fifo EXCEPT ![q] = <<>>]
  /\ UNCHANGED rpos

-----------------------------------------------------------------------------
(* The condition variables                                                 *)

waiting(q) == {t \in Pushers : pusher[t] = [at |-> "blocked", q |-> q]}

(* cv_full.notify_one() and notify_all()                                   *)
notify_one_full(q) ==
  \/ waiting(q) = {} /\ UNCHANGED pusher
  \/ \E t \in waiting(q) : pusher' = [pusher EXCEPT ![t].at = "woken"]
notify_all_full(q) ==
  pusher' = [t \in Pushers |-> IF t \in waiting(q) THEN [pusher[t] EXCEPT !.at = "woken"]
                                                   ELSE pusher[t]]

-----------------------------------------------------------------------------
(* The pushing threads: push_()                                            *)

(* The loop of a blocking push, entered or entered again with the mutex.   *)
push_loop(t, q, waited) ==
  \/ /\ active[q] /\ full(q)
     /\ nof_waiting' = [nof_waiting EXCEPT ![q] = @ - waited + 1]
     /\ pusher' = [pusher EXCEPT ![t] = [at |-> "blocked", q |-> q]]
     /\ UNCHANGED <<active, buffer, rpos, count, fifo>>
  \/ /\ ~active[q]
     /\ nof_waiting' = [nof_waiting EXCEPT ![q] = @ - waited]
     /\ pusher' = [pusher EXCEPT ![t] = [at |-> "leaving", q |-> q]]
     /\ UNCHANGED <<active, buffer, rpos, count, fifo>>
  \/ /\ active[q] /\ ~full(q)
     /\ nof_waiting' = [nof_waiting EXCEPT ![q] = @ - waited]
     /\ push(q, t)
     /\ pusher' = [pusher EXCEPT ![t] = Idle]
     /\ UNCHANGED active

Push(t, q) ==
  /\ pusher[t] = Idle /\ q \in handles
  /\ push_loop(t, q, 0)
  /\ UNCHANGED <<handlerVars, consumer, owner, handles>>

TryPush(t, q) ==
  /\ pusher[t] = Idle /\ q \in handles
  /\ \/ /\ active[q] /\ ~full(q) /\ push(q, t)
        /\ UNCHANGED <<active, nof_waiting>>
     \/ (~active[q] \/ full(q)) /\ UNCHANGED <<portVars, fifo>>
  /\ UNCHANGED <<handlerVars, threads, handles>>

(* A notified thread gets the mutex                                        *)
Retry(t) ==
  /\ pusher[t].at = "woken"
  /\ push_loop(t, pusher[t].q, 1)
  /\ UNCHANGED <<handlerVars, consumer, owner, handles>>

(* Condition variables may wake up by themselves                           *)
SpuriousWakeUp(t) ==
  /\ pusher[t].at = "blocked"
  /\ pusher' = [pusher EXCEPT ![t].at = "woken"]
  /\ UNCHANGED <<handlerVars, portVars, consumer, owner, handles, fifo>>

(* cv_exit.notify_one(), for the thread in deactivate_blocking(); the bug  *)
(* does not notify it.                                                     *)
Leave_Silent(t) ==
  /\ pusher[t].at = "leaving"
  /\ pusher' = [pusher EXCEPT ![t] = Idle]
  /\ UNCHANGED <<handlerVars, portVars, consumer, owner, handles, fifo>>
Leave(t) ==
  /\ pusher[t].at = "leaving"
  /\ pusher' = [pusher EXCEPT ![t] = Idle]
  /\ owner' = IF owner.at = "waiting" /\ owner.q = pusher[t].q
                THEN [owner EXCEPT !.at = "check"] ELSE owner
  /\ UNCHANGED <<handlerVars, portVars, consumer, handles, fifo>>

-----------------------------------------------------------------------------
(* The popping thread: wait_pop(), called over and over by run_next_task() *)

idle_queue_vars == <<portVars, fifo, pusher, owner, handles>>

(* With the mutex: search the queues, or leave when the handler stops      *)
EnterWaitPop ==
  /\ consumer.at \in {"out", "asleep"} /\ mutex = "free"
  /\ IF running
       THEN /\ mutex' = "consumer" /\ consumer_state' = TRUE
            /\ consumer' = [at |-> "search", q |-> spin_idx + 1, count |-> 0, collisions |-> 0]
       ELSE /\ consumer_state' = FALSE /\ UNCHANGED mutex
            /\ consumer' = Consumer("leaving")
  /\ UNCHANGED <<running, spin_idx, nof_queues, idle_queue_vars>>

searching == consumer.at = "search" /\ consumer.count < nof_queues
next_q == IF consumer.q = nof_queues THEN 1 ELSE consumer.q + 1

(* Where the next search begins, the number of queues tried counted from   *)
(* the last collision.  The bug begins at the same queue.                  *)
next_spin_Same == spin_idx
next_spin == (spin_idx + consumer.count + 1) % nof_queues

(* Whether pop_() notifies a pushing thread; the bug does when it makes    *)
(* the first free place only.                                              *)
must_notify_WasFull(q) == full(q)
must_notify(q) == nof_waiting[q] > 0

(* pop_() unlocks before it notifies; the mutex of the handler is kept     *)
PopFrom(q) ==
  /\ searching /\ consumer.q = q /\ ~empty(q)
  /\ pop(q)
  /\ spin_idx' = next_spin
  /\ IF must_notify(q)
       THEN consumer' = [consumer EXCEPT !.at = "notify"] /\ UNCHANGED <<mutex, consumer_state>>
       ELSE /\ consumer' = Consumer("out")
            /\ mutex' = "free" /\ consumer_state' = FALSE
  /\ UNCHANGED <<running, nof_queues, active, nof_waiting, pusher, owner, handles>>

Notify ==
  /\ consumer.at = "notify"
  /\ notify_one_full(consumer.q)
  /\ consumer' = Consumer("out")
  /\ mutex' = "free" /\ consumer_state' = FALSE
  /\ UNCHANGED <<running, spin_idx, nof_queues, portVars, fifo, owner, handles>>

PassEmpty ==
  /\ searching /\ empty(consumer.q)
  /\ consumer' = [consumer EXCEPT !.q = next_q, !.count = @ + 1]
  /\ UNCHANGED <<handlerVars, idle_queue_vars>>

(* Another thread has the mutex of the queue: "restart RR search"          *)
Collide ==
  /\ searching /\ consumer.collisions < MaxCollisions
  /\ consumer' = [consumer EXCEPT !.q = next_q, !.count = 1, !.collisions = @ + 1]
  /\ UNCHANGED <<handlerVars, idle_queue_vars>>

Sleep ==
  /\ consumer.at = "search" /\ consumer.count >= nof_queues
  /\ mutex' = "free" /\ consumer' = Consumer("asleep")
  /\ UNCHANGED <<running, consumer_state, spin_idx, nof_queues, idle_queue_vars>>

(* cv_exit.notify_one() of the handler                                     *)
LeaveWaitPop ==
  /\ consumer.at = "leaving"
  /\ consumer' = Consumer("ended")
  /\ owner' = IF owner.at = "cv" THEN [owner EXCEPT !.at = "cv_woken"] ELSE owner
  /\ UNCHANGED <<handlerVars, portVars, fifo, pusher, handles>>

-----------------------------------------------------------------------------
(* The thread with the handles: add_queue(), reset() and stop()            *)

free_queues(capacity) == {q \in 1..nof_queues : ~active[q] /\ Capacity[q] = capacity}

(* The first queue of that capacity that is not active is used again       *)
AddQueue(capacity) ==
  /\ owner.at = "idle" /\ mutex = "free" /\ running
  /\ LET reuse == free_queues(capacity)
         q     == IF reuse = {} THEN nof_queues + 1 ELSE Min(reuse)
     IN /\ q \in Queues /\ Capacity[q] = capacity
        /\ active' = [active EXCEPT ![q] = TRUE]
        /\ handles' = handles \cup {q}
        /\ nof_queues' = IF q > nof_queues THEN q ELSE nof_queues
  /\ UNCHANGED <<mutex, running, consumer_state, spin_idx, buffer, rpos, count, nof_waiting,
                 threads, fifo>>

(* queue_handle::reset() deactivates the queue, and recycle_op does so     *)
(* once more when the pointer to it is cleared                             *)
Reset(q) ==
  /\ owner.at = "idle" /\ q \in handles
  /\ handles' = handles \ {q}
  /\ owner' = [at |-> "set", q |-> q, for |-> "reset"]
  /\ UNCHANGED <<handlerVars, portVars, fifo, pusher, consumer>>

(* stop() signals every queue, waits for the popping thread, and then for  *)
(* the pushing threads of every queue                                      *)
Stop ==
  /\ owner.at = "idle" /\ mutex = "free" /\ running
  /\ mutex' = "owner" /\ running' = FALSE
  /\ owner' = [at |-> "set", q |-> 1, for |-> "signal"]
  /\ UNCHANGED <<consumer_state, spin_idx, nof_queues, portVars, fifo, pusher, consumer,
                 handles>>

past_last == owner.for \in {"signal", "join"} /\ owner.q > nof_queues
done_with(o) == CASE o.for = "reset"   -> [o EXCEPT !.at = "set", !.for = "recycle"]
                  [] o.for = "recycle" -> NoCall
                  [] OTHER             -> [o EXCEPT !.at = "set", !.q = @ + 1]
after_set(o) == IF o.for = "signal" THEN done_with(o) ELSE [o EXCEPT !.at = "check"]

(* set_active(false)                                                       *)
SetInactive ==
  /\ owner.at = "set" /\ ~past_last
  /\ IF active[owner.q]
       THEN /\ active' = [active EXCEPT ![owner.q] = FALSE] /\ clear(owner.q)
            /\ owner' = [owner EXCEPT !.at = "notify"]
       ELSE owner' = after_set(owner) /\ UNCHANGED <<active, buffer, rpos, count, fifo>>
  /\ UNCHANGED <<handlerVars, nof_waiting, pusher, consumer, handles>>

NotifyPushers ==
  /\ owner.at = "notify"
  /\ notify_all_full(owner.q)
  /\ owner' = after_set(owner)
  /\ UNCHANGED <<handlerVars, portVars, fifo, consumer, handles>>

(* The loop of deactivate_blocking(); the bug does not wait.               *)
CheckPushers_NoWait ==
  /\ owner.at = "check"
  /\ owner' = done_with(owner)
  /\ UNCHANGED <<handlerVars, portVars, fifo, pusher, consumer, handles>>
CheckPushers ==
  /\ owner.at = "check"
  /\ owner' = IF nof_waiting[owner.q] > 0 THEN [owner EXCEPT !.at = "waiting"]
                                         ELSE done_with(owner)
  /\ UNCHANGED <<handlerVars, portVars, fifo, pusher, consumer, handles>>

WaitForConsumer ==
  /\ owner.at = "set" /\ owner.for = "signal" /\ past_last
  /\ IF consumer_state THEN owner' = [owner EXCEPT !.at = "cv"] /\ mutex' = "free"
     ELSE owner' = [at |-> "set", q |-> 1, for |-> "join"] /\ UNCHANGED mutex
  /\ UNCHANGED <<running, consumer_state, spin_idx, nof_queues, portVars, fifo, pusher, consumer,
                 handles>>

RetakeMutex ==
  /\ owner.at = "cv_woken" /\ mutex = "free"
  /\ mutex' = "owner" /\ owner' = [owner EXCEPT !.at = "set"]
  /\ UNCHANGED <<running, consumer_state, spin_idx, nof_queues, portVars, fifo, pusher, consumer,
                 handles>>

Stopped ==
  /\ owner.at = "set" /\ owner.for = "join" /\ past_last
  /\ mutex' = "free" /\ owner' = NoCall
  /\ UNCHANGED <<running, consumer_state, spin_idx, nof_queues, portVars, fifo, pusher, consumer,
                 handles>>

PusherStep(t)  == Retry(t) \/ Leave(t)
ConsumerStep   == EnterWaitPop \/ (\E q \in Queues : PopFrom(q)) \/ Notify \/ PassEmpty
                  \/ Collide \/ Sleep \/ LeaveWaitPop
OwnerStep      == SetInactive \/ NotifyPushers \/ CheckPushers \/ WaitForConsumer
                  \/ RetakeMutex \/ Stopped

Next ==
  \/ \E t \in Pushers : PusherStep(t) \/ SpuriousWakeUp(t)
                        \/ \E q \in Queues : Push(t, q) \/ TryPush(t, q)
  \/ ConsumerStep
  \/ OwnerStep \/ Stop \/ (\E q \in Queues : AddQueue(Capacity[q])) \/ \E q \in Queues : Reset(q)

(* A thread that can run does, one that waits for a mutex gets it in the   *)
(* end, and the consumer does not collide at a queue every time.           *)
Fairness ==
  /\ \A t \in Pushers : WF_vars(PusherStep(t))
  /\ WF_vars(ConsumerStep) /\ SF_vars(EnterWaitPop)
  /\ \A q \in Queues : SF_vars(PopFrom(q))
  /\ WF_vars(OwnerStep) /\ SF_vars(RetakeMutex)

Safety == Init /\ [][Next]_vars
Spec   == Safety /\ Fairness

-----------------------------------------------------------------------------
(* Properties                                                              *)

(* The fields keep the range of their declarations.                        *)
TypeOK ==
  /\ mutex \in {"free", "consumer", "owner"} /\ running \in BOOLEAN /\ consumer_state \in BOOLEAN
  /\ nof_queues \in 0..MaxQueues /\ (spin_idx = 0 \/ spin_idx < nof_queues)
  /\ active \in [Queues -> BOOLEAN] /\ nof_waiting \in [Queues -> 0..Cardinality(Pushers)]
  /\ \A q \in Queues : rpos[q] \in 0..(Capacity[q] - 1) /\ count[q] \in 0..Capacity[q]
  /\ pusher \in [Pushers -> PusherState] /\ handles \subseteq 1..nof_queues

(* The messages come out in the order they were accepted, none lost and    *)
(* none twice, over the wrap of the indices, clear() and another use.      *)
ContentsInOrder ==
  \A q \in Queues : fifo[q] = [i \in 1..count[q] |-> buffer[q][(rpos[q] + i - 1) % Capacity[q]]]

(* nof_waiting counts the threads in the wait loop, notified or not: it is *)
(* what pop_() and deactivate_blocking() go by.                            *)
inside(q) == {t \in Pushers : pusher[t].at \in {"blocked", "woken"} /\ pusher[t].q = q}
WaitersCounted == \A q \in Queues : nof_waiting[q] = Cardinality(inside(q))

(* Indices, contents and counters of the queues agree whenever no thread   *)
(* is inside a critical section.                                           *)
QueuesConsistent == TypeOK /\ ContentsInOrder /\ WaitersCounted

(* No wake-up is lost: for every free place in a queue with blocked        *)
(* threads one of them is awake or about to be notified, and all of them   *)
(* are about to be when the queue has been deactivated.                    *)
Woken(q) == inside(q) \ waiting(q)
NoLostWakeUp ==
  \A q \in Queues : waiting(q) # {} =>
    IF active[q]
      THEN Capacity[q] - count[q] <=
             Cardinality(Woken(q)) + (IF consumer.at = "notify" /\ consumer.q = q THEN 1 ELSE 0)
      ELSE owner.at = "notify" /\ owner.q = q

(* A thread waits inside push() only at an active queue with a handle, or  *)
(* while reset() or stop() waits for it: neither returns, and the queue is *)
(* not used for something else, with a thread left behind in it.           *)
NoPusherLeftBehind ==
  \A q \in Queues : inside(q) # {} =>
    \/ q \in handles /\ active[q]
    \/ owner.at # "idle" /\ (owner.for \in {"reset", "recycle"} => owner.q = q)

(* reset() and stop() return: neither misses the notification it waits for *)
(* and no thread stays in push().                                          *)
OwnerReturns == []<>(owner.at = "idle")

(* Round robin: the oldest message of a queue is popped in the end         *)
(* whatever is pushed to the others, unless the queue is deactivated.      *)
QueuesServed ==
  \A q \in Queues : \A r \in 0..(Capacity[q] - 1) : []<>(count[q] = 0 \/ rpos[q] # r)
=============================================================================
