------------------------------ MODULE ProcRaNr ------------------------------
(***************************************************************************)
(* The random access procedure of the UE (proc_ra_nr), with the parts of   *)
(* mac_nr and of the PHY that call it.  The stack thread runs orders of    *)
(* RRC and SR, tasks that PHY threads queue, and timers, one at a time.  A *)
(* PHY thread completes the procedure itself.  The mutex is taken by that  *)
(* completion, by ra_error() and by ra_response_reception(); starting a    *)
(* procedure, mac_nr::reset() and the other tasks do not take it, so they  *)
(* and the completion interleave at every access to what they share.       *)
(***************************************************************************)
EXTENDS Integers, Sequences

CONSTANTS preambleTransMax,
          MaxTasks       \* bound: tasks of the PHY in the queue

ASSUME RaAssumption == preambleTransMax \in Nat \ {0} /\ MaxTasks \in Nat \ {0}

VARIABLES state, started_by,
          timers,        \* those that run
          callback,      \* the timer whose callback waits for the mutex
          counter,       \* preamble_transmission_counter
          prach,         \* PHY: a preamble is prepared
          rar_rnti,      \* it is valid
          temp_crnti, crnti,
          tasks,         \* task_queue
          pc,            \* what each thread does next inside the procedure
          held,          \* a PHY thread has made its check, not yet its push
          misled,        \* ghost: the window is that of an earlier preamble
          overtaken,     \* ghost: a completion has cleared a later starter
          disarmed,      \* ghost: a completion has stopped a later timer
          problem,       \* ghost: rrc_ra_problem() since the procedure started
          malformed      \* ghost: a response could not be unpacked

rntis  == <<rar_rnti, temp_crnti, crnti>>
ghosts == <<misled, overtaken, disarmed, problem, malformed>>
vars == <<state, started_by, timers, callback, counter, prach, rntis, tasks, pc, held, ghosts>>

Threads == {"stack", "phy"}
Timers  == {"prach_send", "rar_timeout", "contention"}

(* The state a task or a timer is for                                      *)
expected == [prach_sent |-> "PRACH", rar |-> "RAR", crnti |-> "CONRES",
             prach_send |-> "PRACH", rar_timeout |-> "RAR", contention |-> "CONRES"]

(* Ghost age: of the present state, of an earlier one, or pushed so late   *)
(* that the state had moved on since the check                             *)
Task == [kind : {"prach_sent", "rar", "crnti"}, age : {"own", "old", "slow"}]

Init ==
  /\ state = "IDLE" /\ started_by = "NULL" /\ timers = {} /\ callback = "none"
  /\ counter = 0 /\ prach = FALSE
  /\ rar_rnti = FALSE /\ temp_crnti = FALSE /\ crnti \in BOOLEAN
  /\ tasks = <<>> /\ pc = [t \in Threads |-> "out"] /\ held = [k \in {"rar", "crnti"} |-> "no"]
  /\ misled = FALSE /\ overtaken = FALSE /\ disarmed = FALSE
  /\ problem = FALSE /\ malformed = FALSE

goto(t, step) == pc' = [pc EXCEPT ![t] = step]

stack_free == callback = "none" /\ pc["stack"] = "out"
mutex_free == pc["phy"] \in {"out", "called"}

(* Ghost: when the state moves, tasks and checks are no longer of it.      *)
Moved(ts) ==
  /\ tasks' = [i \in DOMAIN ts |-> IF ts[i].age = "own" THEN [ts[i] EXCEPT !.age = "old"] ELSE ts[i]]
  /\ held' = [k \in DOMAIN held |-> IF held[k] = "own" THEN "moved" ELSE held[k]]
Follow(ts) == IF state' = state THEN tasks' = ts /\ held' = held ELSE Moved(ts)

-----------------------------------------------------------------------------
(* Starting, on the stack thread without the mutex                         *)

ra_procedure_initialization(by) ==
  /\ stack_free /\ state = "IDLE"
  /\ started_by' = by /\ counter' = 1 /\ prach' = TRUE /\ goto("stack", "run_timer")
  /\ overtaken' = FALSE /\ disarmed' = FALSE /\ problem' = FALSE /\ malformed' = FALSE
  /\ UNCHANGED <<state, timers, callback, rntis, tasks, held, misled>>

start_by_rrc == ra_procedure_initialization("RRC")
start_by_mac == ra_procedure_initialization("MAC")

(* ra_preamble_transmission(): the PHY has the preamble, its timer starts, *)
(* then the state changes                                                  *)
RunPrachTimer ==
  /\ pc["stack"] = "run_timer" /\ timers' = timers \cup {"prach_send"}
  /\ goto("stack", "set_prach")
  /\ UNCHANGED <<state, started_by, callback, counter, prach, rntis, tasks, held, ghosts>>

SetPrach ==
  /\ pc["stack"] = "set_prach" /\ state' = "PRACH" /\ goto("stack", "out") /\ Moved(tasks)
  /\ misled' = FALSE
  /\ UNCHANGED <<started_by, timers, callback, counter, prach, rntis, overtaken, disarmed,
                 problem, malformed>>

(* mac_nr::reset() of rrc_release(): the first write of reset()            *)
mac_reset ==
  /\ stack_free /\ state' = "IDLE" /\ goto("stack", "clear") /\ Follow(tasks)
  /\ UNCHANGED <<started_by, timers, callback, counter, prach, rntis, ghosts>>

(* RRC gives a C-RNTI in a reconfiguration                                 *)
set_crnti ==
  /\ stack_free /\ crnti' = TRUE
  /\ UNCHANGED <<state, started_by, timers, callback, counter, prach, rar_rnti, temp_crnti,
                 tasks, pc, held, ghosts>>

-----------------------------------------------------------------------------
(* Completion, by a task of the stack thread without the mutex or by a PHY *)
(* thread with it                                                          *)

(* The initiator is known or the identity matches                          *)
ra_contention_resolution(t, match) ==
  IF state = "CONRES" /\ (started_by # "NULL" \/ match)
    THEN timers' = timers \ {"contention"} /\ goto(t, "complete")
    ELSE UNCHANGED timers /\ goto(t, "out")

SetCompletion(t) ==
  /\ pc[t] = "complete" /\ state' = "COMPLETION" /\ goto(t, "promote") /\ Follow(tasks)
  /\ UNCHANGED <<started_by, timers, callback, counter, prach, rntis, ghosts>>

(* The Temporary C-RNTI becomes the C-RNTI, and RRC is told                *)
ra_completion(t) ==
  /\ pc[t] = "promote"
  /\ IF state = "COMPLETION"
       THEN /\ crnti' = (crnti \/ temp_crnti) /\ temp_crnti' = (temp_crnti /\ crnti)
            /\ goto(t, "reset")
       ELSE goto(t, "out") /\ UNCHANGED <<temp_crnti, crnti>>
  /\ UNCHANGED <<state, started_by, timers, callback, counter, prach, rar_rnti, tasks, held,
                 ghosts>>

(* reset() in its three writes: state, starter, timers                     *)
ResetState(t) ==
  /\ pc[t] = "reset" /\ state' = "IDLE" /\ goto(t, "clear") /\ Follow(tasks)
  /\ UNCHANGED <<started_by, timers, callback, counter, prach, rntis, ghosts>>

starting == pc["stack"] \in {"run_timer", "set_prach", "set_rar"}

ResetStarter(t) ==
  /\ pc[t] = "clear" /\ started_by' = "NULL" /\ goto(t, "stop")
  /\ overtaken' = (t = "phy" /\ ~(callback = "none" /\ timers = {} /\ state = "IDLE" /\ ~starting))
  /\ UNCHANGED <<state, timers, callback, counter, prach, rntis, tasks, held, misled, disarmed,
                 problem, malformed>>

(* The timers reset() stops; the bug forgets the one of the contention.    *)
stopped_by_reset_NoContention == {"prach_send", "rar_timeout"}
stopped_by_reset == Timers

ResetTimers(t) ==
  /\ pc[t] = "stop" /\ temp_crnti' = FALSE /\ timers' = timers \ stopped_by_reset
  /\ goto(t, "out")
  /\ disarmed' = (disarmed \/ (t = "phy" /\ timers # {}))
  /\ UNCHANGED <<state, started_by, callback, counter, prach, rar_rnti, crnti, tasks, held,
                 misled, overtaken, problem, malformed>>

Completion(t) == \/ SetCompletion(t) \/ ra_completion(t)
                 \/ ResetState(t) \/ ResetStarter(t) \/ ResetTimers(t)

-----------------------------------------------------------------------------
(* Tasks                                                                   *)

(* prach_sent(): the timers change and the window opens, then the state    *)
run_prach_sent(own) ==
  IF state # "PRACH" THEN UNCHANGED <<timers, rar_rnti, pc, misled>>
  ELSE /\ timers' = (timers \ {"prach_send"}) \cup {"rar_timeout"}
       /\ rar_rnti' = TRUE /\ misled' = ~own /\ goto("stack", "set_rar")

SetRar ==
  /\ pc["stack"] = "set_rar" /\ state' = "RAR" /\ goto("stack", "out") /\ Moved(tasks)
  /\ UNCHANGED <<started_by, timers, callback, counter, prach, rntis, ghosts>>

(* What ra_response_reception() stops, and the timer a response starts;    *)
(* the bug forgets the latter.                                             *)
stopped_by_rar == {"rar_timeout"}
started_by_rar_None == {}
started_by_rar == {"contention"}

(* With the mutex; a response that cannot be unpacked ends here, its timer *)
(* stopped                                                                 *)
ra_response_reception(pdu) ==
  /\ mutex_free
  /\ IF state # "RAR" THEN UNCHANGED <<state, timers, rar_rnti, temp_crnti, malformed>>
     ELSE /\ malformed' = (malformed \/ pdu = "malformed")
          /\ temp_crnti' = (temp_crnti \/ pdu = "match")
          /\ rar_rnti' = (rar_rnti /\ pdu # "match")
          /\ IF pdu = "malformed"
               THEN timers' = timers \ stopped_by_rar /\ UNCHANGED state
               ELSE timers' = (timers \ stopped_by_rar) \cup started_by_rar /\ state' = "CONRES"

RunTask ==
  /\ stack_free /\ tasks # <<>>
  /\ \/ /\ Head(tasks).kind = "prach_sent" /\ run_prach_sent(Head(tasks).age = "own")
        /\ UNCHANGED <<state, temp_crnti, malformed>>
     \/ /\ Head(tasks).kind = "rar"
        /\ \E pdu \in {"match", "other", "malformed"} : ra_response_reception(pdu)
        /\ UNCHANGED <<pc, misled>>
     \/ /\ Head(tasks).kind = "crnti" /\ ra_contention_resolution("stack", FALSE)
        /\ UNCHANGED <<state, rar_rnti, temp_crnti, misled, malformed>>
  /\ Follow(Tail(tasks))
  /\ UNCHANGED <<started_by, callback, counter, prach, crnti, overtaken, disarmed, problem>>

-----------------------------------------------------------------------------
(* Timers                                                                  *)

TimerExpires(t) ==
  /\ stack_free /\ t \in timers
  /\ timers' = timers \ {t} /\ callback' = t
  /\ UNCHANGED <<state, started_by, counter, prach, rntis, tasks, pc, held, ghosts>>

(* preambleTransMax + 1; the bug never reaches it.                         *)
last_transmission_Never(c) == FALSE
last_transmission(c) == c >= preambleTransMax + 1

(* ra_error(), with the mutex, whatever the state is by now: the back-off  *)
(* is 0, a response that carries a RAPID has none                          *)
ra_error ==
  /\ callback # "none" /\ mutex_free /\ callback' = "none"
  /\ counter' = counter + 1 /\ temp_crnti' = FALSE
  /\ IF last_transmission(counter + 1)
       THEN /\ problem' = TRUE
            /\ IF started_by = "MAC"
                 THEN state' = "IDLE" /\ started_by' = "NULL" /\ timers' = timers \ stopped_by_reset
                 ELSE timers' = timers \ {"contention"} /\ UNCHANGED <<state, started_by>>
            /\ UNCHANGED <<prach, misled>> /\ Follow(tasks)
       ELSE /\ prach' = TRUE /\ state' = "PRACH"
            /\ timers' = (timers \ {"contention"}) \cup {"prach_send"}
            /\ misled' = FALSE /\ Moved(tasks) /\ UNCHANGED <<started_by, problem>>
  /\ UNCHANGED <<rar_rnti, crnti, pc, overtaken, disarmed, malformed>>

-----------------------------------------------------------------------------
(* The PHY                                                                 *)

queue(kind, age) ==
  /\ Len(tasks) < MaxTasks
  /\ tasks' = Append(tasks, [kind |-> kind, age |-> age])

(* The preamble is sent; the bug opens the window without the queue.       *)
PhySendsPrach_Direct ==
  /\ prach /\ prach' = FALSE /\ state = "PRACH" /\ state' = "RAR"
  /\ timers' = {"rar_timeout"} /\ rar_rnti' = TRUE /\ misled' = FALSE /\ Moved(tasks)
  /\ UNCHANGED <<started_by, callback, counter, temp_crnti, crnti, pc, overtaken, disarmed,
                 problem, malformed>>
PhySendsPrach ==
  /\ prach /\ prach' = FALSE /\ queue("prach_sent", "own")
  /\ UNCHANGED <<state, started_by, timers, callback, counter, rntis, pc, held, ghosts>>

(* tb_decoded() of a response, searched for since the window opened: the   *)
(* check with the mutex, then handle_rar_pdu() without it                  *)
PhyRarCheck ==
  /\ held["rar"] = "no" /\ mutex_free /\ state = "RAR" /\ rar_rnti
  /\ held' = [held EXCEPT !["rar"] = "own"]
  /\ UNCHANGED <<state, started_by, timers, callback, counter, prach, rntis, tasks, pc, ghosts>>

(* new_grant_ul() of a grant for the C-RNTI, without the mutex             *)
PhyCrntiCheck ==
  /\ held["crnti"] = "no" /\ state = "CONRES" /\ crnti
  /\ held' = [held EXCEPT !["crnti"] = "own"]
  /\ UNCHANGED <<state, started_by, timers, callback, counter, prach, rntis, tasks, pc, ghosts>>

PhyPush(kind) ==
  /\ held[kind] # "no" /\ held' = [held EXCEPT ![kind] = "no"]
  /\ queue(kind, IF held[kind] = "own" THEN "own" ELSE "slow")
  /\ UNCHANGED <<state, started_by, timers, callback, counter, prach, rntis, pc, ghosts>>

(* tb_decoded() of a block for the Temporary C-RNTI: the check, then       *)
(* received_contention_resolution() with the mutex                         *)
PhyMsg4 ==
  /\ pc["phy"] = "out" /\ state = "CONRES" /\ temp_crnti /\ ~crnti /\ goto("phy", "called")
  /\ UNCHANGED <<state, started_by, timers, callback, counter, prach, rntis, tasks, held, ghosts>>

received_contention_resolution(match) ==
  /\ pc["phy"] = "called" /\ ra_contention_resolution("phy", match)
  /\ UNCHANGED <<state, started_by, callback, counter, prach, rntis, tasks, held, ghosts>>

PhyStep == \/ PhySendsPrach \/ PhyRarCheck \/ PhyCrntiCheck \/ PhyMsg4
           \/ PhyPush("rar") \/ PhyPush("crnti")
           \/ \E match \in BOOLEAN : received_contention_resolution(match)

StackGoesOn == RunPrachTimer \/ SetPrach \/ SetRar \/ Completion("stack")

Next == \/ start_by_rrc \/ start_by_mac \/ mac_reset \/ set_crnti
        \/ StackGoesOn \/ Completion("phy")
        \/ RunTask \/ (\E t \in Timers : TimerExpires(t)) \/ ra_error
        \/ PhyStep

(* The stack thread goes on, so does a PHY thread inside the procedure,    *)
(* and timers expire.                                                      *)
Fairness == /\ WF_vars(RunTask) /\ WF_vars(ra_error) /\ WF_vars(StackGoesOn)
            /\ WF_vars(Completion("phy"))
            /\ \A t \in Timers : WF_vars(TimerExpires(t))

Spec == Init /\ [][Next]_vars /\ Fairness

-----------------------------------------------------------------------------
(* Properties                                                              *)

(* The fields keep their range; the counter passes preambleTransMax by 3   *)
(* at most, once for each state a procedure can be in when it has failed.  *)
TypeOK ==
  /\ state \in {"IDLE", "PRACH", "RAR", "CONRES", "COMPLETION"}
  /\ started_by \in {"NULL", "RRC", "MAC"}
  /\ timers \subseteq Timers /\ callback \in Timers \cup {"none"}
  /\ counter \in 0..(preambleTransMax + 3)
  /\ \A i \in DOMAIN tasks : tasks[i] \in Task
  /\ \A k \in {"rar", "crnti"} : held[k] \in {"no", "own", "moved"}
  /\ \A t \in Threads : pc[t] \in {"out", "called", "run_timer", "set_prach", "set_rar",
                                   "complete", "promote", "reset", "clear", "stop"}
  /\ {prach, rar_rnti, temp_crnti, crnti} \cup {misled, overtaken, disarmed, problem, malformed}
       \subseteq BOOLEAN

(* No thread is inside a change of the procedure                           *)
settled == pc["stack"] = "out" /\ mutex_free

(* Whatever the two threads overwrite of each other, once they are out of  *)
(* the procedure only the timer of the state runs, none in IDLE: a timer   *)
(* left over from an earlier step would start a preamble of its own.       *)
TimersMatchState == settled => \A t \in timers : expected[t] = state

(* A response or a grant that was queued in an earlier step of the         *)
(* procedure, or in an earlier procedure, is never taken for one of the    *)
(* step that is waiting now, but for two cases: the window was opened by   *)
(* the late notification of an earlier preamble, or the state had moved on *)
(* between the check of the PHY thread and its push.                       *)
StaleTasksIgnored ==
  (tasks # <<>> /\ Head(tasks).age = "old" /\ Head(tasks).kind \in {"rar", "crnti"} /\ ~misled)
    => state # expected[Head(tasks).kind]

(* A procedure runs only when RRC or MAC has started it, but for one case: *)
(* a PHY thread, in reset(), cleared the starter of a procedure started    *)
(* after the one it completed, or while a callback was waiting.            *)
StartedBySomeone == (settled /\ state # "IDLE" /\ started_by = "NULL") => overtaken

(* State, timers and starter fit together whenever no thread is inside the *)
(* procedure, for every interleaving that leads there.                     *)
RaConsistent == TimersMatchState /\ StartedBySomeone

(* Every procedure completes or reports a problem, but for two cases: a    *)
(* response that could not be unpacked, and a PHY thread that, in reset(), *)
(* stopped the timer of a procedure started meanwhile.                     *)
RaReported == (state # "IDLE") ~> (state = "IDLE" \/ problem \/ malformed \/ disarmed)
=============================================================================
