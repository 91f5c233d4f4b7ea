--------------------------- MODULE ProcRaNr_proofs ---------------------------
(***************************************************************************)
(* For every number of preambles, every length of the queue and every      *)
(* interleaving of the stack thread with a PHY thread that completes the   *)
(* procedure: which timers run in which state, who has started the         *)
(* procedure, how far the counter goes, and that tasks of an earlier step  *)
(* are not taken for those of the present one.                             *)
(***************************************************************************)
EXTENDS ProcRaNr, TLAPS

Steps == {"out", "called", "run_timer", "set_prach", "set_rar", "complete", "promote", "reset",
          "clear", "stop"}
StackSteps == Steps \ {"called"}
PhySteps   == Steps \ {"run_timer", "set_prach", "set_rar"}

(* Where each thread is; a callback waits only outside the procedure.      *)
PcInv ==
  /\ pc \in [Threads -> Steps]
  /\ pc["stack"] \in StackSteps /\ pc["phy"] \in PhySteps
  /\ pc["stack"] # "out" => callback = "none"

(* The timers that may run, by what the stack thread does next             *)
allowed ==
  CASE pc["stack"] = "out"       -> {t \in Timers : expected[t] = state}
    [] pc["stack"] = "set_prach" -> {"prach_send"}
    [] pc["stack"] = "set_rar"   -> {"rar_timeout"}
    [] pc["stack"] \in {"clear", "stop"} -> Timers
    [] OTHER -> {}

(* The PHY thread has overwritten the state, and stops all timers before   *)
(* it leaves, unless the stack thread overwrites the state in its turn.    *)
overwritten ==
  \/ pc["phy"] \in {"reset", "clear", "stop"}
  \/ pc["phy"] = "promote" /\ state = "COMPLETION" /\ pc["stack"] = "out"

(* Only allowed timers run, and none while a callback waits.               *)
TimersInv ==
  /\ timers \subseteq Timers /\ callback \in Timers \cup {"none"}
  /\ state \in {"IDLE", "PRACH", "RAR", "CONRES", "COMPLETION"}
  /\ ~mutex_free => "contention" \notin timers
  /\ pc["stack"] = "set_rar" => timers \subseteq {"rar_timeout"}
  /\ overwritten \/ (timers \subseteq allowed /\ (callback # "none" => timers = {}))

(* The procedure is over, or a thread is about to end it.                  *)
ending ==
  \/ state = "IDLE"
  \/ /\ state = "COMPLETION"
     /\ pc["phy"] \in {"promote", "reset"} \/ pc["stack"] \in {"promote", "reset"}

(* Without a starter nothing of a procedure is left, but for the exception.*)
StarterInv ==
  /\ pc["stack"] = "clear" => ending
  /\ (started_by = "NULL" /\ ~overtaken) =>
       ending /\ ~starting /\ callback = "none" /\ (timers = {} \/ pc["stack"] = "stop")

RaInv == PcInv /\ TimersInv /\ StarterInv

(* The timer of each state.                                                *)
LEMMA ExpectedStates ==
  /\ expected["prach_send"] = "PRACH" /\ expected["rar_timeout"] = "RAR"
  /\ expected["contention"] = "CONRES"
  /\ expected["rar"] = "RAR" /\ expected["crnti"] = "CONRES"
BY DEF expected

(* A step of one thread leaves the other where it is.                      *)
LEMMA Goes ==
  ASSUME pc \in [Threads -> Steps], NEW t \in Threads, NEW step \in Steps, goto(t, step)
  PROVE  /\ pc' \in [Threads -> Steps] /\ pc'[t] = step
         /\ \A u \in Threads \ {t} : pc'[u] = pc[u]
BY DEF goto

(* Initially no timer runs and nothing has been started.                   *)
LEMMA RaInitial == Init => RaInv
BY DEF Init, RaInv, PcInv, TimersInv, StarterInv, StackSteps, PhySteps, Steps, Threads, mutex_free,
       overwritten, ending, starting

(* Steps that change nothing of what the invariant is about.               *)
LEMMA RaSame ==
  ASSUME RaInv, UNCHANGED <<state, started_by, timers, callback, pc, overtaken>> PROVE RaInv'
BY DEF RaInv, PcInv, TimersInv, StarterInv, mutex_free, overwritten, allowed, ending, starting

(* What a thread that goes on leaves of the invariant to be shown.         *)
LEMMA RaByParts ==
  ASSUME PcInv', TimersInv', StarterInv' PROVE RaInv'
BY DEF RaInv

(* Starting a procedure, and mac_nr::reset().                              *)
LEMMA OrdersKeep ==
  ASSUME RaInv, start_by_rrc \/ start_by_mac \/ mac_reset \/ RunPrachTimer \/ SetPrach \/ SetRar
  PROVE  RaInv'
<1> USE ExpectedStates
<1>p. pc \in [Threads -> Steps] /\ "stack" \in Threads /\ "phy" \in Threads /\ "stack" # "phy"
  BY DEF RaInv, PcInv, Threads
<1>1. ASSUME NEW by \in {"RRC", "MAC"}, ra_procedure_initialization(by) PROVE RaInv'
  <2>1. /\ stack_free /\ state = "IDLE" /\ started_by' = by
        /\ UNCHANGED <<state, timers, callback>> /\ overtaken' = FALSE
    BY <1>1 DEF ra_procedure_initialization
  <2>2. pc' \in [Threads -> Steps] /\ pc'["stack"] = "run_timer" /\ pc'["phy"] = pc["phy"]
    BY <1>1, <1>p, Goes DEF ra_procedure_initialization, Steps
  <2>3. PcInv' BY <2>1, <2>2 DEF RaInv, PcInv, stack_free, StackSteps, Steps
  <2>4. TimersInv' BY <2>1, <2>2 DEF RaInv, TimersInv, stack_free, overwritten, allowed, mutex_free, Timers
  <2>5. StarterInv' BY <2>1, <2>2 DEF StarterInv
  <2> QED BY <2>3, <2>4, <2>5, RaByParts
<1>2. CASE mac_reset
  <2>1. stack_free /\ state' = "IDLE" /\ UNCHANGED <<started_by, timers, callback, overtaken>>
    BY <1>2 DEF mac_reset, ghosts
  <2>2. pc' \in [Threads -> Steps] /\ pc'["stack"] = "clear" /\ pc'["phy"] = pc["phy"]
    BY <1>2, <1>p, Goes DEF mac_reset, Steps
  <2>3. PcInv' BY <2>1, <2>2 DEF RaInv, PcInv, stack_free, StackSteps, Steps
  <2>4. TimersInv' BY <2>1, <2>2 DEF RaInv, TimersInv, stack_free, overwritten, allowed, mutex_free, Timers
  <2>5. StarterInv' BY <2>1, <2>2 DEF RaInv, StarterInv, ending, stack_free, starting
  <2> QED BY <2>3, <2>4, <2>5, RaByParts
<1>3. CASE RunPrachTimer
  <2>1. /\ pc["stack"] = "run_timer" /\ timers' = timers \cup {"prach_send"}
        /\ UNCHANGED <<state, started_by, callback, overtaken>>
    BY <1>3 DEF RunPrachTimer, ghosts
  <2>2. pc' \in [Threads -> Steps] /\ pc'["stack"] = "set_prach" /\ pc'["phy"] = pc["phy"]
    BY <1>3, <1>p, Goes DEF RunPrachTimer, Steps
  <2>3. PcInv' BY <2>1, <2>2 DEF RaInv, PcInv, StackSteps, Steps
  <2>4. TimersInv' BY <2>1, <2>2 DEF RaInv, PcInv, TimersInv, overwritten, allowed, mutex_free, Timers
  <2>5. StarterInv' BY <2>1, <2>2 DEF RaInv, StarterInv, starting
  <2> QED BY <2>3, <2>4, <2>5, RaByParts
<1>4. CASE SetPrach \/ SetRar
  <2>1. /\ \/ pc["stack"] = "set_prach" /\ state' = "PRACH"
           \/ pc["stack"] = "set_rar" /\ state' = "RAR"
        /\ UNCHANGED <<started_by, timers, callback, overtaken>>
    BY <1>4 DEF SetPrach, SetRar, ghosts
  <2>2. pc' \in [Threads -> Steps] /\ pc'["stack"] = "out" /\ pc'["phy"] = pc["phy"]
    BY <1>4, <1>p, Goes DEF SetPrach, SetRar, Steps
  <2>3. PcInv' BY <2>1, <2>2 DEF RaInv, PcInv, StackSteps, Steps
  <2>4. TimersInv' BY <2>1, <2>2 DEF RaInv, PcInv, TimersInv, overwritten, allowed, mutex_free, Timers
  <2>5. StarterInv' BY <2>1, <2>2 DEF RaInv, StarterInv, starting
  <2> QED BY <2>3, <2>4, <2>5, RaByParts
<1> QED BY <1>1, <1>2, <1>3, <1>4 DEF start_by_rrc, start_by_mac

(* The five steps of a completion, by either thread.                       *)
LEMMA CompletionKeeps == ASSUME RaInv, NEW t \in Threads, Completion(t) PROVE RaInv'
<1> USE ExpectedStates
<1>p. /\ pc \in [Threads -> Steps] /\ t \in {"stack", "phy"} /\ "stack" # "phy"
      /\ "stack" \in Threads /\ "phy" \in Threads
  BY DEF RaInv, PcInv, Threads
<1>g. ASSUME NEW step \in {"out", "promote", "reset", "clear", "stop"}, goto(t, step), UNCHANGED callback,
             pc[t] \in {"complete", "promote", "reset", "clear", "stop"}
      PROVE  /\ PcInv' /\ pc'[t] = step /\ \A u \in Threads \ {t} : pc'[u] = pc[u]
             /\ t = "stack" => callback = "none"
  <2>1. pc' \in [Threads -> Steps] /\ pc'[t] = step /\ \A u \in Threads \ {t} : pc'[u] = pc[u]
    BY <1>p, <1>g, Goes DEF Steps
  <2> QED BY <1>p, <1>g, <2>1 DEF RaInv, PcInv, StackSteps, PhySteps, Steps
<1>1. CASE SetCompletion(t)
  <2>1. /\ pc[t] = "complete" /\ state' = "COMPLETION"
        /\ UNCHANGED <<started_by, timers, callback, overtaken>> /\ goto(t, "promote")
    BY <1>1 DEF SetCompletion, ghosts
  <2>2. /\ PcInv' /\ pc'[t] = "promote" /\ \A u \in Threads \ {t} : pc'[u] = pc[u]
        /\ t = "stack" => callback = "none"
    BY <1>g, <2>1
  <2>4. TimersInv' BY <1>p, <2>1, <2>2 DEF RaInv, PcInv, TimersInv, overwritten, allowed, mutex_free, Timers
  <2>5. StarterInv' BY <1>p, <2>1, <2>2 DEF RaInv, StarterInv, ending, starting
  <2> QED BY <2>2, <2>4, <2>5, RaByParts
<1>2. CASE ra_completion(t)
  <2>1. /\ pc[t] = "promote" /\ UNCHANGED <<state, started_by, timers, callback, overtaken>>
        /\ \/ state = "COMPLETION" /\ goto(t, "reset")
           \/ state # "COMPLETION" /\ goto(t, "out")
    BY <1>2 DEF ra_completion, ghosts
  <2>2. /\ PcInv' /\ \A u \in Threads \ {t} : pc'[u] = pc[u]
        /\ \/ state = "COMPLETION" /\ pc'[t] = "reset"
           \/ state # "COMPLETION" /\ pc'[t] = "out"
        /\ t = "stack" => callback = "none"
    BY <1>g, <2>1
  <2>4. TimersInv' BY <1>p, <2>1, <2>2 DEF RaInv, PcInv, TimersInv, overwritten, allowed, mutex_free, Timers
  <2>5. StarterInv' BY <1>p, <2>1, <2>2 DEF RaInv, StarterInv, ending, starting
  <2> QED BY <2>2, <2>4, <2>5, RaByParts
<1>3. CASE ResetState(t)
  <2>1. /\ pc[t] = "reset" /\ state' = "IDLE"
        /\ UNCHANGED <<started_by, timers, callback, overtaken>> /\ goto(t, "clear")
    BY <1>3 DEF ResetState, ghosts
  <2>2. /\ PcInv' /\ pc'[t] = "clear" /\ \A u \in Threads \ {t} : pc'[u] = pc[u]
        /\ t = "stack" => callback = "none"
    BY <1>g, <2>1
  <2>4. TimersInv' BY <1>p, <2>1, <2>2 DEF RaInv, PcInv, TimersInv, overwritten, allowed, mutex_free, Timers
  <2>5. StarterInv' BY <1>p, <2>1, <2>2 DEF RaInv, StarterInv, ending, starting
  <2> QED BY <2>2, <2>4, <2>5, RaByParts
<1>4. CASE ResetStarter(t)
  <2>1. /\ pc[t] = "clear" /\ started_by' = "NULL" /\ goto(t, "stop")
        /\ UNCHANGED <<state, timers, callback>>
        /\ overtaken' = (t = "phy" /\ ~(callback = "none" /\ timers = {} /\ state = "IDLE" /\ ~starting))
    BY <1>4 DEF ResetStarter
  <2>2. /\ PcInv' /\ pc'[t] = "stop" /\ \A u \in Threads \ {t} : pc'[u] = pc[u]
        /\ t = "stack" => callback = "none"
    BY <1>g, <2>1
  <2>4. TimersInv' BY <1>p, <2>1, <2>2 DEF RaInv, PcInv, TimersInv, overwritten, allowed, mutex_free, Timers
  <2>5. StarterInv' BY <1>p, <2>1, <2>2 DEF RaInv, StarterInv, ending, starting
  <2> QED BY <2>2, <2>4, <2>5, RaByParts
<1>5. CASE ResetTimers(t)
  <2>1. /\ pc[t] = "stop" /\ timers' = {} /\ goto(t, "out")
        /\ UNCHANGED <<state, started_by, callback, overtaken>>
    BY <1>5 DEF ResetTimers, RaInv, TimersInv, stopped_by_reset
  <2>2. /\ PcInv' /\ pc'[t] = "out" /\ \A u \in Threads \ {t} : pc'[u] = pc[u]
        /\ t = "stack" => callback = "none"
    BY <1>g, <2>1
  <2>4. TimersInv' BY <1>p, <2>1, <2>2 DEF RaInv, PcInv, TimersInv, overwritten, allowed, mutex_free, Timers
  <2>5. StarterInv' BY <1>p, <2>1, <2>2 DEF RaInv, StarterInv, ending, starting
  <2> QED BY <2>2, <2>4, <2>5, RaByParts
<1> QED BY <1>1, <1>2, <1>3, <1>4, <1>5 DEF Completion

(* ra_contention_resolution() stops the timer of the contention and goes   *)
(* on, or returns.                                                         *)
LEMMA ContentionKeeps ==
  ASSUME RaInv, NEW t \in Threads, NEW match, ra_contention_resolution(t, match),
         t = "stack" => stack_free, t = "phy" => pc["phy"] = "called",
         UNCHANGED <<state, started_by, callback, overtaken>>
  PROVE  RaInv'
<1> USE ExpectedStates
<1>p. /\ pc \in [Threads -> Steps] /\ t \in {"stack", "phy"} /\ "stack" # "phy"
      /\ "stack" \in Threads /\ "phy" \in Threads
  BY DEF RaInv, PcInv, Threads
<1>1. CASE state = "CONRES" /\ (started_by # "NULL" \/ match)
  <2>1. timers' = timers \ {"contention"} /\ goto(t, "complete")
    BY <1>1 DEF ra_contention_resolution
  <2>2. pc' \in [Threads -> Steps] /\ pc'[t] = "complete" /\ \A u \in Threads \ {t} : pc'[u] = pc[u]
    BY <1>p, <2>1, Goes DEF Steps
  <2>3. PcInv' BY <1>p, <2>2 DEF RaInv, PcInv, stack_free, StackSteps, PhySteps, Steps
  <2>4. TimersInv' BY <1>p, <1>1, <2>1, <2>2 DEF RaInv, PcInv, TimersInv, overwritten, allowed, mutex_free, Timers, stack_free
  <2>5. StarterInv' BY <1>p, <1>1, <2>1, <2>2 DEF RaInv, StarterInv, ending, starting, stack_free
  <2> QED BY <2>3, <2>4, <2>5, RaByParts
<1>2. CASE ~(state = "CONRES" /\ (started_by # "NULL" \/ match))
  <2>1. timers' = timers /\ goto(t, "out")
    BY <1>2 DEF ra_contention_resolution
  <2>2. pc' \in [Threads -> Steps] /\ pc'[t] = "out" /\ \A u \in Threads \ {t} : pc'[u] = pc[u]
    BY <1>p, <2>1, Goes DEF Steps
  <2>3. PcInv' BY <1>p, <2>2 DEF RaInv, PcInv, stack_free, StackSteps, PhySteps, Steps
  <2>4. TimersInv' BY <1>p, <2>1, <2>2 DEF RaInv, PcInv, TimersInv, overwritten, allowed, mutex_free, Timers, stack_free
  <2>5. StarterInv' BY <1>p, <2>1, <2>2 DEF RaInv, StarterInv, ending, starting, stack_free
  <2> QED BY <2>3, <2>4, <2>5, RaByParts
<1> QED BY <1>1, <1>2

(* Outside an overwritten state, and with the stack thread outside the     *)
(* procedure, only the timer of the state runs.                            *)
LEMMA OneTimer ==
  ASSUME RaInv, pc["stack"] = "out", ~overwritten, NEW t \in Timers, expected[t] = state
  PROVE  timers \subseteq {t}
BY ExpectedStates DEF RaInv, TimersInv, allowed, Timers

(* A task of the queue.                                                    *)
LEMMA TaskKeeps == ASSUME RaInv, RunTask PROVE RaInv'
<1> USE ExpectedStates
<1>p. pc \in [Threads -> Steps] /\ "stack" \in Threads /\ "phy" \in Threads /\ "stack" # "phy"
  BY DEF RaInv, PcInv, Threads
<1>1. stack_free /\ UNCHANGED <<started_by, callback, overtaken>> BY DEF RunTask
<1>2. ASSUME NEW own, run_prach_sent(own), UNCHANGED state PROVE RaInv'
  <2>1. CASE state # "PRACH"
    BY <1>1, <1>2, <2>1, RaSame DEF run_prach_sent
  <2>2. CASE state = "PRACH"
    <3>1. timers' = (timers \ {"prach_send"}) \cup {"rar_timeout"} /\ goto("stack", "set_rar")
      BY <1>2, <2>2 DEF run_prach_sent
    <3>2. pc' \in [Threads -> Steps] /\ pc'["stack"] = "set_rar" /\ pc'["phy"] = pc["phy"]
      BY <1>p, <3>1, Goes DEF Steps
    <3>3. PcInv' BY <1>1, <3>2 DEF RaInv, PcInv, stack_free, StackSteps, Steps
    <3>4. "contention" \notin timers
      <4>1. CASE overwritten BY <2>2, <4>1 DEF RaInv, TimersInv, overwritten, mutex_free
      <4>2. CASE ~overwritten BY <1>1, <2>2, <4>2, OneTimer DEF stack_free, Timers
      <4> QED BY <4>1, <4>2
    <3>5. timers' = {"rar_timeout"} BY <3>1, <3>4 DEF RaInv, TimersInv, Timers
    <3>6. TimersInv' BY <1>1, <1>2, <3>2, <3>5 DEF RaInv, TimersInv, overwritten, allowed, mutex_free, Timers, stack_free
    <3>7. StarterInv' BY <1>1, <1>2, <2>2, <3>2, <3>5 DEF RaInv, StarterInv, ending
    <3> QED BY <3>3, <3>6, <3>7, RaByParts
  <2> QED BY <2>1, <2>2
<1>3. ASSUME NEW pdu, ra_response_reception(pdu), UNCHANGED pc PROVE RaInv'
  <2>1. CASE state # "RAR"
    BY <1>1, <1>3, <2>1, RaSame DEF ra_response_reception
  <2>2. CASE state = "RAR"
    <3>1. mutex_free /\ ~overwritten /\ pc["stack"] = "out"
      BY <1>1, <1>3 DEF ra_response_reception, mutex_free, overwritten, stack_free
    <3>2. \/ timers' = {} /\ state' = "RAR"
          \/ timers' = {"contention"} /\ state' = "CONRES"
      <4>1. timers \ {"rar_timeout"} = {} BY <2>2, <3>1, OneTimer DEF Timers
      <4> QED BY <1>3, <2>2, <4>1
                 DEF ra_response_reception, stopped_by_rar, started_by_rar
    <3>3. PcInv' BY <1>1, <1>3 DEF RaInv, PcInv
    <3>4. TimersInv' BY <1>1, <1>3, <3>1, <3>2 DEF RaInv, TimersInv, overwritten, allowed, mutex_free, Timers, stack_free
    <3>5. StarterInv' BY <1>1, <1>3, <2>2, <3>1, <3>2 DEF RaInv, StarterInv, ending
    <3> QED BY <3>3, <3>4, <3>5, RaByParts
  <2> QED BY <2>1, <2>2
<1>4. CASE ra_contention_resolution("stack", FALSE) /\ UNCHANGED state
  BY <1>1, <1>4, <1>p, ContentionKeeps
<1> QED BY <1>2, <1>3, <1>4 DEF RunTask

(* A timer that expires leaves none running in a state that is its own;    *)
(* its callback starts the next preamble, gives up, or leaves the state.   *)
LEMMA TimersKeep ==
  ASSUME RaInv, (\E t \in Timers : TimerExpires(t)) \/ ra_error PROVE RaInv'
<1> USE ExpectedStates
<1>1. ASSUME NEW t \in Timers, TimerExpires(t) PROVE RaInv'
  <2>1. /\ stack_free /\ t \in timers /\ timers' = timers \ {t} /\ callback' = t
        /\ UNCHANGED <<state, started_by, pc, overtaken>>
    BY <1>1 DEF TimerExpires, ghosts
  <2>2. PcInv' BY <2>1 DEF RaInv, PcInv, stack_free
  <2>3. ~overwritten => timers' = {}
    <3> SUFFICES ASSUME ~overwritten PROVE timers' = {} OBVIOUS
    <3>1. expected[t] = state BY <2>1 DEF RaInv, TimersInv, allowed, stack_free
    <3> QED BY <2>1, <3>1, OneTimer DEF stack_free
  <2>4. TimersInv'
    BY <2>1, <2>3 DEF RaInv, TimersInv, overwritten, allowed, mutex_free, Timers, stack_free
  <2>5. StarterInv' BY <2>1 DEF RaInv, StarterInv, ending, starting, stack_free
  <2> QED BY <2>2, <2>4, <2>5, RaByParts
<1>2. CASE ra_error
  <2>1. /\ mutex_free /\ callback # "none" /\ callback' = "none" /\ UNCHANGED <<pc, overtaken>>
    BY <1>2 DEF ra_error
  <2>2. pc["stack"] = "out" /\ ~overwritten BY <2>1 DEF RaInv, PcInv, mutex_free, overwritten
  <2>3. timers = {} BY <2>1, <2>2 DEF RaInv, TimersInv
  <2>4. PcInv' BY <2>1, <2>2 DEF RaInv, PcInv
  <2>5. \/ timers' = {} /\ UNCHANGED <<state, started_by>>
        \/ timers' = {} /\ state' = "IDLE" /\ started_by' = "NULL"
        \/ timers' = {"prach_send"} /\ state' = "PRACH" /\ UNCHANGED started_by
    BY <1>2, <2>3 DEF ra_error
  <2>6. TimersInv'
    BY <2>1, <2>2, <2>5 DEF RaInv, TimersInv, overwritten, allowed, mutex_free, Timers
  <2>7. StarterInv' BY <2>1, <2>2, <2>5 DEF RaInv, StarterInv, ending, starting
  <2> QED BY <2>4, <2>6, <2>7, RaByParts
<1> QED BY <1>1, <1>2

(* The PHY checks and queues, and completes through the steps above.       *)
LEMMA PhyKeeps == ASSUME RaInv, PhyStep PROVE RaInv'
<1>1. CASE PhySendsPrach \/ PhyRarCheck \/ PhyCrntiCheck \/ PhyPush("rar") \/ PhyPush("crnti")
  BY <1>1, RaSame DEF PhySendsPrach, PhyRarCheck, PhyCrntiCheck, PhyPush, ghosts
<1>2. CASE PhyMsg4
  <2>1. pc["phy"] = "out" /\ UNCHANGED <<state, started_by, timers, callback, overtaken>>
    BY <1>2 DEF PhyMsg4, ghosts
  <2>2. pc' \in [Threads -> Steps] /\ pc'["phy"] = "called" /\ pc'["stack"] = pc["stack"]
    BY <1>2, Goes DEF PhyMsg4, Steps, Threads, RaInv, PcInv
  <2>3. PcInv' BY <2>1, <2>2 DEF RaInv, PcInv, PhySteps, Steps
  <2>4. TimersInv' BY <2>1, <2>2 DEF RaInv, TimersInv, overwritten, allowed, mutex_free, Timers
  <2>5. StarterInv' BY <2>1, <2>2 DEF RaInv, StarterInv, ending, starting
  <2> QED BY <2>3, <2>4, <2>5, RaByParts
<1>3. ASSUME NEW match, received_contention_resolution(match) PROVE RaInv'
  BY <1>3, ContentionKeeps DEF received_contention_resolution, ghosts, Threads
<1> QED BY <1>1, <1>2, <1>3 DEF PhyStep

(* The invariant is inductive.                                             *)
LEMMA RaInductive == RaInv /\ [Next]_vars => RaInv'
<1> SUFFICES ASSUME RaInv, [Next]_vars PROVE RaInv' OBVIOUS
<1>1. CASE Next
  <2>1. CASE set_crnti BY <2>1, RaSame DEF set_crnti, ghosts
  <2>2. "stack" \in Threads /\ "phy" \in Threads BY DEF Threads
  <2> QED BY <1>1, <2>1, <2>2, OrdersKeep, CompletionKeeps, TaskKeeps, TimersKeep, PhyKeeps
             DEF Next, StackGoesOn
<1>2. CASE UNCHANGED vars
  BY <1>2, RaSame DEF vars, ghosts
<1> QED BY <1>1, <1>2

(* What the invariant says once no thread is inside the procedure.         *)
LEMMA RaSettled == ASSUME RaInv PROVE TimersMatchState /\ StartedBySomeone
<1>1. settled => pc["stack"] = "out" /\ ~overwritten
  BY DEF settled, mutex_free, overwritten
<1>2. TimersMatchState BY <1>1 DEF RaInv, TimersInv, allowed, TimersMatchState
<1>3. StartedBySomeone
  BY <1>1 DEF RaInv, StarterInv, StartedBySomeone, ending, settled, mutex_free
<1> QED BY <1>2, <1>3

(* State, timers and starter of proc_ra_nr fit together whenever no thread *)
(* is inside it, however the stack thread and a completion by a PHY thread *)
(* have interleaved.                                                       *)
THEOREM RaCorrect == Spec => []RaConsistent
<1>1. RaInv => RaConsistent BY RaSettled DEF RaConsistent
<1> QED BY <1>1, RaInitial, RaInductive, PTL DEF Spec

(* Only the timer of the state of proc_ra_nr runs once no thread is inside *)
(* it, none in IDLE, whatever reset() and the start of the next procedure  *)
(* have overwritten of each other.                                         *)
THEOREM TimersCorrect == Spec => []TimersMatchState
<1>1. RaInv => TimersMatchState BY RaSettled
<1> QED BY <1>1, RaInitial, RaInductive, PTL DEF Spec

(* A procedure runs only when RRC or MAC has started it, but for the one   *)
(* race: reset() on a PHY thread clears the starter of the next procedure, *)
(* or of one whose callback is waiting.                                    *)
THEOREM StarterCorrect == Spec => []StartedBySomeone
<1>1. RaInv => StartedBySomeone BY RaSettled
<1> QED BY <1>1, RaInitial, RaInductive, PTL DEF Spec

-----------------------------------------------------------------------------
(* Ranges: a counter that goes on after the last preamble                  *)

(* By how many the counter may exceed preambleTransMax when a timer of the *)
(* procedure still runs.                                                   *)
excess == [prach_send |-> 0, rar_timeout |-> 1, contention |-> 2]

(* A timer of a state that has been passed by: only the first preamble of  *)
(* a procedure meets one, left by the procedure before it.                 *)
astray(t) == ~(state \in {expected[t], "IDLE", "COMPLETION"} \/ counter = 1)

(* ra_error() has no effect on the state once the last preamble has failed *)
(* and RRC has started the procedure, so the tasks of the PHY can still    *)
(* take it on: each of the three timers can fail once more.                *)
CounterInv ==
  /\ counter \in Nat /\ counter <= preambleTransMax + 3
  /\ state = "PRACH" => counter <= preambleTransMax + 1
  /\ state = "RAR" => counter <= preambleTransMax + 2
  /\ pc["stack"] \in {"run_timer", "set_prach"} => counter = 1
  /\ pc["stack"] = "set_rar" => counter <= preambleTransMax + 1
  /\ \A t \in timers : /\ counter <= preambleTransMax + excess[t]
                       /\ astray(t) => pc["stack"] \in {"set_rar", "clear", "stop"}
  /\ callback # "none" => counter <= preambleTransMax + excess[callback] /\ ~astray(callback)

(* The fields that are not in RaInv or CounterInv keep their range.        *)
FieldsInv ==
  /\ started_by \in {"NULL", "RRC", "MAC"}
  /\ tasks \in Seq(Task) /\ held \in [{"rar", "crnti"} -> {"no", "own", "moved"}]
  /\ prach \in BOOLEAN /\ rar_rnti \in BOOLEAN /\ temp_crnti \in BOOLEAN /\ crnti \in BOOLEAN
  /\ misled \in BOOLEAN /\ overtaken \in BOOLEAN /\ disarmed \in BOOLEAN
  /\ problem \in BOOLEAN /\ malformed \in BOOLEAN

(* Tasks wait in the order they were queued, so those of the present state *)
(* are the last ones; a response is queued in RAR and a grant in CONRES;   *)
(* and when the window was opened by the notification of its own preamble, *)
(* whatever had been queued in time before it is gone.                     *)
TasksInv ==
  /\ \A i, j \in DOMAIN tasks : i < j /\ tasks[i].age = "own" => tasks[j].age # "old"
  /\ \A i \in DOMAIN tasks : tasks[i].age = "own" =>
       /\ tasks[i].kind = "rar" => state = "RAR"
       /\ tasks[i].kind = "crnti" => state = "CONRES"
  /\ held["rar"] = "own" => state = "RAR"
  /\ held["crnti"] = "own" => state = "CONRES"
  /\ ~misled /\ state = "RAR" =>
       \A i \in DOMAIN tasks : tasks[i].kind \in {"rar", "crnti"} => tasks[i].age # "old"
  /\ ~misled /\ state = "CONRES" =>
       \A i \in DOMAIN tasks : tasks[i].kind = "crnti" => tasks[i].age # "old"
  /\ pc["stack"] = "set_rar" => state \notin {"RAR", "CONRES"}
  /\ pc["stack"] = "set_rar" /\ ~misled =>
       \A i \in DOMAIN tasks : tasks[i].kind \in {"rar", "crnti"} => tasks[i].age = "slow"

(* The excess of each timer.                                               *)
LEMMA ExcessValues ==
  excess["prach_send"] = 0 /\ excess["rar_timeout"] = 1 /\ excess["contention"] = 2
BY DEF excess

(* A step that leaves the counter, starts no timer and moves the state, if *)
(* at all, to where every timer is at home.                                *)
LEMMA CounterLeft ==
  ASSUME CounterInv, UNCHANGED <<counter, callback>>, state' \in {state, "IDLE", "COMPLETION"},
         timers' \subseteq timers,
         pc'["stack"] \in {"run_timer", "set_prach", "set_rar"} => pc'["stack"] = pc["stack"],
         timers' = {} \/ pc'["stack"] = pc["stack"] \/ pc'["stack"] \in {"clear", "stop"}
           \/ pc["stack"] \notin {"set_rar", "clear", "stop"}
  PROVE  CounterInv'
<1>1. ASSUME NEW t, t \in timers \/ t = callback, ~astray(t) PROVE ~astray(t)'
  BY <1>1 DEF astray
<1>2. ASSUME NEW t \in timers' PROVE astray(t)' => pc'["stack"] \in {"set_rar", "clear", "stop"}
  BY <1>1, <1>2 DEF CounterInv
<1> QED BY <1>1, <1>2 DEF CounterInv

(* Every step keeps the range of the counter.                              *)
LEMMA CounterKept == ASSUME RaInv, CounterInv, [Next]_vars PROVE CounterInv'
<1> USE ExpectedStates, ExcessValues, RaAssumption
<1>p. /\ pc \in [Threads -> Steps] /\ "stack" \in Threads /\ "phy" \in Threads /\ "stack" # "phy"
      /\ preambleTransMax \in Nat \ {0} /\ counter \in Nat
  BY DEF RaInv, PcInv, Threads, CounterInv
<1>1. ASSUME NEW by, ra_procedure_initialization(by) PROVE CounterInv'
  <2>1. /\ counter' = 1 /\ callback' = "none" /\ UNCHANGED <<state, timers>> /\ state = "IDLE"
        /\ pc'["stack"] = "run_timer"
    BY <1>1, <1>p, Goes DEF ra_procedure_initialization, stack_free, Steps
  <2>2. \A t \in timers : excess[t] \in Nat BY DEF RaInv, TimersInv, Timers
  <2> QED BY <1>p, <2>1, <2>2 DEF CounterInv, astray
<1>2. CASE mac_reset
  <2>1. /\ UNCHANGED <<counter, callback, timers>> /\ state' = "IDLE" /\ pc'["stack"] = "clear"
    BY <1>2, <1>p, Goes DEF mac_reset, Steps
  <2> QED BY <2>1, CounterLeft
<1>3. CASE RunPrachTimer
  <2>1. /\ UNCHANGED <<counter, callback, state>> /\ timers' = timers \cup {"prach_send"}
        /\ pc["stack"] = "run_timer" /\ pc'["stack"] = "set_prach"
    BY <1>3, <1>p, Goes DEF RunPrachTimer, Steps
  <2>2. counter = 1 /\ callback = "none" BY <2>1 DEF CounterInv, RaInv, PcInv
  <2> QED BY <1>p, <2>1, <2>2 DEF CounterInv, astray
<1>4. CASE SetPrach
  <2>1. /\ UNCHANGED <<counter, callback, timers>> /\ state' = "PRACH"
        /\ pc["stack"] = "set_prach" /\ pc'["stack"] = "out"
    BY <1>4, <1>p, Goes DEF SetPrach, Steps
  <2>2. counter = 1 /\ callback = "none" BY <2>1 DEF CounterInv, RaInv, PcInv
  <2> QED BY <1>p, <2>1, <2>2 DEF CounterInv, astray
<1>5. CASE SetRar
  <2>1. /\ UNCHANGED <<counter, callback, timers>> /\ state' = "RAR"
        /\ pc["stack"] = "set_rar" /\ pc'["stack"] = "out"
    BY <1>5, <1>p, Goes DEF SetRar, Steps
  <2>2. /\ counter <= preambleTransMax + 1 /\ callback = "none" /\ timers \subseteq {"rar_timeout"}
    BY <2>1 DEF CounterInv, RaInv, PcInv, TimersInv
  <2> QED BY <1>p, <2>1, <2>2 DEF CounterInv, astray
<1>6. ASSUME NEW t \in Threads, Completion(t) PROVE CounterInv'
  <2>1. CASE SetCompletion(t)
    <3>1. /\ UNCHANGED <<counter, callback, timers>> /\ state' = "COMPLETION" /\ pc[t] = "complete"
          /\ pc'[t] = "promote" /\ \A u \in Threads \ {t} : pc'[u] = pc[u]
      BY <2>1, <1>p, Goes DEF SetCompletion, Steps
    <3> QED BY <1>p, <3>1, CounterLeft DEF Threads
  <2>2. CASE ra_completion(t)
    <3>1. /\ UNCHANGED <<counter, callback, timers, state>> /\ pc[t] = "promote"
          /\ pc'[t] \in {"reset", "out"} /\ \A u \in Threads \ {t} : pc'[u] = pc[u]
      <4>1. pc[t] = "promote" /\ (goto(t, "reset") \/ goto(t, "out"))
        BY <2>2 DEF ra_completion
      <4> QED BY <1>p, <2>2, <4>1, Goes DEF ra_completion, Steps
    <3> QED BY <1>p, <3>1, CounterLeft DEF Threads
  <2>3. CASE ResetState(t)
    <3>1. /\ UNCHANGED <<counter, callback, timers>> /\ state' = "IDLE" /\ pc[t] = "reset"
          /\ pc'[t] = "clear" /\ \A u \in Threads \ {t} : pc'[u] = pc[u]
      BY <2>3, <1>p, Goes DEF ResetState, Steps
    <3> QED BY <1>p, <3>1, CounterLeft DEF Threads
  <2>4. CASE ResetStarter(t)
    <3>1. /\ UNCHANGED <<counter, callback, timers, state>> /\ pc[t] = "clear"
          /\ pc'[t] = "stop" /\ \A u \in Threads \ {t} : pc'[u] = pc[u]
      BY <2>4, <1>p, Goes DEF ResetStarter, Steps
    <3> QED BY <1>p, <3>1, CounterLeft DEF Threads
  <2>5. CASE ResetTimers(t)
    <3>1. /\ UNCHANGED <<counter, callback, state>> /\ timers' = {} /\ pc[t] = "stop"
          /\ pc'[t] = "out" /\ \A u \in Threads \ {t} : pc'[u] = pc[u]
      <4>1. timers' = {} BY <2>5 DEF ResetTimers, stopped_by_reset, RaInv, TimersInv
      <4> QED BY <2>5, <1>p, <4>1, Goes DEF ResetTimers, Steps
    <3> QED BY <1>p, <3>1, CounterLeft DEF Threads
  <2> QED BY <1>6, <2>1, <2>2, <2>3, <2>4, <2>5 DEF Completion
<1>7. ASSUME NEW t \in Threads, NEW match, ra_contention_resolution(t, match),
             pc[t] \in {"out", "called"}, UNCHANGED <<state, callback, counter>>
      PROVE  CounterInv'
  <2>1. timers' \subseteq timers /\ (goto(t, "complete") \/ goto(t, "out"))
    BY <1>7 DEF ra_contention_resolution
  <2>2. pc'[t] \in {"complete", "out"} /\ \A u \in Threads \ {t} : pc'[u] = pc[u]
    BY <2>1, <1>p, Goes DEF Steps
  <2> QED BY <1>p, <1>7, <2>1, <2>2, CounterLeft DEF Threads
<1>8. CASE RunTask
  <2>1. /\ pc["stack"] = "out" /\ callback = "none" /\ UNCHANGED <<callback, counter>>
    BY <1>8 DEF RunTask, stack_free
  <2>2. ASSUME NEW own, run_prach_sent(own), UNCHANGED state PROVE CounterInv'
    <3>1. CASE state # "PRACH"
      BY <2>1, <2>2, <3>1, CounterLeft DEF run_prach_sent
    <3>2. CASE state = "PRACH"
      <4>1. timers' = (timers \ {"prach_send"}) \cup {"rar_timeout"} /\ goto("stack", "set_rar")
        BY <2>2, <3>2 DEF run_prach_sent
      <4>2. pc'["stack"] = "set_rar" BY <1>p, <4>1, Goes DEF Steps
      <4>3. counter <= preambleTransMax + 1 BY <3>2 DEF CounterInv
      <4> QED BY <1>p, <2>1, <2>2, <3>2, <4>1, <4>2, <4>3 DEF CounterInv
    <3> QED BY <3>1, <3>2
  <2>3. ASSUME NEW pdu, ra_response_reception(pdu), UNCHANGED pc PROVE CounterInv'
    <3>1. CASE state # "RAR"
      BY <2>1, <2>3, <3>1, CounterLeft DEF ra_response_reception
    <3>2. CASE state = "RAR"
      <4>1. ~overwritten
        BY <2>1, <2>3 DEF ra_response_reception, mutex_free, overwritten
      <4>2. \/ timers' = {} /\ state' = "RAR"
            \/ timers' = {"contention"} /\ state' = "CONRES"
        <5>1. timers \ {"rar_timeout"} = {} BY <2>1, <3>2, <4>1, OneTimer DEF Timers
        <5> QED BY <2>3, <3>2, <5>1
                   DEF ra_response_reception, stopped_by_rar, started_by_rar
      <4>3. counter <= preambleTransMax + 2 BY <3>2 DEF CounterInv
      <4> QED BY <1>p, <2>1, <2>3, <4>2, <4>3 DEF CounterInv, astray
    <3> QED BY <3>1, <3>2
  <2>4. CASE ra_contention_resolution("stack", FALSE) /\ UNCHANGED state
    BY <1>p, <1>7, <2>1, <2>4
  <2> QED BY <1>8, <2>2, <2>3, <2>4 DEF RunTask
<1>9. ASSUME NEW t \in Timers, TimerExpires(t) PROVE CounterInv'
  <2>1. /\ pc["stack"] = "out" /\ t \in timers /\ timers' = timers \ {t} /\ callback' = t
        /\ UNCHANGED <<state, counter, pc>>
    BY <1>9 DEF TimerExpires, stack_free
  <2> QED BY <2>1 DEF CounterInv, astray
<1>10. CASE ra_error
  <2>1. /\ mutex_free /\ callback \in Timers /\ callback' = "none" /\ counter' = counter + 1
        /\ UNCHANGED pc /\ pc["stack"] = "out" /\ ~overwritten
    BY <1>10 DEF ra_error, RaInv, PcInv, TimersInv, mutex_free, overwritten
  <2>2. timers = {} BY <1>10, <2>1 DEF RaInv, TimersInv, ra_error
  <2>3. /\ counter <= preambleTransMax + excess[callback]
        /\ state \in {expected[callback], "IDLE", "COMPLETION"} \/ counter = 1
    BY <1>10 DEF ra_error, CounterInv, astray
  <2>4. counter' <= preambleTransMax + 3 /\ counter' \in Nat
    BY <1>p, <2>1, <2>3 DEF Timers
  <2>5. state = "PRACH" => counter' <= preambleTransMax + 1
    BY <1>p, <2>1, <2>3 DEF Timers
  <2>6. state = "RAR" => counter' <= preambleTransMax + 2
    BY <1>p, <2>1, <2>3 DEF Timers
  <2>7. CASE last_transmission(counter + 1)
    <3>1. timers' = {} /\ state' \in {state, "IDLE"} BY <1>10, <2>2, <2>7 DEF ra_error
    <3> QED BY <2>1, <2>4, <2>5, <2>6, <3>1 DEF CounterInv
  <2>8. CASE ~last_transmission(counter + 1)
    <3>1. timers' = {"prach_send"} /\ state' = "PRACH" BY <1>10, <2>2, <2>8 DEF ra_error
    <3>2. counter' <= preambleTransMax BY <1>p, <2>1, <2>8 DEF last_transmission
    <3> QED BY <1>p, <2>1, <2>4, <3>1, <3>2 DEF CounterInv, astray
  <2> QED BY <2>7, <2>8
<1>11. CASE PhySendsPrach \/ PhyRarCheck \/ PhyCrntiCheck \/ PhyPush("rar") \/ PhyPush("crnti")
            \/ set_crnti \/ UNCHANGED vars
  BY <1>11, CounterLeft
     DEF PhySendsPrach, PhyRarCheck, PhyCrntiCheck, PhyPush, set_crnti, vars
<1>12. CASE PhyMsg4
  <2>1. /\ UNCHANGED <<counter, callback, timers, state>> /\ pc'["stack"] = pc["stack"]
    BY <1>12, <1>p, Goes DEF PhyMsg4, Steps
  <2> QED BY <2>1, CounterLeft
<1>13. ASSUME NEW match, received_contention_resolution(match) PROVE CounterInv'
  BY <1>p, <1>7, <1>13 DEF received_contention_resolution
<1> QED BY <1>1, <1>2, <1>3, <1>4, <1>5, <1>6, <1>8, <1>9, <1>10, <1>11, <1>12, <1>13
           DEF Next, StackGoesOn, PhyStep, start_by_rrc, start_by_mac, Threads

-----------------------------------------------------------------------------
(* The queue of tasks                                                      *)

(* Moved() changes nothing of a queue but the age of its own tasks.        *)
LEMMA MovedTasks ==
  ASSUME NEW ts \in Seq(Task), Moved(ts), FieldsInv
  PROVE  /\ tasks' \in Seq(Task) /\ DOMAIN tasks' = DOMAIN ts
         /\ \A i \in DOMAIN ts :
              /\ tasks'[i].kind = ts[i].kind /\ tasks'[i].age # "own"
              /\ ts[i].age = "slow" => tasks'[i].age = "slow"
         /\ held' \in [{"rar", "crnti"} -> {"no", "own", "moved"}]
         /\ held'["rar"] # "own" /\ held'["crnti"] # "own"
<1> DEFINE aged(i) == IF ts[i].age = "own" THEN [ts[i] EXCEPT !.age = "old"] ELSE ts[i]
<1>1. tasks' = [i \in DOMAIN ts |-> aged(i)] BY DEF Moved
<1>2. \A i \in DOMAIN ts : ts[i] \in Task OBVIOUS
<1>3. \A i \in DOMAIN ts :
        /\ aged(i) \in Task /\ aged(i).kind = ts[i].kind /\ aged(i).age # "own"
        /\ ts[i].age = "slow" => aged(i).age = "slow"
  BY <1>2 DEF Task
<1> HIDE DEF aged
<1>4. tasks' \in Seq(Task)
  <2>1. Len(ts) \in Nat /\ DOMAIN ts = 1..Len(ts) OBVIOUS
  <2>2. tasks' \in [1..Len(ts) -> Task] BY <1>1, <1>3, <2>1
  <2> QED BY <2>1, <2>2
<1>5. /\ held' \in [{"rar", "crnti"} -> {"no", "own", "moved"}]
      /\ held'["rar"] # "own" /\ held'["crnti"] # "own"
  BY DEF Moved, FieldsInv
<1> QED BY <1>1, <1>3, <1>4, <1>5

(* The first task of a queue and the tasks behind it.                      *)
LEMMA TailTasks ==
  ASSUME NEW ts \in Seq(Task), ts # <<>>
  PROVE  /\ Tail(ts) \in Seq(Task) /\ Head(ts) \in Task /\ Head(ts) = ts[1]
         /\ 1 \in DOMAIN ts
         /\ \A i \in DOMAIN Tail(ts) :
              i + 1 \in DOMAIN ts /\ Tail(ts)[i] = ts[i + 1] /\ i \in Nat /\ i > 0
OBVIOUS

(* Only the PHY queues.                                                    *)
LEMMA QueueTasks ==
  ASSUME tasks \in Seq(Task), NEW kind \in {"prach_sent", "rar", "crnti"},
         NEW age \in {"own", "slow"}, queue(kind, age)
  PROVE  /\ tasks' \in Seq(Task) /\ DOMAIN tasks' = DOMAIN tasks \cup {Len(tasks) + 1}
         /\ \A i \in DOMAIN tasks : tasks'[i] = tasks[i] /\ i < Len(tasks) + 1
         /\ tasks'[Len(tasks) + 1].kind = kind /\ tasks'[Len(tasks) + 1].age = age
<1> DEFINE t == [kind |-> kind, age |-> age]
<1>1. t \in Task /\ t.kind = kind /\ t.age = age BY DEF Task
<1>2. tasks' = Append(tasks, t) BY DEF queue
<1> HIDE DEF t
<1> QED BY <1>1, <1>2

(* Every step keeps the ranges.                                            *)
LEMMA FieldsKept == ASSUME FieldsInv, [Next]_vars PROVE FieldsInv'
<1>f. ASSUME NEW ts \in Seq(Task), Moved(ts) \/ Follow(ts)
      PROVE  tasks' \in Seq(Task) /\ held' \in [{"rar", "crnti"} -> {"no", "own", "moved"}]
  BY <1>f, MovedTasks DEF Follow, FieldsInv
<1>t. tasks \in Seq(Task) BY DEF FieldsInv
<1>1. ASSUME NEW by \in {"RRC", "MAC"}, ra_procedure_initialization(by) PROVE FieldsInv'
  BY <1>1 DEF FieldsInv, ra_procedure_initialization, rntis
<1>2. CASE mac_reset
  <2>1. tasks' \in Seq(Task) /\ held' \in [{"rar", "crnti"} -> {"no", "own", "moved"}]
    BY <1>2, <1>f, <1>t DEF mac_reset
  <2> QED BY <1>2, <2>1 DEF FieldsInv, mac_reset, rntis, ghosts
<1>3. CASE RunPrachTimer \/ set_crnti
  BY <1>3 DEF FieldsInv, RunPrachTimer, set_crnti, rntis, ghosts
<1>4. CASE SetPrach \/ SetRar
  <2>1. tasks' \in Seq(Task) /\ held' \in [{"rar", "crnti"} -> {"no", "own", "moved"}]
    BY <1>4, <1>f, <1>t DEF SetPrach, SetRar
  <2> QED BY <1>4, <2>1 DEF FieldsInv, SetPrach, SetRar, rntis, ghosts
<1>5. ASSUME NEW t \in Threads, Completion(t) PROVE FieldsInv'
  <2>1. CASE SetCompletion(t) \/ ResetState(t)
    <3>1. tasks' \in Seq(Task) /\ held' \in [{"rar", "crnti"} -> {"no", "own", "moved"}]
      BY <2>1, <1>f, <1>t DEF SetCompletion, ResetState
    <3> QED BY <2>1, <3>1 DEF FieldsInv, SetCompletion, ResetState, rntis, ghosts
  <2>2. CASE ra_completion(t) BY <2>2 DEF FieldsInv, ra_completion, ghosts
  <2>3. CASE ResetStarter(t) BY <2>3 DEF FieldsInv, ResetStarter, rntis
  <2>4. CASE ResetTimers(t) BY <2>4 DEF FieldsInv, ResetTimers
  <2> QED BY <1>5, <2>1, <2>2, <2>3, <2>4 DEF Completion
<1>6. CASE RunTask
  <2>1. tasks' \in Seq(Task) /\ held' \in [{"rar", "crnti"} -> {"no", "own", "moved"}]
    BY <1>6, <1>f, <1>t, TailTasks DEF RunTask
  <2>2. UNCHANGED <<started_by, prach, crnti, overtaken, disarmed, problem>> BY <1>6 DEF RunTask
  <2>3. ASSUME NEW own \in BOOLEAN, run_prach_sent(own), UNCHANGED <<temp_crnti, malformed>>
        PROVE  FieldsInv'
    BY <2>1, <2>2, <2>3 DEF FieldsInv, run_prach_sent
  <2>4. ASSUME NEW pdu, ra_response_reception(pdu), UNCHANGED misled PROVE FieldsInv'
    BY <2>1, <2>2, <2>4 DEF FieldsInv, ra_response_reception
  <2>5. CASE UNCHANGED <<rar_rnti, temp_crnti, misled, malformed>>
    BY <2>1, <2>2, <2>5 DEF FieldsInv
  <2> QED BY <1>6, <2>3, <2>4, <2>5 DEF RunTask
<1>7. ASSUME NEW t \in Timers, TimerExpires(t) PROVE FieldsInv'
  BY <1>7 DEF FieldsInv, TimerExpires, rntis, ghosts
<1>8. CASE ra_error
  <2>1. tasks' \in Seq(Task) /\ held' \in [{"rar", "crnti"} -> {"no", "own", "moved"}]
    BY <1>8, <1>f, <1>t DEF ra_error
  <2> QED BY <1>8, <2>1 DEF FieldsInv, ra_error
<1>9. CASE PhySendsPrach
  <2>1. tasks' \in Seq(Task) BY <1>9, <1>t, QueueTasks DEF PhySendsPrach
  <2> QED BY <1>9, <2>1 DEF FieldsInv, PhySendsPrach, rntis, ghosts
<1>10. CASE PhyRarCheck \/ PhyCrntiCheck
  BY <1>10 DEF FieldsInv, PhyRarCheck, PhyCrntiCheck, rntis, ghosts
<1>11. ASSUME NEW kind \in {"rar", "crnti"}, PhyPush(kind) PROVE FieldsInv'
  <2>1. tasks' \in Seq(Task) BY <1>11, <1>t, QueueTasks DEF PhyPush
  <2> QED BY <1>11, <2>1 DEF FieldsInv, PhyPush, rntis, ghosts
<1>12. ASSUME PhyMsg4 \/ \E match \in BOOLEAN : received_contention_resolution(match) PROVE FieldsInv'
  BY <1>12 DEF FieldsInv, PhyMsg4, received_contention_resolution, rntis, ghosts
<1>13. CASE UNCHANGED vars
  BY <1>13 DEF FieldsInv, vars, rntis, ghosts
<1> QED BY <1>1, <1>2, <1>3, <1>4, <1>5, <1>6, <1>7, <1>8, <1>9, <1>10, <1>11, <1>12, <1>13
           DEF Next, StackGoesOn, PhyStep, start_by_rrc, start_by_mac, Threads

(* A step that leaves the state and the queue alone, as most do.           *)
LEMMA SameTasks ==
  ASSUME TasksInv, UNCHANGED <<state, misled, tasks, held>>,
         pc'["stack"] = "set_rar" => pc["stack"] = "set_rar"
  PROVE  TasksInv'
BY DEF TasksInv

(* A step to where no task is awaited: none is of the state it reaches.    *)
LEMMA MovedKeeps ==
  ASSUME TasksInv, FieldsInv, Moved(tasks), state' \notin {"RAR", "CONRES"},
         pc'["stack"] = "set_rar" => pc["stack"] = "set_rar" /\ misled' = misled
  PROVE  TasksInv'
<1>1. tasks \in Seq(Task) BY DEF FieldsInv
<1>2. /\ DOMAIN tasks' = DOMAIN tasks
      /\ \A i \in DOMAIN tasks :
           /\ tasks'[i].kind = tasks[i].kind /\ tasks'[i].age # "own"
           /\ tasks[i].age = "slow" => tasks'[i].age = "slow"
      /\ held'["rar"] # "own" /\ held'["crnti"] # "own"
  BY <1>1, MovedTasks
<1> QED BY <1>2 DEF TasksInv

(* The same when the state may stay as it is.                              *)
LEMMA FollowKeeps ==
  ASSUME TasksInv, FieldsInv, Follow(tasks), state' = state \/ state' \notin {"RAR", "CONRES"},
         misled' = misled, pc'["stack"] = "set_rar" => pc["stack"] = "set_rar"
  PROVE  TasksInv'
<1>1. CASE state' = state BY <1>1, SameTasks DEF Follow
<1>2. CASE state' # state BY <1>2, MovedKeeps DEF Follow
<1> QED BY <1>1, <1>2

(* A new task is the last one; it is of the present state unless the PHY   *)
(* thread was too slow.                                                    *)
LEMMA QueuedKeeps ==
  ASSUME TasksInv, tasks \in Seq(Task), UNCHANGED <<state, misled, pc>>,
         held'["rar"] = "own" => held["rar"] = "own",
         held'["crnti"] = "own" => held["crnti"] = "own",
         NEW kind \in {"prach_sent", "rar", "crnti"}, NEW age \in {"own", "slow"}, queue(kind, age),
         kind = "rar" /\ age = "own" => state = "RAR",
         kind = "crnti" /\ age = "own" => state = "CONRES"
  PROVE  TasksInv'
<1> DEFINE n == Len(tasks) + 1
<1>1. /\ DOMAIN tasks' = DOMAIN tasks \cup {n}
      /\ \A i \in DOMAIN tasks : tasks'[i] = tasks[i] /\ i < n
      /\ tasks'[n].kind = kind /\ tasks'[n].age = age
  BY QueueTasks
<1>2. n \in Nat /\ DOMAIN tasks \subseteq Nat OBVIOUS
<1> HIDE DEF n
<1>3. ASSUME NEW i \in DOMAIN tasks', NEW j \in DOMAIN tasks', i < j, tasks'[i].age = "own"
      PROVE  tasks'[j].age # "old"
  <2>1. CASE j = n BY <1>1, <2>1
  <2>2. CASE j # n BY <1>1, <1>2, <1>3, <2>2 DEF TasksInv
  <2> QED BY <2>1, <2>2
<1>4. \A i \in DOMAIN tasks' : tasks'[i].age = "own" =>
        /\ tasks'[i].kind = "rar" => state' = "RAR"
        /\ tasks'[i].kind = "crnti" => state' = "CONRES"
  BY <1>1 DEF TasksInv
<1>5. ~misled' /\ state' = "RAR" =>
        \A i \in DOMAIN tasks' : tasks'[i].kind \in {"rar", "crnti"} => tasks'[i].age # "old"
  BY <1>1 DEF TasksInv
<1>6. ~misled' /\ state' = "CONRES" =>
        \A i \in DOMAIN tasks' : tasks'[i].kind = "crnti" => tasks'[i].age # "old"
  BY <1>1 DEF TasksInv
<1>7. pc'["stack"] = "set_rar" => state' \notin {"RAR", "CONRES"} BY DEF TasksInv
<1>8. pc'["stack"] = "set_rar" /\ ~misled' =>
        \A i \in DOMAIN tasks' : tasks'[i].kind \in {"rar", "crnti"} => tasks'[i].age = "slow"
  BY <1>1, <1>7 DEF TasksInv
<1>9. (held'["rar"] = "own" => state' = "RAR") /\ (held'["crnti"] = "own" => state' = "CONRES")
  BY DEF TasksInv
<1> QED BY <1>3, <1>4, <1>5, <1>6, <1>7, <1>8, <1>9 DEF TasksInv

(* The queue without its first task, in the same state.                    *)
LEMMA TailKeeps ==
  ASSUME TasksInv, tasks \in Seq(Task), tasks # <<>>, UNCHANGED <<state, misled, held>>,
         tasks' = Tail(tasks), pc'["stack"] # "set_rar"
  PROVE  TasksInv'
<1>1. \A i \in DOMAIN tasks' : i + 1 \in DOMAIN tasks /\ tasks'[i] = tasks[i + 1] /\ i \in Nat
  BY TailTasks
<1>2. ASSUME NEW i \in DOMAIN tasks', NEW j \in DOMAIN tasks', i < j, tasks'[i].age = "own"
      PROVE  tasks'[j].age # "old"
  <2>1. i + 1 < j + 1 BY <1>1, <1>2
  <2> QED BY <1>1, <1>2, <2>1 DEF TasksInv
<1> QED BY <1>1, <1>2 DEF TasksInv

(* The notification of a preamble opens the window.  When it is that of    *)
(* the present preamble, no task behind it is an earlier one, and those of *)
(* PRACH are not responses or grants.                                      *)
LEMMA WindowOpens ==
  ASSUME TasksInv, tasks \in Seq(Task), tasks # <<>>, state = "PRACH", UNCHANGED <<state, held>>,
         misled' = (Head(tasks).age # "own"), tasks' = Tail(tasks)
  PROVE  TasksInv'
<1>1. /\ Head(tasks) = tasks[1] /\ 1 \in DOMAIN tasks
      /\ \A i \in DOMAIN tasks' :
           /\ i + 1 \in DOMAIN tasks /\ tasks'[i] = tasks[i + 1] /\ i \in Nat /\ i > 0
           /\ tasks'[i].age \in {"own", "old", "slow"}
  <2>1. /\ Head(tasks) = tasks[1] /\ 1 \in DOMAIN tasks
        /\ \A i \in DOMAIN tasks' :
             i + 1 \in DOMAIN tasks /\ tasks'[i] = tasks[i + 1] /\ i \in Nat /\ i > 0
    BY TailTasks
  <2>2. \A i \in DOMAIN tasks : tasks[i] \in Task OBVIOUS
  <2>3. \A t \in Task : t.age \in {"own", "old", "slow"} BY DEF Task
  <2> QED BY <2>1, <2>2, <2>3
<1>2. ASSUME NEW i \in DOMAIN tasks', NEW j \in DOMAIN tasks', i < j, tasks'[i].age = "own"
      PROVE  tasks'[j].age # "old"
  <2>1. i + 1 < j + 1 BY <1>1, <1>2
  <2> QED BY <1>1, <1>2, <2>1 DEF TasksInv
<1>3. ASSUME ~misled', NEW i \in DOMAIN tasks', tasks'[i].kind \in {"rar", "crnti"}
      PROVE  tasks'[i].age = "slow"
  <2>1. tasks[1].age = "own" BY <1>1, <1>3
  <2>2. 1 < i + 1 BY <1>1
  <2>3. tasks[i + 1].age # "old" BY <1>1, <2>1, <2>2 DEF TasksInv
  <2>4. tasks[i + 1].age # "own" BY <1>1, <1>3 DEF TasksInv
  <2> QED BY <1>1, <2>3, <2>4
<1> QED BY <1>1, <1>2, <1>3 DEF TasksInv

(* The state follows the window: of what the queue holds by now, only what *)
(* a slow PHY thread has pushed could be taken for a response.             *)
LEMMA WindowOpened ==
  ASSUME TasksInv, FieldsInv, Moved(tasks), state' = "RAR", misled' = misled,
         pc["stack"] = "set_rar", pc'["stack"] = "out"
  PROVE  TasksInv'
<1>1. tasks \in Seq(Task) BY DEF FieldsInv
<1>2. /\ DOMAIN tasks' = DOMAIN tasks
      /\ \A i \in DOMAIN tasks :
           /\ tasks'[i].kind = tasks[i].kind /\ tasks'[i].age # "own"
           /\ tasks[i].age = "slow" => tasks'[i].age = "slow"
      /\ held'["rar"] # "own" /\ held'["crnti"] # "own"
  BY <1>1, MovedTasks
<1> QED BY <1>2 DEF TasksInv

(* A response leads to CONRES, where no grant of an earlier CONRES is left.*)
LEMMA ResponseArrives ==
  ASSUME TasksInv, FieldsInv, tasks # <<>>, state = "RAR", state' = "CONRES",
         misled' = misled, Moved(Tail(tasks)), pc'["stack"] # "set_rar"
  PROVE  TasksInv'
<1>1. /\ tasks \in Seq(Task) /\ Tail(tasks) \in Seq(Task)
      /\ \A i \in DOMAIN Tail(tasks) : i + 1 \in DOMAIN tasks /\ Tail(tasks)[i] = tasks[i + 1]
  BY TailTasks DEF FieldsInv
<1>2. /\ DOMAIN tasks' = DOMAIN Tail(tasks)
      /\ \A i \in DOMAIN Tail(tasks) :
           /\ tasks'[i].kind = tasks[i + 1].kind /\ tasks'[i].age # "own"
           /\ tasks[i + 1].age = "slow" => tasks'[i].age = "slow"
      /\ held'["rar"] # "own" /\ held'["crnti"] # "own"
  BY <1>1, MovedTasks
<1>3. ASSUME ~misled', NEW i \in DOMAIN tasks', tasks'[i].kind = "crnti"
      PROVE  tasks'[i].age # "old"
  <2>1. tasks[i + 1] \in Task BY <1>1, <1>2
  <2>2. tasks[i + 1].age # "old" BY <1>1, <1>2, <1>3 DEF TasksInv
  <2>3. tasks[i + 1].age # "own" BY <1>1, <1>2, <1>3 DEF TasksInv
  <2> QED BY <1>2, <2>1, <2>2, <2>3 DEF Task
<1> QED BY <1>2, <1>3 DEF TasksInv

(* A task of the queue.                                                    *)
LEMMA TaskTasks == ASSUME RaInv, TasksInv, FieldsInv, RunTask PROVE TasksInv'
<1>1. tasks # <<>> /\ tasks \in Seq(Task) /\ Follow(Tail(tasks)) /\ pc["stack"] = "out"
  BY DEF RunTask, FieldsInv, stack_free
<1>p. pc \in [Threads -> Steps] /\ "stack" \in Threads BY DEF RaInv, PcInv, Threads
<1>2. ASSUME UNCHANGED <<state, misled>>, pc'["stack"] # "set_rar" PROVE TasksInv'
  BY <1>1, <1>2, TailKeeps DEF Follow
<1>3. CASE run_prach_sent(Head(tasks).age = "own") /\ UNCHANGED state
  <2>1. CASE state # "PRACH"
    BY <1>1, <1>2, <1>3, <2>1 DEF run_prach_sent
  <2>2. CASE state = "PRACH"
    BY <1>1, <1>3, <2>2, WindowOpens DEF run_prach_sent, Follow
  <2> QED BY <2>1, <2>2
<1>4. ASSUME NEW pdu, ra_response_reception(pdu), UNCHANGED <<pc, misled>> PROVE TasksInv'
  <2>1. state' = state \/ (state = "RAR" /\ state' = "CONRES")
    BY <1>4 DEF ra_response_reception
  <2> QED BY <1>1, <1>2, <1>4, <2>1, ResponseArrives DEF Follow
<1>5. CASE ra_contention_resolution("stack", FALSE) /\ UNCHANGED <<state, misled>>
  <2>1. goto("stack", "complete") \/ goto("stack", "out")
    BY <1>5 DEF ra_contention_resolution
  <2>2. pc'["stack"] # "set_rar" BY <1>p, <2>1, Goes DEF Steps
  <2> QED BY <1>2, <1>5, <2>2
<1> QED BY <1>3, <1>4, <1>5 DEF RunTask

(* Every step keeps what is known of the queue.                            *)
LEMMA TasksKept ==
  ASSUME RaInv, TasksInv, FieldsInv, [Next]_vars PROVE TasksInv'
<1>p. /\ pc \in [Threads -> Steps] /\ "stack" \in Threads /\ "phy" \in Threads /\ "stack" # "phy"
      /\ tasks \in Seq(Task) /\ held \in [{"rar", "crnti"} -> {"no", "own", "moved"}]
  BY DEF RaInv, PcInv, Threads, FieldsInv
<1>g. ASSUME NEW t \in Threads, NEW step \in Steps \ {"set_rar"}, goto(t, step)
      PROVE  pc'["stack"] = "set_rar" => pc["stack"] = "set_rar"
  <2>1. pc'[t] = step /\ \A u \in Threads \ {t} : pc'[u] = pc[u] BY <1>p, <1>g, Goes
  <2> QED BY <2>1, <1>p, <1>g DEF Threads
<1>1. ASSUME NEW by, ra_procedure_initialization(by) PROVE TasksInv'
  <2>1. goto("stack", "run_timer") /\ UNCHANGED <<state, misled, tasks, held>>
    BY <1>1 DEF ra_procedure_initialization
  <2> QED BY <1>p, <1>g, <2>1, SameTasks DEF Steps
<1>2. CASE mac_reset
  <2>1. goto("stack", "clear") /\ state' = "IDLE" /\ Follow(tasks) /\ misled' = misled
    BY <1>2 DEF mac_reset, ghosts
  <2> QED BY <1>p, <1>g, <2>1, FollowKeeps DEF Steps
<1>3. CASE RunPrachTimer
  <2>1. goto("stack", "set_prach") /\ UNCHANGED <<state, misled, tasks, held>>
    BY <1>3 DEF RunPrachTimer, ghosts
  <2> QED BY <1>p, <1>g, <2>1, SameTasks DEF Steps
<1>4. CASE SetPrach
  <2>1. goto("stack", "out") /\ state' = "PRACH" /\ Moved(tasks) BY <1>4 DEF SetPrach
  <2>2. pc'["stack"] = "out" BY <1>p, <2>1, Goes DEF Steps
  <2> QED BY <2>1, <2>2, MovedKeeps
<1>5. CASE SetRar
  <2>1. /\ goto("stack", "out") /\ state' = "RAR" /\ Moved(tasks) /\ misled' = misled
        /\ pc["stack"] = "set_rar"
    BY <1>5 DEF SetRar, ghosts
  <2>2. pc'["stack"] = "out" BY <1>p, <2>1, Goes DEF Steps
  <2> QED BY <2>1, <2>2, WindowOpened
<1>6. ASSUME NEW t \in Threads, Completion(t) PROVE TasksInv'
  <2>1. CASE SetCompletion(t)
    <3>1. goto(t, "promote") /\ state' = "COMPLETION" /\ Follow(tasks) /\ misled' = misled
      BY <2>1 DEF SetCompletion, ghosts
    <3> QED BY <1>g, <3>1, FollowKeeps DEF Steps
  <2>2. CASE ra_completion(t)
    <3>1. (goto(t, "reset") \/ goto(t, "out")) /\ UNCHANGED <<state, misled, tasks, held>>
      BY <2>2 DEF ra_completion, ghosts
    <3> QED BY <1>g, <3>1, SameTasks DEF Steps
  <2>3. CASE ResetState(t)
    <3>1. goto(t, "clear") /\ state' = "IDLE" /\ Follow(tasks) /\ misled' = misled
      BY <2>3 DEF ResetState, ghosts
    <3> QED BY <1>g, <3>1, FollowKeeps DEF Steps
  <2>4. CASE ResetStarter(t)
    <3>1. goto(t, "stop") /\ UNCHANGED <<state, misled, tasks, held>> BY <2>4 DEF ResetStarter
    <3> QED BY <1>g, <3>1, SameTasks DEF Steps
  <2>5. CASE ResetTimers(t)
    <3>1. goto(t, "out") /\ UNCHANGED <<state, misled, tasks, held>> BY <2>5 DEF ResetTimers
    <3> QED BY <1>g, <3>1, SameTasks DEF Steps
  <2> QED BY <1>6, <2>1, <2>2, <2>3, <2>4, <2>5 DEF Completion
<1>7. CASE RunTask BY <1>7, TaskTasks
<1>8. ASSUME NEW t \in Timers, TimerExpires(t) PROVE TasksInv'
  BY <1>8, SameTasks DEF TimerExpires, ghosts
<1>9. CASE ra_error
  <2>1. UNCHANGED pc /\ pc["stack"] = "out" BY <1>9 DEF ra_error, RaInv, PcInv
  <2>2. \/ Follow(tasks) /\ state' \in {state, "IDLE"} /\ misled' = misled
        \/ Moved(tasks) /\ state' = "PRACH"
    BY <1>9 DEF ra_error
  <2> QED BY <2>1, <2>2, FollowKeeps, MovedKeeps
<1>10. CASE PhySendsPrach
  BY <1>10, <1>p, QueuedKeeps DEF PhySendsPrach, ghosts
<1>11. CASE PhyRarCheck
  <2>1. /\ state = "RAR" /\ held'["rar"] = "own" /\ held'["crnti"] = held["crnti"]
        /\ UNCHANGED <<state, misled, tasks, pc>>
    BY <1>11, <1>p DEF PhyRarCheck, ghosts
  <2> QED BY <2>1 DEF TasksInv
<1>12. CASE PhyCrntiCheck
  <2>1. /\ state = "CONRES" /\ held'["crnti"] = "own" /\ held'["rar"] = held["rar"]
        /\ UNCHANGED <<state, misled, tasks, pc>>
    BY <1>12, <1>p DEF PhyCrntiCheck, ghosts
  <2> QED BY <2>1 DEF TasksInv
<1>13. ASSUME NEW kind \in {"rar", "crnti"}, PhyPush(kind) PROVE TasksInv'
  <2> DEFINE a == IF held[kind] = "own" THEN "own" ELSE "slow"
  <2>1. /\ queue(kind, a) /\ UNCHANGED <<state, misled, pc>> /\ a \in {"own", "slow"}
        /\ held' = [held EXCEPT ![kind] = "no"]
    BY <1>13 DEF PhyPush, ghosts
  <2>2. /\ held'["rar"] = "own" => held["rar"] = "own"
        /\ held'["crnti"] = "own" => held["crnti"] = "own"
    BY <1>p, <2>1
  <2>3. a = "own" => held[kind] = "own" OBVIOUS
  <2> HIDE DEF a
  <2>4. /\ kind = "rar" /\ a = "own" => state = "RAR"
        /\ kind = "crnti" /\ a = "own" => state = "CONRES"
    BY <2>3 DEF TasksInv
  <2> QED BY <1>p, <2>1, <2>2, <2>4, QueuedKeeps
<1>14. ASSUME PhyMsg4 PROVE TasksInv'
  <2>1. goto("phy", "called") /\ UNCHANGED <<state, misled, tasks, held>>
    BY <1>14 DEF PhyMsg4, ghosts
  <2> QED BY <1>p, <1>g, <2>1, SameTasks DEF Steps
<1>15. ASSUME NEW match, received_contention_resolution(match) PROVE TasksInv'
  <2>1. (goto("phy", "complete") \/ goto("phy", "out")) /\ UNCHANGED <<state, misled, tasks, held>>
    BY <1>15 DEF received_contention_resolution, ra_contention_resolution, ghosts
  <2> QED BY <1>p, <1>g, <2>1, SameTasks DEF Steps
<1>16. CASE set_crnti \/ UNCHANGED vars
  BY <1>16, SameTasks DEF set_crnti, vars, ghosts
<1> QED BY <1>1, <1>2, <1>3, <1>4, <1>5, <1>6, <1>7, <1>8, <1>9, <1>10, <1>11, <1>12, <1>13,
           <1>14, <1>15, <1>16
           DEF Next, StackGoesOn, PhyStep, start_by_rrc, start_by_mac, Threads

-----------------------------------------------------------------------------
(* The four parts together                                                 *)

FullInv == RaInv /\ CounterInv /\ FieldsInv /\ TasksInv

(* The four parts hold initially.                                          *)
LEMMA FullInitial == Init => FullInv
<1> SUFFICES ASSUME Init PROVE FullInv OBVIOUS
<1>1. tasks = <<>> /\ tasks \in Seq(Task) BY DEF Init
<1>2. CounterInv BY RaAssumption DEF Init, CounterInv, Threads
<1>3. FieldsInv BY <1>1 DEF Init, FieldsInv
<1>4. TasksInv BY <1>1 DEF Init, TasksInv, Threads
<1> QED BY <1>2, <1>3, <1>4, RaInitial DEF FullInv

(* They are inductive together.                                            *)
LEMMA FullInductive == FullInv /\ [Next]_vars => FullInv'
<1> SUFFICES ASSUME FullInv, [Next]_vars PROVE FullInv' OBVIOUS
<1>1. RaInv /\ CounterInv /\ FieldsInv /\ TasksInv BY DEF FullInv
<1> QED BY <1>1, RaInductive, CounterKept, FieldsKept, TasksKept DEF FullInv

(* The fields of proc_ra_nr keep their range; the counter, which goes on   *)
(* after the last preamble, exceeds preambleTransMax by three at most.     *)
THEOREM RangesKept == Spec => []TypeOK
<1>1. FullInv => TypeOK
  <2> SUFFICES ASSUME FullInv PROVE TypeOK OBVIOUS
  <2>1. RaInv /\ CounterInv /\ FieldsInv BY DEF FullInv
  <2>2. counter \in 0..(preambleTransMax + 3) BY <2>1, RaAssumption DEF CounterInv
  <2>3. \A i \in DOMAIN tasks : tasks[i] \in Task BY <2>1 DEF FieldsInv
  <2>4. {prach, rar_rnti, temp_crnti, crnti} \cup {misled, overtaken, disarmed, problem, malformed}
          \subseteq BOOLEAN
    BY <2>1 DEF FieldsInv
  <2>5. /\ state \in {"IDLE", "PRACH", "RAR", "CONRES", "COMPLETION"}
        /\ started_by \in {"NULL", "RRC", "MAC"}
        /\ timers \subseteq Timers /\ callback \in Timers \cup {"none"}
    BY <2>1 DEF RaInv, TimersInv, FieldsInv
  <2>6. \A k \in {"rar", "crnti"} : held[k] \in {"no", "own", "moved"} BY <2>1 DEF FieldsInv
  <2>7. \A t \in Threads : pc[t] \in Steps BY <2>1 DEF RaInv, PcInv
  <2> QED BY <2>2, <2>3, <2>4, <2>5, <2>6, <2>7 DEF TypeOK, Steps
<1> QED BY <1>1, FullInitial, FullInductive, PTL DEF Spec

(* For any length of the queue, ra_response_reception() and the completion *)
(* by a grant never take a task of an earlier step for one of theirs, but  *)
(* in the window that the notification of an earlier preamble has opened,  *)
(* or when the state had moved on between the check and the push.          *)
THEOREM StaleTasksNotTaken == Spec => []StaleTasksIgnored
<1>1. FullInv => StaleTasksIgnored
  <2> SUFFICES ASSUME FullInv, tasks # <<>>, Head(tasks).age = "old", ~misled,
                      Head(tasks).kind \in {"rar", "crnti"}
               PROVE  state # expected[Head(tasks).kind]
    BY DEF StaleTasksIgnored
  <2>1. TasksInv /\ tasks \in Seq(Task) BY DEF FullInv, FieldsInv
  <2>2. Head(tasks) = tasks[1] /\ 1 \in DOMAIN tasks BY <2>1, TailTasks
  <2> QED BY <2>1, <2>2, ExpectedStates DEF TasksInv
<1> QED BY <1>1, FullInitial, FullInductive, PTL DEF Spec
=============================================================================
