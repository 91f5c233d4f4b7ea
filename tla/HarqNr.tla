------------------------------- MODULE HarqNr -------------------------------
(***************************************************************************)
(* HARQ between the gNB scheduler (sched_nr_harq, sched_nr, the PHY        *)
(* slot_worker that calls them) and the UE (dl_harq_nr, ul_harq_nr).  The  *)
(* gNB's harq_proc is the same for both directions: a behaviour is about   *)
(* one direction of one UE, link.  The scheduler runs slot by slot, at     *)
(* most one grant per slot; the workers decode the uplink of a few slots   *)
(* in any order.  DCIs and PUCCHs are lost and transport blocks fail their *)
(* CRC at will, within MaxMissed.                                          *)
(***************************************************************************)
EXTENDS Integers, Sequences, FiniteSets, SequencesExt

CONSTANTS Pids,         \* HARQ processes, 0..n
          MaxRetx,      \* harq_proc::max_retx
          max_harq_tx,  \* ul_harq_cfg_t::max_harq_tx of the UE
          SlotMod,      \* slot_point::nof_slots_per_hf()
          TxDelay,      \* TX_ENB_DELAY: from the slot received to the slot scheduled
          K,            \* from a grant to its HARQ-ACK (k1) or its PUSCH (k2)
          Workers,      \* slots in process at a time
          Blocks,       \* names of transport blocks, reused when they are gone
          MaxMissed,    \* bound: DCIs of a process missed in a row
          FailsAt       \* where the UE may fail to decode for want of a buffer

ASSUME HarqAssumption ==
  /\ Pids \subseteq Nat /\ Pids # {} /\ Blocks \subseteq Nat \ {0}
  /\ {1, 2, 3} \subseteq Blocks /\ MaxRetx \in Nat /\ max_harq_tx \in Nat \ {0} /\ MaxMissed \in Nat
  /\ SlotMod \in Nat /\ TxDelay \in Nat \ {0} /\ K \in Nat
  /\ Workers \in 1..TxDelay /\ 2 * (TxDelay + K) < SlotMod
  /\ FailsAt \subseteq {"new", "again"}

VARIABLES link,         \* "dl" or "ul"
          slot,         \* the received slot the scheduler is called for next
          ul,           \* work_ul() of that slot and of the next ones
          tb,           \* gNB: the harq_proc of every process
          grants,       \* grants whose HARQ-ACK or PUSCH has not been processed, in order
          events,       \* event_manager: feedback for the next call
          dl_ue,        \* UE: dl_harq_process_nr
          ul_ue,        \* UE: ul_harq_process_nr
          soft,         \* softbuffer of the receiver: the blocks combined in it
          delivered,    \* how often a block went to the demultiplexer
          missed        \* DCIs missed in a row

gnbVars == <<slot, ul, tb, events>>
vars == <<link, slot, ul, tb, grants, events, dl_ue, ul_ue, soft, delivered, missed>>

None == 0
NDI_NOT_SET == 100
Grant == [at : 0..(SlotMod - 1), pid : Pids, ndi : {0, 1}, tb : Blocks,
          answer : {"pending", "nothing", "ack", "nack"} , pdu : Blocks \cup {None}]

Init ==
  /\ link \in {"dl", "ul"} /\ slot = 0
  /\ ul = [i \in 0..(Workers - 1) |-> "todo"]
  /\ tb = [p \in Pids |-> [active |-> FALSE, ack_state |-> FALSE, ndi |-> 0, n_rtx |-> 0,
                           slot_ack |-> 0, block |-> None]]
  /\ grants = <<>> /\ events = <<>>
  /\ dl_ue = [p \in Pids |-> [ndi |-> 0, is_first_tb |-> TRUE, acked |-> FALSE]]
  /\ ul_ue = [p \in Pids |-> [ndi |-> 0, nof_retx |-> 0, harq_buffer |-> None]]
  /\ soft = [p \in Pids |-> {}]
  /\ delivered = [p \in Pids |-> [b \in Blocks |-> 0]]
  /\ missed = [p \in Pids |-> 0]

-----------------------------------------------------------------------------
(* slot_point                                                              *)

plus(s, jump) == (s + jump) % SlotMod
before(s, t) == IF t - s > 0 THEN t - s < SlotMod \div 2 ELSE 2 * (s - t) > SlotMod
not_after(s, t) == s = t \/ before(s, t)

-----------------------------------------------------------------------------
(* harq_proc of the gNB                                                    *)

(* The process is empty: until new_tx() only the NDI of it is read, and    *)
(* what is not read is cleared.                                            *)
emptied(h) == [h EXCEPT !.active = FALSE, !.ack_state = FALSE, !.n_rtx = 0, !.slot_ack = 0]

(* ack_info(); the bug notes any answer as an acknowledgement.             *)
ack_info_Any(h, ack) == IF ~h.active THEN h
                        ELSE IF ack THEN emptied(h) ELSE [h EXCEPT !.ack_state = TRUE]
ack_info(h, ack) == IF ~h.active THEN h
                    ELSE IF ack THEN emptied(h) ELSE [h EXCEPT !.ack_state = FALSE]

(* The bug does not wait for the worker of the slot of the HARQ-ACK.       *)
has_pending_retx_Early(h, slot_rx) ==
  h.active /\ ~h.ack_state /\ not_after(h.slot_ack, plus(slot_rx, 1))
has_pending_retx(h, slot_rx) == h.active /\ ~h.ack_state /\ not_after(h.slot_ack, slot_rx)

(* The condition of clear_if_maxretx(); the bug gives up one transmission  *)
(* early.                                                                  *)
maxretx_Early(h) == h.n_rtx + 1 >= MaxRetx
maxretx(h) == h.n_rtx + 1 > MaxRetx

clear_if_maxretx(h, slot_rx) ==
  IF has_pending_retx(h, slot_rx) /\ maxretx(h) THEN emptied(h) ELSE h

new_tx(h, at, block) ==
  [active |-> TRUE, ack_state |-> FALSE, ndi |-> 1 - h.ndi, n_rtx |-> 0, slot_ack |-> at,
   block |-> block]
new_retx(h, at) == [h EXCEPT !.slot_ack = at, !.ack_state = FALSE, !.n_rtx = @ + 1]

-----------------------------------------------------------------------------
(* The scheduler                                                           *)

(* process_cc_events() calls ack_info() for one event after the other: a   *)
(* positive answer empties the process, and what comes after it, or comes  *)
(* negative before it, makes no difference then.                           *)
after_events(p) ==
  LET mine == {i \in DOMAIN events : events[i].pid = p}
  IN IF mine = {} THEN tb[p] ELSE ack_info(tb[p], \E i \in mine : events[i].ack)

(* harq_entity::new_slot()                                                 *)
new_slot == [p \in Pids |-> clear_if_maxretx(after_events(p), slot)]

(* find_pending_dl_retx(), find_empty_dl_harq(): the first that matches    *)
first_of(ps) == CHOOSE p \in ps : \A q \in ps : p <= q
pending(hs) == {p \in Pids : has_pending_retx(hs[p], slot)}
empty(hs)   == {p \in Pids : ~hs[p].active}

(* A new block has the first name that no block has which is in the        *)
(* process, in the air or in the softbuffer: one name for what the gNB     *)
(* sends or grants, one for what get_pdu() of the UE gives.                *)
granted(p) == {grants[j].tb : j \in {j \in DOMAIN grants : grants[j].pid = p}}
new_block(p) ==
  first_of(Blocks \ ({tb[p].block} \cup granted(p) \cup (IF link = "dl" THEN soft[p] ELSE {})))
pdus_used(p) == {ul_ue[p].harq_buffer} \cup soft[p]
                  \cup {grants[j].pdu : j \in {j \in DOMAIN grants : grants[j].pid = p}}
new_pdu(p) == first_of(Blocks \ pdus_used(p))

uci_slot == plus(slot, TxDelay + K)
fill_dci(p, h) == [at |-> uci_slot, pid |-> p, ndi |-> h.ndi, tb |-> h.block,
                   answer |-> "pending", pdu |-> None]

(* What is known of blocks that are gone is dropped                        *)
forget(p, kept) == [delivered EXCEPT ![p] = [b \in Blocks |-> IF b \in kept THEN @[b] ELSE 0]]

NextSlot ==
  /\ slot' = plus(slot, 1)
  /\ ul' = [i \in DOMAIN ul |-> IF i + 1 \in DOMAIN ul THEN ul[i + 1] ELSE "todo"]
  /\ UNCHANGED <<link, dl_ue, ul_ue, missed>>

(* get_dl_sched() of a slot: a retransmission goes before a new block      *)
Retransmit(p) ==
  /\ ul[0] = "done"
  /\ LET hs == new_slot
     IN /\ pending(hs) # {} /\ p = first_of(pending(hs))
        /\ tb' = [hs EXCEPT ![p] = new_retx(@, uci_slot)]
        /\ grants' = Append(grants, fill_dci(p, tb'[p]))
  /\ events' = <<>> /\ NextSlot
  /\ UNCHANGED <<soft, delivered>>

NewTransmission ==
  /\ ul[0] = "done"
  /\ LET hs == new_slot
         p  == first_of(empty(hs))
     IN /\ pending(hs) = {} /\ empty(hs) # {}
        /\ tb' = [hs EXCEPT ![p] = new_tx(@, uci_slot, new_block(p))]
        /\ delivered' = IF link = "dl" THEN forget(p, soft[p]) ELSE delivered
        /\ grants' = Append(grants, fill_dci(p, tb'[p]))
        /\ soft' = IF link = "ul" THEN [soft EXCEPT ![p] = {}] ELSE soft
  /\ events' = <<>> /\ NextSlot

(* Nothing to send, or no room in the slot for it                          *)
NoGrant ==
  /\ ul[0] = "done"
  /\ tb' = new_slot /\ events' = <<>> /\ NextSlot
  /\ UNCHANGED <<grants, soft, delivered>>

(* work_ul() failed: the worker does not call the scheduler                *)
SkipSlot ==
  /\ ul[0] = "failed" /\ NextSlot
  /\ UNCHANGED <<tb, grants, events, soft, delivered>>

-----------------------------------------------------------------------------
(* The workers: work_ul() of slot + i, which hears the answer to a grant;  *)
(* it fails before that, or after it for another user of the slot          *)

answered(i) == {j \in DOMAIN grants : grants[j].at = plus(slot, i)}
heard_in(i)  == CHOOSE j \in answered(i) : TRUE
ready(i) == ul[i] = "todo" /\ \A j \in answered(i) : grants[j].answer # "pending"

WorkUl(i, ok) ==
  /\ ready(i)
  /\ \E end \in {"done", "failed"} : ul' = [ul EXCEPT ![i] = end]
  /\ IF answered(i) = {}
       THEN ~ok /\ UNCHANGED <<grants, events, soft, delivered>>
       ELSE LET g == grants[heard_in(i)]
            IN /\ ok => (IF link = "dl" THEN g.answer = "ack" ELSE g.pdu # None)
               /\ events' = Append(events, [pid |-> g.pid, ack |-> ok, tb |-> g.tb])
               /\ grants' = RemoveAt(grants, heard_in(i))
               /\ IF link = "ul" /\ g.pdu # None
                    THEN /\ soft' = [soft EXCEPT ![g.pid] = @ \cup {g.pdu}]
                         /\ delivered' = IF ok THEN [delivered EXCEPT ![g.pid][g.pdu] = @ + 1]
                                         ELSE delivered
                    ELSE UNCHANGED <<soft, delivered>>
  /\ UNCHANGED <<link, slot, tb, dl_ue, ul_ue, missed>>

FailUl(i) ==
  /\ ready(i)
  /\ ul' = [ul EXCEPT ![i] = "failed"]
  /\ grants' = IF answered(i) = {} THEN grants ELSE RemoveAt(grants, heard_in(i))
  /\ UNCHANGED <<link, slot, tb, events, dl_ue, ul_ue, soft, delivered, missed>>

-----------------------------------------------------------------------------
(* The UE                                                                  *)

unheard == {j \in DOMAIN grants : grants[j].answer = "pending"}
current == first_of(unheard)

(* The UE does not decode the DCI and answers nothing                      *)
MissDci ==
  /\ unheard # {}
  /\ LET p == grants[current].pid
     IN missed[p] < MaxMissed /\ missed' = [missed EXCEPT ![p] = @ + 1]
  /\ grants' = [grants EXCEPT ![current].answer = "nothing"]
  /\ UNCHANGED <<link, gnbVars, dl_ue, ul_ue, soft, delivered>>

(* Whether a block is decoded once more; the bug decodes every duplicate.  *)
enabled_Always(u, new) == TRUE
enabled(u, new) == new \/ ~u.acked

(* dl_harq_entity_nr::new_grant_dl(), the decoding and tb_decoded()        *)
NewGrantDl(crc) ==
  /\ link = "dl" /\ unheard # {}
  /\ LET g   == grants[current]
         u   == dl_ue[g.pid]
         new == g.ndi # u.ndi \/ u.is_first_tb
         ack == ~enabled(u, new) \/ crc
     IN /\ crc => enabled(u, new)
        /\ dl_ue' = [dl_ue EXCEPT ![g.pid] = [ndi |-> g.ndi, is_first_tb |-> FALSE, acked |-> ack]]
        /\ soft' = [soft EXCEPT ![g.pid] = IF new THEN {g.tb}
                                           ELSE IF enabled(u, new) THEN @ \cup {g.tb} ELSE @]
        /\ delivered' = IF crc THEN [delivered EXCEPT ![g.pid][g.tb] = @ + 1] ELSE delivered
        /\ grants' = [grants EXCEPT ![current].answer = IF ack THEN "ack" ELSE "nack"]
        /\ missed' = [missed EXCEPT ![g.pid] = 0]
  /\ UNCHANGED <<link, gnbVars, ul_ue>>

(* decode_pdsch_dl() returns early: the grant is stored, but tb_decoded()  *)
(* is not called and nothing is answered                                   *)
FailDecoding ==
  /\ link = "dl" /\ unheard # {}
  /\ LET g   == grants[current]
         u   == dl_ue[g.pid]
         new == g.ndi # u.ndi \/ u.is_first_tb
     IN /\ enabled(u, new) /\ (IF new THEN "new" ELSE "again") \in FailsAt
        /\ dl_ue' = [dl_ue EXCEPT ![g.pid].ndi = g.ndi, ![g.pid].is_first_tb = FALSE]
        /\ soft' = IF new THEN [soft EXCEPT ![g.pid] = {}] ELSE soft
        /\ grants' = [grants EXCEPT ![current].answer = "nothing"]
        /\ missed' = [missed EXCEPT ![g.pid] = 0]
  /\ UNCHANGED <<link, gnbVars, ul_ue, delivered>>

(* ul_harq_process_nr: the state a grant is handled in, discarded when the *)
(* block has been sent often enough                                        *)
discarded(u) == IF u.nof_retx >= max_harq_tx
                  THEN [ndi |-> NDI_NOT_SET, nof_retx |-> 0, harq_buffer |-> None] ELSE u

(* ul_harq_entity_nr::new_grant_ul() compares the NDIs before the process  *)
(* discards its block                                                      *)
ndi_toggled(g) == g.ndi # ul_ue[g.pid].ndi

(* new_grant_ul() of the process; mux_nr::get_pdu() may have no buffer     *)
NewGrantUl(pdu) ==
  /\ link = "ul" /\ unheard # {}
  /\ LET g   == grants[current]
         u   == discarded(ul_ue[g.pid])
         new == ndi_toggled(g) \/ u.harq_buffer = None
     IN /\ IF new
             THEN /\ pdu = None \/ pdu = new_pdu(g.pid)
                  /\ ul_ue' = [ul_ue EXCEPT ![g.pid] =
                       IF pdu = None THEN [u EXCEPT !.harq_buffer = None]
                       ELSE [ndi |-> g.ndi, nof_retx |-> 1, harq_buffer |-> pdu]]
                  /\ delivered' = forget(g.pid, pdus_used(g.pid))
             ELSE /\ pdu = u.harq_buffer
                  /\ ul_ue' = [ul_ue EXCEPT ![g.pid] =
                       [ndi |-> g.ndi, nof_retx |-> u.nof_retx + 1, harq_buffer |-> pdu]]
                  /\ UNCHANGED delivered
        /\ grants' = [grants EXCEPT ![current].answer = "nothing", ![current].pdu = pdu]
        /\ missed' = [missed EXCEPT ![g.pid] = 0]
  /\ UNCHANGED <<link, gnbVars, dl_ue, soft>>

UeStep == MissDci \/ FailDecoding \/ (\E crc \in BOOLEAN : NewGrantDl(crc))
          \/ \E pdu \in Blocks \cup {None} : NewGrantUl(pdu)
WorkerStep == \E i \in 0..(Workers - 1) : FailUl(i) \/ \E ok \in BOOLEAN : WorkUl(i, ok)
SchedStep  == (\E p \in Pids : Retransmit(p)) \/ NewTransmission \/ NoGrant \/ SkipSlot

Next == UeStep \/ WorkerStep \/ SchedStep

(* The slots go on, the UE hears its grants in time, a retransmission      *)
(* finds room in the end, and work_ul() does not fail for ever.            *)
Fairness ==
  /\ WF_vars(UeStep) /\ WF_vars(WorkerStep) /\ WF_vars(SchedStep)
  /\ \A p \in Pids : SF_vars(Retransmit(p))
  /\ <>[](\A i \in 0..(Workers - 1) : ul[i] # "failed")

Safety == Init /\ [][Next]_vars
Spec   == Safety /\ Fairness

-----------------------------------------------------------------------------
(* Properties                                                              *)

(* The fields keep their range; a block is sent MaxRetx + 1 times at most. *)
TypeOK ==
  /\ link \in {"dl", "ul"} /\ slot \in 0..(SlotMod - 1)
  /\ \A i \in DOMAIN ul : ul[i] \in {"todo", "done", "failed"}
  /\ \A p \in Pids : /\ tb[p].n_rtx \in 0..MaxRetx /\ tb[p].block \in Blocks \cup {None}
                     /\ dl_ue[p].ndi \in {0, 1} /\ ul_ue[p].nof_retx \in 0..max_harq_tx
  /\ \A j \in DOMAIN grants : grants[j] \in Grant

(* What keeps the two ends together and neither of them checks: the UE     *)
(* does not miss every DCI of a block, it keeps a block as long as the gNB *)
(* asks for it, and it finds a buffer for a new block.                     *)
EndsAgree == MaxMissed <= MaxRetx /\ MaxRetx < max_harq_tx /\ "new" \notin FailsAt

(* A positive answer is applied to the block it is for, and that block has *)
(* been delivered: ack_info() knows the process only, so no answer may be  *)
(* on its way when the process goes on to another block.                   *)
AcksTrue ==
  /\ \A i \in DOMAIN events : events[i].ack =>
       /\ tb[events[i].pid].block = events[i].tb
       /\ link = "dl" => delivered[events[i].pid][events[i].tb] > 0
  /\ \A j \in DOMAIN grants : tb[grants[j].pid].block = grants[j].tb

(* The receiver never combines two blocks in one softbuffer, although the  *)
(* one bit of the NDI is all that tells a new block from an old one and    *)
(* the two ends count the transmissions of a block separately.             *)
CombinesOneBlock == \A p \in Pids : Cardinality(soft[p]) <= 1

(* The processes keep their range and their blocks apart, to the last      *)
(* transmission either end allows.                                         *)
BlocksApart == TypeOK /\ CombinesOneBlock

(* A block goes to the demultiplexer once, though it is sent again when    *)
(* its acknowledgement is lost.                                            *)
DeliveredOnce == \A p \in Pids : \A b \in Blocks : delivered[p][b] <= 1

(* No block stays in a process for ever: it is acknowledged or given up,   *)
(* over the wrap of the slot counter too (the process may take the next    *)
(* block in the same call).                                                *)
BlocksResolved ==
  \A p \in Pids, b \in Blocks : []<>~(tb[p].active /\ tb[p].block = b)
=============================================================================
