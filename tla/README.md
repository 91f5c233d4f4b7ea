# A TLA+ model of the AIRadio user plane

This directory holds TLA+ specifications of the core of the AIRadio stack (the
C++ code under `src/AIRadio`): modules translated from the source, TLC
configurations that check them on small instances, and theorems proved with
TLAPS for every value of the constants. Paths below are relative to
`src/AIRadio/`. `PROJECT.json` lists runs, source lines, hazards and findings
in machine-readable form.

Conventions. Operators keep the names of the C++ functions, variables and
fields they model. An operator whose name is that of another with a suffix
(`maxretx_Early`) is a deliberately wrong variant of the one after it. It is not
part of the specification; replacing the definition by it must make a property
fail, which shows that the property depends on the code it is about.

    tlc -workers 2 -config MCRlcAmNr_whole.cfg MCRlcAmNr      # one run
    tlapm Timers_proofs.tla                                   # one proof module

## 1. Inventory

### The parts and how they interact

| Part | Source | State | Operations | Module |
|---|---|---|---|---|
| timers | `lib/include/isrran/common/timers.h`, `adt/intrusive_list.h` | deque of timers, free list, wheel of intrusive lists, current tick | `get_unique_timer`, `set`, `run`, `stop`, `release`, `defer_callback`, `stop_all`, `step_all` | `Timers` |
| RLC AM NR sender | `lib/src/rlc/rlc_am_nr.cc`, `rlc_am_base.cc` | TX_Next_Ack, TX_Next, POLL_SN, poll counters, window, retransmission queue, SDU queue, SDU under segmentation, t-PollRetransmit | `write_sdu`, `discard_sdu`, `read_pdu`, `get_buffer_state`, `handle_control_pdu`, `timer_expired`, `reestablish` | `RlcAmNrTx` |
| RLC AM NR receiver | same files | RX_Next, RX_Next_Status_Trigger, RX_Highest_Status, RX_Next_Highest, window of SDUs and segments, two timers, `do_status` | `handle_data_pdu`, `get_status_pdu`, `timer_expired`, `reestablish` | `RlcAmNrRx` |
| STATUS PDU | `lib/src/rlc/rlc_am_nr_packing.cc` | list of NACKs, packed size | `push_nack` (merges ranges), `trim`, pack, unpack | `RlcAmNrStatus` |
| RLC UM NR | `lib/src/rlc/rlc_um_nr.cc`, `rlc_um_base.cc` | TX_Next, SDU under segmentation, SDU queue; RX_Next_Reassembly, RX_Next_Highest, RX_Timer_Trigger, segments, t-Reassembly | `write_sdu`, `discard_sdu`, `build_data_pdu` in two halves, `handle_data_pdu`, `timer_expired`, `reestablish` | `RlcUmNr` |
| PDCP NR | `lib/src/pdcp/pdcp_entity_nr.cc`, `pdcp_entity_base.cc` | TX_NEXT, RX_NEXT, RX_DELIV, RX_REORD, reordering queue, t-Reordering, discard timers | `configure`, `write_sdu`, `write_pdu`, `notify_delivery`, two timer callbacks | `PdcpNr`, `PdcpNrBearer` |
| task queues | `lib/include/isrran/common/multiqueue.h`, `adt/circular_buffer.h` | circular buffers, waiting threads, round-robin index, state of the consumer | `push`, `try_push`, `wait_pop`, `add_queue`, `queue_handle::reset`, `stop` | `MultiQueue` |
| HARQ NR | `isrgnb/src/stack/mac/sched_nr_harq.cc`, `sched_nr.cc`, `sched_nr_time_rr.cc`, `isrenb/src/phy/nr/slot_worker.cc`; `isrue/src/stack/mac_nr/dl_harq_nr.cc`, `ul_harq_nr.cc` | processes of both ends, queued feedback, softbuffers | slot by slot scheduling, feedback, grants and decoding at the UE | `HarqNr` |
| random access NR | `isrue/src/stack/mac_nr/proc_ra_nr.cc`, `mac_nr.cc` | state, starter, counter, three timers, task queue, RNTIs | `start_by_rrc`, `start_by_mac`, `prach_sent`, `handle_rar_pdu`, contention resolution, `ra_error`, `reset` | `ProcRaNr` |
| RLC AM LTE, UM LTE, TM | `lib/src/rlc/rlc_am_lte.cc`, `rlc_um_lte.cc`, `rlc_tm.cc` | as NR, with concatenation and another status format; a queue | same | - |
| RLC and PDCP bearers, PDCP LTE | `lib/src/rlc/rlc.cc`, `lib/src/pdcp/` | map LCID -> entity | forwards calls | - |
| task scheduler, thread pool | `lib/include/isrran/common/` | deferred and background tasks | push, run | - |
| GTP-U | `lib/src/gtpu/`, `isrenb/src/stack/upper/gtpu.cc` | tunnel tables, forwarding buffers | add, modify, remove, forward | - |
| the rest of the MAC | `isr*/src/stack/mac/` | buffer states, BSR, SR, PHR | grants | - |
| RRC, S1AP, NGAP, NAS | `isr*/src/stack/` | per-UE procedures | signalling | - |
| EPC | `isrepc/` | sessions and subscribers | signalling, forwarding | - |
| PHY, radio, ASN.1, logging | `lib/src/phy`, `radio`, `asn1`, `isrlog` | - | signal processing, generated codecs, I/O | - |

One stack thread runs tasks in turn: it takes them from the task queues, steps
the timers, hands received PDUs to the RLC and PDCP and runs the upper layers.
PHY worker threads call `rlc::read_pdu()` and `get_buffer_state()`, the HARQ
entities, the gNB scheduler and parts of random access at any moment. A data PDU
travels: PDCP (COUNT, discard timer) -> SDU queue of the RLC -> `read_pdu`
(window, segments, poll bit) -> MAC and HARQ -> peer's `handle_data_pdu` ->
peer's PDCP (reordering). The way back is `get_status_pdu` -> MAC ->
`handle_control_pdu`, which acknowledges or queues retransmissions and notifies
the PDCP. Timer callbacks close the loop when something is lost.

### What is hard

* Interleaving: `step_all()` gives up the mutex of the timers around every
  callback with its iterator already on the next node; a PHY thread is served
  between the expiry of t-PollRetransmit and its callback, or completes a random
  access procedure while the callback of its timer waits for the mutex; threads
  block in `push()` while the queue is taken away from them.
* Ordering and loss: HARQ loses and reorders PDUs, so data, retransmissions and
  status reports overtake each other while sequence numbers wrap; feedback of
  HARQ is lost, and one bit tells a new block from an old one.
* Several pieces of state for one fact: wheel, flags and counters of the timers;
  window, retransmission queue and segment lists of the sender; the state
  variables and windows of three receivers; the COUNT, of which the PDCP sends
  only the lower bits; the two counters of transmissions of a block.
* Liveness: the poll bit is the only thing that makes the receiver answer;
  segments and PDUs wait for timers; `stop()` waits for threads.
* Limits: full window, full queue, grants smaller than a PDU, an 8-bit range, the
  last COUNT, the wrap of slots.

### What makes each part correct

* timers: a timer is linked once, in the slot of its timeout, exactly while it
  runs; ids are not handed out twice; no expiry is missed.
* RLC AM receiver: state variables stay in order around the circular SN space,
  nothing outside the window is stored, no assertion fails in whatever order PDUs
  arrive, status reports name what is missing and nothing else.
* RLC AM sender: the window is contiguous, nothing is acknowledged that was not
  delivered, nothing accepted is forgotten, segment lists cover the sent bytes.
* an RLC bearer: every SDU handed over at most once, whole, and not after it was
  discarded; acknowledgements tell the truth (`Bearer`); with AM every SDU is
  acknowledged in the end if the channel does not lose everything.
* PDCP: both ends use the same COUNT for an SDU and none twice, delivery in order
  and once, nothing held for ever.
* task queues: first in first out, no wake-up lost, `reset()` and `stop()` return
  and leave no thread behind, every queue is served.
* HARQ: an acknowledgement belongs to the block it is applied to, blocks are not
  mixed in a softbuffer, not delivered twice and not stuck in a process.
* random access: one timer at a time, stale events ignored, every procedure
  completes or is reported.

## 2. Plan

Done: steps 1 to 9; section 6 says what was proved and what stays with TLC.

1. `Timers`, `MCTimers`, `Timers_proofs`: everything else waits on timers.
2. `RlcAmNrTypes`, `RlcAmNrStatus`, `RlcAmNrRx`, `MCRlcAmNrRx`,
   `RlcAmNrRx_proofs`: the receiver alone, against a peer that may send anything.
3. `RlcAmNrTx`, `RlcAmNr`, `MCRlcAmNr`: the sender, and the bearer composed of a
   sender, a receiver and a lossy channel.
4. `Bearer`: the abstract specification of an RLC bearer; `RlcAmNr` and `RlcUmNr`
   are shown to implement it, `PdcpNrBearer` is built on it.
5. `PdcpNr`, `PdcpNrBearer`, `MCPdcpNr`: both directions of the PDCP entity, and
   two entities with the abstract bearer between them.
6. `RlcUmNr`, `MCRlcUmNr`: the unacknowledged bearer.
7. `MultiQueue`, `MCMultiQueue`: the task queues with their threads.
8. `HarqNr`, `MCHarqNr`; `ProcRaNr`, `MCProcRaNr`, `ProcRaNr_proofs`: HARQ between
   gNB and UE, and random access of the UE.
9. `PdcpNrBearer_proofs`, `MultiQueue_proofs`, `RlcUmNr_proofs`, `HarqNr_proofs`,
   `RlcAmNr_proofs`: the safety properties of PDCP, of the task queues, of HARQ and
   of the UM and AM bearers with their refinements of `Bearer`, and those
   of the timers, the AM receiver and random access that steps 1, 2 and 8 left to
   TLC. Still to do, proofs: the AM bearer with SDUs that are cut into segments.
10. Still to do, models: RLC AM LTE against the same `Bearer`, GTP-U tunnels
    during handover, the RRC procedures that start random access.

## 3. Modules

### Timers

`Timers` models `timer_handler` and `unique_timer`. A timer is a record of its
duration, timeout, flag and callback; the 2-bit flag packed into the timeout in
the code is a field. The wheel and the free list are sequences. Each public
operation is a critical section of the code and one action. `step_all()` is
five actions: entry (`step_begin`), one turn of its loop (`step_scan`), the end
of a callback (`callback_return`, after `deferred_deallocate` for the lambda of
`defer_callback`), and the increment of the clock (`step_end`). While `pc` is
`"callback"` or `"deferred"` the mutex is free and callers act: they are the
callback itself and the other threads. `next_node` is the pointer the iterator
follows, cleared when its node has been unlinked.

`Uses` names three delicate things callers may do: touch the timer the iterator
is on inside the window, start a timer of one tick there, run a timer whose
duration was never set. `TimersConsistent` is proved for any `Uses`. The timing
properties are about callers that avoid them (`Uses = {}` in the run); section 5
says what the first two lead to.

### RLC AM NR

`RlcAmNrTypes` has sequence numbers (all arithmetic is modulo `mod_nr`, as in
the code) and the two kinds of PDU. A data PDU carries its header fields, its
length and the identity of the SDU its bytes come from; all SDUs have the same
length `N_bytes`. Packing of headers into bits is left out; header sizes are
kept because grants are compared with them.

`RlcAmNrStatus` models STATUS PDUs: `push_nack` with its merging of adjacent
NACKs into ranges, sizes, `trim`, what unpacking changes, and the expansion of
ranges at the sender.

`RlcAmNrRx` is the receiver: `handle_data_pdu` (window and duplicate checks,
storing, reassembly, the three state variables, stopping and starting
t-Reassembly), `build_status_pdu` (`get_status_pdu` as called from the
transmitter of the same entity), the two timers and re-establishment. A failed
`isrran_assert` ends the process; here it sets `rx_abort`, after which nothing
happens. `OutOfBuffers` names the ends at which `make_byte_buffer()` may fail. At the
receiver (`handle_data_pdu_no_buffer`) the handler then returns before the state
variables move, with the SDU removed or left in the window without the PDU, even
empty; the ghost `sdu_removed` says that an SDU was taken away. At the sender
(`build_new_pdu_no_buffer`) the SDU is lost, which the model counts as discarded, and
the window keeps an entry with a null pointer at TX_Next.

`RlcAmNrTx` is the sender: `read_pdu` in its order (retransmission, SDU under
segmentation, new SDU), every builder with its segment list, `get_pdu_poll`,
`handle_control_pdu`, the expiry of t-PollRetransmit and, as a separate step, its
callback. Unsigned lengths wrap modulo `LenMod`. `handle_control_pdu` and the
callback run on the stack thread, so a status report is not handled while the
callback is pending; `read_pdu` is.

`RlcAmNr` composes one sender, one receiver and two channels. A channel is a
sequence; PDUs are lost from anywhere in it and, for the channels in
`Reordered`, received from anywhere.

### The abstract bearer

`Bearer` is what the PDCP relies on: an SDU is taken, then given up or handed to
the peer once, and acknowledged only after that. It has no windows, sequence
numbers, channels or timers. `RlcAmNr` and `RlcUmNr` implement it
(`ImplementsBearer`; UM with `acked <- {}`), so every interleaving of
segmentation, retransmission, discard and loss looks from above like these four
steps. `PdcpNrBearer` then has `Bearer` in place of a detailed RLC.

### PDCP NR

`PdcpNr` models `pdcp_entity_nr`. A COUNT is a number below `SnMod * HfnMod`; a
PDU carries only its SN, and the receiver works out the rest as the code does,
by comparison with RX_DELIV and the window. Ciphering and integrity are modelled
by what matters here: deciphering under another COUNT gives `Corrupt`, and a
failed check is reported and drops the PDU. `write_sdu`, `write_pdu`,
`notify_delivery`, `discard_callback` and `reordering_callback` are whole
handlers, because PDCP runs on the stack thread only. `upper` is what the last
call passed up.

`PdcpNrBearer` puts a sender and the receiver of its peer at the two ends of the
abstract bearer, in AM and UM. Nothing in `write_sdu` keeps the sender from getting
half the SN space ahead of what is still to come, and nothing does in the model:
the history variable `out_of_reach` notes the first SDU for which it has. What both
ends say of COUNTs is about the time before (section 5); the state of the entity and
the order of delivery do not depend on it.

### RLC UM NR

`RlcUmNr` has both ends and the channel in one module. `build_data_pdu` is two
actions, `Opportunity` (the check under the mutex in
`rlc_um_base.cc:329-345`) and `Build`, with other calls between them; a call
that goes on to read an empty queue takes the action `Blocks` instead and stays
there, as the code does. Reassembly keeps segments by their offset and joins them in the order
`handle_rx_buffer_update` does. `affected` and `in_order` are history variables
that say which SDUs the channel has damaged. The received SDUs are a `std::map`
ordered by the plain value of the SN; `map_in_order` says that this order was the
order of the window whenever RX_Next_Reassembly was moved by searching the map
(section 5 has the case in which it was not). The sender goes on whenever the MAC has
room for a PDU (`MaxInFlight`). UM has no acknowledgements, so nothing tells it that half
the SN space went unheard or that a segment as old is still in flight: `sns_apart` notes
whether it has ever used an SN again that early.

### Task queues

`MultiQueue` models `multiqueue_handler` with one action per critical section:
a thread that waits on a condition variable is `"blocked"`, becomes `"woken"`
when notified, and still has to take the mutex; a notification sent after the
unlock is a step of its own; `try_to_lock` of the consumer may fail
(`Collide`, at most `MaxCollisions` times in one search); a wake-up may be
spurious. The circular buffers have their indices, and `fifo` holds what they
should contain. One thread owns the handles, as in `task_scheduler`'s users.
`queue_handle::reset` deactivates a queue twice, the second time from `recycle_op`.

### HARQ NR

`HarqNr` models one direction of one UE: the gNB's `harq_proc` with
`new_tx`, `new_retx`, `ack_info` and `new_slot`, the event queue of `sched_nr`,
the PHY workers that decode uplink slots in any order, and the UE's
`new_grant_dl`, `tb_decoded` and `new_grant_ul` with their early returns. DCIs
and PUCCHs are lost and blocks fail their CRC. `soft` is the set of blocks whose
bits have been combined in a softbuffer: two of them there mean garbage. Names
of blocks are reused when no process, grant, event or buffer refers to them.
`EndsAgree` names what keeps the two ends together and neither of them checks:
the UE does not miss every DCI of a block, it keeps a block as long as the gNB
asks for it, and it finds a buffer for a new block. The run evaluates it for its
constants, and section 5 says what happens without each part.

### Random access

`ProcRaNr` models `proc_ra_nr` and its callers in `mac_nr`. A PHY thread completes
the procedure with the mutex; the stack thread starts one, resets it and runs the
task of `prach_sent` without. So both threads have a `pc`, and all they do
without excluding each other is one step per access to what they share: the
timers, then the state (`RunPrachTimer`, `SetPrach`, `SetRar`); the state, the
starter, the timers (`SetCompletion` to `ResetTimers`). Two neighbouring accesses
are one step where nothing the other thread does in between can tell: the check of
the state in `start_by_mac` and the starter (a PHY thread that clears the starter
between them has set the state to IDLE, so the check could as well come after it), the
checks of
`ra_contention_resolution` with the stop of the contention timer, and the fields and
the three timers that `reset()` clears last. A timer's expiry and its callback taking
the mutex are two steps. A PHY thread checks the state first and pushes its
task, or calls `received_contention_resolution`, later (`held`, `"called"`): the
state may have moved on. `is_rar_opportunity` looks at the response window when the
search begins and `tb_decoded` does not look again, so the end of the window does not
appear. The `age` of a task says for which state it was made; ghosts record what
led to the exceptional cases of section 5. The queue bound is `MaxTasks`.

### Fairness

* `Timers`: weak fairness of `step_all`. The stack thread calls it every TTI and
  callbacks return.
* `RlcAmNr`: weak fairness of grants while `get_buffer_state()` is not zero (what
  the MAC schedules on; nothing forces a grant when it is zero), of grants for a
  status report, and of each timer and its callback. Strong fairness of reception
  on each channel: PDUs may be lost any number of times, but a channel that is
  used again and again does not lose every PDU, which is what HARQ is for. No
  fairness for the upper layer, for losses, discards and re-establishment.
* `PdcpNrBearer`: weak fairness of `Reordering`; a running timer with a duration
  expires. None for the bearer, which may stop delivering.
* `RlcUmNr`: weak fairness of `Expire` and of the second half of a call of the MAC.
* `MultiQueue`: every thread inside a call goes on (weak), and gets a contended
  mutex in the end (strong, for `EnterWaitPop` and `RetakeMutex`). `PopFrom(q)` is
  strongly fair: `try_to_lock` does not fail at a queue every time. Nobody has to
  push, stop or reset.
* `HarqNr`: slots go on at UE, workers and scheduler (weak); a retransmission that
  is possible again and again is scheduled (strong; the scheduler serves
  retransmissions before new data); `work_ul()` does not fail in every slot for
  ever, because without it no feedback is processed at all.
* `ProcRaNr`: the stack thread runs tasks and callbacks and finishes what it has
  begun, so does a PHY thread inside the procedure, and timers expire. None for the
  PHY sending a preamble or anything arriving.

## 4. What the passing runs show, and their bounds

| Run | Instance | Shows |
|---|---|---|
| `timers` | 2 timers (the second grows the deque), 2 slots, 4 ticks, `Uses = {}` | wheel, counter, free list and timers agree after any interleaving of callers with a scan (`TimersConsistent`); for callers that leave the timer under the iterator alone (`Uses = {}`), `time_elapsed() <= duration()` and no timer runs for ever |
| `receiver` | window 3, SDUs of 3 bytes whole or cut in two anywhere (`NoPduEncloses` is evaluated for them), any order and repetition, with and without a buffer, status grants of 3, 5, 8, 9 and 11 bytes, `nack_range` of 3 values | order of the state variables and no failed assertion but the one after a failed allocation (`RxConsistent`); stored segments do not overlap; reports, merged, trimmed, packed and expanded, name the missing bytes, all but those of `unsaid_sns` (section 5) and no others |
| `whole` | window 2, SN space 4, 5 SDUs, 2 PDUs in flight each way, discards, no buffer at the receiver | `BearerConsistent`: contiguous window, agreement of both windows, no SDU forgotten, exactly-once delivery, truthful acknowledgements, no failed assertion; the pair implements `Bearer` |
| `segments` | window 3, 2 SDUs of 2 bytes, grants that cut them, discards, re-establishment, no buffer at the sender | the same with segments |
| `resegment` | 1 SDU of 3 bytes, 2 PDUs in flight, grants that cut after one or two bytes | segment lists cover the sent bytes under repeated cutting, and the SDU is delivered once; with a second SDU the lists go wrong (section 5) |
| `live` | 2 whole SDUs, 1 PDU in flight each way, any losses | the first is acknowledged in the end, and the sender comes to rest |
| `pdcp` | SN space 8, 2 HFNs, start at COUNT 7, AM (6 SDUs) and UM, t-Reordering finite, zero and infinite; writes end with the SDU that takes the sender out of reach | delivery in order, once, nothing held for ever, state and timers agree; until the sender is half the SN space ahead both ends agree on every COUNT, over the wrap of the SN and up to the last one, and nothing is lost inside |
| `um` | window 4, SN space 8, start at SN 6, 3 SDUs of 5 bytes, grants of 3, 5 and 8, 2 PDUs in flight, reordered and lost, re-establishment | what is held is in the window and has its timer, SDUs arrive whole and once, none is dropped without a cause, segments do not wait for ever, the pair implements `Bearer` |
| `queues` | 2 pushers, queues of 2 and 1 places, reset, reuse and stop | messages in order, no wake-up lost, no thread left in `push()`, `reset()` and `stop()` return, every queue is served |
| `harq` | 1 process in either direction, 1 retransmission, 7 slots, 2 workers, 1 missed DCI in a row | acknowledgements are for the block they are applied to, blocks are not combined or delivered twice, none stays in a process for ever |
| `ra` | 2 preambles, 2 queued tasks | with the stack thread and a PHY thread interleaved at every access: once both are out of the procedure only the timer of its state runs, and it has a starter unless a late `reset()` cleared it; stale tasks are ignored unless their push was late too; every procedure completes or is reported unless its timer was lost (section 5) |

Why the bounds are enough.

* Timers: the wheel has fewer slots than there are ticks, so timers of different
  turns share a slot and the clock wraps; two timers are what it takes for one to
  be scanned while the other is touched.
* RLC AM: a window of two with an SN space of four is the smallest in which a
  retransmission can be mistaken for a new SDU, and five SDUs make the sequence
  numbers wrap. SDUs of three bytes have a first, a middle and a last segment,
  and a gap in the middle. `TxQueueLength` is reached. `segments` keeps the
  window from filling (three SNs for two SDUs). `MaxInFlight` bounds
  the channels; `LenMod` stands for 2^32 and is not reached. `NackRangeMod` stands for
  2^8; the run `receiver` reaches it, those of the bearer do not. `OutOfBuffers` is
  empty in `resegment`, `live` and `late_status`: nothing makes a pool of buffers
  recover, so liveness is stated for one that does not run out.
* PDCP: the SN wraps, both HFNs occur, and the COUNT ends within reach. The first SDU
  out of reach is written and received; `MCNext` leaves out only the writes after it.
  With 4 SNs and 3 HFNs the run of the whole `Spec`, in which the sender goes on to
  the last COUNT whatever arrives, passes as well. `CountsAgree` without `out_of_reach`
  fails with the fifth SDU ahead, so the condition is tight. In AM six SDUs take the
  sender out of reach.
* UM: 5 bytes are three PDUs at the smallest grant. The three SDUs have the SNs 6, 7
  and 0, so the window of four holds all of them on both sides of the wrap, and none
  comes round: `sns_apart` stays true. With a window of 2, in which the sender does use
  an SN again too early, and with one of 3, the properties hold as well.
* Queues: a queue of one place is always full or empty, one of two makes the
  indices wrap; two pushers may block at the same queue or at different ones.
* HARQ: three names of blocks are enough for one in the process, one in the
  softbuffer and one in feedback; the slot counter wraps many times;
  `max_harq_tx = MaxRetx + 1` as in the code (5 and 4). More processes and
  transmissions are covered by the theorems of section 6.
* RA: with two preambles a procedure goes through its steps twice and fails; two
  tasks can be a stale one before a fresh one, or of two different steps.

A bearer with finitely many SDUs, a COUNT that has run out and stopped queues
come to rest, and a failed assertion ends the process in the run `receiver`, so those runs
switch the deadlock check off. Those of the timers, HARQ and random access do not.

## 5. Where the code departs from what is expected

The run `late_status` is expected to end in a violation: a status report between
the expiry of t-PollRetransmit and the retransmission removes the retransmission
and with it the poll, and a later SDU is stuck (`SdusAcknowledged`, under all the
fairness of section 3). `PROJECT.json`, "findings", quotes the comment it
contradicts.

The models show more of this kind, in instances that differ from the runs as
stated, or by reading; the properties of section 4 leave these cases out where
they say so.

Timers:

* `Uses = {"start_short"}`, 6 ticks, durations 1, 3 and 5: a timer of one tick
  started from a callback lands in the slot already scanned and is due a whole turn
  of the clock later (`ElapsedWithinDuration` fails).
* `Uses = {"touch_next"}`: a timer stopped inside the window around another callback
  of the same tick is called all the same, because `step_all()` compares only its
  timeout (`timers.h:258`; line 146 says of `stop()` "does not call callback"). Nothing
  keeps callers from it, so no property demands the opposite. The iterator then has no
  next timer, and the rest of the slot is skipped (with 3 timers `ElapsedWithinDuration`
  fails).

RLC AM NR:

* `Reordered = {"status"}`, SN space 8, window 4, 4 SDUs of 1 byte, 2 in flight: a
  report overtaken by a newer one acknowledges SDUs that were NACKed
  (`AckedWereDelivered` fails).
* `StatusProhibitSet = FALSE`, 1 SDU: with t-StatusProhibit of 0 ms the timer is run
  without a duration and blocks status reports for 2^32 ticks
  (`SdusAcknowledged` fails).
* A peer that sends any PDU, with SDUs of 3 bytes: a segment that sticks out on
  both sides of a stored one is kept (`SegmentsDisjoint` fails;
  `rlc_am_nr.cc:1479`), and the next status report may fail the assertion on the order
  of the missing bytes and end the process (`RxAssertionsHold` fails;
  `rlc_am_nr.cc:1774`). `RxConsistent` is about peers that send no such segment;
  the other assertions hold against any (`StateAssertionsHold`).
* As many consecutive missing SDUs as `nack_range` has values (256 in the code) give a
  range of 0, of which the peer gets no SN (`rlc_am_nr_packing.cc:65`), and the SNs of a
  range are not taken modulo the SN space when it is expanded (`rlc_am_nr.cc:864`): those
  beyond the wrap are not in the window and are not retransmitted for this report.
  `unsaid_sns` is the set of them; `StatusExact` and `TrimmedStatusSound` fail without it.
* A failed allocation at the receiver: when the buffer to put the segments together in
  is missing, the SDU is removed although RX_Next_Highest has counted it
  (`rlc_am_nr.cc:1700`); if it was the only one before the trigger of t-Reassembly, the
  next PDU makes the handler read an SDU at RX_Next that is not there, and the assertion
  of the window ends the process (`rlc_am_nr.cc:1594`; ghost `sdu_removed`).
* A failed allocation at the sender: the SDU has been read from the queue and is lost,
  and the entry of the window at TX_Next has a null pointer until the next SDU
  (`rlc_am_nr.cc:213`; line 209 says "from now on, we can't return from this function
  anymore before increasing tx_next"). A NACK or the callback of t-PollRetransmit that
  meets the entry would follow the pointer; the model goes on with an entry that
  stands for no SDU (`Corrupt`), so what happens after such an access is not covered.
* `trim()` compares only the first SN of a NACK with the new ACK_SN, so a NACK
  range may cover the ACK_SN of its own report (`rlc_am_nr_packing.cc:142`).
  `TrimmedStatusSound` allows for it: the peer stops at the first NACK.
* `SdusAcknowledged` with grants that cut SDUs: t-PollRetransmit resends only the
  first segment, so if the last one of the newest SDU was lost nothing asks for it
  (`rlc_am_nr.cc:1288`). With discards: a null entry left by `discard_sdu()` keeps
  the queue "not empty" when the last PDU goes out, without a poll
  (`rlc_am_base.cc:281`).
* `SegmentListsTile` with a full window and cut SDUs: t-PollRetransmit queues an SDU
  twice, and cutting both entries appends to a list that covers the bytes
  (`rlc_am_nr.cc:1278`). In the instance of the run `segments` with SDUs of 3 bytes it
  fails as well, through the reference to a popped queue entry (`rlc_am_nr.cc:454-461`) and
  a stale retransmission, of which `remove_sn()` removes only the first
  (`rlc_am_data_structs.h:527`).
* The NR sender stays disabled after re-establishment (`rlc_am_nr.cc:1201`),
  although `rlc_am_base.cc:128` says "calls stop and enables tx again".

RLC UM NR and the SDU queue:

* `sn_bytes = 2`, SDUs of 6 bytes, grants of 5, 6 and 8: `DeliveredWhole` fails. The
  header lengths are computed for the 6-bit SN whatever is configured
  (`rlc_um_nr.cc:124-130`), so a segment that does not fit is sent as the last one
  (`rlc_um_nr.cc:175`), although `rlc_um_nr.h:82` says they "are computed
  during configure based on SN length". The run uses the 6-bit SN.
* In the run `um`, `NextReassemblyEarliest` fails. With SDUs held at 6, 7 and 0 of 8
  and the one at RX_Next_Reassembly = 6 complete, the loop over the map
  (`rlc_um_nr.cc:468-473`; likewise 497-505) meets 0 before 7 and moves
  RX_Next_Reassembly past 7. The segments of 7 still to come are discarded as too
  old, and those held may stay without t-Reassembly until an SDU far enough ahead
  moves the window, although `rlc_um_nr.h:110` says "the earliest SN that is still
  considered for reassembly". `ReceiverConsistent` and `HeldSegmentsReleased` leave
  out what follows such a search (`map_in_order`).
* A re-establishment between the check in `rlc_um_base.cc:329-345` and the blocking
  `read()` empties the queue and leaves the MAC's thread blocked with the mutex of
  the sender (`Blocks`).
* `DeliveredWhole` without `sns_apart`, with a window of 1: segments of two SDUs that
  share an SN are joined when a segment stays in flight, or every PDU is lost, for a round
  of the SNs (64 SDUs with the 6-bit SN); after half a round new SDUs are already taken
  for old ones. The sender has no means to see it.
* A grant too small for a first segment leaves the SDU marked as under way, and what
  follows is built as a later segment (`rlc_um_nr.cc:159-182`). The MAC never asks for
  less than `MIN_RLC_PDU_LEN` (`mux_nr.h:74`) less its subheader, so `Grants` starts
  at 3.
* The lambda of `discard_sdu()` returns false whatever it did, and a full queue is
  not searched (`circular_buffer.h:218-226`).

PDCP NR:

* `CountsAgree` fails as soon as the sender is half the SN space ahead of a PDU that
  arrives or of RX_DELIV: the receiver takes it for one of the HFN before or after
  (`pdcp_entity_nr.cc:223-229`), deciphers it with another COUNT and delivers what comes
  out when there is no integrity protection. `write_sdu` (lines 103-183) does not look
  at what is outstanding. The window of RLC AM bounds what is in flight but not a
  receiver that waits with t-Reordering infinite for an SDU that was discarded; in UM
  losses alone are enough.

HARQ:

* `MaxMissed = MaxRetx + 1` breaks `AcksTrue`: when a UE misses every DCI of a block,
  the NDI of the next one has toggled twice and looks like that of the block before.
* `max_harq_tx < MaxRetx + 1` breaks `CombinesOneBlock`; the code's constants satisfy
  the relation, but nothing states it.
* `FailsAt` with `"new"` breaks `AcksTrue`: a UE that returns early from a new grant
  for want of a buffer has stored its NDI but keeps `acked` of the block before,
  takes the retransmission for a duplicate and acknowledges what it never decoded
  (`dl_harq_nr.cc:199-237`, `cc_worker.cc:263-278`).
* A process that is not scheduled for half the range of slots (5120) looks as if its
  feedback were still to come, and `ack_info()` does not check the slot of what it
  is given.
* A retransmission builds a PDU again and takes MAC control elements out of their
  queue (`sched_nr_grant_allocator.cc:405`; `mac_nr.cc:513` has "TODO: exclude retx
  from packing"). `set_config` of `dl_harq_nr` with fewer processes has the bounds
  of its loop swapped and clears none (`dl_harq_nr.cc:64`), and the UE drops UCI when the MAC gives no PDU
  (`cc_worker.cc:626`).

Random access:

* A late `prach_sent` of an earlier preamble opens a window for the wrong one (ghost
  `misled`).
* `StaleTasksIgnored` does not hold for a task that a PHY thread pushed late: between the
  check of the state (`mac_nr.cc:203`, 348, 384) and the push the state may move on
  and, two steps later, be the same again (age `"slow"`).
* A completion that overtakes the callback of a timer: `ra_error` does
  not look at the state and starts a preamble for a procedure nobody has started
  (ghost `overtaken`).
* The same without a timer: a PHY thread in `reset()` has set the state to IDLE
  (`proc_ra_nr.cc:389`), `start_by_mac` starts a procedure on the stack thread, and the
  PHY thread goes on to clear its starter (line 390, ghost `overtaken`) and to stop its
  timer (392-394, ghost `disarmed`). `StartedBySomeone` fails without the first ghost,
  `RaReported` without the second: if the PHY does not send the preamble, nothing
  continues the procedure.
* A response that cannot be unpacked stops the timer and returns; the procedure stays
  where it is (ghost `malformed`).
* A procedure that has used up its preambles goes on until it is reset, and may report
  the problem up to three times; `RaReported` asks for one report. One the RRC started is
  never reset
  (`rrc_nr.cc:2316-2323`, "TODO: handle RA problem").
* Contention resolution completes for a starter even when the identities differ, and
  the back-off is always 0 because a RAPID and a BI never share a subheader
  (`mac_rar_pdu_nr.cc:135-157`), so the back-off timer never runs.

## 6. What is proved

Each proof module is checked by TLAPS (SMT, Zenon and, for the temporal steps,
LS4). The theorems use only the named assumptions on constants
(`TimersAssumption`, `TypesAssumption`, `RxAssumption`, `TxAssumption`,
`BearerAssumption`, `RaAssumption`, `PdcpAssumption`, `QueueAssumption`,
`UmAssumption`, `HarqAssumption`), which TLC evaluates in every run of the module, and what a theorem states as a hypothesis.
They hold for every value of the constants: numbers of timers, slots, threads,
queues, HARQ processes, preambles, SDUs, lengths and window sizes. Each inductive invariant was
first checked by TLC as an invariant of the run of its module.

| Theorem | Property of a run | Inductive invariant |
|---|---|---|
| `Timers_proofs!TimersCorrect` | `TimersConsistent` | `IInv` |
| `Timers_proofs!NoExpiryMissed` | `ElapsedWithinDuration`, for `Uses = {}` | `ExpiryInv` |
| `RlcAmNrRx_proofs!RxCorrect` | `RxConsistent`, given `NoPduEncloses` | `RxInv`, `SegmInv` |
| `RlcAmNrRx_proofs!SegmentsStayApart` | `SegmentsDisjoint`, given `NoPduEncloses` | `SegmInv` |
| `RlcAmNr_proofs!BearerAlwaysConsistent` | `BearerConsistent`, given `WholeGrants`, `ChannelsInOrder`, `SenderHasBuffers` | `AmInv` |
| `RlcAmNr_proofs!DeliveredExactlyOnce` | `ExactlyOnce`, given the same | `AmInv` |
| `RlcAmNr_proofs!BearerImplemented` | `ImplementsBearer`, given the same | `AmInv` |
| `RlcUmNr_proofs!ReceiverKept` | `ReceiverConsistent` | `UmInv` |
| `RlcUmNr_proofs!WholeAndOnce` | `DeliveredWhole`, given `ShortSn` | `WholeInv` |
| `RlcUmNr_proofs!BearerImplemented` | `ImplementsBearer`, given `ShortSn` | `WholeInv` |
| `RlcUmNr_proofs!NoneDropped` | `NothingDropped`, given `ShortSn` | `KeptInv` |
| `PdcpNrBearer_proofs!OneCountPerSdu` | `CountsUnique` | `PInv` |
| `PdcpNrBearer_proofs!EntityKept` | `EntityConsistent` | `PInv` |
| `PdcpNrBearer_proofs!InOrder` | `DeliveredInOrder` | `PInv` |
| `PdcpNrBearer_proofs!AllKept` | `NothingLost` | `PInv` |
| `MultiQueue_proofs!QueuesKept` | `QueuesConsistent` | `QInv` |
| `MultiQueue_proofs!WakeUpsNotLost` | `NoLostWakeUp` | `QInv` |
| `MultiQueue_proofs!PushersNotLeftBehind` | `NoPusherLeftBehind` | `QInv` |
| `HarqNr_proofs!AcksForTheirBlock` | `AcksTrue`, given `EndsAgree` | `HInv` |
| `HarqNr_proofs!BlocksKeptApart` | `BlocksApart`, given `EndsAgree` | `HInv` |
| `HarqNr_proofs!OnceDelivered` | `DeliveredOnce`, given `EndsAgree` | `HInv` |
| `ProcRaNr_proofs!RaCorrect` | `RaConsistent`, with its case `overtaken` | `RaInv` |
| `ProcRaNr_proofs!RangesKept` | `TypeOK` | `FullInv` |
| `ProcRaNr_proofs!StaleTasksNotTaken` | `StaleTasksIgnored`, but for `misled` and late pushes | `FullInv` |

**Timers.** `TimersCorrect` holds for any `Uses`; `TypeCorrect`, `WheelCorrect`,
`RunningCountCorrect`, `FreeListCorrect` and `DeferredCorrect` are its parts. The
inductive invariant `IInv` is their conjunction, regrouped by wheel, free list
and step in progress. It is inductive only as a whole: that a freed timer is not
in the wheel needs the free list, that a deferred timer is not freed twice needs
its privacy, and that the counter does not underflow needs the wheel. The proof
has a lemma for `pop` and `push_front` on sequences without duplicates, one for
each of the helpers (`start_run`, `stop_timer`, `alloc_timer`, `dealloc_timer`),
and one per action. For the timing, `ExpiryInv` adds that a running timer has at
least one tick left and at most its duration (`RemainingInv`), and that a timer
that is due in the tick being scanned lies at or behind the iterator in its slot
(`ScanInv`): the second is what makes the first survive the increment of the
clock. Both need `Uses = {}`; section 5 has the counterexamples without it.

**AM receiver.** `RxTypeCorrect`, `RxOrderCorrect`, `TriggerCorrect` and
`StateAssertions` hold against any peer; `RxCorrect` adds the assertion of
`get_status_pdu()` on the order of the missing bytes, which takes a peer none of whose
segments encloses another. Allocations may fail in all of them. `RxStateOrdered` and
`ReassemblyTriggerValid` are not inductive: starting t-Reassembly sets the trigger
to RX_Next_Highest, and the assertion on the SDU at RX_Next then relies on the SDU
before the trigger being stored. `HighestPresent` adds that the SDU before
RX_Next_Highest is stored unless the window is empty, or a failed allocation took an
SDU away. The argument works with
distances from RX_Next: `ModBase` and `Neighbours` replace the modulo operator by a
case distinction, `Rebase` moves distances to a new RX_Next, and `FirstNotReceived`
says where the loops over the window end (the minimum exists because the order of
the naturals is well founded). `SegmentsStayApart` adds that stored segments are
PDUs of their SN (`SegmentsReceived`): then the check of the first and the last
byte, which is all the code makes, is enough if no PDU of the peer encloses
another (`NoPduEncloses`, evaluated by TLC for the peer of the run).

**AM bearer.** The theorems are about both ends of `rlc_am_nr` with two channels that
lose anything and keep the order of the rest (`ChannelsInOrder`: one HARQ process,
or a MAC that delivers in sequence), and a MAC whose grants hold a whole SDU with its
header (`WholeGrants`, as in the run `whole`); status grants are of any size. The
sender finds a buffer for every SDU (`SenderHasBuffers`; the run `segments` is without
it), the receiver need not.
Discards, retransmissions, every expiry and callback, `max_retx` and
re-establishment are all in. The first hypothesis is needed: section 5 has the
counterexample with overtaken reports. The second leaves out segments of the sender,
where section 5 has defects; the runs `segments` and `resegment` check them.

`AmInv` relates five views of the same sequence numbers. `WindowOK` says that the
sender's window is the interval from TX_Next_Ack to TX_Next, no larger than
AM_Window_Size. `SdusOK` says where an SDU is: in the queue, then in the window,
delivered from there, then notified. `ReceiverOK` is the receiver's own invariant.
`DataOK`, `LinkOK` and `ReportsOK` are about what is in flight, which is where the
difficulty lies: the SN space is twice the window, so an old PDU may carry an SN in
use again. `place(sn)` is the position of an SN in the 2 * AM_Window_Size numbers
that begin AM_Window_Size before RX_Next. The invariant says that a PDU in flight is
at most AM_Window_Size behind RX_Next_Highest and not at or after TX_Next, that it is
less than AM_Window_Size behind any PDU sent before it, and that it has an SDU not
yet delivered unless the receiver has its SN. So when the receiver moves RX_Next,
every place moves with it and no PDU becomes one of the next round of the SNs. `ReportsOK` says that the first missing SN of a report
is at most RX_Next and that reports are sent in the order of it, so the ACK loop of
`handle_control_pdu` removes only what was delivered. TLC checked the conjuncts on
the instance of the run `whole` (458819 states), with a window of 1 and
re-establishment, and with 3 PDUs in flight, small status grants and
re-establishment. The proof has a lemma per action; the long ones are
`ReceiveDataAccepted` (a new SDU arrives), `ReceiveStatusHandled` (ACK loop, NACK
loop, retransmission counters), `FullStatus` and `TrimmedReport` (what a report
says), `RetxPreserves` and `NewPduPreserves`. What a fold returns is proved by
induction over the length of its sequence: the lemma `Induction` of
`RlcAmNrRx_proofs` states induction for a *set* of numbers, which needs no operator
as a parameter, and `IterExists`, `PushSteps` and `FlattenSteps` unfold `FoldLeft`.
`BearerImplemented` maps every step to one of `Bearer` through `PdcpStep`, which says
what a step does to the four variables the PDCPs see.

**UM receiver.** `UmInv` has the ranges of both ends (the receiver relies on the
lengths the sender puts in PDUs), and, while `map_in_order` holds, that everything
held is in the reassembly window, at or after RX_Next_Reassembly, with t-Reassembly
running. The lemmas on `base` (distances from the lower edge of the window) carry
the argument through the four ways the window moves: completion at
RX_Next_Reassembly, an SDU above RX_Next_Highest, expiry and re-establishment. The
attempt to prove it without `map_in_order` is what showed the defect of section 5.

`WholeInv` is about SDUs: all of one is delivered, once, and never with bytes of
another. `ShortSn` is the 6-bit SN; with the 12-bit one the sender leaves the SO of a
segment out and the property is false (section 5). UM has no acknowledgements, so all
there is against an SN that comes round again is its age. `AgesOK` bounds by
UM_Window_Size how far the SNs in flight and RX_Next_Highest are behind TX_Next; it
holds as long as `sns_apart` does, that is until the sender is asked for a PDU while one
stays in flight for half the SN space or all PDUs of half of it were lost in a row. The
sender does not look, so this is a hypothesis of the properties and no guard of the
model. Up to then `NumbersOK` is inductive: every SDU that is being sent, in flight or held has one SN
and no other SDU has it, so the segments in an entry of `rx_window` are of one SDU.
`HeadsOK` says that the first byte of an SDU is in one place: in flight, waiting in an
entry or joined there, or delivered. Hence at most one delivery, because the loop of
`handle_rx_buffer_update` starts with SO 0 (`Joining`). None of this needs an order of
the channel or `map_in_order`: the defect of section 5 drops segments, it does not mix
them. `QueueOK` keeps a discarded SDU, whose place in the queue is empty, from being
sent. `BearerImplemented` maps each step up to then to one of `Bearer`
(`PromisedStep`), and has as a second part that a behaviour in which `sns_apart` stays
true implements `Bearer` altogether.

`NothingDropped` needs the order that `WholeInv` does without. An SDU is kept (`Kept`)
while it is live and neither the MAC nor t-Reassembly has dropped a segment of it.
`KeptInv` says, as long as no PDU has overtaken another: the segments in flight have
the SN of the newest SDU received from or later ones, in the order of their ages
(`PdusInOrder`); of a kept SDU the receiver holds only what it has joined, in the
entry just below RX_Next_Highest, with more to come (`NewestHeld`); and what is held,
in flight and left to send of it follow on one another without a gap (`Tiles`). So the
segment at the head of the channel always goes on where `next_expected_so` stands, the
last one completes the SDU (`KeptJoined`), and a move of the window only drops the
entries of SDUs that are no longer kept. Two more parts are needed whatever the
order: only the last segment has the last byte (`CutShort`), and RX_Next_Reassembly and
a trigger that matters do not pass RX_Next_Highest, and are not there while the newest
SDU waits (`LowerEdge`); without it the next segment of a kept SDU could be refused as
too old, at once or after an expiry sets RX_Next_Reassembly to the trigger.
`KeptInv` is inductive together with `WholeInv` and `UmInv`, which say that two kept
SDUs never share an SN and bound the ages of the SNs in use.

**PDCP.** `PInv` relates three views of the same COUNTs: the sender's TX_NEXT, the
bearer's bookkeeping (`BearerInv`) and the receiver's variables and queue
(`ReceiverInv`). Its heart is `LinkedInv`, which holds until `out_of_reach`: TX_NEXT is at
most half the SN space beyond anything that may still arrive, so the received SN lies
within half the SN space of RX_DELIV and the HFN that `write_pdu` works out is the
sender's (`CountsAgree`). `OneCountPerSdu` and `AllKept` need it; the other parts of
`PInv`, and with them `EntityKept` and `InOrder`, hold whatever COUNT the receiver takes a
PDU for. `WindowTimed` keeps t-Reordering running while something is
held back. `InOrder` and `AllKept` are action properties; they are proved in the
same pass over the actions as `PInv`, as `InOrderStep` and `KeepsAllStep`.

**Task queues.** `QInv` consists of the buffers (`BuffersOK`: the slots from the read
index on hold `fifo`), the ranges of the handler, the count of waiting threads
(`WaitersOK`), how far `reset()` or `stop()` has got (`OwnerOK`), and the two
properties themselves. `NoLostWakeUp` compares numbers of threads, so the lemmas
are about cardinalities of sets of threads that change by one thread in a step;
they need `IsFiniteSet(Pushers)`. `NoPusherLeftBehind` needs `OwnerOK`: the queues
that `stop()` has passed in its first loop stay inactive, and those it has passed in
its second are empty of threads.

**HARQ.** `HInv` says of the slots that every grant under way waits for one of its
own, after the slot the scheduler is called for, which no worker has processed yet
(`SlotsOK`). Hence a process with a grant under way is not due for a
retransmission: `NotDue` is the step that carries `has_pending_retx` over the wrap
of the slot counter, and it is where the bound on `TxDelay + K` is needed. Of each
process it says that grants and events are for the block it holds (`Owned`) and how
the two ends compare (`DlOK`, `UlOK`). The heart is `InStep`: while the UE has not
heard of the block, the gNB has sent it no more often than DCIs were missed, plus the
one about to be heard. When `clear_if_maxretx` gives a block up, `MaxMissed <=
MaxRetx` then means that the UE has heard of it, so the NDI of the next block is new
to the UE. In the uplink the UE has sent the block at most as often as the gNB has
asked for it, so with `MaxRetx < max_harq_tx` it is not discarded before the gNB is
done. The conditions are predicates of the values of one process; the lemmas about
an operation are about these values, and a frame lemma per actor (`UeFrame`,
`WorkerFrame`, `GrantFrame`) carries them to the state, for any number of processes.

**Random access.** `RaCorrect` has the parts `TimersCorrect` and `StarterCorrect`, both
about the moments at which no thread is inside the procedure. `RaInv` says what holds in
between: `PcInv` has the steps a thread can be at, `TimersInv` says which timers may run at each
step of the stack thread unless the PHY thread has overwritten the state and is about to
stop them all (`overwritten`), and `StarterInv` that without a starter nothing of a
procedure is left, but for `overtaken`. `RangesKept` needs `CounterInv`: the
procedure goes on after its last preamble, and the counter stays within three of the
maximum only because every further step takes another of the three timers.
`StaleTasksNotTaken` needs the order of the queue (`TasksInv`): of the tasks that
were pushed in time, those of the present state are the last ones.

TLC only, and why:

* liveness (fairness and ENABLED are outside the prover);
* `StatusExact`, `TrimmedStatusSound`: the bytes a report names, counted one by one;
  the theorems on the AM bearer prove of a report what the sender relies on;
* `SegmentListsTile` and the AM bearer with segments (section 5 has the
  counterexamples outside the two runs).

## 7. What is not modelled

* Bits of PDUs, logging, metrics, SDUs of different lengths, the 12 and 18 bit
  variants of RLC AM (they differ in `mod_nr` and header sizes, which are constants).
* `stop()` of an RLC entity as such (it is the state re-establishment leaves), and
  reconfiguration of a live bearer, which the code refuses.
* A status report for which `try_to_lock` of the receiver fails, or for which there is
  no buffer (`rlc_am_nr.cc:1721`, 762): the call returns without having changed anything,
  so it is no step. Fairness of `StatusGrant` says that this does not happen for ever.
* `max_retx` reached: `notify_failure` is recorded; what the RRC then does is not.
* PDCP: keys and algorithms beyond their dependence on the COUNT; `reestablish()` is
  empty in the code.
* Task queues: several owners that reset or stop at once. `cv_exit` is notified with
  `notify_one` (`multiqueue.h:153`), so two of them waiting might miss it; the users
  in this repository have one.
* HARQ: grants for the Temporary C-RNTI and for system information, reset of the
  entities. Several processes at once are beyond the run (two give more than 11
  million states), but not beyond the theorems, except for `BlocksResolved`.
* Random access: power ramping and the resources of preambles; several PHY threads in
  contention resolution at once (the mutex takes them in turn, and the first leaves
  CONRES). A read of `state` during a write of it has the old or the new value.
  `reset()` does not stop the back-off timer, which never runs.
* The other parts of section 1, for the reasons `PROJECT.json` gives.
