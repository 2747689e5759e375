------------------------------- MODULE Events -------------------------------
(***************************************************************************)
(* The events of a device on their way to user space: the record in shared *)
(* memory and the (software) interrupt that announces it                   *)
(* (pci_deepx/dw-edma-core.c), the circular buffer (dx_message.c), the     *)
(* flag events_irq with its wait queue (dx_cdev_events.c), and the two     *)
(* ioctls that wait for an event (dxrt_handle_event and                    *)
(* dxrt_handle_event_v2, rt/dxrt_drv_message.c), which a recovery and the  *)
(* close of their file (rt/dxrt_drv_cdev.c) also wake.                     *)
(*                                                                         *)
(* There are two wait queues.  event_wq is woken by the callback of the RT *)
(* driver, and its waiters look at the buffer; events_wq is woken with     *)
(* events_irq, which the first waiter to run sets back to 0.  A wait is a  *)
(* pair of steps: "_wait" evaluates the condition, on the queue already,   *)
(* and "_sleep" ends only with a wakeup or a signal.                       *)
(***************************************************************************)
EXTENDS Integers, Sequences, FiniteSets

CONSTANTS Readers,        \* threads that wait for events, each on its own file
          Producers,      \* driver contexts that report errors and recoveries
          QueueSize,      \* DX_EVENT_QUEUE_SIZE
          MaxInputs       \* bound on what happens: events, recoveries, closes,
                          \* signals and calls of DXRT_CMD_TERMINATE_EVENT

ASSUME EventsAssumption ==
  QueueSize \in Nat \ {0} /\ MaxInputs \in Nat /\ Readers # {}

VARIABLES
  single,       \* 1 when the device has one MSI (nr_irqs == 1)
  record,       \* the event in shared memory, 0 when it was cleared
  set_off,      \* the event's bit, set by the device
  status_raw,   \* the event's latched bit
  msi,          \* an interrupt message is on the way
  fw,           \* the device: it writes the record, then raises the interrupt
  ipc,          \* the interrupt handler
  ppc,          \* the producers
  entries, head, tail, count,   \* the circular buffer
  events_irq,   \* 0, 1 by the interrupt handler, 2 by dx_pcie_interrupt_*wakeup
  rpc,          \* the readers
  fpc,          \* their files; not "open" means terminating = 1
  recovering,
  vpc,          \* the recovery
  inputs,       \* what has happened so far; an event is known by its number
  \* Auxiliary, only read by properties:
  late,         \* a bit set after the latch was cleared with the handled one
  dropped,      \* a full buffer left a record behind
  overtaken     \* the wakeup of a reader was taken by another

device   == <<record, set_off, status_raw, msi, fw, ipc, late>>
buffer   == <<entries, head, tail, count, dropped>>
waiters  == <<events_irq, rpc, overtaken>>
recovery == <<recovering, vpc>>
vars == <<single, device, ppc, buffer, waiters, fpc, recovery, inputs>>

Flag  == {0, 1}
Slots == 0 .. QueueSize - 1
ReaderPc == {"idle", "rec_wait", "rec_sleep", "ev_wait", "ev_sleep", "recheck",
             "dequeue", "irq_wait", "irq_sleep", "irq_clear", "dequeue_again"}

TypeOK ==
  /\ single \in Flag /\ set_off \in Flag /\ status_raw \in Flag /\ msi \in Flag
  /\ record \in 0 .. MaxInputs
  /\ fw \in {"idle", "raise"}
  /\ ipc \in {"idle", "fetch", "notify", "irq", "clear"}
  /\ ppc \in [Producers -> {"idle", "irq", "notify"}]
  /\ entries \in [Slots -> 0 .. MaxInputs]
  /\ head \in Slots /\ tail \in Slots /\ count \in 0 .. QueueSize
  /\ events_irq \in 0 .. 2
  /\ rpc \in [Readers -> ReaderPc]
  /\ fpc \in [Readers -> {"open", "wake", "channels", "event", "closed"}]
  /\ recovering \in Flag
  /\ vpc \in {"idle", "clear", "wake", "run", "wake_end"}
  /\ inputs \in 0 .. MaxInputs
  /\ late \in Flag /\ dropped \in Flag /\ overtaken \in [Readers -> Flag]

Init ==
  /\ single \in Flag
  /\ record = 0 /\ set_off = 0 /\ status_raw = 0 /\ msi = 0
  /\ fw = "idle" /\ ipc = "idle" /\ ppc = [p \in Producers |-> "idle"]
  /\ entries = [s \in Slots |-> 0] /\ head = 0 /\ tail = 0 /\ count = 0
  /\ events_irq = 0
  /\ rpc = [r \in Readers |-> "idle"] /\ fpc = [r \in Readers |-> "open"]
  /\ recovering = 0 /\ vpc = "idle"
  /\ inputs = 0
  /\ late = 0 /\ dropped = 0 /\ overtaken = [r \in Readers |-> 0]

-----------------------------------------------------------------------------
(* The wait queues and the buffer.                                         *)

Input == inputs < MaxInputs /\ inputs' = inputs + 1

Becomes(r, from, to) == IF rpc[r] = from THEN to ELSE rpc[r]

\* wake_up_interruptible(&dev->event_wq): every sleeper looks again.
WakeEvents ==
  /\ rpc' = [r \in Readers |->
               IF rpc[r] = "rec_sleep" THEN "rec_wait"
               ELSE Becomes(r, "ev_sleep", "ev_wait")]
  /\ UNCHANGED <<events_irq, overtaken>>

\* Raise events_irq and wake events_wq, unless it is raised already.
Raise(value) ==
  /\ events_irq' = IF events_irq = 0 THEN value ELSE events_irq
  /\ rpc' = IF events_irq = 0
            THEN [r \in Readers |-> Becomes(r, "irq_sleep", "irq_wait")]
            ELSE rpc
  /\ UNCHANGED overtaken

\* Fault: a full buffer takes the event in place of its oldest one.
PutOverwrites(event) ==
  /\ entries' = [entries EXCEPT ![tail] = event]
  /\ tail' = (tail + 1) % QueueSize
  /\ count' = IF count < QueueSize THEN count + 1 ELSE count
  /\ UNCHANGED head

\* Store an event under event_lock; a full buffer drops it.
Put(event) ==
  /\ entries' = IF count < QueueSize THEN [entries EXCEPT ![tail] = event]
                ELSE entries
  /\ tail' = IF count < QueueSize THEN (tail + 1) % QueueSize ELSE tail
  /\ count' = IF count < QueueSize THEN count + 1 ELSE count
  /\ UNCHANGED head

Take ==
  /\ count > 0
  /\ head' = (head + 1) % QueueSize /\ count' = count - 1
  /\ UNCHANGED <<entries, tail, dropped>>

-----------------------------------------------------------------------------
(* The device and its interrupt handler.                                   *)

\* The device writes the event, over an older one the driver has not fetched.
FwRecord ==
  /\ Input /\ fw = "idle"
  /\ fw' = "raise" /\ record' = inputs + 1
  /\ UNCHANGED <<single, set_off, status_raw, msi, ipc, late, ppc, buffer,
                 waiters, fpc, recovery>>

\* With one MSI it also sets the bit that says which interrupt this is.
FwRaise ==
  /\ fw = "raise" /\ fw' = "idle" /\ msi' = 1 /\ set_off' = single
  /\ UNCHANGED <<single, record, status_raw, ipc, late, ppc, buffer, waiters,
                 fpc, recovery, inputs>>

\* Fault: the pending bit is read before the new one is latched.
IsrStartLatchesLate ==
  /\ ipc = "idle" /\ msi = 1
  /\ msi' = 0
  /\ status_raw' = IF set_off = 1 THEN 1 ELSE status_raw
  /\ ipc' = IF single = 1 /\ status_raw = 0 THEN "idle" ELSE "fetch"
  /\ UNCHANGED <<single, record, set_off, fw, late, ppc, buffer, waiters, fpc,
                 recovery, inputs>>

\* dw_edma_user_events; with one MSI dx_sw_irq_handler, which first latches the
\* bit (dx_sw_irq_latch_and_clear) and returns if nothing is pending.
IsrStart ==
  /\ ipc = "idle" /\ msi = 1
  /\ msi' = 0
  /\ status_raw' = IF set_off = 1 THEN 1 ELSE status_raw
  /\ ipc' = IF single = 1 /\ status_raw' = 0 THEN "idle" ELSE "fetch"
  /\ UNCHANGED <<single, record, set_off, fw, late, ppc, buffer, waiters, fpc,
                 recovery, inputs>>

\* user_irq_events calls dx_pcie_enqueue_event_response(0): the record is moved
\* to the buffer, or stays where it is when the buffer is full.
IsrFetch ==
  /\ ipc = "fetch" /\ ipc' = "notify"
  /\ Put(record)
  /\ record' = IF count < QueueSize THEN 0 ELSE record
  /\ dropped' = IF count < QueueSize THEN dropped ELSE 1
  /\ UNCHANGED <<single, set_off, status_raw, msi, fw, late, ppc, waiters,
                 fpc, recovery, inputs>>

\* ... and then the callback of the RT driver, dxrt_event_notify.
IsrNotify ==
  /\ ipc = "notify" /\ ipc' = "irq"
  /\ WakeEvents
  /\ UNCHANGED <<single, record, set_off, status_raw, msi, fw, late, ppc, buffer,
                 fpc, recovery, inputs>>

IsrIrq ==
  /\ ipc = "irq" /\ ipc' = IF single = 1 THEN "clear" ELSE "idle"
  /\ Raise(1)
  /\ UNCHANGED <<single, record, set_off, status_raw, msi, fw, late, ppc, buffer,
                 fpc, recovery, inputs>>

\* dx_sw_irq_clear_handled_bits clears a bit that was set again meanwhile, too.
IsrClear ==
  /\ ipc = "clear" /\ ipc' = "idle"
  /\ status_raw' = 0 /\ set_off' = 0
  /\ late' = IF record # 0 /\ fw = "idle" THEN 1 ELSE late
  /\ UNCHANGED <<single, record, msi, fw, ppc, buffer, waiters, fpc, recovery,
                 inputs>>

Isr == IsrStart \/ IsrFetch \/ IsrNotify \/ IsrIrq \/ IsrClear

-----------------------------------------------------------------------------
(* An event of the driver itself: dx_pcie_enqueue_event_response of an     *)
(* error, dx_pcie_enqueue_recovery_event, dx_pcie_enqueue_abort_event.     *)

ProducerStep(p, from, to) == ppc[p] = from /\ ppc' = [ppc EXCEPT ![p] = to]

Report(p) ==
  /\ Input /\ ProducerStep(p, "idle", "irq")
  /\ Put(inputs + 1)
  /\ UNCHANGED <<single, device, dropped, waiters, fpc, recovery>>

\* Fault: the waiters of events_wq are not woken.
ReportIrqSilent(p) ==
  /\ ProducerStep(p, "irq", "notify")
  /\ UNCHANGED <<single, device, buffer, waiters, fpc, recovery, inputs>>

\* dx_pcie_interrupt_event_wakeup
ReportIrq(p) ==
  /\ ProducerStep(p, "irq", "notify") /\ Raise(2)
  /\ UNCHANGED <<single, device, buffer, fpc, recovery, inputs>>

ReportNotify(p) ==
  /\ ProducerStep(p, "notify", "idle") /\ WakeEvents
  /\ UNCHANGED <<single, device, buffer, fpc, recovery, inputs>>

Produce(p) == Report(p) \/ ReportIrq(p) \/ ReportNotify(p)

-----------------------------------------------------------------------------
(* The recovery, as far as it touches events: Recovery has the rest of it. *)

RecoveryStep(from, to) == vpc = from /\ vpc' = to

RecoveryStart ==
  /\ Input /\ RecoveryStep("idle", "clear")
  /\ recovering' = 1
  /\ UNCHANGED <<single, device, ppc, buffer, waiters, fpc>>

\* dx_pcie_clear_event_response
ClearEvents ==
  /\ RecoveryStep("clear", "wake")
  /\ head' = 0 /\ tail' = 0 /\ count' = 0
  /\ UNCHANGED <<single, device, ppc, entries, dropped, waiters, fpc,
                 recovering, inputs>>

RecoveryWakes ==
  /\ RecoveryStep("wake", "run") \/ RecoveryStep("wake_end", "idle")
  /\ WakeEvents
  /\ UNCHANGED <<single, device, ppc, buffer, fpc, recovering, inputs>>

\* Fault: the end of the recovery wakes nobody.
RecoveryEndSilent ==
  /\ RecoveryStep("run", "idle") /\ recovering' = 0
  /\ UNCHANGED <<single, device, ppc, buffer, waiters, fpc, inputs>>

RecoveryEnd ==
  /\ RecoveryStep("run", "wake_end") /\ recovering' = 0
  /\ UNCHANGED <<single, device, ppc, buffer, waiters, fpc, inputs>>

Recover == RecoveryStart \/ ClearEvents \/ RecoveryWakes \/ RecoveryEnd

-----------------------------------------------------------------------------
(* The readers.                                                            *)

Terminating(r) == fpc[r] # "open"

ReaderStep(r, from, to) ==
  /\ rpc[r] = from /\ rpc' = [rpc EXCEPT ![r] = to]
  /\ UNCHANGED <<single, device, ppc, fpc, recovery>>

\* dxrt_handle_event goes straight to the buffer, dxrt_handle_event_v2 first
\* waits for the end of a recovery and then for an event.
Enter(r) ==
  /\ ~Terminating(r)
  /\ \/ ReaderStep(r, "idle", "dequeue") \/ ReaderStep(r, "idle", "rec_wait")
  /\ overtaken' = [overtaken EXCEPT ![r] = 0]
  /\ UNCHANGED <<buffer, events_irq, inputs>>

\* The waits on event_wq evaluate their condition.  -ECANCELED on termination.
RecoveryWait(r) ==
  /\ ReaderStep(r, "rec_wait",
                IF Terminating(r) THEN "idle"
                ELSE IF recovering = 0 THEN "ev_wait" ELSE "rec_sleep")
  /\ UNCHANGED <<buffer, events_irq, overtaken, inputs>>

EventWait(r) ==
  /\ ReaderStep(r, "ev_wait",
                IF count > 0 \/ recovering = 1 \/ Terminating(r)
                THEN "recheck" ELSE "ev_sleep")
  /\ UNCHANGED <<buffer, events_irq, overtaken, inputs>>

Recheck(r) ==
  /\ ReaderStep(r, "recheck",
                IF Terminating(r) THEN "idle"
                ELSE IF recovering = 1 THEN "rec_wait" ELSE "dequeue")
  /\ UNCHANGED <<buffer, events_irq, overtaken, inputs>>

\* dx_pcie_dequeue_event_response: take an event, or, if there is none, do so
\* after the next events_irq, returning a cleared event if there still is none.
Dequeue(r) ==
  \/ ReaderStep(r, "dequeue", "idle") /\ Take
     /\ UNCHANGED <<events_irq, overtaken, inputs>>
  \/ ReaderStep(r, "dequeue", "irq_wait") /\ count = 0
     /\ UNCHANGED <<buffer, events_irq, overtaken, inputs>>

\* dx_pcie_interrupt_event: wait, and take the flag down for everybody.
IrqWait(r) ==
  /\ ReaderStep(r, "irq_wait",
                IF events_irq # 0 THEN "irq_clear" ELSE "irq_sleep")
  /\ UNCHANGED <<buffer, events_irq, overtaken, inputs>>

IrqClear(r) ==
  /\ ReaderStep(r, "irq_clear", "dequeue_again")
  /\ events_irq' = 0
  /\ overtaken' = [q \in Readers |->
       IF q # r /\ rpc[q] \in {"dequeue", "irq_wait", "irq_sleep"}
       THEN 1 ELSE overtaken[q]]
  /\ UNCHANGED <<buffer, inputs>>

DequeueAgain(r) ==
  /\ ReaderStep(r, "dequeue_again", "idle")
  /\ Take \/ (count = 0 /\ UNCHANGED buffer)
  /\ UNCHANGED <<events_irq, overtaken, inputs>>

\* A signal ends a sleep: -ERESTARTSYS, except in dx_pcie_interrupt_event, which
\* goes on as if it had been woken.
Signal(r) ==
  /\ Input
  /\ \/ ReaderStep(r, "rec_sleep", "idle") \/ ReaderStep(r, "ev_sleep", "idle")
     \/ ReaderStep(r, "irq_sleep", "irq_clear")
  /\ UNCHANGED <<buffer, events_irq, overtaken>>

ReaderRuns(r) ==
  \/ RecoveryWait(r) \/ EventWait(r) \/ Recheck(r) \/ Dequeue(r)
  \/ IrqWait(r) \/ IrqClear(r) \/ DequeueAgain(r)

\* dxrt_terminate_event
TerminateEvent ==
  /\ Input /\ Raise(2)
  /\ UNCHANGED <<single, device, ppc, buffer, fpc, recovery>>

-----------------------------------------------------------------------------
(* close() by the owner: dxrt_dev_flush, dxrt_wakeup_waiters.              *)

FileStep(r, from, to) ==
  /\ fpc[r] = from /\ fpc' = [fpc EXCEPT ![r] = to]
  /\ IF from = "open" THEN Input ELSE UNCHANGED inputs
  /\ UNCHANGED <<single, device, ppc, buffer, recovery>>

\* Set terminating, wake event_wq, raise the interrupt of each channel (which
\* with one MSI is the interrupt of the events), and that of the events.
Flush(r) ==
  \/ FileStep(r, "open", "wake") /\ UNCHANGED waiters
  \/ FileStep(r, "wake", IF single = 1 THEN "channels" ELSE "event")
     /\ WakeEvents
  \/ FileStep(r, "channels", "event") /\ Raise(2)
  \/ FileStep(r, "event", "closed") /\ Raise(2)

Next ==
  \/ FwRecord \/ FwRaise \/ Isr
  \/ \E p \in Producers : Produce(p)
  \/ Recover \/ TerminateEvent
  \/ \E r \in Readers : Enter(r) \/ ReaderRuns(r) \/ Signal(r) \/ Flush(r)

Spec == Init /\ [][Next]_vars

-----------------------------------------------------------------------------
(* Properties.                                                             *)

\* The buffer as its readers see it.
Queue == [i \in 1 .. count |-> entries[(head + i - 1) % QueueSize]]

Fifo == INSTANCE BoundedFifo
          WITH Size <- QueueSize, Messages <- 0 .. MaxInputs,
               DropsOldest <- FALSE, queue <- Queue

\* The indices and the counter of the circular buffer behave as a bounded FIFO
\* that refuses a new event when it is full and never loses or reorders one
\* that it took (dx_pcie_enqueue_event_response and the two like it,
\* dx_pcie_dequeue_event_response, dx_pcie_clear_event_response).
ImplementsFifo == Fifo!Spec

\* Someone is between a change of what readers wait for and the wakeup.
Waking ==
  \/ ipc \in {"notify", "irq"}
  \/ \E p \in Producers : ppc[p] # "idle"
  \/ vpc \in {"clear", "wake", "wake_end"}
  \/ \E r \in Readers : fpc[r] \in {"wake", "channels", "event"}

\* No wakeup of event_wq is lost: when nobody is about to wake the readers, one
\* that sleeps in dxrt_handle_event_v2 has nothing to wake up for, which is an
\* event, the start or the end of a recovery, or termination.
QuietSleep ==
  Waking \/ \A r \in Readers :
    /\ rpc[r] = "rec_sleep" => recovering = 1 /\ ~Terminating(r)
    /\ rpc[r] = "ev_sleep"  => count = 0 /\ recovering = 0 /\ ~Terminating(r)

\* No event waits for a reader that sleeps in dx_pcie_interrupt_event, unless
\* another reader took events_irq down before this one saw it; and even then
\* events are never queued while all readers sleep for one.  The comment in
\* dx_pcie_enqueue_event_response says why an error of the driver, too, must
\* wake events_wq for that.  Neither does a reader sleep there on a closed file
\* (dxrt_dev_flush, dxrt_wakeup_waiters), with the same exception.
EventWakes ==
  /\ count > 0 /\ ~Waking =>
       /\ \A r \in Readers : rpc[r] = "irq_sleep" => overtaken[r] = 1
       /\ \E r \in Readers : rpc[r] \notin {"ev_sleep", "irq_sleep"}
  /\ \A r \in Readers :
       fpc[r] = "closed" /\ rpc[r] = "irq_sleep" => overtaken[r] = 1

\* An event the device announced is moved to the buffer: once the interrupt has
\* been handled the record is empty, unless the buffer was full, or the bit was
\* set while the handler served the one before (dx_sw_irq_handler,
\* user_irq_events).
RecordFetched ==
  fw = "idle" /\ msi = 0 /\ ipc = "idle" => record = 0 \/ late = 1 \/ dropped = 1

=============================================================================
