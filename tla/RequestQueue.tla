---------------------------- MODULE RequestQueue ----------------------------
(***************************************************************************)
(* One request queue in device memory (modules/rt/dxrt_drv_queue.c) and    *)
(* the ioctl path that fills it, dxrt_npu_run_requset_acc                  *)
(* (dxrt_drv_message.c).                                                   *)
(*                                                                         *)
(* Submitters exclude each other with the queue's mutex, and the firmware  *)
(* with a handshake: the host writes lock and rings the lock doorbell, the *)
(* firmware answers in flag; the host fills a slot, writes lock and rings  *)
(* the unlock doorbell, the firmware answers by clearing irq_done.  Both   *)
(* waits give up after a second.  The firmware is external: it takes       *)
(* requests only while it has not granted the queue to the host.           *)
(***************************************************************************)
EXTENDS RequestQueueState

ring == <<front, rear, count, buffer>>
handshake == <<lock, flag, irq_done, lock_irq, unlock_irq>>
outside == <<mmio, dx_recovering>>
vars == <<enable, ring, handshake, outside, mutex, pc, old_count, sent,
          taken, disturbed>>

Flag == {0, 1}
Slots == 0 .. MaxCount - 1
Pcs == {"idle", "mutex", "full", "lock", "flag", "copy", "count", "store",
        "unlock", "done"}

TypeOK ==
  /\ enable \in Flag /\ lock \in Flag /\ flag \in Flag /\ irq_done \in Flag
  /\ lock_irq \in Flag /\ unlock_irq \in Flag
  /\ dx_recovering \in Flag /\ disturbed \in Flag
  /\ front \in Slots /\ rear \in Slots /\ count \in 0 .. MaxCount
  /\ buffer \in [Slots -> 0 .. Ids - 1]
  /\ mmio \in {"live", "down"}
  /\ mutex \in Submitters \cup {NoSubmitter}
  /\ pc \in [Submitters -> Pcs]
  /\ old_count \in [Submitters -> 0 .. MaxCount]
  /\ sent \in 0 .. Ids - 1 /\ taken \in 0 .. Ids - 1

\* dxrt_init_queue
Init ==
  /\ enable = 1 /\ lock = 0 /\ flag = 0 /\ irq_done = 0
  /\ front = 0 /\ rear = 0 /\ count = 0 /\ buffer = [i \in Slots |-> 0]
  /\ lock_irq = 0 /\ unlock_irq = 0
  /\ mmio = "live" /\ dx_recovering = 0
  /\ mutex = NoSubmitter
  /\ pc = [s \in Submitters |-> "idle"]
  /\ old_count = [s \in Submitters |-> 0]
  /\ sent = 0 /\ taken = 0 /\ disturbed = 0

-----------------------------------------------------------------------------
(* dxrt_npu_run_requset_acc.  With the link down a write is lost and a     *)
(* read returns all-ones.                                                  *)

Step(s, from, to) == pc[s] = from /\ pc' = [pc EXCEPT ![s] = to]
Leave(s, from) == Step(s, from, "idle") /\ mutex' = NoSubmitter

Write(var, value) == IF mmio = "live" THEN value ELSE var

\* The gate: requests are refused while recovering is set.
Enter(s) ==
  /\ Step(s, "idle", "mutex")
  /\ dx_recovering = 0
  /\ UNCHANGED <<enable, ring, handshake, outside, mutex, old_count, sent,
                 taken, disturbed>>

TakeMutex(s) ==
  /\ Step(s, "mutex", "full")
  /\ mutex = NoSubmitter /\ mutex' = s
  /\ UNCHANGED <<enable, ring, handshake, outside, old_count, sent, taken,
                 disturbed>>

\* dxrt_is_queue_full: count and max_count read equal, as all-ones are.
Full == count = MaxCount \/ mmio = "down"

\* Fault: the queue is locked before it is tested.
RejectedLocked(s) ==
  /\ Leave(s, "full")
  /\ Full
  /\ lock' = Write(lock, 1) /\ lock_irq' = Write(lock_irq, 1)
  /\ UNCHANGED <<enable, ring, flag, irq_done, unlock_irq, outside,
                 old_count, sent, taken, disturbed>>

Rejected(s) ==
  /\ Leave(s, "full")
  /\ Full
  /\ UNCHANGED <<enable, ring, handshake, outside, old_count, sent, taken,
                 disturbed>>

NotFull(s) ==
  /\ Step(s, "full", "lock")
  /\ ~Full
  /\ UNCHANGED <<enable, ring, handshake, outside, mutex, old_count, sent,
                 taken, disturbed>>

\* dxrt_lock_queue and the lock doorbell.
LockQueue(s) ==
  /\ Step(s, "lock", "flag")
  /\ lock' = Write(lock, 1) /\ lock_irq' = Write(lock_irq, 1)
  /\ UNCHANGED <<enable, ring, flag, irq_done, unlock_irq, outside, mutex,
                 old_count, sent, taken, disturbed>>

\* Fault: the grant is not waited for.
LockNotChecked(s) ==
  /\ Step(s, "flag", "copy")
  /\ mmio = "live"
  /\ UNCHANGED <<enable, ring, handshake, outside, mutex, old_count, sent,
                 taken, disturbed>>

\* dxrt_lock_check sees the grant, or gives up: lock stays set.
LockGranted(s) ==
  /\ Step(s, "flag", "copy")
  /\ mmio = "live" /\ flag = 1
  /\ UNCHANGED <<enable, ring, handshake, outside, mutex, old_count, sent,
                 taken, disturbed>>

LockTimeout(s) ==
  /\ Leave(s, "flag")
  /\ mmio = "down" \/ flag = 0
  /\ UNCHANGED <<enable, ring, handshake, outside, old_count, sent, taken,
                 disturbed>>

\* dxrt_enqueue on a disabled queue: -EINVAL, the queue is still unlocked.
Disabled(s) ==
  /\ Step(s, "copy", "unlock")
  /\ mmio = "live" /\ enable = 0
  /\ UNCHANGED <<enable, ring, handshake, outside, mutex, old_count, sent,
                 taken, disturbed>>

\* Fault: rear is advanced before the element is written.
CopyAfterRear(s) ==
  /\ Step(s, "copy", "count")
  /\ mmio = "down" \/ enable = 1
  /\ rear' = Write(rear, (rear + 1) % MaxCount)
  /\ buffer' = Write(buffer, [buffer EXCEPT ![rear'] = sent])
  /\ sent' = Write(sent, (sent + 1) % Ids)
  /\ UNCHANGED <<enable, front, count, handshake, outside, mutex, old_count,
                 taken, disturbed>>

\* dxrt_enqueue: the element at rear, then rear.
Copy(s) ==
  /\ Step(s, "copy", "count")
  /\ mmio = "down" \/ enable = 1
  /\ buffer' = Write(buffer, [buffer EXCEPT ![rear] = sent])
  /\ rear' = Write(rear, (rear + 1) % MaxCount)
  /\ sent' = Write(sent, (sent + 1) % Ids)
  /\ UNCHANGED <<enable, front, count, handshake, outside, mutex, old_count,
                 taken, disturbed>>

\* ... then count is read, and written back with irq_done (what a dead link
\* returns here is never stored).
ReadCount(s) ==
  /\ Step(s, "count", "store")
  /\ old_count' = [old_count EXCEPT ![s] = count]
  /\ UNCHANGED <<enable, ring, handshake, outside, mutex, sent, taken,
                 disturbed>>

StoreCount(s) ==
  /\ Step(s, "store", "unlock")
  /\ count' = Write(count, old_count[s] + 1)
  /\ old_count' = [old_count EXCEPT ![s] = 0]
  /\ irq_done' = Write(irq_done, 1)
  /\ UNCHANGED <<enable, front, rear, buffer, lock, flag, lock_irq,
                 unlock_irq, outside, mutex, sent, taken, disturbed>>

\* dxrt_unlock_queue and the unlock doorbell.
Unlock(s) ==
  /\ Step(s, "unlock", "done")
  /\ lock' = Write(lock, 0) /\ unlock_irq' = Write(unlock_irq, 1)
  /\ UNCHANGED <<enable, ring, flag, irq_done, lock_irq, outside, mutex,
                 old_count, sent, taken, disturbed>>

\* dxrt_enqueue_irq_done reads another value than 1, or gives up.
Done(s) ==
  /\ Leave(s, "done")
  /\ mmio = "down" \/ irq_done = 0
  /\ disturbed' = IF unlock_irq = 1 THEN 1 ELSE disturbed
  /\ UNCHANGED <<enable, ring, handshake, outside, old_count, sent, taken>>

DoneTimeout(s) ==
  /\ Leave(s, "done")
  /\ mmio = "live" /\ irq_done = 1
  /\ disturbed' = 1
  /\ UNCHANGED <<enable, ring, handshake, outside, old_count, sent, taken>>

-----------------------------------------------------------------------------
(* The rest of the driver.                                                 *)

\* disable_queue of a DX_SCHED_DELETE, without the mutex.
DisableQueue ==
  /\ mmio = "live" /\ enable' = 0
  /\ UNCHANGED <<ring, handshake, outside, mutex, pc, old_count, sent, taken,
                 disturbed>>

\* Step 6 of dxrt_recovery_device: disabled and enabled, under the mutex.
CycleQueue ==
  /\ mmio = "live" /\ mutex = NoSubmitter /\ enable' = 1
  /\ UNCHANGED <<ring, handshake, outside, mutex, pc, old_count, sent, taken,
                 disturbed>>

\* The link goes down, and later the link-event bridge says so.
LinkDown ==
  /\ mmio = "live" /\ mmio' = "down" /\ disturbed' = 1
  /\ UNCHANGED <<enable, ring, handshake, dx_recovering, mutex, pc, old_count,
                 sent, taken>>

LinkEvent ==
  /\ mmio = "down" /\ dx_recovering' = 1
  /\ UNCHANGED <<enable, ring, handshake, mmio, mutex, pc, old_count, sent,
                 taken, disturbed>>

-----------------------------------------------------------------------------
(* The firmware.                                                           *)

FwGrant ==
  /\ lock_irq = 1 /\ lock_irq' = 0
  /\ flag' = IF lock = 1 THEN 1 ELSE flag
  /\ UNCHANGED <<enable, ring, lock, irq_done, unlock_irq, outside, mutex,
                 pc, old_count, sent, taken, disturbed>>

FwRelease ==
  /\ unlock_irq = 1 /\ unlock_irq' = 0
  /\ flag' = 0 /\ irq_done' = 0
  /\ UNCHANGED <<enable, ring, lock, lock_irq, outside, mutex, pc, old_count,
                 sent, taken, disturbed>>

FwTake ==
  /\ flag = 0 /\ count > 0
  /\ count' = count - 1
  /\ front' = (front + 1) % MaxCount
  /\ taken' = (taken + 1) % Ids
  /\ UNCHANGED <<enable, rear, buffer, handshake, outside, mutex, pc,
                 old_count, sent, disturbed>>

\* The firmware enables the queue of a bound it is told to serve.
FwEnable ==
  /\ enable' = 1
  /\ UNCHANGED <<ring, handshake, outside, mutex, pc, old_count, sent, taken,
                 disturbed>>

-----------------------------------------------------------------------------
SubmitterStep(s) ==
  \/ TakeMutex(s) \/ Rejected(s) \/ NotFull(s) \/ LockQueue(s)
  \/ LockGranted(s) \/ LockTimeout(s) \/ Disabled(s) \/ Copy(s)
  \/ ReadCount(s) \/ StoreCount(s) \/ Unlock(s) \/ Done(s) \/ DoneTimeout(s)

Firmware == FwGrant \/ FwRelease \/ FwTake \/ FwEnable

Next ==
  \/ \E s \in Submitters : Enter(s) \/ SubmitterStep(s)
  \/ DisableQueue \/ CycleQueue \/ LinkDown \/ LinkEvent
  \/ Firmware

Spec == Init /\ [][Next]_vars

\* Submitters that have entered run on, and a live firmware serves its
\* doorbells and its queue.
Fairness ==
  /\ \A s \in Submitters : WF_vars(SubmitterStep(s))
  /\ WF_vars(FwGrant) /\ WF_vars(FwRelease) /\ WF_vars(FwTake)

FairSpec == Spec /\ Fairness

=============================================================================
