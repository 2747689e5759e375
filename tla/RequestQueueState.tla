------------------------- MODULE RequestQueueState --------------------------
(***************************************************************************)
(* The state of one request queue in device memory and of the threads that *)
(* fill it, and what must hold of it.  RequestQueue has the steps.         *)
(***************************************************************************)
EXTENDS Naturals

CONSTANTS Submitters,   \* threads in DXRT_CMD_NPU_RUN_REQ
          NoSubmitter,  \* the mutex is free
          MaxCount,     \* q->max_count
          Ids           \* requests are numbered modulo this

ASSUME QueueAssumption ==
  /\ NoSubmitter \notin Submitters
  /\ MaxCount \in Nat \ {0}
  /\ Ids \in Nat /\ Ids > MaxCount

VARIABLES
  enable, lock, flag, irq_done,   \* fields of dxrt_queue_t, in device memory
  front, rear, count, buffer,
  lock_irq, unlock_irq,           \* doorbells the firmware has not served
  mmio,                           \* "live", or "down": MMIO reads all-ones
  dx_recovering,
  mutex,                          \* request_queue_mutex
  pc, old_count,                  \* per submitter
  sent, taken,                    \* requests written and taken, modulo Ids
  disturbed   \* auxiliary: a submitter left before the firmware had served
              \* its unlock doorbell, or the link went down

-----------------------------------------------------------------------------
(* Properties.                                                             *)

\* The submitter between the grant and the last write of dxrt_enqueue.
Filling(s) == pc[s] \in {"copy", "count", "store"}

\* While a submitter fills a slot and updates count, the firmware has granted
\* the queue and does not take from it, after any number of lock timeouts and
\* late grants, unless a submitter left before its unlock was served
\* (dxrt_lock_queue, dxrt_lock_check, dxrt_enqueue, dxrt_unlock_queue).
FillingIsExclusive ==
  disturbed = 0 => \A s \in Submitters : Filling(s) => flag = 1

\* The slots that count covers hold the requests that are to be taken, oldest
\* first: none is overwritten, skipped or taken twice (dxrt_enqueue).
RequestsInOrder ==
  disturbed = 0 =>
    \A i \in 0 .. count - 1 :
      buffer[(front + i) % MaxCount] = (taken + i) % Ids

\* A queue that a timed-out request left locked has room, so the next request
\* is not refused as full and will unlock it (dxrt_npu_run_requset_acc).
LeftLockedHasRoom ==
  lock = 1 /\ mutex = NoSubmitter /\ mmio = "live" => count < MaxCount

\* Liveness: a full queue has room again, as -EBUSY ("retry") promises.
FullQueueDrains == [](mmio = "live") => []<>(count < MaxCount)

=============================================================================
