--------------------------- MODULE ResponseQueue ----------------------------
(***************************************************************************)
(* The responses of one DMA channel: the pool and list of the PCIe driver  *)
(* (modules/pci_deepx/dx_message.c), the credit counter response_pending   *)
(* of the RT driver, and the ioctls that wait for a response               *)
(* (dxrt_npu_run_response_v2 and dxrt_read_output, dxrt_drv_message.c).    *)
(*                                                                         *)
(* The list is under responses_lock; the credits are a separate atomic,    *)
(* taken after the list operation and cleared by separate steps of a       *)
(* recovery.                                                               *)
(***************************************************************************)
EXTENDS Integers, Sequences, FiniteSets

CONSTANTS Readers,        \* threads waiting for a response of the channel
          PoolSize,       \* RES_POOL_SIZE
          MaxResponses,   \* bound on the responses of the device
          MaxRecoveries   \* bound on the recoveries

VARIABLES
  pool,         \* resp_pool: the response in each slot
  responses,    \* the list: slots, first to be read first
  header,       \* resp_pool_header
  pending,      \* response_pending
  sent,         \* responses the device has sent; the next is sent + 1
  taken,        \* the last response taken off the list
  rpc,          \* the readers: idle, wait, dequeue, credit or credit_retry
  recovery,     \* the step a recovery is at; "none" when dev_state = READY
  recoveries

list    == <<pool, responses, header, sent, taken>>
control == <<recovery, recoveries>>
vars    == <<list, pending, rpc, control>>

Slots == 0 .. PoolSize - 1

Init ==
  /\ pool = [s \in Slots |-> 0] /\ responses = <<>> /\ header = 0
  /\ pending = 0 /\ sent = 0 /\ taken = 0
  /\ rpc = [r \in Readers |-> "idle"]
  /\ recovery = "none" /\ recoveries = 0

Ready == recovery \in {"none", "init"}

\* atomic_dec_if_positive
TakeCredit == pending' = IF pending > 0 THEN pending - 1 ELSE 0

\* The list without a slot; list_del_init of an entry that may be linked.
Links(s) == {i \in DOMAIN responses : responses[i] = s}
Unlink(s) ==
  IF Links(s) = {} THEN responses
  ELSE LET i == CHOOSE i \in Links(s) : TRUE
       IN  SubSeq(responses, 1, i - 1) \o SubSeq(responses, i + 1, Len(responses))

-----------------------------------------------------------------------------
\* dx_pcie_enqueue_response, in the interrupt handler: take the next slot of
\* the pool, unlinking it if it is still queued, and add the credit
\* (dxrt_response_notify), all under responses_lock.
Enqueue ==
  /\ sent < MaxResponses /\ sent' = sent + 1
  /\ LET s == header % PoolSize IN
       /\ header' = s + 1
       /\ pool' = [pool EXCEPT ![s] = sent + 1]
       /\ responses' = Append(Unlink(s), s)
  /\ pending' = pending + 1
  /\ UNCHANGED <<taken, rpc, control>>

-----------------------------------------------------------------------------
(* A reader: dxrt_npu_run_response_v2; dxrt_read_output waits the same way. *)

Step(r, from, to) == rpc[r] = from /\ rpc' = [rpc EXCEPT ![r] = to]

Enter(r) ==
  /\ Step(r, "idle", "wait") /\ Ready
  /\ UNCHANGED <<list, pending, control>>

\* The wait ends on a credit or when the device has left READY; the state is
\* then read again.
Woken(r) ==
  /\ Step(r, "wait", "dequeue")
  /\ pending > 0 \/ ~Ready
  /\ UNCHANGED <<list, pending, control>>

\* A signal or termination ends the wait, or that second read finds the
\* device not READY: the ioctl returns an error.
GiveUp(r) ==
  /\ \/ Step(r, "wait", "idle")
     \/ Step(r, "dequeue", "idle") /\ ~Ready
  /\ UNCHANGED <<list, pending, control>>

\* Fault: the newest response is taken.
DequeueNewest(r) ==
  /\ Step(r, "dequeue", "credit") /\ Ready
  /\ responses # <<>>
  /\ taken' = pool[responses[Len(responses)]]
  /\ responses' = SubSeq(responses, 1, Len(responses) - 1)
  /\ UNCHANGED <<pool, header, sent, pending, control>>

\* dx_pcie_dequeue_response
Dequeue(r) ==
  /\ Step(r, "dequeue", "credit") /\ Ready
  /\ responses # <<>>
  /\ taken' = pool[Head(responses)] /\ responses' = Tail(responses)
  /\ UNCHANGED <<pool, header, sent, pending, control>>

DequeueEmpty(r) ==
  /\ Step(r, "dequeue", "credit_retry") /\ Ready
  /\ responses = <<>>
  /\ UNCHANGED <<list, pending, control>>

\* The credit is given back after the lock is dropped: after a success, and
\* after a failure before going back to the state check and the wait.
Credit(r) ==
  /\ Step(r, "credit", "idle")
  /\ TakeCredit
  /\ UNCHANGED <<list, control>>

CreditRetry(r) ==
  /\ Step(r, "credit_retry", IF Ready THEN "wait" ELSE "idle")
  /\ TakeCredit
  /\ UNCHANGED <<list, control>>

-----------------------------------------------------------------------------
(* A recovery: leave READY, dx_pcie_clear_response_queue,                  *)
(* dxrt_clear_all_pending, the probe (whose failure clears the credits     *)
(* again), READY, and dxrt_device_init in the next ioctl.                  *)

RecoveryStep(from, to) == recovery = from /\ recovery' = to

RecoveryStart ==
  /\ RecoveryStep("none", "clear_queue")
  /\ recoveries < MaxRecoveries /\ recoveries' = recoveries + 1
  /\ UNCHANGED <<list, pending, rpc>>

\* dx_pcie_clear_response_queue
ClearQueue ==
  /\ \/ RecoveryStep("clear_queue", "clear_pending")
     \/ RecoveryStep("init", "none")
  /\ responses' = <<>> /\ header' = 0
  /\ UNCHANGED <<pool, sent, taken, pending, rpc, recoveries>>

\* dxrt_clear_all_pending
ClearPending ==
  /\ \/ RecoveryStep("clear_pending", "probe")
     \/ recovery = "probe" /\ UNCHANGED recovery
  /\ pending' = 0
  /\ UNCHANGED <<list, rpc, recoveries>>

RecoveryDone ==
  /\ RecoveryStep("probe", "init")
  /\ UNCHANGED <<list, pending, rpc, recoveries>>

Next ==
  \/ Enqueue
  \/ \E r \in Readers : \/ Enter(r) \/ Woken(r) \/ GiveUp(r) \/ Dequeue(r)
                        \/ DequeueEmpty(r) \/ Credit(r) \/ CreditRetry(r)
  \/ RecoveryStart \/ ClearQueue \/ ClearPending \/ RecoveryDone

Spec == Init /\ [][Next]_vars

-----------------------------------------------------------------------------
(* Properties. *)

\* The queue as the reader sees it: pool slots read in list order.
Queue == [i \in DOMAIN responses |-> pool[responses[i]]]

Fifo == INSTANCE BoundedFifo
          WITH Size <- PoolSize, Messages <- 1 .. MaxResponses,
               DropsOldest <- TRUE, queue <- Queue

\* The pool, the list and the header together behave as a bounded FIFO that
\* drops its oldest response when it is full: reusing a pool slot neither
\* loses another response nor changes one that is still queued
\* (dx_pcie_enqueue_response, dx_pcie_dequeue_response,
\* dx_pcie_clear_response_queue).
ImplementsFifo == Fifo!Spec

=============================================================================
