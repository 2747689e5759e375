------------------------------- MODULE Sched --------------------------------
(***************************************************************************)
(* The scheduler's table of bound options (modules/rt/dxrt_sched.c) and    *)
(* the ioctl that edits it, dxrt_schedule (dxrt_drv_message.c).            *)
(*                                                                         *)
(* Each list operation is atomic (sched_lock); a call makes two of them,   *)
(* then touches the request queue, then tells the firmware over the        *)
(* mailbox (msg_lock), and other calls run in between.                     *)
(***************************************************************************)
EXTENDS Naturals, Sequences, FiniteSets

CONSTANTS Callers,      \* threads in DXRT_CMD_SCHEDULE
          Bounds,       \* npu_bound_op, N_BOUND_INF_MAX of them
          NoBound,
          NQueues,      \* DX_NORMAL_QUEUE_MAX
          MaxRef,       \* bound on ref_cnt
          MaxFaults     \* bound on the recoveries that clear the list and the
                        \* messages the firmware does not ack, together

VARIABLES
  sched,      \* dev->sched: [bound, queue, ref_cnt] entries, in list order
  enabled,    \* request queues whose enable field is set
  fw_queue,   \* the firmware's table: the queue it serves each bound from
  pc, sub_cmd, bound, queue,  \* per call: locals of dxrt_schedule
  faults

table == <<sched, enabled, fw_queue>>
call  == <<pc, sub_cmd, bound, queue>>
vars  == <<table, call, faults>>

Queues  == 0 .. NQueues - 1
NoQueue == NQueues

Init ==
  /\ sched = <<>> /\ enabled = {}
  /\ fw_queue = [b \in Bounds |-> NoQueue]
  /\ pc = [p \in Callers |-> "idle"]
  /\ sub_cmd = [p \in Callers |-> "ADD"]
  /\ bound = [p \in Callers |-> NoBound]
  /\ queue = [p \in Callers |-> 0]
  /\ faults = 0

-----------------------------------------------------------------------------
(* dxrt_sched.c *)

\* The entries of the list that match a bound option.
Matching(b) == {i \in DOMAIN sched : sched[i].bound = b}
InUse == {sched[i].queue : i \in DOMAIN sched}

\* Fault: the entries are counted.
MinAvailableQueueCounts == Len(sched)

\* The counter at the end of the list walk of add_queue_from_sched_op.
MinAvailableQueue ==
  LET min[i \in 0 .. Len(sched)] ==
        IF i = 0 THEN 0
        ELSE IF sched[i].queue = min[i - 1] THEN min[i - 1] + 1 ELSE min[i - 1]
  IN  min[Len(sched)]

\* list_del of the i-th entry.
Unlink(i) == SubSeq(sched, 1, i - 1) \o SubSeq(sched, i + 1, Len(sched))

-----------------------------------------------------------------------------
(* dxrt_schedule *)

Step(p, from, to) == pc[p] = from /\ pc' = [pc EXCEPT ![p] = to]

\* The call returns (its result is the action that ends it), locals are gone.
Return(p, from) ==
  /\ Step(p, from, "idle")
  /\ sub_cmd' = [sub_cmd EXCEPT ![p] = "ADD"]
  /\ bound' = [bound EXCEPT ![p] = NoBound]
  /\ queue' = [queue EXCEPT ![p] = 0]

\* ref_cnt of a bound once the ADDs that have entered are through.
RefsToBe(b) == Cardinality({q \in Callers : pc[q] = "add" /\ bound[q] = b})
               + (IF Matching(b) = {} THEN 0
                  ELSE sched[CHOOSE i \in Matching(b) : TRUE].ref_cnt)

\* The call arrives; DELETE looks the queue up first.
Enter(p) ==
  /\ \E s \in {"ADD", "DELETE"}, b \in Bounds :
       /\ s = "ADD" => RefsToBe(b) < MaxRef
       /\ sub_cmd' = [sub_cmd EXCEPT ![p] = s]
       /\ bound' = [bound EXCEPT ![p] = b]
       /\ Step(p, "idle", IF s = "ADD" THEN "add" ELSE "get")
  /\ UNCHANGED <<table, queue, faults>>

\* add_queue_from_sched_op finds the bound: -EEXIST, and the call succeeds.
AddExisting(p) ==
  /\ Return(p, "add")
  /\ \E i \in Matching(bound[p]) :
       sched' = [sched EXCEPT ![i].ref_cnt = @ + 1]
  /\ UNCHANGED <<enabled, fw_queue, faults>>

AddBusy(p) ==
  /\ Return(p, "add")
  /\ Matching(bound[p]) = {}
  /\ MinAvailableQueue >= NQueues
  /\ UNCHANGED <<table, faults>>

AddNew(p) ==
  /\ Step(p, "add", "get")
  /\ Matching(bound[p]) = {}
  /\ MinAvailableQueue < NQueues
  /\ sched' = Append(sched, [bound |-> bound[p], ref_cnt |-> 1,
                             queue |-> MinAvailableQueue])
  /\ UNCHANGED <<enabled, fw_queue, sub_cmd, bound, queue, faults>>

\* get_queue_from_sched_op
GetQueue(p) ==
  /\ Step(p, "get", IF sub_cmd[p] = "ADD" THEN "send" ELSE "delete")
  /\ \E i \in Matching(bound[p]) :
       queue' = [queue EXCEPT ![p] = sched[i].queue]
  /\ UNCHANGED <<table, sub_cmd, bound, faults>>

GetFails(p) ==
  /\ Return(p, "get")
  /\ Matching(bound[p]) = {}
  /\ UNCHANGED <<table, faults>>

\* delete_matching_queue: the entry has other users (-EBUSY: the call
\* succeeds), this is its last user, or it is gone.
DeleteShared(p) ==
  /\ Return(p, "delete")
  /\ \E i \in Matching(bound[p]) :
       /\ sched[i].ref_cnt > 1
       /\ sched' = [sched EXCEPT ![i].ref_cnt = @ - 1]
  /\ UNCHANGED <<enabled, fw_queue, faults>>

DeleteLast(p) ==
  /\ Step(p, "delete", "disable")
  /\ \E i \in Matching(bound[p]) :
       /\ sched[i].ref_cnt = 1
       /\ sched' = Unlink(i)
  /\ UNCHANGED <<enabled, fw_queue, sub_cmd, bound, queue, faults>>

DeleteFails(p) ==
  /\ Return(p, "delete")
  /\ Matching(bound[p]) = {}
  /\ UNCHANGED <<table, faults>>

\* disable_queue, without the mutex of that request queue.
DisableQueue(p) ==
  /\ Step(p, "disable", "send")
  /\ enabled' = enabled \ {queue[p]}
  /\ UNCHANGED <<sched, fw_queue, sub_cmd, bound, queue, faults>>

\* The firmware serves the bound from the queue and enables it, or stops.
FwSchedules(s, b, q) ==
  IF s = "ADD"
  THEN /\ fw_queue' = [fw_queue EXCEPT ![b] = q]
       /\ enabled' = enabled \cup {q}
  ELSE /\ fw_queue' = [fw_queue EXCEPT ![b] = NoQueue]
       /\ UNCHANGED enabled

\* The message reaches the firmware, which acks it.
SendAcked(p) ==
  /\ Return(p, "send")
  /\ FwSchedules(sub_cmd[p], bound[p], queue[p])
  /\ UNCHANGED <<sched, faults>>

\* dxrt_fw_mbox_blocked drops the message, or no ack comes in time, whether
\* or not the firmware has read the message; the list is not put back.
SendFails(p) ==
  /\ faults < MaxFaults /\ faults' = faults + 1
  /\ Return(p, "send")
  /\ \/ UNCHANGED <<enabled, fw_queue>>
     \/ FwSchedules(sub_cmd[p], bound[p], queue[p])
  /\ UNCHANGED sched

\* clear_queue_list, by a recovery: the firmware restarts, or was only cut
\* off by a link flap; DXRT_CMD_RECOVERY also disables and enables the queues.
Clear ==
  /\ faults < MaxFaults /\ faults' = faults + 1
  /\ sched' = <<>>
  /\ fw_queue' \in {fw_queue, [b \in Bounds |-> NoQueue]}
  /\ enabled' \in {enabled, Queues}
  /\ UNCHANGED call

Next ==
  \/ \E p \in Callers :
       \/ Enter(p) \/ AddExisting(p) \/ AddBusy(p) \/ AddNew(p)
       \/ GetQueue(p) \/ GetFails(p)
       \/ DeleteShared(p) \/ DeleteLast(p) \/ DeleteFails(p)
       \/ DisableQueue(p) \/ SendAcked(p) \/ SendFails(p)
  \/ Clear

Spec == Init /\ [][Next]_vars

-----------------------------------------------------------------------------
(* Properties. *)

\* add_queue_from_sched_op refuses a bound with -EBUSY only when every
\* request queue is taken, whatever adds, deletes and clears went before.
BusyMeansFull == [][\A p \in Callers : AddBusy(p) => InUse = Queues]_vars

-----------------------------------------------------------------------------
(* What comments of the code say of it, and the code does not keep.        *)

\* delete_matching_queue: "The bounding option will not be deleted because
\* some process is referencing it": with no call in progress the firmware
\* serves every bound of the list, from a queue that is enabled.
Served(b) == fw_queue[b] \in enabled
Quiet == \A p \in Callers : pc[p] = "idle"
ReferencedBoundIsServed ==
  Quiet => \A i \in DOMAIN sched : Served(sched[i].bound)

=============================================================================
