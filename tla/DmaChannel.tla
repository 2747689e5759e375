----------------------------- MODULE DmaChannel -----------------------------
(***************************************************************************)
(* One eDMA data channel and everybody who acts on it: the transfer thread *)
(* (dw_edma_sg_process), the launch worker, the Done and Abort interrupts, *)
(* the callback tasklet, the reset of all channels, a link that goes down  *)
(* and comes back, and the engine cycle of another channel.                *)
(*                                                                         *)
(* Transfers of a channel are serialised by info->lock and numbered from   *)
(* 1; the number stands for the descriptor and for its cookie.  The four   *)
(* lists of a virtual channel are sets: descriptors enter them in order,   *)
(* so the head of a list is its minimum.  A descriptor has one chunk; the  *)
(* lazy refill of longer transfers is not part of this module.             *)
(* A critical section of vc.lock is one action, and so is an interrupt     *)
(* handler.  Every wait has a deadline that may pass at any time.          *)
(***************************************************************************)
EXTENDS Integers

CONSTANTS
    MaxTransfers,   \* transfers asked for
    MaxFaults,      \* channel resets, link flaps and peer resets, together
    IsLlm           \* 1: transfers use a linked list, 0: a single element

ASSUME ConstantsAssumption ==
    /\ MaxTransfers \in Nat \ {0}
    /\ MaxFaults \in Nat
    /\ IsLlm \in {0, 1}

\* DX_POST_SIGNAL_DRAIN_MAX_STALLS
MaxStalls == 2

VARIABLES
    tpc,            \* where the transfer thread is
    cur,            \* its transfer, or the last one
    cookie,         \* the cookie it was given
    start_epoch,    \* recovery_epoch when the transfer started
    stalls,         \* windows without progress after a signal
    result,         \* cb->result: "none" during a call, then "ok" or "err"
    done,           \* info->dma_done.done
    configured, request, status, hw_err, aborted, xfer_started,
    desc_allocated, desc_submitted, desc_issued, desc_completed,
    completed_cookie,
    tasklet,        \* scheduled
    callbacks,      \* descriptors the running tasklet has detached
    running,        \* the tasklet runs
    queued, lpc, child, \* launch work queued, worker, chunk it works on
    pending_launch, \* chunk staged for the worker, 0: none
    cs, hw_desc,    \* channel status bits, descriptor being moved (0: none)
    done_int, abort_int,
    dev_state, link_state, recovery_epoch,
    rpc, fpc, ipc,  \* channel reset, link flap, interrupt handler
    peer,           \* a peer has cycled the engine and not yet notified
    term, calls,    \* terminate_all in progress for thread and reset
    faults,
    moved,          \* auxiliary: the data of the thread's transfer has arrived
    overtaken       \* auxiliary: an interrupt was overtaken since the channel was
                    \* last quiet: its handler was running when a transfer cleared
                    \* the flags or the worker came to the doorbell, or the error
                    \* it reports was gone

thread == <<tpc, cur, cookie, start_epoch, stalls, result>>
chan == <<configured, request, status, xfer_started>>
errs == <<hw_err, aborted>>
lists == <<desc_allocated, desc_submitted, desc_issued>>
compl == <<desc_completed, completed_cookie, tasklet>>
task == <<callbacks, running>>
launch == <<queued, lpc, child, pending_launch>>
hw == <<cs, hw_desc, done_int, abort_int, moved>>
device == <<dev_state, link_state, recovery_epoch>>
others == <<rpc, fpc, ipc, peer, faults, overtaken>>
vars == <<thread, done, chan, errs, lists, compl, task, launch, hw, device,
          others, term, calls>>

Callers == {"thread", "reset"}

Init ==
    /\ tpc = "idle" /\ cur = 0 /\ cookie = 0 /\ start_epoch = 0 /\ stalls = 0
    /\ result = "ok" /\ overtaken = 0 /\ done = 0
    /\ configured = 0 /\ request = "none" /\ status = "idle"
    /\ hw_err = 0 /\ aborted = 0 /\ xfer_started = 0
    /\ desc_allocated = {} /\ desc_submitted = {} /\ desc_issued = {}
    /\ desc_completed = {} /\ completed_cookie = 0
    /\ tasklet = 0 /\ callbacks = {} /\ running = 0
    /\ queued = 0 /\ lpc = "idle" /\ child = 0 /\ pending_launch = 0
    /\ cs = "stop" /\ hw_desc = 0 /\ done_int = 0 /\ abort_int = 0
    /\ dev_state = "live" /\ link_state = "up" /\ recovery_epoch = 0
    /\ rpc = "idle" /\ fpc = "idle" /\ ipc = "idle" /\ peer = 0 /\ faults = 0
    /\ term = [p \in Callers |-> "none"] /\ calls = [p \in Callers |-> 0]
    /\ moved = 0

-----------------------------------------------------------------------------
(* The virtual channel                                                     *)

\* The first entry of a list
First(list) == CHOOSE d \in list : \A e \in list : d <= e

\* vchan_cookie_complete of the head of desc_issued
CompleteHead ==
    LET d == First(desc_issued) IN
    /\ desc_issued' = desc_issued \ {d}
    /\ desc_completed' = desc_completed \union {d}
    /\ completed_cookie' = d
    /\ tasklet' = 1

NextDesc == IF desc_issued = {} THEN 0 ELSE First(desc_issued)

IsComplete(d) == d <= completed_cookie

TaskletIdle == tasklet = 0 /\ running = 0

\* The link itself; link_state is what the driver has found out about it.
LinkAlive == fpc \in {"idle", "up"}

\* A register read over a dead link returns all-ones, which is CS=3.
ReadCs == IF LinkAlive THEN cs ELSE "stop"

LaunchAllowed == dev_state = "live" /\ link_state = "up"

EpochChanged == recovery_epoch # start_epoch

-----------------------------------------------------------------------------
(* terminate_all, called n times in a row by p                             *)

Terminate(p, n) ==
    /\ term' = [term EXCEPT ![p] = "cancel"]
    /\ calls' = [calls EXCEPT ![p] = n]

Free(p) == term[p] = "none"

Return(p) ==
    /\ calls' = [calls EXCEPT ![p] = @ - 1]
    /\ term' = [term EXCEPT ![p] = IF calls[p] = 1 THEN "none" ELSE "cancel"]

\* cancel_work_sync: a running worker is waited for, a queued one dropped
TermCancel(p) ==
    /\ term[p] = "cancel"
    /\ lpc = "idle"
    /\ queued' = 0
    /\ term' = [term EXCEPT ![p] = "lock"]
    /\ UNCHANGED <<thread, done, chan, errs, lists, compl, task, lpc, child,
                   pending_launch, hw, device, others, calls>>

TermNotConfigured(p) ==
    /\ configured = 0
    /\ Return(p)
    /\ UNCHANGED <<chan, errs, lists, desc_completed, hw>>

ToSync(p) == term' = [term EXCEPT ![p] = "sync"] /\ UNCHANGED calls

\* dw_edma_v0_core_engine_cycle, as far as this channel sees it
Cycled == cs' = "stop" /\ hw_desc' = 0 /\ done_int' = 0 /\ abort_int' = 0

\* dw_edma_v0_core_ch_soft_reset of a channel in error; it may fail
SoftReset ==
    \/ Cycled
    \/ done_int' = 0 /\ abort_int' = 0 /\ UNCHANGED <<cs, hw_desc>>

TermIdle(p) ==
    /\ configured = 1 /\ status = "idle"
    /\ IF ReadCs = "err" THEN SoftReset
       ELSE UNCHANGED <<cs, hw_desc, done_int, abort_int>>
    /\ configured' = 0
    /\ ToSync(p)
    /\ UNCHANGED <<request, status, xfer_started, errs, lists, desc_completed, moved>>

\* The channel is in a false BUSY state
TermStopped(p) ==
    /\ configured = 1 /\ status = "busy" /\ ReadCs = "stop"
    /\ status' = "idle" /\ configured' = 0
    /\ ToSync(p)
    /\ UNCHANGED <<request, xfer_started, errs, lists, desc_completed, hw>>

\* EDMA_REQ_STOP is already set: soft reset, nothing, or engine cycle
TermForce(p) ==
    /\ configured = 1 /\ status = "busy" /\ ReadCs # "stop" /\ request = "stop"
    /\ \/ cs = "err" /\ SoftReset /\ hw_err' = (IF cs' = "err" THEN 1 ELSE hw_err)
       \/ /\ cs = "run" /\ hw_err = 1
          /\ done_int' = 0 /\ abort_int' = 0 /\ UNCHANGED <<cs, hw_desc, hw_err>>
       \/ cs = "run" /\ hw_err = 0 /\ Cycled /\ UNCHANGED hw_err
    /\ desc_allocated' = {} /\ desc_submitted' = {} /\ desc_issued' = {}
    /\ desc_completed' = {}
    /\ request' = "none" /\ status' = "idle" /\ configured' = 0
    /\ ToSync(p)
    /\ UNCHANGED <<xfer_started, aborted, moved>>

TermRequest(p) ==
    /\ configured = 1 /\ status = "busy" /\ ReadCs # "stop" /\ request = "none"
    /\ request' = "stop"
    /\ Return(p)
    /\ UNCHANGED <<configured, status, xfer_started, errs, lists, desc_completed, hw>>

TermLock(p) ==
    /\ term[p] = "lock"
    /\ pending_launch' = 0
    /\ \/ TermNotConfigured(p)
       \/ TermIdle(p)
       \/ TermStopped(p)
       \/ TermForce(p)
       \/ TermRequest(p)
    /\ UNCHANGED <<thread, done, completed_cookie, tasklet, task, queued, lpc,
                   child, device, others>>

\* vchan_synchronize waits for a scheduled or running tasklet
TermSync(p) ==
    /\ term[p] = "sync"
    /\ TaskletIdle
    /\ term' = [term EXCEPT ![p] = "drain"]
    /\ UNCHANGED <<thread, done, chan, errs, lists, compl, task, launch, hw,
                   device, others, calls>>

DrainLists ==
    /\ desc_allocated' = {} /\ desc_submitted' = {} /\ desc_issued' = {}
    /\ desc_completed' = {}

TermDrain(p) ==
    /\ term[p] = "drain"
    /\ DrainLists
    /\ Return(p)
    /\ UNCHANGED <<thread, done, chan, errs, completed_cookie, tasklet, task,
                   launch, hw, device, others>>

-----------------------------------------------------------------------------
(* The transfer thread: dw_edma_run, dw_edma_sg_process                    *)

\* A step of the thread that touches nothing but its own variables
Goto(pc) ==
    /\ tpc' = pc
    /\ UNCHANGED <<cur, cookie, start_epoch, stalls, result>>

Shared == <<done, chan, errs, lists, compl, task, launch, hw, device, others>>

\* The thread is at pc and not inside terminate_all
At(pc) == tpc = pc /\ Free("thread")

\* cb->result = -EIO or -ETIMEDOUT, and goto err_stats, where the locals are dead
Fail ==
    /\ tpc' = "return" /\ result' = "err"
    /\ cookie' = 0 /\ start_epoch' = 0 /\ stalls' = 0
    /\ UNCHANGED cur

\* The channel has stopped and no completion of it is on the way.
Quiet == cs # "run" /\ done_int = 0 /\ ipc = "idle"

RunTransfer ==
    /\ At("idle") /\ cur < MaxTransfers
    /\ tpc' = "config" /\ cur' = cur + 1 /\ result' = "none"
    /\ cookie' = 0 /\ start_epoch' = 0 /\ stalls' = 0
    /\ moved' = 0 /\ overtaken' = IF Quiet THEN 0 ELSE overtaken
    /\ UNCHANGED <<done, chan, errs, lists, compl, task, launch, cs, hw_desc, done_int,
                   abort_int, device, rpc, fpc, ipc, peer, faults, term, calls>>

\* dma_map_sg fails: the code leaves cb->result at 0.
MapFailed ==
    /\ At("config")
    /\ tpc' = "return" /\ result' = "ok"
    /\ UNCHANGED <<cur, cookie, start_epoch, stalls, Shared, term, calls>>

\* dw_edma_device_config
Configure ==
    /\ At("config")
    /\ Goto("epoch")
    /\ configured' = 1 /\ aborted' = 0 /\ xfer_started' = 0
    /\ UNCHANGED <<done, request, status, hw_err, lists, compl, task, launch, hw,
                   device, others, term, calls>>

ReadEpoch ==
    /\ At("epoch")
    /\ tpc' = "gate" /\ start_epoch' = recovery_epoch
    /\ UNCHANGED <<cur, cookie, stalls, result, Shared, term, calls>>

Gate ==
    /\ At("gate")
    /\ IF dev_state = "live" THEN Goto("prep") ELSE Fail
    /\ UNCHANGED <<Shared, term, calls>>

\* dw_edma_device_transfer refuses a channel that is not configured
Prep ==
    /\ At("prep")
    /\ \/ /\ configured = 1
          /\ Goto("clear")
          /\ desc_allocated' = desc_allocated \union {cur}
       \/ Fail /\ UNCHANGED desc_allocated
    /\ UNCHANGED <<done, chan, errs, desc_submitted, desc_issued, compl, task,
                   launch, hw, device, others, term, calls>>

ClearFlags ==
    /\ At("clear")
    /\ tpc' = "submit"
    /\ overtaken' = IF ipc = "idle" THEN overtaken ELSE 1
    /\ done' = 0 /\ hw_err' = 0 /\ aborted' = 0
    /\ UNCHANGED <<cur, cookie, start_epoch, stalls, result, chan, lists, compl,
                   task, launch, hw, device, rpc, fpc, ipc, peer, faults, term, calls>>

\* A reset may have freed the descriptor since: it is then on the list, or not.
Submit ==
    /\ At("submit")
    /\ tpc' = "issue" /\ cookie' = cur
    /\ desc_allocated' = desc_allocated \ {cur}
    /\ \/ desc_submitted' = desc_submitted \union {cur}
       \/ cur \notin desc_allocated /\ UNCHANGED desc_submitted
    /\ UNCHANGED <<cur, start_epoch, stalls, result, done, chan, errs,
                   desc_issued, compl, task, launch, hw, device, others, term, calls>>

\* The first descriptor's chunk is staged for the worker.
dw_edma_start_transfer == pending_launch' = NextDesc' /\ queued' = 1

\* Mutant: the submitted descriptors are copied, not moved
IssuePendingCopies ==
    /\ At("issue")
    /\ Goto("wait")
    /\ IF /\ configured = 1 /\ request = "none" /\ status = "idle"
          /\ desc_issued \union desc_submitted # {}
       THEN /\ desc_issued' = desc_issued \union desc_submitted
            /\ status' = "busy"
            /\ dw_edma_start_transfer
            /\ UNCHANGED desc_submitted
       ELSE UNCHANGED <<desc_issued, desc_submitted, status, pending_launch, queued>>
    /\ UNCHANGED <<done, configured, request, xfer_started, errs, desc_allocated,
                   compl, task, lpc, child, hw, device, others, term, calls>>

IssuePending ==
    /\ At("issue")
    /\ Goto("wait")
    /\ IF /\ configured = 1 /\ request = "none" /\ status = "idle"
          /\ desc_issued \union desc_submitted # {}
       THEN /\ desc_issued' = desc_issued \union desc_submitted
            /\ desc_submitted' = {}
            /\ status' = "busy"
            /\ dw_edma_start_transfer
       ELSE UNCHANGED <<desc_issued, desc_submitted, status, pending_launch, queued>>
    /\ UNCHANGED <<done, configured, request, xfer_started, errs, desc_allocated,
                   compl, task, lpc, child, hw, device, others, term, calls>>

FailTerminating(n) == Fail /\ Terminate("thread", n)

FailQuietly == Fail /\ UNCHANGED <<term, calls>>

Proceed(pc) == Goto(pc) /\ UNCHANGED <<term, calls>>

\* dw_edma_wait_done returns: done or hw_err, a signal, a timeout, a new epoch
WaitEnds ==
    /\ At("wait")
    /\ \/ Proceed("guard")
       \/ done = 0 /\ hw_err = 0 /\ Proceed("signal")
    /\ UNCHANGED Shared

Guard ==
    /\ At("guard") \/ At("signal")
    /\ \/ EpochChanged /\ FailQuietly
       \/ ~EpochChanged /\ hw_err = 1 /\ FailTerminating(2)
       \/ /\ ~EpochChanged /\ hw_err = 0
          /\ Proceed(IF tpc = "signal" THEN "drain" ELSE IF done = 0 THEN "late" ELSE "final")
    /\ UNCHANGED Shared

\* dw_edma_check_done: -EIO, 0 or 1
Recovered == EpochChanged \/ hw_err = 1
Done == ~Recovered /\ done = 1
StillWaiting == ~Recovered /\ done = 0

\* Mutant: windows without progress are not counted
SignalDrainForever ==
    /\ At("drain")
    /\ \/ Recovered /\ FailQuietly
       \/ Done /\ Proceed("final")
       \/ StillWaiting /\ UNCHANGED <<thread, term, calls>>
    /\ UNCHANGED Shared

\* The wait for an in-flight transfer after a signal
SignalDrain ==
    /\ At("drain")
    /\ \/ Recovered /\ FailQuietly
       \/ /\ Done
          /\ tpc' = "final" /\ stalls' = 0
          /\ UNCHANGED <<cur, cookie, start_epoch, result, term, calls>>
       \/ StillWaiting /\ stalls + 1 = MaxStalls /\ FailTerminating(2)
       \/ /\ StillWaiting /\ stalls + 1 < MaxStalls
          /\ stalls' = stalls + 1
          /\ UNCHANGED <<tpc, cur, cookie, start_epoch, result, term, calls>>
    /\ UNCHANGED Shared

\* Stage 1: the cookie is complete, the callback is late
LateCallback ==
    /\ At("late")
    /\ IF IsComplete(cookie) THEN Proceed("rewait") /\ tasklet' = 1
       ELSE Proceed("grace") /\ UNCHANGED tasklet
    /\ UNCHANGED <<done, chan, errs, lists, desc_completed, completed_cookie, task,
                   launch, hw, device, others>>

LateRewait ==
    /\ At("rewait")
    /\ \/ Recovered /\ FailQuietly
       \/ Done /\ Proceed("final")
       \/ StillWaiting /\ Proceed("flush")
    /\ UNCHANGED Shared

\* tasklet_kill
LateFlush ==
    /\ At("flush")
    /\ TaskletIdle
    /\ \/ Done /\ Proceed("final")
       \/ ~Done /\ FailQuietly
    /\ UNCHANGED Shared

\* Stage 2, and the choice between stages 3 and 4
Grace ==
    /\ At("grace")
    /\ \/ Recovered /\ FailQuietly
       \/ Done /\ Proceed("final")
       \/ StillWaiting /\ ReadCs = "err" /\ FailTerminating(2)
       \/ StillWaiting /\ ReadCs # "err" /\ Goto("stuck") /\ Terminate("thread", 1)
    /\ UNCHANGED Shared

\* Stage 4: a graceful stop was asked for
Stuck ==
    /\ At("stuck")
    /\ \/ ~StillWaiting /\ FailQuietly
       \/ StillWaiting /\ FailTerminating(1)
    /\ UNCHANGED Shared

Final ==
    /\ At("final")
    /\ \/ Recovered /\ FailQuietly
       \/ ~Recovered /\ Proceed(IF IsComplete(cookie) THEN "complete" ELSE "incomplete")
    /\ UNCHANGED Shared

\* Mutant: aborted is not looked at
ConcludeUnchecked ==
    /\ tpc \in {"complete", "incomplete"} /\ Free("thread")
    /\ aborted' = 0
    /\ \/ tpc = "incomplete" /\ FailTerminating(1)
       \/ /\ tpc = "complete"
          /\ tpc' = "return" /\ result' = "ok"
          /\ UNCHANGED <<cur, cookie, start_epoch, stalls, term, calls>>
    /\ UNCHANGED <<done, chan, hw_err, lists, compl, task, launch, hw, device, others>>


Conclude ==
    /\ tpc \in {"complete", "incomplete"} /\ Free("thread")
    /\ aborted' = 0
    /\ \/ aborted = 1 /\ FailTerminating(2)
       \/ aborted = 0 /\ tpc = "incomplete" /\ FailTerminating(1)
       \/ /\ aborted = 0 /\ tpc = "complete"
          /\ tpc' = "return" /\ result' = "ok"
          /\ UNCHANGED <<cur, cookie, start_epoch, stalls, term, calls>>
    /\ UNCHANGED <<done, chan, hw_err, lists, compl, task, launch, hw, device, others>>

Returned ==
    /\ At("return")
    /\ Proceed("idle")
    /\ UNCHANGED Shared

-----------------------------------------------------------------------------
(* The launch worker: dw_edma_launch_work_fn                               *)

Cancelled ==
    \/ ~LaunchAllowed \/ aborted = 1 \/ hw_err = 1
    \/ request = "stop" \/ status # "busy"

LaunchStart ==
    /\ queued = 1 /\ lpc = "idle"
    /\ queued' = 0
    /\ pending_launch' = 0
    /\ IF pending_launch = 0 \/ Cancelled THEN UNCHANGED <<lpc, child>>
       ELSE lpc' = "prepare" /\ child' = pending_launch
    /\ UNCHANGED <<thread, done, chan, errs, lists, compl, task, hw, device, others,
                   term, calls>>

\* dw_edma_v0_core_wait_channel_idle succeeds
ChannelIdle == LaunchAllowed /\ LinkAlive /\ cs = "stop"

\* A linked-list transfer clears the Done status of its predecessor.
ClearDoneInt == done_int' = IF IsLlm = 1 THEN 0 ELSE done_int

\* dw_edma_v0_core_prepare_start: waits for an idle channel.  It fails over a dead
\* link, on an error, which it may acknowledge, on a channel that stays busy, and
\* without a helper channel.
LaunchPrepare ==
    /\ lpc = "prepare"
    /\ \/ /\ ChannelIdle
          /\ lpc' = "armed"
          /\ ClearDoneInt
          /\ UNCHANGED <<hw_err, child, abort_int>>
       \/ /\ lpc' = "idle" /\ child' = 0 /\ hw_err' = 1
          /\ \/ (cs = "err" \/ IsLlm = 1) /\ done_int' = 0
             \/ UNCHANGED done_int
          /\ \/ cs = "err" /\ done_int' = 0 /\ abort_int' = 0
             \/ UNCHANGED abort_int
    /\ UNCHANGED <<thread, done, chan, aborted, lists, compl, task, queued,
                   pending_launch, cs, hw_desc, moved, device, others, term, calls>>

\* dw_edma_v0_xfer_llm; the write is lost on a dead link
RingDoorbell ==
    /\ xfer_started' = 1
    /\ IF LinkAlive THEN cs' = "run" /\ hw_desc' = child
       ELSE UNCHANGED <<cs, hw_desc>>

\* Revalidation under vc.lock, then the doorbell
LaunchDoorbell ==
    /\ lpc = "armed"
    /\ lpc' = "idle" /\ child' = 0
    /\ ClearDoneInt
    /\ overtaken' = IF ipc = "idle" THEN overtaken ELSE 1
    /\ \/ Cancelled /\ UNCHANGED <<hw_err, xfer_started, cs, hw_desc>>
       \/ /\ ~Cancelled /\ child # NextDesc
          /\ hw_err' = 1
          /\ UNCHANGED <<xfer_started, cs, hw_desc>>
       \/ /\ ~Cancelled /\ child = NextDesc
          /\ RingDoorbell
          /\ UNCHANGED hw_err
    /\ UNCHANGED <<thread, done, configured, request, status, aborted, lists, compl,
                   task, queued, pending_launch, abort_int, moved, device, rpc, fpc,
                   ipc, peer, faults,
                   term, calls>>

-----------------------------------------------------------------------------
(* The hardware                                                            *)

HwDone ==
    /\ cs = "run"
    /\ cs' = "stop" /\ hw_desc' = 0 /\ done_int' = 1
    /\ moved' = IF hw_desc = cur THEN 1 ELSE moved
    /\ UNCHANGED <<thread, done, chan, errs, lists, compl, task, launch, abort_int,
                   device, others, term, calls>>

HwAbort ==
    /\ cs = "run"
    /\ cs' = "err" /\ hw_desc' = 0 /\ abort_int' = 1
    /\ UNCHANGED <<thread, done, chan, errs, lists, compl, task, launch, done_int,
                   moved, device, others, term, calls>>

-----------------------------------------------------------------------------
(* Interrupts.  An MSI may be lost: nothing makes these actions happen.    *)

\* dw_edma_complete_done_locked
CompleteDone ==
    /\ xfer_started' = 0
    /\ IF desc_issued = {}
       THEN UNCHANGED <<desc_issued, desc_completed, completed_cookie, tasklet,
                        request, status>>
       ELSE CompleteHead /\ request' = "none" /\ status' = "idle"

DoneInterrupt ==
    /\ ipc = "idle" /\ LinkAlive /\ done_int = 1
    /\ done_int' = 0 /\ ipc' = "done"
    /\ UNCHANGED <<thread, done, chan, errs, lists, compl, task, launch, cs, hw_desc,
                   abort_int, moved, device, rpc, fpc, peer,
                   faults, overtaken, term, calls>>

DoneLocked ==
    /\ ipc = "done"
    /\ ipc' = "idle"
    /\ IF xfer_started = 1 THEN CompleteDone
       ELSE UNCHANGED <<xfer_started, request, status, desc_issued, compl>>
    /\ UNCHANGED <<thread, done, configured, errs, desc_allocated, desc_submitted,
                   task, launch, hw, device, rpc, fpc, peer,
                   faults, overtaken, term, calls>>

\* dw_edma_v0_core_ch_recover_abort
AcknowledgeAbort ==
    IF cs = "err" THEN abort_int' = 0 /\ done_int' = 0
    ELSE UNCHANGED <<abort_int, done_int>>

\* dw_edma_abort_interrupt: acknowledge and mark, ...
AbortInterrupt ==
    /\ ipc = "idle" /\ LinkAlive /\ abort_int = 1
    /\ AcknowledgeAbort
    /\ aborted' = 1 /\ ipc' = "abort"
    /\ overtaken' = IF cs = "err" THEN overtaken ELSE 1
    /\ UNCHANGED <<thread, done, chan, hw_err, lists, compl, task, launch, cs,
                   hw_desc, moved, device, rpc, fpc, peer, faults, term, calls>>

\* ... complete the descriptor under vc.lock, ...
AbortLocked ==
    /\ ipc = "abort"
    /\ ipc' = "unlocked"
    /\ IF desc_issued = {} THEN UNCHANGED <<desc_issued, compl>> ELSE CompleteHead
    /\ UNCHANGED <<thread, done, chan, errs, desc_allocated, desc_submitted, task,
                   launch, hw, device, rpc, fpc, peer,
                   faults, overtaken, term, calls>>

\* ... and reset the channel's state without it.
AbortIdle ==
    /\ ipc = "unlocked"
    /\ ipc' = "idle"
    /\ request' = "none" /\ status' = "idle"
    /\ UNCHANGED <<thread, done, configured, xfer_started, errs, lists, compl, task,
                   launch, hw, device, rpc, fpc, peer,
                   faults, overtaken, term, calls>>

-----------------------------------------------------------------------------
(* The tasklet: vchan_complete, dw_edma_callback                           *)

TaskletStart ==
    /\ tasklet = 1 /\ running = 0
    /\ tasklet' = 0 /\ running' = 1
    /\ callbacks' = desc_completed /\ desc_completed' = {}
    /\ UNCHANGED <<thread, done, chan, errs, lists, completed_cookie, launch, hw,
                   device, others, term, calls>>

\* The callback sets done of whatever transfer info stands for now.
Callback ==
    /\ running = 1 /\ callbacks # {}
    /\ callbacks' = callbacks \ {First(callbacks)}
    /\ done' = 1
    /\ UNCHANGED <<thread, chan, errs, lists, compl, running, launch, hw, device,
                   others, term, calls>>

TaskletEnd ==
    /\ running = 1 /\ callbacks = {}
    /\ running' = 0
    /\ UNCHANGED <<thread, done, chan, errs, lists, compl, callbacks, launch, hw,
                   device, others, term, calls>>

-----------------------------------------------------------------------------
(* dx_pcie_reset_dma_channels                                              *)

ResetStart ==
    /\ rpc = "idle" /\ faults < MaxFaults
    /\ link_state # "down" /\ dev_state # "aer_reset"
    /\ rpc' = "state" /\ faults' = faults + 1
    /\ recovery_epoch' = recovery_epoch + 1
    /\ UNCHANGED <<thread, done, chan, errs, lists, compl, task, launch, hw,
                   dev_state, link_state, fpc, ipc, peer, overtaken, term, calls>>

ResetState ==
    /\ rpc = "state"
    /\ rpc' = "hw_err" /\ dev_state' = "recovering"
    /\ UNCHANGED <<thread, done, chan, errs, lists, compl, task, launch, hw,
                   link_state, recovery_epoch, fpc, ipc, peer,
                   faults, overtaken, term, calls>>

ResetHwErr ==
    /\ rpc = "hw_err"
    /\ rpc' = "sync" /\ hw_err' = 1
    /\ Terminate("reset", 2)
    /\ UNCHANGED <<thread, done, chan, aborted, lists, compl, task, launch, hw,
                   device, fpc, ipc, peer, faults, overtaken>>

ResetSync ==
    /\ rpc = "sync" /\ Free("reset")
    /\ TaskletIdle
    /\ rpc' = "drain"
    /\ UNCHANGED <<thread, done, chan, errs, lists, compl, task, launch, hw, device,
                   fpc, ipc, peer,
                   faults, overtaken, term, calls>>

ResetDrain ==
    /\ rpc = "drain"
    /\ rpc' = "live"
    /\ DrainLists
    /\ request' = "none" /\ status' = "idle" /\ configured' = 0
    /\ UNCHANGED <<thread, done, xfer_started, errs, completed_cookie, tasklet, task,
                   launch, hw, device, fpc, ipc, peer,
                   faults, overtaken, term, calls>>

\* A channel that is still stuck is reset with the endpoint, if that works.
ResetLive ==
    /\ rpc = "live"
    /\ rpc' = "idle" /\ dev_state' = "live"
    /\ \/ ReadCs # "stop" /\ Cycled
       \/ UNCHANGED <<cs, hw_desc, done_int, abort_int>>
    /\ UNCHANGED <<thread, done, chan, errs, lists, compl, task, launch, moved,
                   link_state, recovery_epoch, fpc, ipc, peer,
                   faults, overtaken, term, calls>>

-----------------------------------------------------------------------------
(* A link flap: dx_dma_quiesce_for_link_down, dx_dma_full_reinit           *)

FlapDead ==
    /\ fpc = "idle" /\ faults < MaxFaults /\ link_state = "up"
    /\ fpc' = "dead" /\ faults' = faults + 1
    /\ Cycled
    /\ UNCHANGED <<thread, done, chan, errs, lists, compl, task, launch, moved, device,
                   rpc, ipc, peer, overtaken, term, calls>>

FlapDown ==
    /\ fpc = "dead"
    /\ fpc' = "epoch"
    /\ dev_state' = "aer_reset" /\ link_state' = "down"
    /\ UNCHANGED <<thread, done, chan, errs, lists, compl, task, launch, hw,
                   recovery_epoch, rpc, ipc, peer,
                   faults, overtaken, term, calls>>

FlapEpoch ==
    /\ fpc = "epoch"
    /\ fpc' = "flush" /\ recovery_epoch' = recovery_epoch + 1
    /\ UNCHANGED <<thread, done, chan, errs, lists, compl, task, launch, hw,
                   dev_state, link_state, rpc, ipc, peer,
                   faults, overtaken, term, calls>>

\* flush_workqueue, then every waiter is woken through hw_err
FlapHwErr ==
    /\ fpc = "flush" /\ queued = 0 /\ lpc = "idle"
    /\ fpc' = "down" /\ hw_err' = 1
    /\ UNCHANGED <<thread, done, chan, aborted, lists, compl, task, launch, hw,
                   device, rpc, ipc, peer,
                   faults, overtaken, term, calls>>

\* edma_restore programs the engine from scratch; then the flags
FlapReinit ==
    /\ fpc = "down"
    /\ fpc' = "up" /\ link_state' = "up"
    /\ Cycled
    /\ hw_err' = 0 /\ aborted' = 0 /\ status' = "idle"
    /\ UNCHANGED <<thread, done, configured, request, xfer_started, lists, compl,
                   task, launch, moved, dev_state, recovery_epoch, rpc, ipc, peer,
                   faults, overtaken, term, calls>>

FlapLive ==
    /\ fpc = "up"
    /\ fpc' = "idle" /\ dev_state' = "live"
    /\ UNCHANGED <<thread, done, chan, errs, lists, compl, task, launch, hw,
                   link_state, recovery_epoch, rpc, ipc, peer,
                   faults, overtaken, term, calls>>

-----------------------------------------------------------------------------
(* Another channel of the direction cycles the engine                      *)

PeerCycle ==
    /\ peer = 0 /\ faults < MaxFaults /\ link_state = "up"
    /\ peer' = 1 /\ faults' = faults + 1
    /\ cs' = "stop" /\ hw_desc' = 0
    /\ UNCHANGED <<thread, done, chan, errs, lists, compl, task, launch, done_int,
                   abort_int, moved, device, rpc, fpc, ipc, overtaken, term, calls>>

\* notify_peer_channels
PeerNotify ==
    /\ peer = 1
    /\ peer' = 0
    /\ hw_err' = IF status = "busy" THEN 1 ELSE hw_err
    /\ UNCHANGED <<thread, done, chan, aborted, lists, compl, task, launch, hw,
                   device, rpc, fpc, ipc, faults, overtaken, term, calls>>

-----------------------------------------------------------------------------
Thread ==
    \/ MapFailed \/ Configure \/ ReadEpoch \/ Gate \/ Prep \/ ClearFlags \/ Submit
    \/ IssuePending \/ WaitEnds \/ Guard \/ SignalDrain \/ LateCallback
    \/ LateRewait \/ LateFlush \/ Grace \/ Stuck \/ Final \/ Conclude \/ Returned

TerminateAll(p) == TermCancel(p) \/ TermLock(p) \/ TermSync(p) \/ TermDrain(p)

Worker == LaunchStart \/ LaunchPrepare \/ LaunchDoorbell
Tasklet == TaskletStart \/ Callback \/ TaskletEnd
Hardware == HwDone \/ HwAbort
Interrupts == DoneInterrupt \/ AbortInterrupt
Handler == DoneLocked \/ AbortLocked \/ AbortIdle
Reset == ResetState \/ ResetHwErr \/ ResetSync \/ ResetDrain \/ ResetLive
Flap == FlapDown \/ FlapEpoch \/ FlapHwErr \/ FlapReinit \/ FlapLive

Next ==
    \/ RunTransfer \/ Thread \/ \E p \in Callers : TerminateAll(p)
    \/ Worker \/ Tasklet \/ Hardware \/ Interrupts \/ Handler
    \/ ResetStart \/ Reset \/ FlapDead \/ Flap \/ PeerCycle \/ PeerNotify

Spec == Init /\ [][Next]_vars

FairSpec ==
    /\ Spec
    /\ WF_vars(Thread)
    /\ \A p \in Callers : WF_vars(TerminateAll(p))
    /\ WF_vars(Worker) /\ WF_vars(Tasklet)

-----------------------------------------------------------------------------
\* A transfer over a linked list that dw_edma_sg_process reports as complete has moved
\* its data, through lost interrupts, timeouts, aborts and resets, in the epoch it
\* started in, if it overtook no interrupt.
CompletedIsMoved ==
    /\ tpc = "idle" /\ result = "ok" /\ cur # 0 /\ IsLlm = 1
    /\ cookie = cur /\ ~EpochChanged /\ overtaken = 0
    => moved = 1

\* A descriptor completes at most once and never after a later one, whatever a reset,
\* a link flap or a late handler does to the lists: completed_cookie, which
\* dma_cookie_status compares with, only grows.
CompletedOnce == [][\A d \in desc_completed' \ desc_completed : d > completed_cookie]_vars

\* dw_edma_sg_process returns, whatever the hardware does and however many
\* interrupts are lost.
TransferReturns == tpc # "idle" ~> tpc = "idle"
=============================================================================
