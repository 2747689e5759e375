---------------------------- MODULE LazyTransfer ----------------------------
(***************************************************************************)
(* A transfer that needs more than one descriptor table, followed by a     *)
(* short one on the same channel.  The table of the eDMA channel in device *)
(* SRAM holds one chunk, so a long transfer is moved chunk by chunk:       *)
(*   - in shadow mode a worker builds the next chunk while the current one *)
(*     is moved, and copies and launches it once the current one is done;  *)
(*   - in fixed-buffer mode a worker refills the chunk that was moved.     *)
(* Both run beside the Done and Abort interrupts, the launch worker, the   *)
(* transfer thread, which may time out and terminate the channel, and the  *)
(* work that frees the descriptor.                                         *)
(*                                                                         *)
(* A scatter list is a number of batches, one batch for each chunk, and a  *)
(* chunk is known by its batch: 1..Chunks belong to the long transfer,     *)
(* Chunks + 1 to the short one.  A critical section of vc.lock is one      *)
(* action, and so is each step a worker takes outside it.  The stages of   *)
(* the thread's timeout and the reset of the channels are in DmaChannel.   *)
(***************************************************************************)
EXTENDS Integers, Sequences, FiniteSets

CONSTANTS
    Chunks,         \* chunks of the long transfer
    MaxFaults       \* failed allocations and copies, aborts, timeouts, ...

ASSUME ConstantsAssumption ==
    /\ Chunks \in Nat /\ Chunks >= 2
    /\ MaxFaults \in Nat

VARIABLES
    tpc, cur, left, result, done,       \* the transfer thread
    configured, request, status, xfer_started, hw_err, aborted,
    issued, completed,                  \* desc_issued, desc_completed
    lq, lpc, pending,                   \* launch work, and the staged transfer
    cs, moving, done_int, abort_int,    \* the channel's hardware
    sram,                               \* chunk in the table of the device
    desc_buf,                           \* chunk in the table of the host
    allowed,                            \* dw_edma_shadow_launch_allowed
    ipc,                                \* interrupt handler
    mode, lazy_mode, shadow_state, lazy_state, sg_remaining, cursor, has_more,
    chunk,                              \* first of desc->chunk->list, 0: none
    shadow_chunk, shadow_next_chunk, xfer_sz,
    sq, wpc, wshadow, wnext, wret,      \* shadow work and its locals
    zq, zpc, zchild, zret,              \* lazy refill work and its locals
    head,                               \* what terminate_all took from the lists
    fpc, freer,                         \* dw_edma_free_desc of the long transfer
    mem,                                \* memory of each chunk
    built,                              \* chunks that have bursts
    faults,
    moved,          \* auxiliary: the chunks that were moved, in order
    overtaken       \* auxiliary: an interrupt handler was running when the
                    \* channel was set up or a doorbell rang

thread == <<tpc, cur, left, result>>
chan == <<configured, request, status>>
errs == <<hw_err, aborted>>
lists == <<issued, completed>>
launch == <<lq, lpc, pending>>
hw == <<cs, moving, done_int, abort_int, moved>>
tables == <<sram, desc_buf>>
desc == <<lazy_mode, shadow_state, lazy_state, sg_remaining, chunk, xfer_sz>>
scan == <<mode, cursor, has_more, built>>
shadows == <<shadow_chunk, shadow_next_chunk>>
swork == <<sq, wpc, wshadow, wnext, wret>>
zwork == <<zq, zpc, zchild, zret>>
freeing == <<head, fpc, freer>>
vars == <<thread, done, chan, xfer_started, errs, lists, launch, hw, tables, allowed,
          ipc, desc, scan, shadows, swork, zwork, freeing, mem, faults, overtaken>>

Short == Chunks + 1
AllChunks == 1..Short

Init ==
    /\ tpc = "idle" /\ cur = 0 /\ left = 0 /\ result = "none" /\ done = 0
    /\ configured = 0 /\ request = "none" /\ status = "idle" /\ xfer_started = 0
    /\ hw_err = 0 /\ aborted = 0 /\ issued = {} /\ completed = {}
    /\ lq = 0 /\ lpc = "idle" /\ pending = 0
    /\ cs = "stop" /\ moving = 0 /\ done_int = 0 /\ abort_int = 0
    /\ sram = 0 /\ desc_buf = 0 /\ allowed = 1 /\ ipc = "idle"
    /\ mode = "none" /\ lazy_mode = 0 /\ shadow_state = "idle" /\ lazy_state = "idle"
    /\ sg_remaining = 0 /\ cursor = 0 /\ has_more = 0 /\ chunk = 0
    /\ shadow_chunk = 0 /\ shadow_next_chunk = 0 /\ xfer_sz = 0
    /\ sq = 0 /\ wpc = "idle" /\ wshadow = 0 /\ wnext = 0 /\ wret = "ok"
    /\ zq = 0 /\ zpc = "idle" /\ zchild = 0 /\ zret = 0
    /\ head = {} /\ fpc = "none" /\ freer = "none"
    /\ mem = [c \in AllChunks |-> "none"] /\ built = {}
    /\ faults = 0 /\ moved = <<>> /\ overtaken = 0

\* Something fails here that does not fail every time.
Fault == faults < MaxFaults /\ faults' = faults + 1

\* There is no memory for a chunk, or no burst in the pool and none from the kernel.
OutOfMemory == Fault

\* Memory after the chunks of a set are allocated, ...
Alloc(cset) == [c \in AllChunks |-> IF c \in cset THEN "live" ELSE mem[c]]

\* ... or freed, with their bursts
FreeAll(old, cset) ==
    [c \in AllChunks |-> IF c \in cset THEN IF old[c] = "live" THEN "freed" ELSE "twice"
                         ELSE old[c]]

Free(cset) == mem' = FreeAll(mem, cset)

\* The descriptor at the head of desc_issued, 0: none
NextDesc == IF 1 \in issued THEN 1 ELSE IF 2 \in issued THEN 2 ELSE 0

\* list_del and vchan_cookie_complete of d
Complete(d) == issued' = issued \ {d} /\ completed' = completed \union {d}

\* dw_edma_v0_xfer_llm
Doorbell ==
    /\ xfer_started' = 1 /\ done_int' = 0
    /\ cs' = "run" /\ moving' = sram
    /\ overtaken' = IF ipc = "idle" THEN overtaken ELSE 1
    /\ UNCHANGED <<abort_int, moved>>

NoDoorbell == UNCHANGED <<xfer_started, hw, overtaken>>

-----------------------------------------------------------------------------
(* The transfer thread.  dw_edma_device_transfer fills the first chunk and *)
(* chooses the mode: shadow if a chunk for it can be had.                  *)

ChannelReset ==
    /\ configured' = 1 /\ aborted' = 0 /\ hw_err' = 0 /\ done' = 0
    /\ overtaken' = IF ipc = "idle" THEN 0 ELSE 1

\* dw_edma_device_issue_pending
Issue(d) ==
    /\ UNCHANGED <<request, completed, lpc>>
    /\ IF request = "none" /\ status = "idle"
       THEN issued' = issued \union {d} /\ status' = "busy" /\ lq' = 1 /\ pending' = d
       ELSE UNCHANGED <<issued, status, lq, pending>>

\* dw_edma_shadow_prepare_build
ShadowMode ==
    /\ allowed = 1
    /\ mode' = "shadow" /\ shadow_state' = "building" /\ shadow_chunk' = 2
    /\ mem' = Alloc({1, 2})

FixedMode ==
    /\ mode' = "fixed" /\ mem' = Alloc({1})
    /\ UNCHANGED <<shadow_state, shadow_chunk>>

StartLong ==
    /\ tpc = "idle" /\ cur = 0
    /\ tpc' = "wait" /\ cur' = 1 /\ result' = "none"
    /\ ChannelReset /\ xfer_started' = 0 /\ Issue(1)
    /\ lazy_mode' = 1 /\ chunk' = 1 /\ built' = {1}
    /\ sg_remaining' = Chunks - 1 /\ cursor' = 2 /\ has_more' = 1
    /\ ShadowMode \/ FixedMode
    /\ UNCHANGED <<left, lazy_state, xfer_sz, shadow_next_chunk, hw, tables, allowed, ipc,
                   swork, zwork, freeing, faults>>

StartShort ==
    /\ tpc = "idle" /\ cur = 1
    /\ tpc' = "wait" /\ cur' = 2 /\ result' = "none"
    /\ ChannelReset /\ xfer_started' = 0 /\ Issue(2)
    /\ mem' = Alloc({Short})
    /\ UNCHANGED <<left, desc, scan, shadows, hw, tables, allowed, ipc, swork, zwork,
                   freeing, faults>>

Elsewhere == <<xfer_started, hw, tables, allowed, ipc, desc, scan, shadows, swork,
               zwork, mem, overtaken>>

Fail(n) ==
    /\ result' = "err" /\ left' = n /\ tpc' = "cancel"
    /\ UNCHANGED cur

\* dw_edma_wait_done, and the checks after it
WaitEnds ==
    /\ tpc = "wait" /\ (done = 1 \/ hw_err = 1)
    /\ \/ hw_err = 1 /\ Fail(2) /\ UNCHANGED aborted
       \/ hw_err = 0 /\ aborted = 1 /\ Fail(2) /\ aborted' = 0
       \/ /\ hw_err = 0 /\ aborted = 0
          /\ tpc' = "idle" /\ result' = "ok"
          /\ UNCHANGED <<cur, left, aborted>>
    /\ UNCHANGED <<done, chan, hw_err, lists, launch, freeing, faults, Elsewhere>>

\* The timeout: at once two calls of terminate_all after an error of the hardware;
\* else one, and a second if the first does not bring the callback
Timeout ==
    /\ tpc = "wait" /\ done = 0 /\ hw_err = 0
    /\ Fail(IF cs = "err" THEN 2 ELSE 1)
    /\ faults' = IF faults < MaxFaults THEN faults + 1 ELSE faults
    /\ UNCHANGED <<done, chan, errs, lists, launch, freeing, Elsewhere>>

Rewait ==
    /\ tpc = "rewait"
    /\ IF done = 1 \/ hw_err = 1 THEN tpc' = "idle" /\ UNCHANGED left
       ELSE tpc' = "cancel" /\ left' = -1
    /\ UNCHANGED <<cur, result, done, chan, errs, lists, launch, freeing, faults,
                   Elsewhere>>

-----------------------------------------------------------------------------
(* dw_edma_device_terminate_all                                            *)

\* left: 2: another call follows; 1: the thread waits again; -1: the last call
Returns ==
    /\ tpc' = IF left = 2 THEN "cancel" ELSE IF left = 1 THEN "rewait" ELSE "idle"
    /\ left' = IF left = 2 THEN -1 ELSE 0

\* cancel_work_sync
TermCancel ==
    /\ tpc = "cancel" /\ lpc = "idle"
    /\ lq' = 0 /\ tpc' = "lock"
    /\ UNCHANGED <<cur, left, result, done, chan, errs, lists, lpc, pending, freeing,
                   faults, Elsewhere>>

Cycled == cs' = "stop" /\ moving' = 0 /\ done_int' = 0 /\ abort_int' = 0

\* dw_edma_v0_core_ch_soft_reset
SoftReset ==
    \/ Cycled /\ UNCHANGED faults
    \/ Fault /\ cs' = "err" /\ moving' = 0 /\ done_int' = 0 /\ abort_int' = 0

TermIdle ==
    /\ configured = 1 /\ status = "idle"
    /\ \/ cs = "err" /\ SoftReset
       \/ cs # "err" /\ UNCHANGED <<cs, moving, done_int, abort_int, faults>>
    /\ configured' = 0 /\ tpc' = "sync"
    /\ UNCHANGED <<left, request, status, hw_err, lists, head>>

\* "a false BUSY state"
TermStopped ==
    /\ configured = 1 /\ status = "busy" /\ cs = "stop"
    /\ status' = "idle" /\ configured' = 0 /\ tpc' = "sync"
    /\ UNCHANGED <<left, request, cs, moving, done_int, abort_int, hw_err, faults, lists,
                   head>>

TermForce ==
    /\ configured = 1 /\ status = "busy" /\ cs # "stop" /\ request = "stop"
    /\ \/ cs = "err" /\ SoftReset /\ hw_err' = (IF cs' = "err" THEN 1 ELSE hw_err)
       \/ /\ cs = "run" /\ hw_err = 1
          /\ done_int' = 0 /\ abort_int' = 0 /\ UNCHANGED <<cs, moving, hw_err, faults>>
       \/ cs = "run" /\ hw_err = 0 /\ Cycled /\ UNCHANGED <<hw_err, faults>>
    /\ request' = "none" /\ status' = "idle" /\ configured' = 0 /\ tpc' = "sync"
    /\ issued' = {} /\ completed' = {} /\ head' = issued \union completed
    /\ UNCHANGED left

TermRequest ==
    /\ configured = 1 /\ status = "busy" /\ cs # "stop" /\ request = "none"
    /\ request' = "stop" /\ Returns
    /\ UNCHANGED <<configured, status, cs, moving, done_int, abort_int, hw_err, faults,
                   lists, head>>

TermNotConfigured ==
    /\ configured = 0
    /\ Returns
    /\ UNCHANGED <<chan, cs, moving, done_int, abort_int, hw_err, faults, lists, head>>

TermLock ==
    /\ tpc = "lock"
    /\ pending' = 0
    /\ TermNotConfigured \/ TermIdle \/ TermStopped \/ TermForce \/ TermRequest
    /\ UNCHANGED <<cur, result, done, aborted, lq, lpc, xfer_started, moved, tables, allowed,
                   ipc, desc, scan, shadows, swork, zwork, fpc, freer, mem, overtaken>>

\* vchan_synchronize, then every list is drained; the descriptors are freed here
TermDrain ==
    /\ tpc = "sync" /\ completed = {}
    /\ issued' = {} /\ head' = {}
    /\ tpc' = "free"
    /\ IF 1 \in issued \union head THEN fpc' = "mark" /\ freer' = "thread"
       ELSE UNCHANGED <<fpc, freer>>
    /\ mem' = IF 2 \in issued \union head /\ mem[Short] = "live" THEN FreeAll(mem, {Short}) ELSE mem
    /\ UNCHANGED <<cur, left, result, done, chan, errs, completed, launch, xfer_started, hw,
                   tables, allowed, ipc, desc, scan, shadows, swork, zwork, faults, overtaken>>

TermFreed ==
    /\ tpc = "free" /\ (freer = "thread" => fpc = "gone")
    /\ Returns
    /\ UNCHANGED <<cur, result, done, chan, errs, lists, launch, freeing, faults, Elsewhere>>

-----------------------------------------------------------------------------
(* The launch worker: dw_edma_launch_work_fn                               *)

\* The chunk that is first in the list of a descriptor
Active(d) == IF d = 1 THEN chunk ELSE Short

Cancelled ==
    \/ allowed = 0 \/ aborted = 1 \/ hw_err = 1
    \/ request = "stop" \/ status # "busy"

Quiet == <<thread, done, lists, allowed, ipc, freeing>>

LaunchStart ==
    /\ lq = 1 /\ lpc = "idle"
    /\ lq' = 0
    /\ IF pending = 0 \/ Cancelled THEN pending' = 0 /\ UNCHANGED lpc
       ELSE lpc' = "write" /\ UNCHANGED pending
    /\ UNCHANGED <<Quiet, chan, xfer_started, errs, hw, tables, desc, scan, shadows,
                   swork, zwork, mem, faults, overtaken>>

LaunchFails == lpc' = "idle" /\ pending' = 0 /\ hw_err' = 1

\* dw_edma_v0_core_prepare_start: wait for an idle channel, write the table, ...
LaunchWrite ==
    /\ lpc = "write"
    /\ \/ /\ allowed = 1 /\ cs = "stop"
          /\ lpc' = "copy" /\ desc_buf' = Active(pending) /\ done_int' = 0
          /\ UNCHANGED <<pending, hw_err, faults>>
       \/ /\ (allowed = 0 \/ cs # "stop")
          /\ LaunchFails /\ UNCHANGED <<desc_buf, done_int, faults>>
    /\ UNCHANGED <<Quiet, chan, xfer_started, aborted, lq, cs, moving, abort_int, moved, sram,
                   desc, scan, shadows, swork, zwork, mem, overtaken>>

\* ... and copy it with a helper channel
LaunchCopy ==
    /\ lpc = "copy"
    /\ \/ /\ allowed = 1 /\ aborted = 0 /\ hw_err = 0
          /\ lpc' = "armed" /\ sram' = desc_buf
          /\ UNCHANGED <<pending, hw_err, faults>>
       \/ LaunchFails /\ Fault /\ UNCHANGED sram
       \/ /\ allowed = 0 \/ aborted = 1 \/ hw_err = 1
          /\ LaunchFails
          /\ UNCHANGED <<sram, faults>>
    /\ UNCHANGED <<Quiet, chan, xfer_started, aborted, lq, hw, desc_buf,
                   desc, scan, shadows, swork, zwork, mem, overtaken>>

\* Revalidation under vc.lock, then the doorbell, then the first build
LaunchDoorbell ==
    /\ lpc = "armed"
    /\ lpc' = "idle" /\ pending' = 0
    /\ \/ Cancelled /\ NoDoorbell /\ UNCHANGED <<hw_err, sq>>
       \/ /\ ~Cancelled /\ NextDesc # pending
          /\ hw_err' = 1 /\ NoDoorbell /\ UNCHANGED sq
       \/ /\ ~Cancelled /\ NextDesc = pending
          /\ Doorbell
          /\ sq' = IF pending = 1 /\ lazy_mode = 1 /\ shadow_state = "building" THEN 1
                   ELSE sq
          /\ UNCHANGED hw_err
    /\ UNCHANGED <<Quiet, chan, aborted, lq, tables, desc, scan, shadows,
                   wpc, wshadow, wnext, wret, zwork, mem, faults>>

-----------------------------------------------------------------------------
(* The hardware, and what happens to the device                            *)

World == <<thread, done, chan, aborted, lists, launch, tables, ipc, desc, scan, shadows,
           swork, zwork, freeing, mem, overtaken>>

HwDone ==
    /\ cs = "run"
    /\ cs' = "stop" /\ moving' = 0 /\ done_int' = 1 /\ moved' = Append(moved, moving)
    /\ UNCHANGED <<World, xfer_started, hw_err, abort_int, allowed, faults>>

HwAbort ==
    /\ cs = "run" /\ Fault
    /\ cs' = "err" /\ moving' = 0 /\ abort_int' = 1
    /\ UNCHANGED <<World, xfer_started, hw_err, done_int, moved, allowed>>

\* A recovery begins or the link goes down
NotLive ==
    /\ allowed = 1 /\ Fault
    /\ allowed' = 0
    /\ UNCHANGED <<World, xfer_started, hw_err, hw>>

\* Another channel of the direction cycles the engine: notify_peer_channels
PeerKills ==
    /\ status = "busy" /\ Fault
    /\ cs' = "stop" /\ moving' = 0 /\ hw_err' = 1
    /\ UNCHANGED <<World, xfer_started, done_int, abort_int, moved, allowed>>

-----------------------------------------------------------------------------
(* Interrupts                                                              *)

DoneInterrupt ==
    /\ ipc = "idle" /\ done_int = 1
    /\ done_int' = 0 /\ ipc' = "done"
    /\ UNCHANGED <<thread, done, chan, xfer_started, errs, lists, launch, cs, moving,
                   abort_int, moved, tables, allowed, desc, scan, shadows, swork, zwork,
                   freeing, mem, faults, overtaken>>

\* Mutant: the worker is not queued
HandOverUnqueued ==
    /\ lazy_mode = 1 /\ request # "stop"
    /\ \/ /\ shadow_state \in {"ready", "building"}
          /\ shadow_state' = "isr_pending"
          /\ UNCHANGED <<sq, lazy_state, lazy_mode, zq, hw_err>>
       \/ /\ shadow_state = "idle" /\ sg_remaining > 0
          /\ lazy_state' = "pending"
          /\ IF mode = "fixed" THEN zq' = 1 /\ UNCHANGED <<lazy_mode, hw_err>>
             ELSE lazy_mode' = 0 /\ hw_err' = 1 /\ UNCHANGED zq
          /\ UNCHANGED <<shadow_state, sq>>
    /\ UNCHANGED <<chunk, mem, lists, request, status, aborted>>

\* dw_edma_defer_lazy_done_locked takes the event: a worker goes on.
HandOver ==
    /\ lazy_mode = 1 /\ request # "stop"
    /\ \/ /\ shadow_state \in {"ready", "building"}
          /\ shadow_state' = "isr_pending" /\ sq' = 1
          /\ UNCHANGED <<lazy_state, lazy_mode, zq, hw_err>>
       \/ /\ shadow_state = "idle" /\ sg_remaining > 0
          /\ lazy_state' = "pending"
          /\ IF mode = "fixed" THEN zq' = 1 /\ UNCHANGED <<lazy_mode, hw_err>>
             ELSE lazy_mode' = 0 /\ hw_err' = 1 /\ UNCHANGED zq
          /\ UNCHANGED <<shadow_state, sq>>
    /\ UNCHANGED <<chunk, mem, lists, request, status, aborted>>

\* ... or leaves it: a stop was requested, the last chunk is done, or the state is wrong.
Unexpected ==
    /\ chunk # 0 /\ lazy_mode = 1 /\ request = "none"
    /\ shadow_state \in {"cancelled", "isr_pending"}

LastOrStop ==
    \/ chunk = 0 \/ lazy_mode = 0 \/ request = "stop" \/ Unexpected
    \/ shadow_state = "idle" /\ sg_remaining = 0

Finish ==
    /\ LastOrStop
    /\ lazy_mode' = IF chunk # 0 /\ (request = "stop" \/ Unexpected) THEN 0 ELSE lazy_mode
    /\ aborted' = IF Unexpected THEN 1 ELSE aborted
    /\ shadow_state' =
         IF request = "stop" /\ shadow_state \in {"building", "isr_pending"} THEN "cancelled"
         ELSE IF request = "stop" /\ shadow_state = "ready"
              THEN IF chunk # 0 /\ lazy_mode = 1 THEN "cancelled" ELSE "idle"
              ELSE shadow_state
    /\ mem' = IF chunk # 0 THEN FreeAll(mem, {chunk}) ELSE mem
    /\ chunk' = 0
    /\ Complete(1) /\ request' = "none" /\ status' = "idle"
    /\ UNCHANGED <<lazy_state, sq, zq, hw_err>>

\* dw_edma_complete_done_locked
CompleteLong ==
    /\ NextDesc = 1
    /\ xfer_sz' = IF chunk # 0 THEN xfer_sz + 1 ELSE xfer_sz
    /\ \/ chunk # 0 /\ HandOver
       \/ Finish

CompleteShort ==
    /\ NextDesc = 2
    /\ mem' = FreeAll(mem, {Short})
    /\ Complete(2) /\ request' = "none" /\ status' = "idle"
    /\ UNCHANGED <<lazy_state, lazy_mode, shadow_state, sq, zq, hw_err, aborted, chunk, xfer_sz>>

DoneLocked ==
    /\ ipc = "done"
    /\ ipc' = "idle" /\ xfer_started' = 0
    /\ \/ xfer_started = 1 /\ (CompleteLong \/ CompleteShort)
       \/ /\ xfer_started = 0 \/ NextDesc = 0
          /\ UNCHANGED <<chunk, mem, lists, request, status, aborted, lazy_state, lazy_mode,
                         shadow_state, sq, zq, hw_err, xfer_sz>>
    /\ UNCHANGED <<thread, done, configured, launch, hw, tables, allowed, sg_remaining, scan,
                   shadows, wpc, wshadow, wnext, wret, zpc, zchild, zret, freeing, faults,
                   overtaken>>

AbortInterrupt ==
    /\ ipc = "idle" /\ abort_int = 1
    /\ IF cs = "err" THEN abort_int' = 0 /\ done_int' = 0 ELSE UNCHANGED <<abort_int, done_int>>
    /\ aborted' = 1 /\ ipc' = "abort"
    /\ UNCHANGED <<thread, done, chan, xfer_started, hw_err, lists, launch, cs, moving,
                   moved, tables, allowed, desc, scan, shadows, swork, zwork, freeing, mem,
                   faults, overtaken>>

AbortLocked ==
    /\ ipc = "abort"
    /\ ipc' = "unlocked"
    /\ IF NextDesc = 0 THEN UNCHANGED lists ELSE Complete(NextDesc)
    /\ shadow_state' = IF NextDesc = 1 /\ shadow_state \in {"building", "isr_pending"}
                       THEN "cancelled" ELSE shadow_state
    /\ UNCHANGED <<thread, done, chan, xfer_started, errs, launch, hw, tables, allowed,
                   lazy_mode, lazy_state, sg_remaining, chunk, xfer_sz, scan, shadows,
                   swork, zwork, freeing, mem, faults, overtaken>>

AbortIdle ==
    /\ ipc = "unlocked"
    /\ ipc' = "idle"
    /\ request' = "none" /\ status' = "idle"
    /\ UNCHANGED <<thread, done, configured, xfer_started, errs, lists, launch, hw, tables,
                   allowed, desc, scan, shadows, swork, zwork, freeing, mem, faults,
                   overtaken>>

\* vchan_complete: the callback, then the descriptor goes to deferred_free_desc_work.
Tasklet ==
    /\ completed # {}
    /\ completed' = {} /\ done' = 1
    /\ IF 1 \in completed THEN fpc' = "mark" /\ freer' = "work" ELSE UNCHANGED <<fpc, freer>>
    /\ UNCHANGED <<thread, chan, xfer_started, errs, issued, launch, hw, tables, allowed, ipc,
                   desc, scan, shadows, swork, zwork, head, mem, faults, overtaken>>

-----------------------------------------------------------------------------
(* The shadow worker: dw_edma_shadow_build_work                            *)

SOther == <<thread, done, configured, request, lists, launch, allowed, ipc, mode, lazy_state,
            zwork, freeing>>

SEnd == wpc' = "idle" /\ wshadow' = 0 /\ wnext' = 0

\* The work starts: copy a chunk that was built before, or build one.
ShadowStart ==
    /\ sq = 1 /\ wpc = "idle"
    /\ sq' = 0 /\ wshadow' = shadow_chunk /\ wret' = "ok"
    /\ \/ /\ shadow_state = "isr_pending" /\ shadow_chunk \in built
          /\ wpc' = "precopy" /\ wnext' = shadow_next_chunk /\ shadow_next_chunk' = 0
       \/ /\ ~(shadow_state = "isr_pending" /\ shadow_chunk \in built)
          /\ wpc' = IF shadow_chunk = 0 THEN "nothing" ELSE "fill"
          /\ UNCHANGED <<wnext, shadow_next_chunk>>
    /\ UNCHANGED <<SOther, status, xfer_started, errs, hw, tables, lazy_mode, shadow_state,
                   sg_remaining, chunk, xfer_sz, cursor, has_more, built, shadow_chunk, mem,
                   faults, overtaken>>

ShadowNothing ==
    /\ wpc = "nothing"
    /\ SEnd /\ hw_err' = 1
    /\ UNCHANGED <<SOther, status, xfer_started, aborted, hw, tables, desc, scan, shadows,
                   sq, wret, mem, faults, overtaken>>

\* Mutant: the last chunk is forgotten
ShadowFillShort ==
    /\ wpc = "fill"
    /\ \/ /\ cursor <= Chunks /\ wshadow \notin built
          /\ built' = built \union {wshadow}
          /\ cursor' = cursor + 1 /\ has_more' = (IF cursor < Chunks - 1 THEN 1 ELSE 0)
          /\ desc_buf' = wshadow /\ wpc' = "switch"
          /\ \/ /\ cursor < Chunks
                /\ wnext' = wshadow + 1 /\ mem' = Alloc({wshadow + 1})
                /\ UNCHANGED faults
             \/ /\ cursor < Chunks /\ OutOfMemory
                /\ UNCHANGED <<wnext, mem>>
             \/ /\ cursor = Chunks
                /\ UNCHANGED <<wnext, mem, faults>>
       \/ /\ IF cursor <= Chunks /\ wshadow \notin built THEN OutOfMemory ELSE UNCHANGED faults
          /\ Free({wshadow}) /\ wpc' = "failed"
          /\ UNCHANGED <<built, cursor, has_more, desc_buf, wnext>>
    /\ UNCHANGED <<SOther, status, xfer_started, errs, hw, sram, lazy_mode, shadow_state,
                   sg_remaining, chunk, xfer_sz, shadows, sq, wshadow, wret, overtaken>>

\* dw_edma_shadow_fill_chunk, dw_edma_v0_core_prebuild_chunk, and the next chunk
ShadowFill ==
    /\ wpc = "fill"
    /\ \/ /\ cursor <= Chunks /\ wshadow \notin built
          /\ built' = built \union {wshadow}
          /\ cursor' = cursor + 1 /\ has_more' = (IF cursor < Chunks THEN 1 ELSE 0)
          /\ desc_buf' = wshadow /\ wpc' = "switch"
          /\ \/ /\ cursor < Chunks
                /\ wnext' = wshadow + 1 /\ mem' = Alloc({wshadow + 1})
                /\ UNCHANGED faults
             \/ /\ cursor < Chunks /\ OutOfMemory
                /\ UNCHANGED <<wnext, mem>>
             \/ /\ cursor = Chunks
                /\ UNCHANGED <<wnext, mem, faults>>
       \/ /\ IF cursor <= Chunks /\ wshadow \notin built THEN OutOfMemory ELSE UNCHANGED faults
          /\ Free({wshadow}) /\ wpc' = "failed"
          /\ UNCHANGED <<built, cursor, has_more, desc_buf, wnext>>
    /\ UNCHANGED <<SOther, status, xfer_started, errs, hw, sram, lazy_mode, shadow_state,
                   sg_remaining, chunk, xfer_sz, shadows, sq, wshadow, wret, overtaken>>

ShadowFailed ==
    /\ wpc = "failed"
    /\ SEnd
    /\ shadow_chunk' = 0 /\ shadow_state' = "idle"
    /\ IF shadow_state # "cancelled" /\ aborted = 0 /\ request = "none"
       THEN lazy_mode' = 0 /\ hw_err' = 1
       ELSE UNCHANGED <<lazy_mode, hw_err>>
    /\ UNCHANGED <<SOther, status, xfer_started, aborted, hw, tables, sg_remaining, chunk,
                   xfer_sz, cursor, has_more, built, shadow_next_chunk, sq, wret, mem, faults,
                   overtaken>>

\* Mutant: the table is copied as soon as it is built
ShadowSwitchEarly ==
    /\ wpc = "switch"
    /\ \/ /\ shadow_state = "building"
          /\ shadow_state' = "ready" /\ shadow_next_chunk' = wnext
          /\ wpc' = "precopy" /\ wnext' = 0
          /\ UNCHANGED <<wshadow, mem>>
       \/ /\ shadow_state = "isr_pending"
          /\ wpc' = "precopy"
          /\ UNCHANGED <<shadow_state, shadow_next_chunk, wshadow, wnext, mem>>
       \/ /\ shadow_state \notin {"building", "isr_pending"}
          /\ shadow_state' = "idle"
          /\ Free({wnext} \ {0}) /\ SEnd
          /\ UNCHANGED shadow_next_chunk
    /\ UNCHANGED <<SOther, status, xfer_started, errs, hw, tables, lazy_mode,
                   sg_remaining, chunk, xfer_sz, cursor, has_more, built, shadow_chunk, sq,
                   wret, faults, overtaken>>

\* BUILDING becomes READY; a Done that came during the build is served at once.
ShadowSwitch ==
    /\ wpc = "switch"
    /\ \/ /\ shadow_state = "building"
          /\ shadow_state' = "ready" /\ shadow_next_chunk' = wnext
          /\ wpc' = "ready" /\ wnext' = 0
          /\ UNCHANGED <<wshadow, mem>>
       \/ /\ shadow_state = "isr_pending"
          /\ wpc' = "precopy"
          /\ UNCHANGED <<shadow_state, shadow_next_chunk, wshadow, wnext, mem>>
       \/ /\ shadow_state \notin {"building", "isr_pending"}
          /\ shadow_state' = "idle"
          /\ Free({wnext} \ {0}) /\ SEnd
          /\ UNCHANGED shadow_next_chunk
    /\ UNCHANGED <<SOther, status, xfer_started, errs, hw, tables, lazy_mode,
                   sg_remaining, chunk, xfer_sz, cursor, has_more, built, shadow_chunk, sq,
                   wret, faults, overtaken>>

\* The active chunk may have stopped without a Done interrupt; ...
ShadowStopped ==
    /\ wpc = "ready"
    /\ IF xfer_started = 1 /\ cs = "stop"
       THEN done_int' = 0 /\ xfer_started' = 0 /\ wpc' = "handoff"
       ELSE wpc' = "recheck" /\ UNCHANGED <<done_int, xfer_started>>
    /\ UNCHANGED <<SOther, status, errs, cs, moving, abort_int, moved, tables, lazy_mode,
                   shadow_state, sg_remaining, chunk, xfer_sz, cursor, has_more, built,
                   shadows, sq, wshadow, wnext, wret, mem, faults, overtaken>>

TakeNext == wnext' = shadow_next_chunk /\ shadow_next_chunk' = 0 /\ wpc' = "precopy"

\* ... this worker then does what the interrupt would have done.
ShadowHandoff ==
    /\ wpc = "handoff"
    /\ \/ /\ lazy_mode = 1 /\ shadow_state = "ready" /\ shadow_chunk = wshadow /\ chunk # 0
          /\ xfer_sz' = xfer_sz + 1 /\ shadow_state' = "isr_pending"
          /\ TakeNext
       \/ /\ ~(lazy_mode = 1 /\ shadow_state = "ready" /\ shadow_chunk = wshadow /\ chunk # 0)
          /\ wpc' = "recheck"
          /\ UNCHANGED <<xfer_sz, shadow_state, wnext, shadow_next_chunk>>
    /\ UNCHANGED <<SOther, status, xfer_started, errs, hw, tables, lazy_mode, sg_remaining,
                   chunk, cursor, has_more, built, shadow_chunk, sq, wshadow, wret, mem,
                   faults, overtaken>>

\* "consume ISR_PENDING here before returning"
ShadowRecheck ==
    /\ wpc = "recheck"
    /\ \/ /\ lazy_mode = 1 /\ shadow_state = "isr_pending" /\ shadow_chunk = wshadow
          /\ TakeNext /\ UNCHANGED wshadow
       \/ /\ ~(lazy_mode = 1 /\ shadow_state = "isr_pending" /\ shadow_chunk = wshadow)
          /\ SEnd /\ UNCHANGED shadow_next_chunk
    /\ UNCHANGED <<SOther, status, xfer_started, errs, hw, tables, lazy_mode, shadow_state,
                   sg_remaining, chunk, xfer_sz, cursor, has_more, built, shadow_chunk, sq,
                   wret, mem, faults, overtaken>>

Unwanted == shadow_state = "cancelled" \/ aborted = 1 \/ request # "none"

PrecopyFails(ret) ==
    /\ wret' = IF ret = "canceled" /\ Unwanted THEN "canceled" ELSE "err"
    /\ Free({wshadow, wnext} \ {0}) /\ wpc' = "unbuild"

\* dw_edma_v0_core_precopy_lli: acquire a helper channel, ...
ShadowAcquire ==
    /\ wpc = "precopy"
    /\ \/ /\ allowed = 1 /\ shadow_state # "cancelled" /\ aborted = 0 /\ hw_err = 0
          /\ wpc' = "copy"
          /\ UNCHANGED <<wret, mem, faults>>
       \/ Fault /\ PrecopyFails("err")
       \/ /\ allowed = 0 \/ shadow_state = "cancelled" \/ aborted = 1 \/ hw_err = 1
          /\ \/ shadow_state = "cancelled" /\ allowed = 1 /\ PrecopyFails("canceled")
             \/ ~(shadow_state = "cancelled" /\ allowed = 1) /\ PrecopyFails("err")
          /\ UNCHANGED faults
    /\ UNCHANGED <<SOther, status, xfer_started, errs, hw, tables, desc, cursor, has_more,
                   built, shadows, sq, wshadow, wnext, overtaken>>

\* ... look again, and copy the table into the SRAM of the device
ShadowCopy ==
    /\ wpc = "copy"
    /\ \/ /\ allowed = 1 /\ shadow_state # "cancelled" /\ aborted = 0 /\ hw_err = 0
          /\ sram' = desc_buf /\ wpc' = "commit"
          /\ UNCHANGED <<wret, mem, faults>>
       \/ Fault /\ PrecopyFails("err") /\ UNCHANGED sram
       \/ /\ allowed = 0 \/ shadow_state = "cancelled" \/ aborted = 1 \/ hw_err = 1
          /\ PrecopyFails("canceled")
          /\ UNCHANGED <<faults, sram>>
    /\ UNCHANGED <<SOther, status, xfer_started, errs, hw, desc_buf, desc, cursor, has_more,
                   built, shadows, sq, wshadow, wnext, overtaken>>

ShadowUnbuild ==
    /\ wpc = "unbuild"
    /\ SEnd
    /\ shadow_chunk' = 0 /\ shadow_next_chunk' = 0 /\ lazy_mode' = 0 /\ shadow_state' = "idle"
    /\ hw_err' = IF wret = "canceled" THEN hw_err ELSE 1
    /\ UNCHANGED <<SOther, status, xfer_started, aborted, hw, tables, sg_remaining, chunk,
                   xfer_sz, cursor, has_more, built, sq, wret, mem, faults, overtaken>>

\* Swap the chunks and ring the doorbell under vc.lock, then queue the next build
ShadowCommit ==
    /\ wpc = "commit"
    /\ \/ /\ Unwanted
          /\ shadow_state' = "idle"
          /\ Free({wnext} \ {0}) /\ SEnd
          /\ NoDoorbell
          /\ UNCHANGED <<status, lazy_mode, hw_err, sg_remaining, chunk, shadow_chunk, sq>>
       \/ /\ ~Unwanted
          /\ chunk' = wshadow /\ status' = "busy"
          /\ \/ /\ allowed = 0
                /\ Free({chunk, wnext} \ {0}) /\ SEnd
                /\ shadow_chunk' = 0 /\ shadow_state' = "idle"
                /\ lazy_mode' = 0 /\ hw_err' = 1
                /\ NoDoorbell
                /\ UNCHANGED <<sg_remaining, sq>>
             \/ /\ allowed = 1
                /\ Doorbell
                /\ Free({chunk} \ {0})
                /\ IF has_more = 0 THEN lazy_mode' = 0 /\ sg_remaining' = 0
                   ELSE UNCHANGED <<lazy_mode, sg_remaining>>
                /\ shadow_chunk' = wnext
                /\ IF wnext # 0 THEN shadow_state' = "building" /\ sq' = 1
                   ELSE shadow_state' = "idle" /\ UNCHANGED sq
                /\ IF has_more = 1 /\ wnext = 0
                   THEN wpc' = "short" /\ UNCHANGED <<wshadow, wnext>> ELSE SEnd
                /\ UNCHANGED hw_err
    /\ UNCHANGED <<SOther, aborted, tables, xfer_sz, cursor, has_more, built,
                   shadow_next_chunk, wret, faults>>

\* No chunk for the rest: aborted is set, and lazy_mode cleared, without the lock.
ShadowShort ==
    /\ wpc = "short"
    /\ aborted' = 1
    /\ wpc' = "short2"
    /\ UNCHANGED <<SOther, status, xfer_started, hw_err, hw, tables, desc, cursor, has_more,
                   built, shadows, sq, wshadow, wnext, wret, mem, faults, overtaken>>

ShadowShort2 ==
    /\ wpc = "short2"
    /\ lazy_mode' = 0
    /\ SEnd
    /\ UNCHANGED <<SOther, status, xfer_started, errs, hw, tables, shadow_state, sg_remaining,
                   chunk, xfer_sz, cursor, has_more,
                   built, shadows, sq, wret, mem, faults, overtaken>>

-----------------------------------------------------------------------------
(* The fixed-buffer worker: dw_edma_lazy_refill_work                       *)

ZOther == <<thread, done, configured, launch, allowed, ipc, mode, shadow_state, has_more,
            shadows, swork, freeing>>

ZEnd == zpc' = "idle" /\ zchild' = 0 /\ zret' = 0

RefillStart ==
    /\ zq = 1 /\ zpc = "idle"
    /\ zq' = 0 /\ zpc' = "wait"
    /\ UNCHANGED <<ZOther, chan, lists, xfer_started, errs, hw, tables, lazy_mode, lazy_state,
                   sg_remaining, chunk, xfer_sz, cursor, built, zchild, zret, mem, faults,
                   overtaken>>

\* dw_edma_wait_stopped_for_lazy_refill
RefillWait ==
    /\ zpc = "wait"
    /\ zpc' = "claim"
    /\ \/ hw_err = 0 /\ aborted = 0 /\ cs = "stop" /\ zret' = 0 /\ UNCHANGED faults
       \/ /\ hw_err = 1 \/ aborted = 1 \/ cs = "err"
          /\ zret' = 1 /\ UNCHANGED faults
       \/ Fault /\ zret' = 1
    /\ UNCHANGED <<ZOther, chan, lists, xfer_started, errs, hw, tables, lazy_mode, lazy_state,
                   sg_remaining, chunk, xfer_sz, cursor, built, zq, zchild, mem, overtaken>>

\* The transfer is stopped: the chunk is freed and the descriptor completed.
Stop(c) ==
    /\ lazy_mode' = 0 /\ lazy_state' = "idle"
    /\ Free({c}) /\ Complete(1)
    /\ request' = "none" /\ status' = "idle"

\* Detach the chunk that was moved, or find that there is nothing to refill.
RefillClaim ==
    /\ zpc = "claim"
    /\ \/ /\ lazy_state # "pending"
          /\ ZEnd
          /\ UNCHANGED <<lazy_state, lazy_mode, hw_err, chunk, mem, lists, request, status>>
       \/ /\ lazy_state = "pending" /\ NextDesc # 1
          /\ ZEnd /\ lazy_state' = "idle"
          /\ UNCHANGED <<lazy_mode, hw_err, chunk, mem, lists, request, status>>
       \/ /\ lazy_state = "pending" /\ NextDesc = 1
          /\ \/ /\ zret = 1 \/ chunk = 0 \/ lazy_mode = 0
                /\ ZEnd /\ lazy_state' = "idle" /\ lazy_mode' = 0 /\ hw_err' = 1
                /\ UNCHANGED <<chunk, mem, lists, request, status>>
             \/ /\ zret = 0 /\ chunk # 0 /\ lazy_mode = 1 /\ request = "stop"
                /\ ZEnd /\ Stop(chunk) /\ chunk' = 0
                /\ UNCHANGED hw_err
             \/ /\ zret = 0 /\ chunk # 0 /\ lazy_mode = 1 /\ request = "none"
                /\ sg_remaining > 0
                /\ zpc' = "refill" /\ zchild' = chunk /\ chunk' = 0
                /\ lazy_state' = "preparing"
                /\ UNCHANGED <<zret, lazy_mode, hw_err, mem, lists, request, status>>
    /\ UNCHANGED <<ZOther, xfer_started, aborted, hw, tables, sg_remaining, xfer_sz, cursor,
                   built, zq, faults, overtaken>>

\* dw_edma_lazy_refill_chunk_prepare gives the chunk its next batch, and
\* dw_edma_v0_core_prepare_start writes its table, ...
RefillWrite ==
    /\ zpc = "refill"
    /\ \/ /\ allowed = 1 /\ cs = "stop"
          /\ zpc' = "copy" /\ zchild' = cursor /\ desc_buf' = cursor
          /\ built' = built \union {cursor}
          /\ mem' = [FreeAll(mem, {zchild}) EXCEPT ![cursor] = "live"]
          /\ done_int' = 0
          /\ UNCHANGED <<zret, hw_err, faults>>
       \/ /\ OutOfMemory
          /\ zpc' = "commit" /\ zret' = 1
          /\ UNCHANGED <<zchild, desc_buf, built, mem, done_int, hw_err>>
       \/ /\ allowed = 0 \/ cs # "stop"
          /\ zpc' = "commit" /\ zret' = 1 /\ hw_err' = 1
          /\ UNCHANGED <<zchild, desc_buf, built, mem, done_int, faults>>
    /\ UNCHANGED <<ZOther, chan, lists, xfer_started, aborted, cs, moving, abort_int, moved,
                   sram, lazy_mode, lazy_state, sg_remaining, chunk, xfer_sz, cursor, zq,
                   overtaken>>

\* ... and copies it
RefillCopy ==
    /\ zpc = "copy"
    /\ zpc' = "commit"
    /\ \/ /\ allowed = 1 /\ aborted = 0 /\ hw_err = 0
          /\ sram' = desc_buf
          /\ UNCHANGED <<zret, hw_err, faults>>
       \/ Fault /\ zret' = 1 /\ UNCHANGED <<hw_err, sram>>       \* helper busy
       \/ /\ allowed = 0 \/ aborted = 1 \/ hw_err = 1
          /\ zret' = 1 /\ hw_err' = 1
          /\ UNCHANGED <<faults, sram>>
    /\ UNCHANGED <<ZOther, chan, lists, xfer_started, aborted, hw, desc_buf, lazy_mode,
                   lazy_state, sg_remaining, chunk, xfer_sz, cursor, built, zq, zchild, mem,
                   overtaken>>

RefillCommit ==
    /\ zpc = "commit"
    /\ ZEnd
    /\ \/ /\ NextDesc # 1 \/ lazy_state # "preparing"
          /\ lazy_state' = IF NextDesc # 1 THEN "idle" ELSE lazy_state
          /\ Free({zchild}) /\ NoDoorbell
          /\ UNCHANGED <<lazy_mode, hw_err, sg_remaining, cursor, chunk, lists, request, status>>
       \/ /\ NextDesc = 1 /\ lazy_state = "preparing"
          /\ \/ /\ zret = 1
                /\ lazy_mode' = 0 /\ hw_err' = 1 /\ lazy_state' = "idle"
                /\ Free({zchild}) /\ NoDoorbell
                /\ UNCHANGED <<sg_remaining, cursor, chunk, lists, request, status>>
             \/ /\ zret = 0 /\ request = "stop"
                /\ Stop(zchild) /\ NoDoorbell
                /\ UNCHANGED <<hw_err, sg_remaining, cursor, chunk>>
             \/ /\ zret = 0 /\ request = "none"
                /\ lazy_mode = 0 \/ aborted = 1 \/ hw_err = 1
                /\ lazy_state' = "idle"
                /\ Free({zchild}) /\ NoDoorbell
                /\ UNCHANGED <<lazy_mode, hw_err, sg_remaining, cursor, chunk, lists, request,
                               status>>
             \/ /\ zret = 0 /\ request = "none" /\ lazy_mode = 1 /\ aborted = 0 /\ hw_err = 0
                /\ sg_remaining' = sg_remaining - 1 /\ cursor' = cursor + 1
                /\ lazy_mode' = IF sg_remaining = 1 THEN 0 ELSE 1
                /\ chunk' = zchild /\ lazy_state' = "idle" /\ status' = "busy"
                /\ Doorbell
                /\ UNCHANGED <<hw_err, mem, lists, request>>
    /\ UNCHANGED <<ZOther, aborted, tables, xfer_sz, built, zq, faults>>

-----------------------------------------------------------------------------
(* dw_edma_free_desc of the long transfer                                  *)

FOther == <<thread, done, chan, xfer_started, errs, lists, launch, hw, tables, allowed, ipc,
            lazy_mode, sg_remaining, xfer_sz, scan, wpc, wshadow, wnext, wret, zpc, zchild, zret, head, freer,
            faults, overtaken>>

FreeMark ==
    /\ fpc = "mark"
    /\ fpc' = "sync"
    /\ shadow_state' = IF shadow_state # "idle" THEN "cancelled" ELSE shadow_state
    /\ UNCHANGED <<FOther, lazy_state, chunk, shadows, sq, zq, mem>>

\* Mutant: cancel_work instead of cancel_work_sync
FreeShadowUnsynced ==
    /\ fpc = "sync"
    /\ fpc' = "lazy" /\ sq' = 0
    /\ Free({shadow_chunk, shadow_next_chunk} \ {0})
    /\ shadow_chunk' = 0 /\ shadow_next_chunk' = 0
    /\ lazy_state' = "idle"
    /\ UNCHANGED <<FOther, shadow_state, chunk, zq>>

\* cancel_work_sync of the shadow work, and its chunks
FreeShadow ==
    /\ fpc = "sync" /\ wpc = "idle"
    /\ fpc' = "lazy" /\ sq' = 0
    /\ Free({shadow_chunk, shadow_next_chunk} \ {0})
    /\ shadow_chunk' = 0 /\ shadow_next_chunk' = 0
    /\ lazy_state' = "idle"
    /\ UNCHANGED <<FOther, shadow_state, chunk, zq>>

\* cancel_work_sync of the refill, and the chunks of the descriptor
FreeChunks ==
    /\ fpc = "lazy" /\ zpc = "idle"
    /\ fpc' = "gone" /\ zq' = 0
    /\ Free({chunk} \ {0}) /\ chunk' = 0
    /\ UNCHANGED <<FOther, lazy_state, shadow_state, shadows, sq>>

-----------------------------------------------------------------------------
Thread == WaitEnds \/ Rewait \/ TermCancel \/ TermLock \/ TermDrain \/ TermFreed
Launch == LaunchStart \/ LaunchWrite \/ LaunchCopy \/ LaunchDoorbell
Interrupts == DoneInterrupt \/ DoneLocked \/ AbortInterrupt \/ AbortLocked \/ AbortIdle
Shadow ==
    \/ ShadowStart \/ ShadowNothing \/ ShadowFill \/ ShadowFailed \/ ShadowSwitch
    \/ ShadowStopped \/ ShadowHandoff \/ ShadowRecheck \/ ShadowAcquire \/ ShadowCopy
    \/ ShadowUnbuild \/ ShadowCommit \/ ShadowShort \/ ShadowShort2
Refill == RefillStart \/ RefillWait \/ RefillClaim \/ RefillWrite \/ RefillCopy \/ RefillCommit
FreeDesc == FreeMark \/ FreeShadow \/ FreeChunks

Terminated ==
    /\ tpc = "idle" /\ cur = 2
    /\ UNCHANGED vars

Next ==
    \/ StartLong \/ StartShort \/ Thread \/ Timeout \/ Launch \/ HwDone \/ HwAbort \/ NotLive
    \/ PeerKills \/ Interrupts \/ Tasklet \/ Shadow \/ Refill \/ FreeDesc \/ Terminated

Spec == Init /\ [][Next]_vars

FairSpec ==
    /\ Spec
    /\ WF_vars(Thread) /\ WF_vars(Launch) /\ WF_vars(HwDone) /\ WF_vars(Interrupts)
    /\ WF_vars(Tasklet) /\ WF_vars(Shadow) /\ WF_vars(Refill) /\ WF_vars(FreeDesc)

-----------------------------------------------------------------------------
\* A long transfer reported complete has moved each of its chunks once and in order, and
\* has counted each once, through every meeting of the Done interrupt with the worker
\* that builds or refills the next chunk, if no interrupt handler was overtaken.
CompletedInFull ==
    /\ cur = 1 /\ tpc = "idle" /\ result = "ok" /\ overtaken = 0
    => moved = [i \in 1..Chunks |-> i] /\ xfer_sz = Chunks

\* No chunk is freed twice, and none is used after it was freed: by the shadow worker,
\* by the refill, by the interrupts through the list of its descriptor, or by the worker
\* that launches the transfer, although an abort, a timeout or an error frees the
\* descriptor while they run; and once dw_edma_free_desc has returned every chunk is
\* freed: the active one, the one being built and the one allocated ahead.
ChunksOwned ==
    /\ \A c \in AllChunks : mem[c] # "twice"
    /\ fpc = "gone" => \A c \in 1..Chunks : mem[c] # "live"
    /\ wpc \in {"fill", "switch", "precopy", "copy", "commit"} => mem[wshadow] = "live"
    /\ wnext # 0 /\ wpc # "unbuild" => mem[wnext] = "live"
    /\ zchild # 0 => mem[zchild] = "live"
    /\ chunk # 0 => mem[chunk] = "live"
    /\ cur = 1 /\ lpc \in {"write", "copy"} => Active(pending) # 0 /\ mem[Active(pending)] = "live"

\* "Copying the shadow LLI while the previous chunk is still running corrupts the active
\* descriptor table": nobody writes the table in the device while the hardware walks it,
\* if no interrupt handler was overtaken.
TableStable == [][cur = 1 /\ overtaken = 0 /\ sram' # sram => cs # "run"]_vars

\* A long transfer whose interrupts arrive and in which nothing fails ends without a
\* timeout: no Done is lost between the interrupt, the shadow worker and the refill.
HealthyEnds == cur = 1 /\ tpc = "wait" /\ faults = 0 ~> tpc # "wait" \/ faults > 0
=============================================================================
