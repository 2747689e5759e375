------------------------------ MODULE Recovery ------------------------------
(***************************************************************************)
(* The recovery state machine of the runtime (RT) driver:                  *)
(* modules/rt/dxrt_drv_recovery.c and the DXRT_CMD_RECOVERY handler of     *)
(* modules/rt/dxrt_drv_message.c.                                          *)
(*                                                                         *)
(* Four kinds of actor store to dev_state, recovering and recovery_epoch   *)
(* with no common lock:                                                    *)
(*   - the link-event bridge, called by the PCIe driver on link down / up; *)
(*   - the readiness worker (recovery_ready_work, never two instances);    *)
(*   - kickers: ioctls that made the firmware reboot and "kick" recovery;  *)
(*   - callers of DXRT_CMD_RECOVERY, serialised by recovery_mutex.         *)
(* Each atomic store or check of the code is one step, so that every       *)
(* interleaving of the stores is explored.                                 *)
(***************************************************************************)
EXTENDS Naturals

CONSTANTS Kickers,      \* threads in an ioctl that reboots the firmware
          Callers,      \* threads in DXRT_CMD_RECOVERY
          NoCaller,     \* recovery_mutex is free
          MaxRetries,   \* dxrt_perm_fail_max_retries
          MaxStarts     \* bound on link flaps + kicks + recovery calls

ASSUME ConstantsAssumption ==
  /\ NoCaller \notin Callers
  /\ MaxRetries \in Nat \ {0}
  /\ MaxStarts \in Nat

VARIABLES
  dev_state,            \* dxrt_dev_state_t
  recovering,           \* atomic flag
  recovery_epoch,
  last_recovery_reason,
  recovery_count,
  recovery_fail_count,
  perm_fail_count,      \* perm_fail_count_in_window
  work_pending,         \* recovery_ready_work is queued
  link,                 \* the transport, as the PCIe driver sees it
  paused,               \* background_recovery_paused
  mbox,                 \* MAILBOX_READY as published by the firmware
  reboot_due,           \* auxiliary: the firmware acked a reboot it has not
                        \* begun, and the link has stayed up since
  bpc,                  \* the bridge
  kpc, kreason,         \* the kickers
  recovery_mutex, mpc, mret, flush,   \* the recovery callers
  wpc, wepoch, wreason, \* the readiness worker: start_epoch, reason
  epoch_ok,             \* it has read recovery_epoch = start_epoch
  starts,               \* recoveries triggered so far
  stranded              \* auxiliary: a recovery call was refused its DMA reset
                        \* by a PCI reset

shared == <<dev_state, recovering, recovery_epoch, last_recovery_reason,
            work_pending>>
counts == <<recovery_count, recovery_fail_count, perm_fail_count>>
bridge == <<link, paused, bpc>>
kick   == <<kpc, kreason>>
manual == <<recovery_mutex, mpc, mret, flush>>
worker == <<wpc, wepoch, wreason, epoch_ok>>
fw     == <<mbox, reboot_due>>
tally  == <<starts, stranded>>
vars   == <<shared, counts, bridge, kick, manual, worker, fw, tally>>

DevStates == {"READY", "RECOVERING", "TRANSPORT_OK", "FW_HANG",
              "WAITING_USER", "PERM_FAIL"}
Flag == {0, 1}
InTransit == {"RECOVERING", "TRANSPORT_OK"}

KickReasons == {"CPU_RESET", "FW_UPDATE", "FW_UPDATE_NODLMSG"}
EdgeReasons == {"CPU_RESET", "FW_UPDATE"}    \* need the mailbox drop first
Reasons == KickReasons \cup {"NONE", "LINK_FLAP", "FW_TIMEOUT"}

(* Program counters, named for the step about to be taken. *)
DownPc   == {"down_check", "down_state", "down_flag", "down_epoch",
             "down_clean"}
UpPc     == {"up_check", "up_state", "up_sched", "up_unpause"}
BridgePc == {"up", "down"} \cup DownPc \cup UpPc
KickPc   == {"idle", "ack", "check", "state", "flag", "epoch", "clean",
             "transport_ok", "sched"}
ManualPc == {"idle", "lock", "recheck", "state", "flag", "epoch",
             "reset_dma", "clean", "drop", "republish",
             "transport_ok", "sched", "flush", "outcome", "clear_flag",
             "read_state", "store_state", "unlock"}
WorkerPc == {"idle", "start", "settle", "drop", "republish", "ready",
             "ping", "final", "count", "store_ready", "hang",
             "hang_flag", "perm_check"}

TypeOK ==
  /\ dev_state \in DevStates
  /\ recovering \in Flag
  /\ recovery_epoch \in Nat
  /\ last_recovery_reason \in Reasons
  /\ recovery_count \in Nat /\ recovery_fail_count \in Nat
  /\ perm_fail_count \in Nat
  /\ work_pending \in Flag
  /\ link \in {"live", "down"} /\ paused \in Flag
  /\ mbox \in Flag /\ reboot_due \in Flag
  /\ bpc \in BridgePc
  /\ kpc \in [Kickers -> KickPc] /\ kreason \in [Kickers -> KickReasons]
  /\ recovery_mutex \in Callers \cup {NoCaller}
  /\ mpc \in [Callers -> ManualPc]
  /\ mret \in {"ok", "sbr", "error"}
  /\ flush \in {"none", "queued", "running"}
  /\ wpc \in WorkerPc /\ wepoch \in Nat /\ wreason \in Reasons
  /\ epoch_ok \in Flag
  /\ starts \in Nat /\ stranded \in Flag

\* dxrt_recovery_state_init, and a device that has finished booting.
Init ==
  /\ dev_state = "READY" /\ recovering = 0 /\ recovery_epoch = 0
  /\ last_recovery_reason = "NONE"
  /\ recovery_count = 0 /\ recovery_fail_count = 0 /\ perm_fail_count = 0
  /\ work_pending = 0
  /\ link = "live" /\ paused = 0
  /\ mbox = 1 /\ reboot_due = 0
  /\ bpc = "up"
  /\ kpc = [k \in Kickers |-> "idle"]
  /\ kreason = [k \in Kickers |-> "CPU_RESET"]
  /\ recovery_mutex = NoCaller
  /\ mpc = [c \in Callers |-> "idle"]
  /\ mret = "ok" /\ flush = "none"
  /\ wpc = "idle" /\ wepoch = 0 /\ wreason = "NONE"
  /\ epoch_ok = 0
  /\ starts = 0 /\ stranded = 0

\* dx_dlmsg_mailbox_ready: over a dead link the flags read as all-ones,
\* which the code takes for not ready.
MailboxReady == mbox = 1 /\ link = "live"

Trigger == starts < MaxStarts /\ starts' = starts + 1 /\ UNCHANGED stranded

\* A flush waiting for a queued instance is released when it is cancelled.
cancel_delayed_work ==
  /\ work_pending' = 0
  /\ flush' = IF flush = "queued" THEN "none" ELSE flush

-----------------------------------------------------------------------------
(* The link-event bridge, dxrt_link_event_notify.  The PCIe driver has     *)
(* already marked the transport dead when it calls it with DOWN, and       *)
(* already marked it live when it calls it with UP.                        *)

BridgeStep(from, to) == bpc = from /\ bpc' = to

\* Where the bridge is left after an UP.
BridgeIdle == IF paused = 1 THEN "up_unpause" ELSE "up"

\* dx_dma_quiesce_for_link_down, up to the notification.
LinkDown ==
  /\ BridgeStep("up", "down_check") /\ Trigger
  /\ link' = "down" /\ reboot_due' = 0
  /\ UNCHANGED <<shared, counts, paused, kick, manual, worker, mbox>>

DownCheck ==
  /\ bpc = "down_check"
  /\ bpc' = IF dev_state = "PERM_FAIL" THEN "down" ELSE "down_state"
  /\ UNCHANGED <<shared, counts, link, paused, kick, manual, worker, fw,
                 tally>>

DownState ==
  /\ BridgeStep("down_state", "down_flag")
  /\ dev_state' = "RECOVERING" /\ last_recovery_reason' = "LINK_FLAP"
  /\ UNCHANGED <<recovering, recovery_epoch, work_pending, counts, link,
                 paused, kick, manual, worker, fw, tally>>

DownFlag ==
  /\ BridgeStep("down_flag", "down_epoch")
  /\ recovering' = 1
  /\ UNCHANGED <<dev_state, recovery_epoch, last_recovery_reason,
                 work_pending, counts, link, paused, kick, manual, worker,
                 fw, tally>>

DownEpoch ==
  /\ BridgeStep("down_epoch", "down_clean")
  /\ recovery_epoch' = recovery_epoch + 1
  /\ UNCHANGED <<dev_state, recovering, last_recovery_reason, work_pending,
                 counts, link, paused, kick, manual, worker, fw, tally>>

\* cancel the queued work; the queue clears, wake-ups and the STARTED event
\* do not touch this module's state.
DownClean ==
  /\ BridgeStep("down_clean", "down")
  /\ cancel_delayed_work
  /\ UNCHANGED <<dev_state, recovering, recovery_epoch,
                 last_recovery_reason, counts, link, paused, kick,
                 recovery_mutex, mpc, mret, worker, fw, tally>>

\* dx_dma_full_reinit, up to the notification.
LinkRestored ==
  /\ BridgeStep("down", "up_check")
  /\ link' = "live"
  /\ UNCHANGED <<shared, counts, paused, kick, manual, worker, fw, tally>>

UpCheck ==
  /\ bpc = "up_check"
  /\ bpc' = IF dev_state # "PERM_FAIL" THEN "up_state" ELSE BridgeIdle
  /\ UNCHANGED <<shared, counts, link, paused, kick, manual, worker, fw,
                 tally>>

UpState ==
  /\ BridgeStep("up_state", "up_sched")
  /\ dev_state' = "TRANSPORT_OK"
  /\ UNCHANGED <<recovering, recovery_epoch, last_recovery_reason,
                 work_pending, counts, link, paused, kick, manual, worker,
                 fw, tally>>

UpSched ==
  /\ BridgeStep("up_sched", BridgeIdle)
  /\ work_pending' = 1
  /\ UNCHANGED <<dev_state, recovering, recovery_epoch,
                 last_recovery_reason, counts, link, paused, kick, manual,
                 worker, fw, tally>>

Bridge == \/ LinkDown \/ DownCheck \/ DownState \/ DownFlag \/ DownEpoch
          \/ DownClean \/ LinkRestored \/ UpCheck \/ UpState \/ UpSched

\* A PCI reset or AER recovery drives the same bridge, with background
\* recovery paused from before the DOWN until after the UP.
ResetPrepare ==
  /\ BridgeStep("up", "down_check") /\ Trigger
  /\ paused' = 1 /\ link' = "down" /\ reboot_due' = 0
  /\ UNCHANGED <<shared, counts, kick, manual, worker, mbox>>

ResetDone ==
  /\ BridgeStep("up_unpause", "up")
  /\ paused' = 0
  /\ UNCHANGED <<shared, counts, link, kick, manual, worker, fw, tally>>

-----------------------------------------------------------------------------
(* An ioctl that reboots the firmware: DX_PCIE_CPU_RESET through           *)
(* dxrt_msg_general, or dxrt_update_firmware; then                         *)
(* dxrt_kick_fw_reboot_recovery.                                           *)

KickStep(k, from, to) == kpc[k] = from /\ kpc' = [kpc EXCEPT ![k] = to]

\* dxrt_update_firmware kicks with msg_lock held, dxrt_msg_general after
\* dropping it.
MsgLockFree == \A k \in Kickers : \/ kpc[k] \in {"idle", "ack"}
                                 \/ kreason[k] = "CPU_RESET"

\* The gates of message_handler_general and, for CPU_RESET, of
\* dxrt_msg_general (dxrt_fw_mbox_blocked); the command is then written.
KickSend(k) ==
  /\ KickStep(k, "idle", "ack") /\ Trigger
  /\ dev_state = "READY"
  /\ \E r \in KickReasons :
        /\ r = "CPU_RESET" => MailboxReady
        /\ kreason' = [kreason EXCEPT ![k] = r]
  /\ UNCHANGED <<shared, counts, bridge, manual, worker, fw>>

\* dxrt_polling_ack sees the ack of a running firmware.
KickAcked(k) ==
  /\ KickStep(k, "ack", "check")
  /\ MailboxReady /\ MsgLockFree
  /\ reboot_due' = 1
  /\ UNCHANGED <<shared, counts, bridge, kreason, manual, worker, mbox,
                 tally>>

\* dxrt_polling_ack times out, is interrupted or reads all-ones.
KickFailed(k) ==
  /\ KickStep(k, "ack", "idle")
  /\ UNCHANGED <<shared, counts, bridge, kreason, manual, worker, fw,
                 tally>>

KickCheck(k) ==
  /\ KickStep(k, "check", IF dev_state = "PERM_FAIL" THEN "idle"
                                                    ELSE "state")
  /\ UNCHANGED <<shared, counts, bridge, kreason, manual, worker, fw,
                 tally>>

KickState(k) ==
  /\ KickStep(k, "state", "flag")
  /\ dev_state' = "RECOVERING" /\ last_recovery_reason' = kreason[k]
  /\ UNCHANGED <<recovering, recovery_epoch, work_pending, counts, bridge,
                 kreason, manual, worker, fw, tally>>

KickFlag(k) ==
  /\ KickStep(k, "flag", "epoch")
  /\ recovering' = 1
  /\ UNCHANGED <<dev_state, recovery_epoch, last_recovery_reason,
                 work_pending, counts, bridge, kreason, manual, worker, fw,
                 tally>>

KickEpoch(k) ==
  /\ KickStep(k, "epoch", "clean")
  /\ recovery_epoch' = recovery_epoch + 1
  /\ UNCHANGED <<dev_state, recovering, last_recovery_reason, work_pending,
                 counts, bridge, kreason, manual, worker, fw, tally>>

KickClean(k) ==
  /\ KickStep(k, "clean", "transport_ok")
  /\ cancel_delayed_work
  /\ UNCHANGED <<dev_state, recovering, recovery_epoch,
                 last_recovery_reason, counts, bridge, kreason,
                 recovery_mutex, mpc, mret, worker, fw, tally>>

KickTransportOk(k) ==
  /\ KickStep(k, "transport_ok", "sched")
  /\ dev_state' = "TRANSPORT_OK"
  /\ UNCHANGED <<recovering, recovery_epoch, last_recovery_reason,
                 work_pending, counts, bridge, kreason, manual, worker, fw,
                 tally>>

KickSched(k) ==
  /\ KickStep(k, "sched", "idle")
  /\ work_pending' = 1
  /\ UNCHANGED <<dev_state, recovering, recovery_epoch,
                 last_recovery_reason, counts, bridge, kreason, manual,
                 worker, fw, tally>>

KickerStep(k) ==
  \/ KickAcked(k) \/ KickFailed(k) \/ KickCheck(k) \/ KickState(k)
  \/ KickFlag(k) \/ KickEpoch(k) \/ KickClean(k) \/ KickTransportOk(k)
  \/ KickSched(k)

-----------------------------------------------------------------------------
(* DXRT_CMD_RECOVERY: dxrt_recovery_device, with                           *)
(* dxrt_wait_fw_reboot_complete inlined (clean .. outcome).                *)

ManualStep(c, from, to) == mpc[c] = from /\ mpc' = [mpc EXCEPT ![c] = to]

\* The two gates before the lock.
ManualEnter(c) ==
  /\ ManualStep(c, "idle", "lock") /\ Trigger
  /\ dev_state \notin InTransit
  /\ UNCHANGED <<shared, counts, bridge, kick, recovery_mutex, mret, flush,
                 worker, fw>>

ManualLock(c) ==
  /\ ManualStep(c, "lock", "recheck")
  /\ recovery_mutex = NoCaller /\ recovery_mutex' = c
  /\ UNCHANGED <<shared, counts, bridge, kick, mret, flush, worker, fw,
                 tally>>

\* On failure: unlock and return -EAGAIN.
ManualRecheck(c) ==
  /\ ManualStep(c, "recheck", IF dev_state \in InTransit THEN "unlock"
                                                         ELSE "state")
  /\ UNCHANGED <<shared, counts, bridge, kick, recovery_mutex, mret, flush,
                 worker, fw, tally>>

ManualState(c) ==
  /\ ManualStep(c, "state", "flag")
  /\ dev_state' = "RECOVERING" /\ last_recovery_reason' = "FW_TIMEOUT"
  /\ UNCHANGED <<recovering, recovery_epoch, work_pending, counts, bridge,
                 kick, recovery_mutex, mret, flush, worker, fw, tally>>

\* Fault: the flag is counted up instead of set.
ManualFlagIncrements(c) ==
  /\ ManualStep(c, "flag", "epoch")
  /\ recovering' = recovering + 1
  /\ UNCHANGED <<dev_state, recovery_epoch, last_recovery_reason,
                 work_pending, counts, bridge, kick, recovery_mutex, mret,
                 flush, worker, fw, tally>>

ManualFlag(c) ==
  /\ ManualStep(c, "flag", "epoch")
  /\ recovering' = 1
  /\ UNCHANGED <<dev_state, recovery_epoch, last_recovery_reason,
                 work_pending, counts, bridge, kick, recovery_mutex, mret,
                 flush, worker, fw, tally>>

ManualEpoch(c) ==
  /\ ManualStep(c, "epoch", "reset_dma")
  /\ recovery_epoch' = recovery_epoch + 1
  /\ UNCHANGED <<dev_state, recovering, last_recovery_reason, work_pending,
                 counts, bridge, kick, recovery_mutex, mret, flush, worker,
                 fw, tally>>

\* Fault: every failed reset returns early, not only -EAGAIN.
ManualResetRefusedOnError(c) ==
  /\ ManualStep(c, "reset_dma", "unlock")
  /\ UNCHANGED <<shared, counts, bridge, kick, recovery_mutex, mret, flush,
                 worker, fw, tally>>

\* dx_pcie_reset_dma_channels refuses with -EAGAIN while the link is down or
\* background recovery is paused: unlock, leaving dev_state = RECOVERING.
ManualResetRefused(c) ==
  /\ ManualStep(c, "reset_dma", "unlock")
  /\ link = "down" \/ paused = 1
  /\ stranded' = IF paused = 1 THEN 1 ELSE stranded
  /\ UNCHANGED <<shared, counts, bridge, kick, recovery_mutex, mret, flush,
                 worker, fw, starts>>

\* 0, 1 after a secondary bus reset (which resets the firmware too), or <0.
ManualReset(c) ==
  /\ ManualStep(c, "reset_dma", "clean")
  /\ link = "live" /\ paused = 0
  /\ mret' \in {"ok", "sbr", "error"}
  /\ mbox' = IF mret' = "sbr" THEN 0 ELSE mbox
  /\ reboot_due' = IF mret' = "sbr" THEN 0 ELSE reboot_due
  /\ UNCHANGED <<shared, counts, bridge, kick, recovery_mutex, flush,
                 worker, tally>>

\* Clear responses, events and pending counters, cycle the request queues,
\* wake the waiters; only after a plain reset is the command sent to the
\* firmware, which reboots without an ack.
ManualClean(c) ==
  /\ ManualStep(c, "clean", IF mret = "ok" THEN "drop" ELSE "clear_flag")
  /\ mret = "ok" => MsgLockFree
  /\ UNCHANGED <<shared, counts, bridge, kick, recovery_mutex, mret, flush,
                 worker, fw, tally>>

\* Phase A saw MAILBOX_READY drop, or phase B saw it return.
ManualSawEdge(c) ==
  /\ \/ ManualStep(c, "drop", "republish") /\ ~MailboxReady
     \/ ManualStep(c, "republish", "transport_ok") /\ MailboxReady
  /\ UNCHANGED <<shared, counts, bridge, kick, recovery_mutex, mret, flush,
                 worker, fw, tally>>

\* The deadline of phase A or of phase B passed: -ETIMEDOUT.
ManualTimeout(c) ==
  /\ \/ ManualStep(c, "drop", "clear_flag") /\ MailboxReady
     \/ ManualStep(c, "republish", "clear_flag") /\ ~MailboxReady
  /\ mret' = "error"
  /\ UNCHANGED <<shared, counts, bridge, kick, recovery_mutex, flush,
                 worker, fw, tally>>

ManualTransportOk(c) ==
  /\ ManualStep(c, "transport_ok", "sched")
  /\ dev_state' = "TRANSPORT_OK"
  /\ UNCHANGED <<recovering, recovery_epoch, last_recovery_reason,
                 work_pending, counts, bridge, kick, recovery_mutex, mret,
                 flush, worker, fw, tally>>

\* cancel_delayed_work, schedule_delayed_work and the call of
\* flush_delayed_work, which waits for the instance queued here.
ManualSched(c) ==
  /\ ManualStep(c, "sched", "flush")
  /\ work_pending' = 1 /\ flush' = "queued"
  /\ UNCHANGED <<dev_state, recovering, recovery_epoch,
                 last_recovery_reason, counts, bridge, kick, recovery_mutex,
                 mret, worker, fw, tally>>

ManualFlushed(c) ==
  /\ ManualStep(c, "flush", "outcome")
  /\ flush = "none"
  /\ UNCHANGED <<shared, counts, bridge, kick, recovery_mutex, mret, flush,
                 worker, fw, tally>>

ManualOutcome(c) ==
  /\ ManualStep(c, "outcome", "clear_flag")
  /\ mret' = IF dev_state = "READY" THEN "ok" ELSE "error"
  /\ UNCHANGED <<shared, counts, bridge, kick, recovery_mutex, flush,
                 worker, fw, tally>>

\* Step 9: clear the flag, read the state, finalise a transition state.
ManualClearFlag(c) ==
  /\ ManualStep(c, "clear_flag", "read_state")
  /\ recovering' = 0
  /\ UNCHANGED <<dev_state, recovery_epoch, last_recovery_reason,
                 work_pending, counts, bridge, kick, recovery_mutex, mret,
                 flush, worker, fw, tally>>

ManualReadState(c) ==
  /\ ManualStep(c, "read_state",
                IF dev_state \in InTransit THEN "store_state" ELSE "unlock")
  /\ UNCHANGED <<shared, counts, bridge, kick, recovery_mutex, mret, flush,
                 worker, fw, tally>>

ManualStoreState(c) ==
  /\ ManualStep(c, "store_state", "unlock")
  /\ dev_state' = IF mret = "error" THEN "WAITING_USER" ELSE "READY"
  /\ UNCHANGED <<recovering, recovery_epoch, last_recovery_reason,
                 work_pending, counts, bridge, kick, recovery_mutex, mret,
                 flush, worker, fw, tally>>

\* Fault: after a failed reset the call returns without mutex_unlock.
ManualUnlockUnlessError(c) ==
  /\ ManualStep(c, "unlock", "idle")
  /\ recovery_mutex' = IF mret = "error" THEN recovery_mutex ELSE NoCaller
  /\ UNCHANGED <<shared, counts, bridge, kick, mret, flush, worker, fw,
                 tally>>

ManualUnlock(c) ==
  /\ ManualStep(c, "unlock", "idle")
  /\ recovery_mutex' = NoCaller
  /\ UNCHANGED <<shared, counts, bridge, kick, mret, flush, worker, fw,
                 tally>>

CallerStep(c) ==
  \/ ManualLock(c) \/ ManualRecheck(c) \/ ManualState(c) \/ ManualFlag(c)
  \/ ManualEpoch(c) \/ ManualResetRefused(c) \/ ManualReset(c)
  \/ ManualClean(c) \/ ManualSawEdge(c)
  \/ ManualTimeout(c) \/ ManualTransportOk(c) \/ ManualSched(c)
  \/ ManualFlushed(c) \/ ManualOutcome(c) \/ ManualClearFlag(c)
  \/ ManualReadState(c) \/ ManualStoreState(c) \/ ManualUnlock(c)

-----------------------------------------------------------------------------
(* The readiness worker, dxrt_recovery_ready_work_fn.                      *)

\* Where the worker checks that its recovery has not been superseded.
Probing == {"start", "settle", "drop", "republish", "ready", "ping", "final"}

\* Such a check reads the epoch first and the state after it.
WorkerReadsEpoch ==
  /\ wpc \in Probing /\ epoch_ok = 0
  /\ recovery_epoch = wepoch
  /\ epoch_ok' = 1
  /\ UNCHANGED <<shared, counts, bridge, kick, manual, wpc, wepoch, wreason,
                 fw, tally>>

\* Both reads are as at the start of the recovery: go on.
CheckPasses == /\ epoch_ok = 1 /\ dev_state = "TRANSPORT_OK"
               /\ epoch_ok' = 0
CheckFails  == IF epoch_ok = 1 THEN dev_state # "TRANSPORT_OK"
                           ELSE recovery_epoch # wepoch

\* The worker function returns; a flush waiting for this instance ends.
WorkerReturns ==
  /\ wpc' = "idle"
  /\ flush' = IF flush = "running" THEN "none" ELSE flush

\* The workqueue runs the item: PERM_FAIL check, start_epoch.
WorkerStart ==
  /\ wpc = "idle" /\ work_pending = 1
  /\ work_pending' = 0
  /\ IF dev_state = "PERM_FAIL"
       THEN /\ wpc' = "idle" /\ UNCHANGED wepoch
            /\ flush' = IF flush = "queued" THEN "none" ELSE flush
       ELSE /\ wpc' = "start" /\ wepoch' = recovery_epoch
            /\ flush' = IF flush = "queued" THEN "running" ELSE flush
  /\ UNCHANGED <<dev_state, recovering, recovery_epoch,
                 last_recovery_reason, counts, bridge, kick, recovery_mutex,
                 mpc, mret, wreason, epoch_ok, fw, tally>>

\* Fault: the mailbox edge is not waited for.
WorkerReasonNoEdge ==
  /\ wpc = "start" /\ CheckPasses
  /\ wreason' = last_recovery_reason
  /\ wpc' = IF last_recovery_reason = "FW_UPDATE_NODLMSG" THEN "settle"
            ELSE "ready"
  /\ UNCHANGED <<shared, counts, bridge, kick, manual, wepoch, fw, tally>>

\* Read last_recovery_reason and choose what to wait for.
WorkerReason ==
  /\ wpc = "start" /\ CheckPasses
  /\ wreason' = last_recovery_reason
  /\ wpc' = IF last_recovery_reason = "FW_UPDATE_NODLMSG" THEN "settle"
            ELSE IF last_recovery_reason \in EdgeReasons THEN "drop"
            ELSE "ready"
  /\ UNCHANGED <<shared, counts, bridge, kick, manual, wepoch, fw, tally>>

\* Every wait, the probe and the final check return once superseded.
WorkerSuperseded ==
  /\ wpc \in Probing /\ CheckFails
  /\ epoch_ok' = 0
  /\ WorkerReturns
  /\ UNCHANGED <<shared, counts, bridge, kick, recovery_mutex, mpc, mret,
                 wepoch, wreason, fw, tally>>

\* The legacy settle window elapses; the PING is skipped.
WorkerSettled ==
  /\ wpc = "settle" /\ CheckPasses
  /\ wpc' = "final"
  /\ UNCHANGED <<shared, counts, bridge, kick, manual, wepoch, wreason, fw,
                 tally>>

\* The mailbox cycle sees the drop, or the republished flag; the plain wait
\* sees the flag.
WorkerSawMailbox ==
  /\ CheckPasses
  /\ \/ wpc = "drop" /\ ~MailboxReady /\ wpc' = "republish"
     \/ wpc \in {"republish", "ready"} /\ MailboxReady /\ wpc' = "ping"
  /\ UNCHANGED <<shared, counts, bridge, kick, manual, wepoch, wreason, fw,
                 tally>>

\* Fault: the wait for the new image has no deadline.
WorkerTimeoutOnDrop ==
  /\ CheckPasses
  /\ wpc = "drop" /\ MailboxReady
  /\ wpc' = "hang"
  /\ UNCHANGED <<shared, counts, bridge, kick, manual, wepoch, wreason, fw,
                 tally>>

\* A deadline of those waits passes: FW_HANG.
WorkerTimeout ==
  /\ CheckPasses
  /\ \/ wpc = "drop" /\ MailboxReady
     \/ wpc \in {"republish", "ready"} /\ ~MailboxReady
  /\ wpc' = "hang"
  /\ UNCHANGED <<shared, counts, bridge, kick, manual, wepoch, wreason, fw,
                 tally>>

\* fw_ping_probe takes msg_lock and is answered.
WorkerPong ==
  /\ wpc = "ping" /\ CheckPasses /\ MsgLockFree
  /\ MailboxReady
  /\ wpc' = "final"
  /\ UNCHANGED <<shared, counts, bridge, kick, manual, wepoch, wreason, fw,
                 tally>>

\* fw_ping_probe fails; the only failure that is counted.
WorkerNoPong ==
  /\ wpc = "ping" /\ CheckPasses /\ MsgLockFree
  /\ recovery_fail_count' = recovery_fail_count + 1
  /\ wpc' = "hang"
  /\ UNCHANGED <<shared, recovery_count, perm_fail_count, bridge, kick,
                 manual, wepoch, wreason, fw, tally>>

WorkerCommit ==
  /\ wpc = "final" /\ CheckPasses
  /\ wpc' = "count"
  /\ UNCHANGED <<shared, counts, bridge, kick, manual, wepoch, wreason, fw,
                 tally>>

WorkerCount ==
  /\ wpc = "count" /\ wpc' = "store_ready"
  /\ recovery_count' = recovery_count + 1
  /\ recovering' = 0
  /\ UNCHANGED <<dev_state, recovery_epoch, last_recovery_reason,
                 work_pending, recovery_fail_count, perm_fail_count, bridge,
                 kick, manual, wepoch, wreason, epoch_ok, fw, tally>>

\* Store READY, wake the waiters, emit DONE.
WorkerReady ==
  /\ wpc = "store_ready" /\ WorkerReturns
  /\ dev_state' = "READY"
  /\ UNCHANGED <<recovering, recovery_epoch, last_recovery_reason,
                 work_pending, counts, bridge, kick, recovery_mutex, mpc,
                 mret, wepoch, wreason, epoch_ok, fw, tally>>

WorkerHang ==
  /\ wpc = "hang" /\ wpc' = "hang_flag"
  /\ dev_state' = "FW_HANG"
  /\ UNCHANGED <<recovering, recovery_epoch, last_recovery_reason,
                 work_pending, counts, bridge, kick, manual, wepoch, wreason,
                 epoch_ok, fw, tally>>

WorkerHangFlag ==
  /\ wpc = "hang_flag" /\ wpc' = "perm_check"
  /\ recovering' = 0
  /\ UNCHANGED <<dev_state, recovery_epoch, last_recovery_reason,
                 work_pending, counts, bridge, kick, manual, wepoch, wreason,
                 epoch_ok, fw, tally>>

\* perm_fail_check; whether the window had expired is up to the clock.
WorkerPermCheck ==
  /\ wpc = "perm_check" /\ WorkerReturns
  /\ perm_fail_count' \in {1, perm_fail_count + 1}
  /\ dev_state' = IF perm_fail_count' >= MaxRetries THEN "PERM_FAIL"
                                                    ELSE dev_state
  /\ UNCHANGED <<recovering, recovery_epoch, last_recovery_reason,
                 work_pending, recovery_count, recovery_fail_count, bridge,
                 kick, recovery_mutex, mpc, mret, wepoch, wreason, epoch_ok,
                 fw, tally>>

WorkerStep ==
  \/ WorkerStart \/ WorkerReadsEpoch \/ WorkerReason \/ WorkerSuperseded
  \/ WorkerSettled
  \/ WorkerSawMailbox \/ WorkerTimeout \/ WorkerPong \/ WorkerNoPong
  \/ WorkerCommit \/ WorkerCount \/ WorkerReady \/ WorkerHang
  \/ WorkerHangFlag \/ WorkerPermCheck

-----------------------------------------------------------------------------
(* The firmware: it may reboot at any time, asked to or not, and publishes *)
(* MAILBOX_READY when it is up again.                                      *)

FwReboot ==
  /\ mbox = 1 /\ mbox' = 0 /\ reboot_due' = 0
  /\ UNCHANGED <<shared, counts, bridge, kick, manual, worker, tally>>

FwPublish ==
  /\ mbox = 0 /\ mbox' = 1
  /\ UNCHANGED <<shared, counts, bridge, kick, manual, worker, reboot_due,
                 tally>>

-----------------------------------------------------------------------------
Next ==
  \/ Bridge \/ ResetPrepare \/ ResetDone
  \/ \E k \in Kickers : KickSend(k) \/ KickerStep(k)
  \/ \E c \in Callers : ManualEnter(c) \/ CallerStep(c)
  \/ WorkerStep
  \/ FwReboot \/ FwPublish

Spec == Init /\ [][Next]_vars

\* The driver's own steps are fair: kernel threads run, and every wait has a
\* deadline; the PCI core ends a reset.  Link events, firmware reboots and new
\* calls are not.
Fairness ==
  /\ WF_vars(Bridge /\ bpc \in DownPc \cup UpPc)
  /\ WF_vars(ResetDone)
  /\ \A k \in Kickers : WF_vars(KickerStep(k))
  /\ \A c \in Callers : WF_vars(CallerStep(c))
  /\ WF_vars(WorkerStep)

FairSpec == Spec /\ Fairness

-----------------------------------------------------------------------------
(* Properties.                                                             *)

\* Someone who will still store to dev_state, or make it so.
Bridging == bpc \in {"down_check", "down_state", "down_flag", "down_epoch",
                    "down_clean", "down", "up_check", "up_state"}
Kicking(k)    == kpc[k] \in {"flag", "epoch", "clean", "transport_ok"}
Finalising(c) == mpc[c] \in ManualPc \ {"idle", "lock", "recheck", "state",
                                        "unlock"}
Committing    == wpc \in {"count", "store_ready", "hang"}
StoreToCome   == \/ Bridging \/ Committing
                 \/ \E k \in Kickers : Kicking(k)
                 \/ \E c \in Callers : Finalising(c)

\* A readiness probe is queued, about to be queued, or running for the
\* current epoch.
ProbeToCome == \/ work_pending = 1
               \/ bpc = "up_sched"
               \/ \E k \in Kickers : kpc[k] = "sched"
               \/ wpc \in Probing /\ wepoch = recovery_epoch

\* The device is never left in a transition state with nobody to take it
\* out: RECOVERING is held by an actor that will store to dev_state again,
\* TRANSPORT_OK by one or by a probe of the current epoch.  The stores, the
\* epoch increments and cancel_delayed_work of all four kinds of actor
\* interleave freely, with PCI resets among them (dxrt_link_event_notify,
\* dxrt_kick_fw_reboot_recovery, dxrt_recovery_device,
\* dxrt_recovery_ready_work_fn).  Excepted is a recovery call that reached its
\* DMA reset while a PCI reset had paused it.
TransitionHasOwner ==
  stranded = 0 =>
    /\ dev_state = "RECOVERING" => StoreToCome
    /\ dev_state = "TRANSPORT_OK" => StoreToCome \/ ProbeToCome

\* dxrt_recovery_ready_work_fn: "a stale MAILBOX_READY=1 from the old RTOS
\* image is not proof that the new image is ready": after a CPU reset or a
\* firmware update the PING waits until that reboot has begun, while the link
\* stays up.  (A kick that has bumped recovery_epoch, or is about to,
\* supersedes the probe.)
PingAfterReboot ==
  wpc = "ping" /\ wreason \in EdgeReasons /\ reboot_due = 1 =>
    \/ wepoch # recovery_epoch
    \/ \E k \in Kickers : kpc[k] \in {"check", "state", "flag", "epoch"}

\* Liveness: a device does not stay in a transition state for ever, unless
\* the link never comes back after a link-down, or a recovery call reaches
\* the DMA reset while a PCI reset has paused it.
TransitionEnds ==
  [](stranded = 0) =>
    []<>(dev_state \notin InTransit \/ bpc = "down")

\* Liveness: a caller of DXRT_CMD_RECOVERY always returns: neither
\* recovery_mutex nor flush_delayed_work blocks it for ever.
RecoveryCallReturns == \A c \in Callers : []<>(mpc[c] = "idle")

=============================================================================
