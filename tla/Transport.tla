----------------------------- MODULE Transport -----------------------------
(***************************************************************************)
(* Who decides that the PCIe transport of a device is up: the link health  *)
(* worker and the recovery work it queues (dx_link_health.c), the handlers *)
(* the PCI core calls for errors, resets, power management, removal and    *)
(* shutdown (dw-edma-pcie.c), the reset of the DMA channels that a         *)
(* recovery call of the RT driver asks for (dx_sgdma.c), the sysfs switch  *)
(* of the monitor, and one DMA transfer they interrupt.  They share        *)
(* dev_state, link_state and the saved PCI configuration, mostly without   *)
(* a lock.                                                                 *)
(*                                                                         *)
(* One action per shared store.  The handlers of the PCI core run under    *)
(* the device lock and one flow at a time.  recovery_epoch is abstracted   *)
(* to what the transfer compares it for: whether it has moved.  The flags  *)
(* of the channels, which the same steps set and clear, are part of        *)
(* DmaChannel.  DX_LINK_DEGRADED is never reported, since                  *)
(* dx_pcie_check_link_health never returns it.                             *)
(***************************************************************************)
EXTENDS Naturals

CONSTANTS
  Threshold,     \* DX_HEALTH_FAIL_THRESHOLD
  MaxInWindow,   \* DX_RECOVERY_MAX_IN_WINDOW
  Flows,         \* the flows of the PCI core that happen
  MaxEvents      \* link drops, endpoint resets, failed accesses, flows,
                 \* channel resets and writes to link_health_enable, together

ASSUME TransportAssumption ==
  /\ Threshold \in Nat \ {0} /\ MaxInWindow \in Nat /\ MaxEvents \in Nat
  /\ Flows \subseteq {"aer", "frozen", "perm", "reset", "pm", "remove", "shutdown"}

Procs == {"health", "recovery", "kernel", "reset", "sysfs"}

VARIABLES
  at,            \* where each process is
  dev,           \* dw->dev_state
  link,          \* dw->link_state
  paused,        \* dw->background_recovery_paused
  enabled,       \* dw->link_health_enabled
  fails,         \* dw->health_fail_count
  timer,         \* health_work is pending
  prev,          \* prev_link of the health worker
  requeue,       \* it quiesces because the endpoint lost its configuration
  queued,        \* recovery_work is pending
  count,         \* dw->recovery_count_in_window
  cooling,       \* jiffies is before rate_limit_cooldown_until
  flow,          \* what the PCI core is doing
  told,          \* the last link event the RT driver was told
  phys,          \* the link itself
  cfg,           \* the configuration the endpoint holds
  saved,         \* the configuration pci_save_state keeps
  sbr,           \* the reset in progress is a secondary bus reset
  xfer,          \* the transfer thread
  stale,         \* recovery_epoch has moved since the transfer started
  dead,          \* the transfer was lost in a reset of the endpoint
  events,        \* so far
  masked,        \* auxiliary: a reinitialisation failed in reset_done
  overlap,       \* auxiliary: two of quiesce, reinitialisation and channel
                 \* reset have overlapped, or prev was stale
  rearmed        \* auxiliary: the switch armed the monitor after a flow paused it

state   == <<dev, link, told>>
monitor == <<fails, timer, prev, requeue>>
work    == <<queued, count, cooling>>
own     == <<paused, enabled, flow>>
pci     == <<phys, cfg, saved>>
thread  == <<xfer, stale, dead>>
aux     == <<masked, overlap, rearmed>>
vars    == <<at, state, monitor, work, own, pci, sbr, thread, events, aux>>

Flag == {0, 1}

\* dx_dma_quiesce_for_link_down and dx_dma_quiesce_channels, and
\* dx_dma_full_reinit, with the step that follows each.
QuiesceAt == {"q_state", "q_link", "q_told"}
ReinitAt  == {"r_link", "r_restore", "r_mmio", "r_save", "r_valid", "r_live", "r_told"}

TypeOK ==
  /\ at \in [Procs -> {"idle"} \cup QuiesceAt \cup ReinitAt \cup
        {"check", "rearm", "own", "cancel_health", "cancel_work", "save", "bus",
         "enable", "resume", "stop", "teardown", "stuck", "state",
         "live", "bus_restore", "resave", "arm"}]
  /\ dev \in {"LIVE", "RECOVERING", "AER_RESET", "REMOVING"}
  /\ link \in {"UP", "DOWN", "RECOVERING"} /\ told \in {"UP", "DOWN"}
  /\ fails \in 0 .. Threshold /\ timer \in Flag /\ requeue \in Flag
  /\ prev \in {"UP", "DOWN", "RECOVERING"}
  /\ queued \in Flag /\ count \in 0 .. MaxInWindow /\ cooling \in Flag
  /\ paused \in Flag /\ enabled \in Flag
  /\ flow \in {"none", "gone"} \cup Flows
  /\ phys \in {"up", "down"} /\ cfg \in {"set", "lost"}
  /\ saved \in {"none", "good", "bad"} /\ sbr \in Flag
  /\ xfer \in {"idle", "wait"}
  /\ stale \in Flag /\ dead \in Flag
  /\ masked \in Flag /\ overlap \in Flag /\ rearmed \in Flag

\* dx_link_health_init, the transition to LIVE, pci_save_state and
\* dx_link_health_start at the end of probe.
Init ==
  /\ at = [p \in Procs |-> "idle"]
  /\ dev = "LIVE" /\ link = "UP" /\ told = "UP"
  /\ fails = 0 /\ timer = 1 /\ prev = "UP" /\ requeue = 0
  /\ queued = 0 /\ count = 0 /\ cooling = 0
  /\ paused = 0 /\ enabled = 1 /\ flow = "none"
  /\ phys = "up" /\ cfg = "set" /\ saved = "good" /\ sbr = 0
  /\ xfer = "idle" /\ stale = 0 /\ dead = 0
  /\ events = 0
  /\ masked = 0 /\ overlap = 0 /\ rearmed = 0

\* recovery_epoch moves on, which a transfer in progress will see.
Bump == stale' = IF xfer = "idle" THEN 0 ELSE 1

Go(p, from, to) == at[p] = from /\ at' = [at EXCEPT ![p] = to]

-----------------------------------------------------------------------------
(* The PCI core and the endpoint. *)

\* pci_restore_state does nothing without a saved state and forgets the one
\* it writes, also when the link is down and the writes are lost.
PciRestore ==
  /\ cfg' = IF phys = "up" /\ saved # "none"
            THEN IF saved = "good" THEN "set" ELSE "lost"
            ELSE cfg
  /\ saved' = "none"

\* pci_save_state keeps what it reads.
PciSave == saved' = IF phys = "up" /\ cfg = "set" THEN "good" ELSE "bad"

\* A register of a BAR can be read.
Answers == phys = "up" /\ cfg = "set"

\* The transfer in flight dies with the configuration of the endpoint.
LoseConfig == cfg' = "lost" /\ dead' = IF xfer = "wait" THEN 1 ELSE dead

Event == events < MaxEvents /\ events' = events + 1

\* The link drops; the endpoint keeps its configuration or is powered off.
LinkDrop ==
  /\ Event
  /\ phys = "up" /\ phys' = "down"
  /\ LoseConfig \/ UNCHANGED <<cfg, dead>>
  /\ UNCHANGED <<at, state, monitor, work, own, saved, sbr, xfer, stale, aux>>

LinkBack ==
  /\ phys = "down" /\ phys' = "up"
  /\ UNCHANGED <<at, state, monitor, work, own, cfg, saved, sbr, thread, events, aux>>

\* The endpoint resets itself without the host seeing the link drop.
EndpointReset ==
  /\ Event
  /\ phys = "up" /\ LoseConfig
  /\ UNCHANGED <<at, state, monitor, work, own, phys, saved, sbr, xfer, stale, aux>>

-----------------------------------------------------------------------------
(* Quiesce and reinitialisation, run by the process p. *)

\* dx_dma_background_recovery_blocked
Blocked == dev = "REMOVING" \/ enabled = 0 \/ paused = 1

\* Whether the caller believes the link to be down: the health worker and
\* error_detected for a frozen or dead channel; shutdown looks.
ForLinkDown(p) ==
  \/ p = "health"
  \/ flow \in {"frozen", "perm"}
  \/ flow = "shutdown" /\ ~Answers

QuiesceState(p) ==
  /\ Go(p, "q_state", "q_link")
  /\ dev' = "AER_RESET"
  /\ overlap' = IF at["reset"] = "idle" /\ at["recovery"] \notin ReinitAt
                THEN overlap ELSE 1
  /\ UNCHANGED <<link, told, monitor, work, own, pci, sbr, thread, events,
                 masked, rearmed>>

\* Fault: recovery_epoch does not move on.
QuiesceLinkSameEpoch(p) ==
  /\ Go(p, "q_link", "q_told")
  /\ link' = IF ForLinkDown(p) THEN "DOWN" ELSE link
  /\ UNCHANGED <<dev, told, monitor, work, own, pci, sbr, thread, events, aux>>

\* link_state and recovery_epoch.
QuiesceLink(p) ==
  /\ Go(p, "q_link", "q_told")
  /\ link' = IF ForLinkDown(p) THEN "DOWN" ELSE link
  /\ Bump
  /\ UNCHANGED <<dev, told, monitor, work, own, pci, sbr, xfer, dead, events, aux>>

\* dx_pcie_notify_link_event(DOWN), and back to the caller: the health
\* worker schedules the recovery if the endpoint lost its configuration.
QuiesceTold(p) ==
  /\ Go(p, "q_told", IF p = "health" THEN "rearm"
                     ELSE IF flow = "shutdown" THEN "teardown" ELSE "cancel_health")
  /\ told' = "DOWN"
  /\ queued' = IF p = "health" /\ requeue = 1 THEN 1 ELSE queued
  /\ UNCHANGED <<dev, link, monitor, count, cooling, own, pci, sbr, thread, events, aux>>

Quiesce(p) == QuiesceState(p) \/ QuiesceLink(p) \/ QuiesceTold(p)

\* Where the caller of dx_dma_full_reinit continues.  A failed slot_reset
\* returns PCI_ERS_RESULT_DISCONNECT and nobody calls resume.
AfterReinit(p, failed) ==
  IF p = "recovery" THEN "idle"
  ELSE IF failed = 1 /\ flow \in {"aer", "frozen"} THEN "stop" ELSE "resume"

ReinitFails(p) ==
  /\ at' = [at EXCEPT ![p] = AfterReinit(p, 1)]
  /\ link' = "DOWN"
  /\ masked' = IF p = "kernel" /\ flow = "reset" THEN 1 ELSE masked

ReinitLink(p) ==
  /\ Go(p, "r_link", "r_restore")
  /\ link' = "RECOVERING"
  /\ UNCHANGED <<dev, told, monitor, work, own, pci, sbr, thread, events, aux>>

\* dw_edma_v0_core_edma_restore: pci_restore_state,
ReinitRestore(p) ==
  /\ Go(p, "r_restore", "r_mmio")
  /\ PciRestore
  /\ UNCHANGED <<state, monitor, work, own, phys, sbr, thread, events, aux>>

\* then the wait for the BAR to answer and edma_reprogram_hw, or a
\* failure: the BAR stays silent, there is no valid MSI message
\* or an engine does not start,
ReinitMmio(p) ==
  /\ at[p] = "r_mmio"
  /\ \/ /\ Answers
        /\ Go(p, "r_mmio", "r_save")
        /\ UNCHANGED <<link, masked, events>>
     \/ /\ IF Answers THEN Event ELSE UNCHANGED events
        /\ ReinitFails(p)
  /\ UNCHANGED <<dev, told, monitor, work, own, pci, sbr, xfer, stale, dead, overlap, rearmed>>

\* then pci_save_state for the next recovery.
ReinitSave(p) ==
  /\ Go(p, "r_save", "r_valid")
  /\ PciSave
  /\ UNCHANGED <<state, monitor, work, own, phys, cfg, sbr, thread, events, aux>>

\* dx_pcie_validate_link
ReinitValid(p) ==
  /\ at[p] = "r_valid"
  /\ \/ /\ phys = "up"
        /\ Go(p, "r_valid", "r_live")
        /\ link' = "UP" /\ UNCHANGED masked
     \/ phys = "down" /\ ReinitFails(p)
  /\ UNCHANGED <<dev, told, monitor, work, own, pci, sbr, thread, events,
                 overlap, rearmed>>

\* The channels are made idle, then dev_state.
ReinitLive(p) ==
  /\ Go(p, "r_live", "r_told")
  /\ dev' = "LIVE" /\ masked' = 0
  /\ overlap' = IF at["reset"] = "idle" THEN overlap ELSE 1
  /\ UNCHANGED <<link, told, monitor, work, own, pci, sbr, xfer, stale, dead, events,
                 rearmed>>

\* Fault: only the background recovery reports that the link is back.
ReinitToldBackground(p) ==
  /\ Go(p, "r_told", AfterReinit(p, 0))
  /\ told' = IF p = "recovery" THEN "UP" ELSE told
  /\ UNCHANGED <<dev, link, monitor, work, own, pci, sbr, thread, events, aux>>

ReinitTold(p) ==
  /\ Go(p, "r_told", AfterReinit(p, 0))
  /\ told' = "UP"
  /\ UNCHANGED <<dev, link, monitor, work, own, pci, sbr, thread, events, aux>>

Reinit(p) ==
  \/ ReinitLink(p) \/ ReinitRestore(p) \/ ReinitMmio(p) \/ ReinitSave(p)
  \/ ReinitValid(p) \/ ReinitLive(p) \/ ReinitTold(p)

-----------------------------------------------------------------------------
(* dx_link_health_work_fn *)

HealthStart ==
  /\ at["health"] = "idle" /\ timer = 1 /\ timer' = 0
  /\ at' = [at EXCEPT !["health"] = IF Blocked THEN "idle" ELSE "check"]
  /\ prev' = IF Blocked THEN prev ELSE link
  /\ UNCHANGED <<state, fails, requeue, work, own, pci, sbr, thread, events, aux>>

WorkBusy == queued = 1 \/ at["recovery"] # "idle"

\* The link is down: the third failure in a row quiesces the device.
HealthDown ==
  LET n == IF fails = Threshold THEN Threshold ELSE fails + 1 IN
  /\ phys = "down"
  /\ Go("health", "check", IF n >= Threshold /\ prev # "DOWN" THEN "q_state" ELSE "rearm")
  /\ fails' = n /\ requeue' = 0
  /\ UNCHANGED <<state, timer, prev, work, own, pci, sbr, thread, events, aux>>

\* The link came back: queue the recovery.
HealthRestored ==
  /\ phys = "up" /\ prev = "DOWN"
  /\ Go("health", "check", "rearm")
  /\ fails' = 0
  /\ queued' = IF cooling = 1 \/ WorkBusy THEN queued ELSE 1
  /\ overlap' = IF link = "DOWN" \/ cooling = 1 \/ WorkBusy THEN overlap ELSE 1
  /\ UNCHANGED <<state, timer, prev, requeue, count, cooling, own, pci, sbr, thread,
                 events, masked, rearmed>>

\* The link is up: dx_pcie_ep_config_was_reset looks at the endpoint.
HealthUp ==
  LET lost == cfg = "lost" /\ cooling = 0 /\ ~WorkBusy IN
  /\ phys = "up" /\ prev # "DOWN"
  /\ Go("health", "check", IF lost THEN "q_state" ELSE "rearm")
  /\ fails' = 0 /\ requeue' = IF lost THEN 1 ELSE 0
  /\ UNCHANGED <<state, timer, prev, work, own, pci, sbr, thread, events, aux>>

HealthRearm ==
  /\ Go("health", "rearm", "idle")
  /\ timer' = IF Blocked THEN timer ELSE 1
  /\ prev' = "UP" /\ requeue' = 0
  /\ UNCHANGED <<state, fails, work, own, pci, sbr, thread, events, aux>>

Health == \/ HealthStart \/ HealthDown \/ HealthRestored \/ HealthUp \/ HealthRearm
          \/ Quiesce("health")

-----------------------------------------------------------------------------
(* dx_dma_recovery_work_fn *)

RecoveryStart ==
  /\ at["recovery"] = "idle" /\ queued = 1 /\ queued' = 0
  /\ at' = [at EXCEPT !["recovery"] = IF Blocked THEN "idle" ELSE "check"]
  /\ UNCHANGED <<state, monitor, count, cooling, own, pci, sbr, thread, events, aux>>

\* The link, then dx_dma_recovery_rate_ok.
RecoveryCheck ==
  /\ Go("recovery", "check",
        IF phys = "down" \/ count >= MaxInWindow THEN "idle" ELSE "own")
  /\ cooling' = IF phys = "up" /\ count >= MaxInWindow THEN 1 ELSE cooling
  /\ UNCHANGED <<state, monitor, queued, count, own, pci, sbr, thread, events, aux>>

\* A reset may own recovery by now: checked before and after the attempt is
\* counted.
RecoveryOwn ==
  /\ Go("recovery", "own", IF Blocked THEN "idle" ELSE "r_link")
  /\ \/ count' = count + 1
     \/ Blocked /\ UNCHANGED count
  /\ UNCHANGED <<state, monitor, queued, cooling, own, pci, sbr, thread, events, aux>>

\* The window of the rate limit and the cooldown end with time.
WindowExpires ==
  /\ count > 0 /\ count' = 0
  /\ UNCHANGED <<at, state, monitor, queued, cooling, own, pci, sbr, thread, events, aux>>

CooldownEnds ==
  /\ cooling = 1 /\ cooling' = 0
  /\ UNCHANGED <<at, state, monitor, queued, count, own, pci, sbr, thread, events, aux>>

RecoveryWork == RecoveryStart \/ RecoveryCheck \/ RecoveryOwn \/ Reinit("recovery")

-----------------------------------------------------------------------------
(* The flows of the PCI core: "aer" is error_detected on a working channel, *)
(* "frozen" and "perm" on a frozen and on a permanently failed one, "reset" *)
(* a reset through sysfs, "pm" suspend and resume.                          *)

\* error_detected, reset_prepare, suspend and shutdown set paused first.
FlowStart(f) ==
  /\ flow = "none" /\ Event
  /\ f \in Flows \ {"remove"} /\ flow' = f
  /\ Go("kernel", "idle", IF f = "shutdown" THEN "cancel_health" ELSE "q_state")
  /\ paused' = 1
  /\ UNCHANGED <<state, monitor, work, enabled, pci, sbr, thread, aux>>

\* dx_dma_pcie_remove: REMOVING, then dx_link_health_stop.
RemoveStart ==
  /\ flow = "none" /\ Event
  /\ "remove" \in Flows /\ flow' = "remove"
  /\ Go("kernel", "idle", "stop")
  /\ dev' = "REMOVING"
  /\ UNCHANGED <<link, told, monitor, work, paused, enabled, pci, sbr, thread, aux>>

RemovePause ==
  /\ flow = "remove" /\ Go("kernel", "stop", "cancel_health")
  /\ paused' = 1
  /\ UNCHANGED <<state, monitor, work, enabled, flow, pci, sbr, thread, events, aux>>

\* Fault: cancel_delayed_work, which does not wait for a worker that runs.
CancelHealthUnsynced(p, next) ==
  /\ Go(p, "cancel_health", next)
  /\ timer' = 0
  /\ UNCHANGED <<state, fails, prev, requeue, work, own, pci, sbr, thread, events, aux>>

\* cancel_delayed_work_sync(health_work)
CancelHealth(p, next) ==
  /\ at["health"] = "idle"
  /\ Go(p, "cancel_health", next)
  /\ timer' = 0
  /\ UNCHANGED <<state, fails, prev, requeue, work, own, pci, sbr, thread, events, aux>>

\* Fault: error_detected does not wait for a work that runs.
CancelWorkUnsynced(p, next) ==
  /\ at["recovery"] = "idle" \/ flow \in {"aer", "frozen"}
  /\ Go(p, "cancel_work", next)
  /\ queued' = 0
  /\ UNCHANGED <<state, monitor, count, cooling, own, pci, sbr, thread, events, aux>>

\* cancel_work_sync(recovery_work)
CancelWork(p, next) ==
  /\ at["recovery"] = "idle"
  /\ Go(p, "cancel_work", next)
  /\ queued' = 0
  /\ UNCHANGED <<state, monitor, count, cooling, own, pci, sbr, thread, events, aux>>

\* Where each flow goes once the workers are stopped.
AfterStop ==
  CASE flow \in {"aer", "frozen"} -> "bus"
    [] flow = "perm" -> "stop"
    [] flow \in {"reset", "pm"} -> "save"
    [] flow = "remove" -> "teardown"
    [] OTHER -> "q_state"

\* reset_prepare and suspend save the configuration themselves.
FlowSave ==
  /\ Go("kernel", "save", "bus")
  /\ PciSave
  /\ UNCHANGED <<state, monitor, work, own, phys, cfg, sbr, thread, events, aux>>

\* The PCI core resets the slot or the function, or power is lost.  For a
\* reset through sysfs and on resume it restores the configuration itself.
FlowBus ==
  /\ Go("kernel", "bus", IF flow \in {"aer", "frozen"} THEN "enable" ELSE "r_link")
  /\ dead' = IF xfer = "wait" THEN 1 ELSE dead
  /\ IF flow \in {"reset", "pm"}
     THEN /\ cfg' = IF phys = "up" /\ saved = "good" THEN "set" ELSE "lost"
          /\ saved' = "none"
     ELSE cfg' = "lost" /\ UNCHANGED saved
  /\ UNCHANGED <<state, monitor, work, own, phys, sbr, xfer, stale, events, aux>>

\* slot_reset: pci_enable_device, then the reinitialisation.
SlotReset ==
  /\ at["kernel"] = "enable"
  /\ \/ Go("kernel", "enable", "r_link") /\ UNCHANGED events
     \/ Go("kernel", "enable", "stop") /\ Event
  /\ UNCHANGED <<state, monitor, work, own, pci, sbr, thread, aux>>

\* Fault: the monitor is not started again.
FlowResumeUnarmed ==
  LET started == ~(flow = "pm" /\ link = "DOWN") IN
  /\ Go("kernel", "resume", "idle")
  /\ dev' = IF flow \in {"aer", "frozen"} THEN "LIVE" ELSE dev
  /\ paused' = 0 /\ flow' = "none"
  /\ link' = IF started THEN "UP" ELSE link
  /\ UNCHANGED <<told, monitor, work, enabled, pci, sbr, thread, events, aux>>

\* error_resume, reset_done and resume after the reinitialisation:
\* error_resume makes sure of LIVE; all let the workers go and, unless resume
\* failed, call dx_link_health_start, which sets link_state to UP.
FlowResume ==
  LET started == ~(flow = "pm" /\ link = "DOWN") IN
  /\ Go("kernel", "resume", "idle")
  /\ dev' = IF flow \in {"aer", "frozen"} THEN "LIVE" ELSE dev
  /\ paused' = 0 /\ flow' = "none"
  /\ link' = IF started THEN "UP" ELSE link
  /\ timer' = IF enabled = 1 THEN 1 ELSE timer
  /\ UNCHANGED <<told, fails, prev, requeue, work, enabled, pci, sbr, thread, events, aux>>

\* PCI_ERS_RESULT_DISCONNECT: the device stays quiesced and paused.
Disconnect ==
  /\ flow # "remove" /\ Go("kernel", "stop", "idle")
  /\ flow' = "gone"
  /\ UNCHANGED <<state, monitor, work, paused, enabled, pci, sbr, thread, events, aux>>

\* The rest of remove, or of shutdown: dx_dma_remove, the interfaces, the
\* device list; pci_disable_device.
Teardown ==
  /\ Go("kernel", "teardown", "idle")
  /\ flow' = "gone" /\ xfer' = "idle" /\ stale' = 0 /\ dead' = 0
  /\ UNCHANGED <<state, monitor, work, paused, enabled, pci, sbr,
                 events, aux>>

Kernel ==
  \/ \E f \in Flows : FlowStart(f)
  \/ RemoveStart \/ RemovePause
  \/ CancelHealth("kernel", "cancel_work") \/ CancelWork("kernel", AfterStop)
  \/ FlowSave \/ FlowBus \/ SlotReset \/ FlowResume \/ Disconnect \/ Teardown
  \/ Quiesce("kernel") \/ Reinit("kernel")

-----------------------------------------------------------------------------
(* dx_pcie_reset_dma_channels *)

\* The transport is in nobody else's hands, before wr_lock and under it.
ResetStart ==
  /\ Event
  /\ flow # "gone"
  /\ dev \notin {"REMOVING", "AER_RESET"} /\ link # "DOWN" /\ paused = 0
  /\ Go("reset", "idle", "state")
  /\ UNCHANGED <<state, monitor, work, own, pci, sbr, thread, aux>>

\* recovery_epoch and dev_state.
ResetState ==
  /\ Go("reset", "state", "stuck")
  /\ Bump /\ dev' = "RECOVERING"
  /\ overlap' = IF dev \in {"AER_RESET", "REMOVING"} THEN 1 ELSE overlap
  /\ UNCHANGED <<link, told, monitor, work, own, pci, sbr, xfer, dead, events,
                 masked, rearmed>>

\* The channels are terminated and drained.  If one is still stuck,
\* dw_edma_v0_core_pcie_reset chooses a reset, or finds none.
ResetStuck ==
  /\ at["reset"] = "stuck"
  /\ \/ Go("reset", "stuck", "live") /\ UNCHANGED sbr
     \/ \E m \in Flag : Go("reset", "stuck", "save") /\ sbr' = m
  /\ UNCHANGED <<state, monitor, work, own, pci, thread, events, aux>>

ResetSave ==
  /\ Go("reset", "save", "bus")
  /\ PciSave
  /\ UNCHANGED <<state, monitor, work, own, phys, cfg, sbr, thread, events, aux>>

\* pcie_flr, which may fail and fall back to a bus reset or, where the host
\* supports none, give up; or dx_edma_do_sbr, after which the link may stay
\* down.
ResetBus ==
  /\ at["reset"] = "bus"
  /\ \/ /\ Go("reset", "bus", "bus_restore") /\ LoseConfig
        /\ UNCHANGED <<phys, saved, sbr, events>>
     \/ /\ sbr = 1 /\ Go("reset", "bus", "bus_restore") /\ LoseConfig
        /\ Event /\ phys' = "down" /\ UNCHANGED <<saved, sbr>>
     \/ /\ sbr = 0 /\ Event
        /\ at' = at /\ sbr' = 1
        /\ UNCHANGED <<phys, cfg, saved, dead>>
     \/ /\ sbr = 0 /\ Event
        /\ Go("reset", "bus", "live") /\ PciRestore
        /\ UNCHANGED <<phys, sbr, dead>>
  /\ UNCHANGED <<state, monitor, work, own, xfer, stale, aux>>

\* pci_restore_state and pci_set_master; no valid MSI message ends the reset.
ResetRestore ==
  /\ at["reset"] = "bus_restore"
  /\ \/ Go("reset", "bus_restore", "resave") /\ UNCHANGED events
     \/ Go("reset", "bus_restore", "live") /\ Event
  /\ PciRestore
  /\ UNCHANGED <<state, monitor, work, own, phys, sbr, thread, aux>>

\* edma_reprogram_hw, then pci_save_state.  A channel still stuck after a function level reset
\* escalates to a bus reset.
ResetResave ==
  /\ at["reset"] = "resave"
  /\ PciSave
  /\ \/ Go("reset", "resave", "live") /\ UNCHANGED <<sbr, events>>
     \/ sbr = 0 /\ Go("reset", "resave", "bus") /\ Event /\ sbr' = 1
  /\ UNCHANGED <<state, monitor, work, own, phys, cfg, thread, aux>>

\* New submissions are allowed, whatever happened to dev_state meanwhile.
ResetLive ==
  /\ Go("reset", "live", "idle")
  /\ dev' = "LIVE" /\ sbr' = 0
  /\ overlap' = IF dev \in {"AER_RESET", "REMOVING"} THEN 1 ELSE overlap
  /\ UNCHANGED <<link, told, monitor, work, own, pci, thread, events, masked, rearmed>>

ResetDma ==
  \/ ResetStart \/ ResetState \/ ResetStuck \/ ResetSave \/ ResetBus
  \/ ResetRestore \/ ResetResave \/ ResetLive

-----------------------------------------------------------------------------
(* dx_link_health_set_enabled, for a bound device. *)

Toggle(to) ==
  /\ Event
  /\ flow # "gone"
  /\ at["sysfs"] = "idle"
  /\ enabled' = to
  /\ fails' = IF to = 1 THEN 0 ELSE fails
  /\ at' = [at EXCEPT !["sysfs"] =
              IF to = 0 THEN "cancel_health"
              ELSE IF dev # "REMOVING" /\ paused = 0 THEN "arm" ELSE "idle"]
  /\ UNCHANGED <<state, timer, prev, requeue, work, paused, flow, pci, sbr, thread, aux>>

ToggleArm ==
  /\ Go("sysfs", "arm", "idle")
  /\ timer' = 1
  /\ rearmed' = IF paused = 1 THEN 1 ELSE rearmed
  /\ UNCHANGED <<state, fails, prev, requeue, work, own, pci, sbr, thread, events,
                 masked, overlap>>

Sysfs ==
  \/ \E to \in Flag : Toggle(to)
  \/ ToggleArm
  \/ CancelHealth("sysfs", "cancel_work") \/ CancelWork("sysfs", "idle")

-----------------------------------------------------------------------------
(* A transfer, as far as dev_state, recovery_epoch decide it. *)

\* The epoch is read, then the admission gate.
XferStart ==
  /\ xfer = "idle" /\ xfer' = "wait"
  /\ flow # "gone" /\ dev = "LIVE"
  /\ stale' = 0 /\ dead' = IF cfg = "set" THEN 0 ELSE 1
  /\ UNCHANGED <<at, state, monitor, work, own, pci, sbr, events, aux>>

\* The transfer completes, is woken or gives up after its timeouts.
XferEnd ==
  /\ xfer = "wait" /\ xfer' = "idle"
  /\ stale' = 0 /\ dead' = 0
  /\ UNCHANGED <<at, state, monitor, work, own, pci, sbr, events, aux>>

Xfer == XferStart \/ XferEnd

-----------------------------------------------------------------------------

\* Everything rests: the device is gone or the monitor is switched off.
Rest ==
  /\ \A p \in Procs : at[p] = "idle"
  /\ timer = 0 /\ queued = 0
  /\ UNCHANGED vars

Environment == LinkDrop \/ LinkBack \/ EndpointReset

Next ==
  \/ Environment \/ Health \/ RecoveryWork \/ WindowExpires \/ CooldownEnds
  \/ Kernel \/ ResetDma \/ Sysfs \/ Xfer \/ Rest

Spec == Init /\ [][Next]_vars

\* Work items and threads run; time passes.  The link need not come back.
FairSpec ==
  /\ Spec
  /\ WF_vars(Health) /\ WF_vars(RecoveryWork)
  /\ WF_vars(WindowExpires) /\ WF_vars(CooldownEnds)
  /\ WF_vars(at["kernel"] # "idle" /\ Kernel)
  /\ WF_vars(at["reset"] # "idle" /\ ResetDma)
  /\ WF_vars(at["sysfs"] # "idle" /\ Sysfs)

-----------------------------------------------------------------------------
(* Properties. *)

\* Two reinitialisations never overlap: by the time a handler of the PCI core
\* restores the device, the recovery work it found running has ended and no
\* other gets past its checks.
ReinitIsExclusive ==
  ~(at["kernel"] \in ReinitAt \cup {"bus", "enable"} /\ at["recovery"] \in ReinitAt)

\* dx_link_health_stop is final: once remove or shutdown goes on to tear the
\* device down, neither worker runs or is pending, except that a write to
\* link_health_enable that had already passed its check arms the monitor.
WorkersStopped ==
  flow \in {"remove", "shutdown", "gone"} /\ at["kernel"] \in {"teardown", "idle"} =>
    /\ at["recovery"] = "idle" /\ queued = 0
    /\ rearmed = 0 => at["health"] = "idle" /\ timer = 0

Quiet ==
  /\ \A p \in {"recovery", "kernel", "reset"} : at[p] = "idle"
  /\ at["health"] \notin QuiesceAt /\ queued = 0 /\ flow = "none"

\* A transfer that a reset of the endpoint has killed is told of it: once the
\* device is back in service, the thread does not wait for its timeout with an
\* epoch that looks current.
DeadTransferIsTold ==
  Quiet /\ dev = "LIVE" /\ told = "UP" /\ cfg = "set" /\ xfer = "wait" /\ dead = 1
    => stale = 1 \/ overlap = 1

\* The RT driver and the PCIe driver agree on the link when nobody is working
\* on it, unless two of them met before or a reset_done failed.
ToldMatchesLink ==
  Quiet /\ masked = 0 /\ overlap = 0 => (told = "DOWN" <=> link = "DOWN")

\* The link is up, the monitor is enabled, the device is not given up, its
\* configuration can be restored, no failed reset_done hides that it is not
\* live, and no quiesce has met a reinitialisation.
Recoverable ==
  /\ phys = "up" /\ enabled = 1 /\ flow # "gone" /\ masked = 0 /\ overlap = 0
  /\ cfg = "lost" => saved = "good"

\* A link that stays up ends in a live device that the RT driver knows of, as
\* long as the device is recoverable.
LinkUpBecomesLive ==
  <>[]Recoverable => <>[](dev = "LIVE" /\ cfg = "set" /\ told = "UP")

\* What the comments on the retries promise: a link that stays up ends in a
\* live device as long as the monitor is enabled.
FailureIsRetried ==
  <>[](phys = "up" /\ enabled = 1 /\ flow # "gone") => <>[](dev = "LIVE")

=============================================================================
