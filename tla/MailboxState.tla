---------------------------- MODULE MailboxState ----------------------------
(***************************************************************************)
(* The state of the command mailbox and of the calls that use it, and what *)
(* must hold of it.  Mailbox has the steps.                                *)
(***************************************************************************)
EXTENDS Integers, FiniteSets

CONSTANTS Callers,        \* threads in the driver
          MaxCommands,    \* bound on calls
          MaxReboots      \* bound on reboots of the firmware and link losses

Nobody == "nobody"

ASSUME MailboxAssumption ==
  MaxCommands \in Nat /\ MaxReboots \in Nat /\ Nobody \notin Callers

VARIABLES
  msg_lock,       \* its holder
  pc, kind, id,   \* the calls; a command is known by its number
  ret,            \* what the call returns: "ok", "busy" (-EBUSY) or "error"
  start_epoch,    \* of a ping
  cmd, size, ack, \* the header: the command's kind and number; size > 0; ack
  data,           \* the payload or reply: who wrote it, for which command
  bell,           \* the doorbell
  fw,             \* the firmware: "boot", "idle", "busy"
  job,            \* the command it works on, with the payload it found
  modern,         \* 1 when the firmware that runs publishes its readiness
  image,          \* the same of the firmware in flash
  valid, ready,   \* the readiness block is valid; it says MAILBOX_READY
  dlmsg_contract_seen,
  dev_state, recovery_epoch,
  commands, reboots,
  \* Auxiliary, only read by properties:
  owed,           \* the calls that got msg_lock while the firmware owed a reply
  rebooted,       \* the calls under which the firmware rebooted
  seen,           \* a gate looked at a valid readiness block, since the downgrade
  spoke,          \* a modern firmware has run
  downgraded,     \* the latch was cleared for a legacy image
  quarantine,     \* an update was acknowledged and the recovery has not ended
  echoed,         \* the pings of running calls the firmware has answered
  acked           \* the command whose ack was set last, 0 after a new header

\* Kinds of calls that check the state of the device, and that pass the gate.
Checked == {"general", "cpu_reset", "soc"}    \* dxrt_dev_state_errno under msg_lock
Gated   == Checked \union {"schedule"}        \* dxrt_fw_mbox_blocked

-----------------------------------------------------------------------------
(* Properties.                                                             *)

\* The ack that ends a wait is the one of the command that was sent, unless the
\* firmware still owed the ack of a command that was given up (by a timeout, a
\* signal, or by dxrt_reset_device, which never waits) when the call took
\* msg_lock: ack is cleared before every doorbell.
OwnReply ==
    \A c \in Callers :
        pc[c] = "end" /\ ret[c] = "ok" /\ kind[c] # "ping" => acked = id[c] \/ c \in owed

\* A ping that succeeds was answered by a firmware that saw this very ping, also
\* when an ack that is late for another command ends its wait: the recovery never
\* declares a silent firmware alive (fw_ping_probe).
PongIsFresh ==
    \A c \in Callers : pc[c] = "done" /\ kind[c] = "ping" /\ ret[c] = "ok" => id[c] \in echoed

\* Once a gate has seen a valid readiness block, no gated command touches the
\* mailbox of a firmware that boots, unless the boot began under its msg_lock:
\* the latch outlives the block, which a reboot withdraws (dxrt_fw_mbox_blocked).
BootUndisturbed ==
    \A c \in Callers :
        pc[c] \in {"copy", "send"} /\ kind[c] \in Gated /\ seen = 1 /\ fw = "boot" =>
            c \in rebooted

\* A firmware that has never published its readiness is never gated: no command
\* of a legacy device fails with -EBUSY (dxrt_fw_mbox_blocked).
LegacyNeverBusy == spoke = 0 => \A c \in Callers : ret[c] # "busy"

\* Between the acknowledgement of an update and the end of the recovery it starts,
\* no command that checks the state of the device is sent to the firmware that is
\* about to reboot: dxrt_update_firmware starts the recovery under msg_lock.
UpdateQuarantined ==
    quarantine = 1 => \A c \in Callers : pc[c] \in {"copy", "send"} => kind[c] \notin Checked

\* No path through a handler leaves msg_lock taken, or goes on without it: it is
\* held exactly from the checks to the end of the wait, so that the next call is
\* delayed by the bounded wait of this one and no more.
LockDiscipline ==
    \A c \in Callers : msg_lock = c <=> pc[c] \in {"check", "copy", "send", "poll", "end"}

\* After the driver has cleared its latch for a legacy image, the legacy firmware
\* that boots is not gated (dxrt_kick_fw_update_recovery_nodlmsg).
DowngradeUnblocks ==
    downgraded = 1 /\ fw = "idle" /\ modern = 0 => dlmsg_contract_seen = 0

=============================================================================
