------------------------------ MODULE Mailbox ------------------------------
(***************************************************************************)
(* The command mailbox in the memory the host shares with the firmware     *)
(* (rt/dxrt_drv_message.c, fw_ping_probe of rt/dxrt_drv_recovery.c, the    *)
(* doorbell of pci_deepx/dx_message.c).  A command is a payload, a header  *)
(* with ack = 0 and a doorbell; the firmware writes its reply over the     *)
(* payload and sets ack to 1.  msg_lock serialises the commands, but       *)
(* nothing serialises a command with the reply to an earlier one whose     *)
(* caller has given up.                                                    *)
(*                                                                         *)
(* A call has a kind, after its handler:                                   *)
(*   general    dxrt_msg_general, cpu_reset when it asks for a CPU reset   *)
(*   schedule   the part of dxrt_schedule that talks to the firmware       *)
(*   soc        dxrt_soc_custom                                            *)
(*   update     dxrt_update_firmware, downgrade when its image is legacy   *)
(*   reset      dxrt_reset_device, and DXRT_CMD_RECOVERY's notification    *)
(*              (dxrt_wait_fw_reboot_complete): no one waits for its ack   *)
(*   query      dxrt_query_msi_imwr                                        *)
(*   ping       fw_ping_probe                                              *)
(***************************************************************************)
EXTENDS MailboxState

calls    == <<msg_lock, pc, kind, id, ret, start_epoch, commands, owed>>
header   == <<cmd, size, ack, acked>>
device   == <<fw, job, modern, image, valid, ready, spoke, echoed>>
gate     == <<dlmsg_contract_seen, seen, downgraded>>
state    == <<dev_state, recovery_epoch, quarantine>>
budget   == <<reboots, rebooted>>
vars == <<calls, header, data, bell, device, gate, state, budget>>

Flag == {0, 1}
Ids  == 0 .. MaxCommands
Updates == {"update", "downgrade"}
Kinds   == {"general", "cpu_reset", "schedule", "soc", "reset", "query", "ping"} \union Updates
Copying == {"general", "cpu_reset", "soc", "reset"}   \* payload from user space
\* The command a header announces.
Commands == [kind : Kinds \union {"none"}, id : Ids]
NoCommand == [kind |-> "none", id |-> 0]
\* The data area: payload of a command, or the firmware's reply to a command
\* whose payload was arg.
Area == [by : {"host", "fw"}, kind : Kinds \union {"none"}, arg : Ids]
Payload(k, n) == [by |-> "host", kind |-> k, arg |-> n]

TypeOK ==
  /\ msg_lock \in Callers \union {Nobody}
  /\ pc \in [Callers -> {"idle", "lock", "check", "copy", "send", "poll", "end", "kick",
                         "done"}]
  /\ kind \in [Callers -> Kinds \union {"none"}] /\ id \in [Callers -> Ids]
  /\ ret \in [Callers -> {"none", "ok", "busy", "error"}]
  /\ start_epoch \in [Callers -> Nat]
  /\ cmd \in Commands /\ size \in Flag /\ ack \in Flag /\ data \in Area /\ bell \in Flag
  /\ fw \in {"boot", "idle", "busy"} /\ job \in [cmd : Commands, arg : Ids]
  /\ {modern, image, valid, ready, dlmsg_contract_seen} \subseteq Flag
  /\ dev_state \in {"ready", "recovering", "transport_ok"} /\ recovery_epoch \in Nat
  /\ commands \in Ids /\ reboots \in 0 .. MaxReboots
  /\ owed \subseteq Callers /\ rebooted \subseteq Callers /\ echoed \subseteq Ids /\ acked \in Ids
  /\ {seen, spoke, downgraded, quarantine} \subseteq Flag

Init ==
  /\ msg_lock = Nobody
  /\ pc = [c \in Callers |-> "idle"] /\ kind = [c \in Callers |-> "none"]
  /\ id = [c \in Callers |-> 0] /\ ret = [c \in Callers |-> "none"]
  /\ start_epoch = [c \in Callers |-> 0]
  /\ cmd = NoCommand /\ size = 0 /\ ack = 0 /\ data = Payload("none", 0) /\ bell = 0
  /\ fw = "idle" /\ job = [cmd |-> NoCommand, arg |-> 0]
  /\ modern \in Flag /\ image = modern /\ valid = modern /\ ready = modern
  /\ dlmsg_contract_seen = 0 /\ dev_state = "ready" /\ recovery_epoch = 0
  /\ commands = 0 /\ reboots = 0
  /\ owed = {} /\ rebooted = {} /\ seen = 0 /\ spoke = modern /\ downgraded = 0
  /\ quarantine = 0 /\ echoed = {} /\ acked = 0

-----------------------------------------------------------------------------
\* The ioctls

\* message_handler_general lets a command through in DXRT_STATE_READY;
\* fw_ping_probe is called by the recovery in DXRT_STATE_TRANSPORT_OK, once the
\* mailbox is ready; the query comes with the initialisation.
Enter(c, k) ==
    /\ pc[c] = "idle" /\ commands < MaxCommands
    /\ IF k = "ping" THEN dev_state = "transport_ok" /\ ready = 1
                     ELSE k # "query" => dev_state = "ready"
    /\ pc' = [pc EXCEPT ![c] = "lock"] /\ kind' = [kind EXCEPT ![c] = k]
    /\ commands' = commands + 1 /\ id' = [id EXCEPT ![c] = commands + 1]
    /\ start_epoch' = [start_epoch EXCEPT ![c] = IF k = "ping" THEN recovery_epoch ELSE 0]
    /\ UNCHANGED <<msg_lock, ret, owed, header, data, bell, device, gate, state, budget>>

\* mutex_lock
Lock(c) ==
    /\ pc[c] = "lock" /\ msg_lock = Nobody
    /\ msg_lock' = c /\ pc' = [pc EXCEPT ![c] = "check"]
    /\ owed' = (IF fw = "busy" \/ bell = 1 THEN owed \union {c} ELSE owed \ {c})
    /\ rebooted' = rebooted \ {c}
    /\ UNCHANGED <<kind, id, ret, start_epoch, commands, header, data, bell, device, gate,
                   state, reboots>>

\* mutex_unlock and return.
Leave(c, r) ==
    /\ msg_lock' = Nobody
    /\ pc' = [pc EXCEPT ![c] = "done"] /\ ret' = [ret EXCEPT ![c] = r]

\* Fault: the latch is not consulted: an invalid block never gates.
GateUnlatched(next, busy) ==
    /\ UNCHANGED dlmsg_contract_seen
    /\ seen' = IF valid = 1 THEN 1 ELSE seen
    /\ IF valid = 0 \/ ready = 1 THEN next ELSE busy

\* Fault: a mailbox that is not ready always gates.
GateAlways(next, busy) ==
    /\ UNCHANGED dlmsg_contract_seen
    /\ seen' = IF valid = 1 THEN 1 ELSE seen
    /\ IF ready = 1 THEN next ELSE busy

\* dxrt_fw_mbox_blocked: a firmware that has once published a valid readiness
\* block must say that its mailbox is ready.
Gate(next, busy) ==
    /\ dlmsg_contract_seen' = (IF valid = 1 THEN 1 ELSE dlmsg_contract_seen)
    /\ seen' = IF valid = 1 THEN 1 ELSE seen
    /\ IF dlmsg_contract_seen' = 0 \/ ready = 1 THEN next ELSE busy

\* Before the mailbox is touched: the state of the device, then the gate.
Check(c) ==
    /\ pc[c] = "check"
    /\ \/ /\ kind[c] \in Checked /\ dev_state # "ready"
          /\ Leave(c, "error") /\ UNCHANGED <<dlmsg_contract_seen, seen>>
       \/ /\ kind[c] \in Checked => dev_state = "ready"
          /\ kind[c] \in Gated
          /\ Gate(/\ pc' = [pc EXCEPT ![c] = IF kind[c] \in Copying THEN "copy" ELSE "send"]
                  /\ UNCHANGED <<msg_lock, ret>>,
                  Leave(c, "busy"))
       \/ /\ kind[c] \in {"query", "reset"} \union Updates
          /\ pc' = [pc EXCEPT ![c] = IF kind[c] \in Copying THEN "copy" ELSE "send"]
          /\ UNCHANGED <<msg_lock, ret, dlmsg_contract_seen, seen>>
       \/ /\ kind[c] = "ping"
          /\ IF start_epoch[c] = recovery_epoch /\ dev_state = "transport_ok"
             THEN pc' = [pc EXCEPT ![c] = "copy"] /\ UNCHANGED <<msg_lock, ret>>
             ELSE Leave(c, "error")
          /\ UNCHANGED <<dlmsg_contract_seen, seen>>
    /\ UNCHANGED <<kind, id, start_epoch, commands, owed, header, data, bell, device,
                   downgraded, state, budget>>

\* Fault: dxrt_soc_custom returns without mutex_unlock when its copy fails.
CopyInKeepsLock(c) ==
    /\ pc[c] = "copy"
    /\ \/ pc' = [pc EXCEPT ![c] = "send"] /\ data' \in {data, Payload(kind[c], id[c])}
          /\ UNCHANGED <<msg_lock, ret>>
       \/ /\ kind[c] # "ping" /\ data' \in {data, Payload(kind[c], id[c])}
          /\ pc' = [pc EXCEPT ![c] = "done"] /\ ret' = [ret EXCEPT ![c] = "error"]
          /\ msg_lock' = IF kind[c] = "soc" THEN msg_lock ELSE Nobody
    /\ UNCHANGED <<kind, id, start_epoch, commands, owed, header, bell, device, gate,
                   state, budget>>

\* The payload, of size 0 or more, is copied to the data area; the copy from
\* user space, or the allocation of its buffer, may fail halfway.
CopyIn(c) ==
    /\ pc[c] = "copy"
    /\ \/ /\ pc' = [pc EXCEPT ![c] = "send"]
          /\ data' \in {Payload(kind[c], id[c])} \union (IF kind[c] = "ping" THEN {} ELSE {data})
          /\ UNCHANGED <<msg_lock, ret>>
       \/ /\ kind[c] # "ping" /\ data' \in {data, Payload(kind[c], id[c])}
          /\ Leave(c, "error")
    /\ UNCHANGED <<kind, id, start_epoch, commands, owed, header, bell, device, gate,
                   state, budget>>

\* Fault: the header is written without ack = 0.
HeaderKeepsAck(c) ==
    /\ cmd' = [kind |-> kind[c], id |-> id[c]] /\ UNCHANGED ack /\ acked' = 0
    /\ size' = IF data = Payload(kind[c], id[c]) THEN 1 ELSE 0

\* dxrt_msg_to_dev
Header(c) ==
    /\ cmd' = [kind |-> kind[c], id |-> id[c]] /\ ack' = 0 /\ acked' = 0
    /\ size' = IF data = Payload(kind[c], id[c]) THEN 1 ELSE 0

\* dx_pcie_notify_msg_to_device: the doorbell is not written when its enable bit
\* does not appear, and no one is told.
Notify == bell' \in {1, bell}

\* The header, the payload of a schedule command after it, and the doorbell.
Send(c) ==
    /\ pc[c] = "send" /\ kind[c] # "reset"
    /\ Header(c) /\ Notify
    /\ data' = (IF kind[c] = "schedule" THEN Payload(kind[c], id[c]) ELSE data)
    /\ pc' = [pc EXCEPT ![c] = "poll"]
    /\ UNCHANGED <<msg_lock, ret, kind, id, start_epoch, commands, owed, device, gate, state,
                   budget>>

\* dxrt_reset_device does not wait for the ack: it unlocks after 100 ms.
ResetSend(c) ==
    /\ pc[c] = "send" /\ kind[c] = "reset"
    /\ Header(c) /\ Notify /\ Leave(c, "ok")
    /\ UNCHANGED <<kind, id, start_epoch, commands, owed, data, device, gate, state, budget>>

\* dxrt_polling_ack, and the loop of fw_ping_probe: the ack arrives, or the wait
\* ends without it, by a timeout, a signal or a read of all ones; a ping also
\* ends with a change of the recovery's epoch or state.
Poll(c) ==
    /\ pc[c] = "poll" /\ pc' = [pc EXCEPT ![c] = "end"]
    /\ \/ /\ ack = 1
          /\ kind[c] = "ping" => start_epoch[c] = recovery_epoch /\ dev_state = "transport_ok"
          /\ ret' = [ret EXCEPT ![c] = "ok"]
       \/ /\ ack = 0 \/ kind[c] = "ping"
          /\ ret' = [ret EXCEPT ![c] = "error"]
    /\ UNCHANGED <<msg_lock, kind, id, start_epoch, commands, owed, header, data, bell,
                   device, gate, state, budget>>

-----------------------------------------------------------------------------
\* The ends of the calls

\* dxrt_kick_fw_reboot_recovery
Kick == dev_state' = "transport_ok" /\ recovery_epoch' = recovery_epoch + 1

\* The reply is copied to user space, which may fail, when its size is not 0 and
\* the ack has arrived; a CPU reset starts a recovery after the unlock.
GeneralEnd(c) ==
    /\ pc[c] = "end" /\ kind[c] \in {"general", "cpu_reset"}
    /\ \/ ret[c] = "ok" /\ kind[c] = "cpu_reset"
          /\ msg_lock' = Nobody /\ pc' = [pc EXCEPT ![c] = "kick"] /\ UNCHANGED ret
       \/ ret[c] = "ok" /\ kind[c] = "general" /\ Leave(c, "ok")
       \/ ret[c] = "ok" /\ size = 1 /\ Leave(c, "error")
       \/ ret[c] = "error" /\ Leave(c, "error")
    /\ UNCHANGED <<kind, id, start_epoch, commands, owed, header, data, bell, device, gate,
                   state, budget>>

\* dxrt_kick_cpu_reset_recovery
CpuResetKick(c) ==
    /\ pc[c] = "kick" /\ Kick /\ pc' = [pc EXCEPT ![c] = "done"]
    /\ UNCHANGED <<msg_lock, kind, id, ret, start_epoch, commands, owed, header, data, bell,
                   device, gate, quarantine, budget>>

\* dxrt_schedule and dxrt_query_msi_imwr return what the wait returned.
WaitedEnd(c) ==
    /\ pc[c] = "end" /\ kind[c] \in {"schedule", "query"} /\ Leave(c, ret[c])
    /\ UNCHANGED <<kind, id, start_epoch, commands, owed, header, data, bell, device, gate,
                   state, budget>>

\* dxrt_soc_custom copies what is in the mailbox, also when the wait has failed,
\* and returns what the copy returns.
SocEnd(c) ==
    /\ pc[c] = "end" /\ kind[c] = "soc"
    /\ \/ size = 1 /\ \E r \in {"ok", "error"} : Leave(c, r)
       \/ size = 0 /\ Leave(c, ret[c])
    /\ UNCHANGED <<kind, id, start_epoch, commands, owed, header, data, bell, device, gate,
                   state, budget>>

\* Fault: the recovery after an update starts after the unlock.
UpdateEndUnlocksFirst(c) ==
    /\ pc[c] = "end" /\ kind[c] \in Updates
    /\ \/ /\ ret[c] = "ok" /\ msg_lock' = Nobody /\ pc' = [pc EXCEPT ![c] = "kick"]
          /\ quarantine' = 1
          /\ UNCHANGED <<ret, dev_state, recovery_epoch, dlmsg_contract_seen, seen, downgraded>>
       \/ /\ Leave(c, "error")
          /\ UNCHANGED <<state, dlmsg_contract_seen, seen, downgraded>>
    /\ UNCHANGED <<kind, id, start_epoch, commands, owed, header, data, bell, device, budget>>

\* dxrt_fw_image_is_legacy
IsLegacy(k) == k = "downgrade"

\* dxrt_update_firmware: the first word of the reply is the result.  When the
\* device resets itself the recovery starts, and for a legacy image
\* (dxrt_fw_image_is_legacy) the latch is cleared, all under msg_lock.
UpdateEnd(c) ==
    /\ pc[c] = "end" /\ kind[c] \in Updates
    /\ \/ /\ ret[c] = "ok" /\ Leave(c, "ok") /\ Kick /\ quarantine' = 1
          /\ IF IsLegacy(kind[c])
             THEN dlmsg_contract_seen' = 0 /\ seen' = 0 /\ downgraded' = 1
             ELSE UNCHANGED <<dlmsg_contract_seen, seen>> /\ downgraded' = 0
       \/ /\ ret[c] = "ok" /\ Leave(c, "ok")      \* FWUPDATE_DEV_UNRESET
          /\ UNCHANGED <<state, dlmsg_contract_seen, seen, downgraded>>
       \/ /\ Leave(c, "error")
          /\ UNCHANGED <<state, dlmsg_contract_seen, seen, downgraded>>
    /\ UNCHANGED <<kind, id, start_epoch, commands, owed, header, data, bell, device, budget>>

\* Fault: the PONG's sequence number is not compared.
PingEndAnySeq(c) ==
    /\ pc[c] = "end" /\ kind[c] = "ping"
    /\ Leave(c, IF ret[c] = "ok" /\ size = 1 /\ data.by = "fw" /\ data.kind = "ping"
                THEN "ok" ELSE "error")
    /\ UNCHANGED <<kind, id, start_epoch, commands, owed, header, data, bell, device, gate,
                   state, budget>>

\* The reply to a ping must be a PONG with the ping's sequence number.
PingEnd(c) ==
    /\ pc[c] = "end" /\ kind[c] = "ping"
    /\ Leave(c, IF ret[c] = "ok" /\ size = 1
                   /\ data = [by |-> "fw", kind |-> "ping", arg |-> id[c]]
                THEN "ok" ELSE "error")
    /\ UNCHANGED <<kind, id, start_epoch, commands, owed, header, data, bell, device, gate,
                   state, budget>>

\* The call returns to user space.
Return(c) ==
    /\ pc[c] = "done"
    /\ pc' = [pc EXCEPT ![c] = "idle"] /\ kind' = [kind EXCEPT ![c] = "none"]
    /\ id' = [id EXCEPT ![c] = 0] /\ ret' = [ret EXCEPT ![c] = "none"]
    /\ start_epoch' = [start_epoch EXCEPT ![c] = 0] /\ owed' = owed \ {c}
    /\ rebooted' = rebooted \ {c}
    /\ echoed' = echoed \ {id[c]}
    /\ UNCHANGED <<msg_lock, commands, header, data, bell, fw, job, modern, image, valid,
                   ready, spoke, gate, state, reboots>>

-----------------------------------------------------------------------------
\* The firmware and the recovery

\* The firmware takes the command the doorbell announces, as the mailbox is now.
FwTake ==
    /\ fw = "idle" /\ bell = 1
    /\ fw' = "busy" /\ bell' = 0 /\ job' = [cmd |-> cmd, arg |-> data.arg]
    /\ UNCHANGED <<calls, header, data, modern, image, valid, ready, spoke, echoed, gate,
                   state, budget>>

\* It answers, sooner or later: a PING with its payload, an update after it has
\* stored the image or failed to, the others with a reply of some size or none.
FwReply ==
    /\ fw = "busy" /\ fw' = "idle" /\ job' = [cmd |-> NoCommand, arg |-> 0]
    /\ ack' = 1 /\ acked' = job.cmd.id
    /\ \/ size' = 0 /\ job.cmd.kind # "ping" /\ UNCHANGED data
       \/ size' = 1 /\ data' = [by |-> "fw", kind |-> job.cmd.kind,
                                arg |-> IF job.cmd.kind = "ping" THEN job.arg ELSE job.cmd.id]
    /\ image' \in {image} \union (CASE job.cmd.kind = "update" -> {1}
                                     [] job.cmd.kind = "downgrade" -> {0}
                                     [] OTHER -> {})
    /\ echoed' = IF job.cmd.kind = "ping" /\ \E c \in Callers : id[c] = job.arg
                 THEN echoed \union {job.arg} ELSE echoed
    /\ UNCHANGED <<calls, cmd, bell, modern, valid, ready, spoke, gate, state, budget>>

\* It reboots, by a command or out of band.  A modern one withdraws its readiness.
FwReboot ==
    /\ fw # "boot" /\ reboots < MaxReboots /\ reboots' = reboots + 1
    /\ fw' = "boot" /\ job' = [cmd |-> NoCommand, arg |-> 0]
    /\ modern' = image /\ valid' = 0 /\ ready' = 0
    /\ rebooted' = rebooted \union {c \in Callers : msg_lock = c}
    /\ UNCHANGED <<calls, header, data, bell, image, spoke, echoed, gate, state>>

\* The readiness block is published first, MAILBOX_READY is set last.
FwPublish ==
    /\ fw = "boot" /\ modern = 1 /\ valid = 0 /\ valid' = 1 /\ spoke' = 1
    /\ UNCHANGED <<calls, header, data, bell, fw, job, modern, image, ready, echoed, gate,
                   state, budget>>

\* The boot is over; a doorbell that was rung meanwhile may or may not be noticed.
FwBooted ==
    /\ fw = "boot" /\ modern = valid
    /\ fw' = "idle" /\ ready' = valid /\ bell' \in {0, bell}
    /\ UNCHANGED <<calls, header, data, job, modern, image, valid, spoke, echoed, gate,
                   state, budget>>

\* The link goes down and comes back, or the recovery ends (Recovery.tla).
LinkDown ==
    /\ dev_state # "recovering" /\ reboots < MaxReboots /\ reboots' = reboots + 1
    /\ dev_state' = "recovering" /\ recovery_epoch' = recovery_epoch + 1
    /\ UNCHANGED <<calls, header, data, bell, device, gate, quarantine, rebooted>>

LinkUp ==
    /\ dev_state = "recovering" /\ dev_state' = "transport_ok"
    /\ UNCHANGED <<calls, header, data, bell, device, gate, recovery_epoch, quarantine,
                   budget>>

Recovered ==
    /\ dev_state = "transport_ok" /\ (ready = 1 \/ modern = 0)
    /\ dev_state' = "ready" /\ quarantine' = 0
    /\ UNCHANGED <<calls, header, data, bell, device, gate, recovery_epoch, budget>>

-----------------------------------------------------------------------------
Call(c) ==
    \/ Check(c) \/ CopyIn(c) \/ Send(c) \/ ResetSend(c) \/ Poll(c)
    \/ GeneralEnd(c) \/ CpuResetKick(c) \/ WaitedEnd(c) \/ SocEnd(c) \/ UpdateEnd(c)
    \/ PingEnd(c) \/ Return(c)

Next ==
    \/ \E c \in Callers : (\E k \in Kinds : Enter(c, k)) \/ Lock(c) \/ Call(c)
    \/ FwTake \/ FwReply \/ FwReboot \/ FwPublish \/ FwBooted
    \/ LinkDown \/ LinkUp \/ Recovered

Spec == Init /\ [][Next]_vars

=============================================================================
