--------------------------- MODULE TransportProofs ---------------------------
(***************************************************************************)
(* For any set of flows of the PCI core, any thresholds and any number of  *)
(* events: no two reinitialisations overlap, the workers have stopped when *)
(* a device is torn down, no transfer misses a reset, and the RT driver is *)
(* told of every change of the link.                                       *)
(***************************************************************************)
EXTENDS Transport, TLAPS

\* Where each process can be.
HealthAt   == {"idle", "check", "rearm"} \cup QuiesceAt
RecoveryAt == {"idle", "check", "own"} \cup ReinitAt
KernelAt   == {"idle", "cancel_health", "cancel_work", "save", "bus", "enable", "resume",
               "stop", "teardown"} \cup QuiesceAt \cup ReinitAt

PlaceInv ==
  /\ at["health"] \in HealthAt /\ at["recovery"] \in RecoveryAt /\ at["kernel"] \in KernelAt
  /\ at["sysfs"] \in {"idle", "arm", "cancel_health", "cancel_work"}
  /\ at["reset"] \in {"idle", "state", "stuck", "save", "bus", "bus_restore", "resave", "live"}
  /\ at["recovery"] = "own" => count < MaxInWindow

\* The flow has waited for the recovery work to end.
Stopped ==
  \/ at["kernel"] \in {"save", "bus", "enable", "resume", "teardown"} \cup ReinitAt
  \/ at["kernel"] = "stop" /\ flow # "remove"
  \/ at["kernel"] \in QuiesceAt /\ flow = "shutdown"
  \/ flow = "gone"

\* ... or, at least, for the health worker.
Halted == Stopped \/ at["kernel"] = "cancel_work"

\* ... or, at least, has paused both.
Held == Halted \/ at["kernel"] \in {"cancel_health"} \cup QuiesceAt

\* What a flow has achieved stays so until it lets the workers go.
StopInv ==
  /\ flow \in {"none", "gone"} <=> at["kernel"] = "idle"
  /\ at["kernel"] \in {"save", "bus", "enable", "resume"} \cup ReinitAt =>
       flow \in {"aer", "frozen", "reset", "pm"}
  /\ at["kernel"] \in QuiesceAt => flow # "remove"
  /\ Held => paused = 1
  /\ Halted => at["health"] = "idle" /\ (rearmed = 0 => timer = 0)
  /\ Stopped => at["recovery"] = "idle" /\ queued = 0

\* A reinitialisation that has not yet set dev_state to LIVE.
Unfinished == ReinitAt \ {"r_told"}

\* A flow other than remove and shutdown has quiesced the device and not yet
\* made it live.
Taken ==
  /\ flow \notin {"remove", "shutdown"}
  /\ at["kernel"] \in {"q_told", "cancel_health", "cancel_work", "save", "bus", "enable"}
                      \cup Unfinished

\* The device is out of service, and a transfer that waits has seen the epoch move.
Closed ==
  \/ link = "DOWN" \/ Taken
  \/ at["health"] = "q_told" \/ at["kernel"] = "q_told"
  \/ at["recovery"] \in {"check", "own"} \cup Unfinished

\* ... which is why no transfer is left behind.
ServiceInv ==
  /\ dev = "AER_RESET" => at["reset"] = "idle"
  /\ Closed \/ at["health"] = "q_link" \/ at["kernel"] = "q_link" =>
       dev \in {"AER_RESET", "REMOVING"}
  /\ at["reset"] \notin {"idle", "state"} => dev \in {"RECOVERING", "REMOVING"}
  /\ Closed \/ at["reset"] \notin {"idle", "state"} => xfer = "idle" \/ stale = 1
  /\ xfer = "wait" /\ dead = 1 /\ stale = 0 => cfg = "lost"

\* Who may be at work with whom.
TurnInv ==
  /\ flow \notin {"remove", "shutdown"} /\ at["kernel"] \notin {"idle", "q_state"} =>
       at["recovery"] \notin ReinitAt /\ at["reset"] = "idle"
  /\ queued = 1 => at["recovery"] = "idle"
  /\ queued = 1 \/ at["recovery"] \in {"check", "own"} =>
       /\ link = "DOWN" /\ at["health"] \notin QuiesceAt
       /\ at["health"] = "check" => prev = "DOWN"
  /\ at["health"] \in {"q_link", "q_told"} => at["recovery"] = "idle"

\* What the RT driver was told, and who is going to tell it more.
ToldInv ==
  /\ link = "DOWN" => told = "DOWN" \/ at["health"] = "q_told" \/ at["kernel"] = "q_told"
  /\ told = "DOWN" /\ link # "DOWN" =>
       flow # "none" \/ at["recovery"] \in ReinitAt \/ masked = 1
  /\ at["recovery"] # "idle" => told = "DOWN"
  /\ (Taken /\ at["kernel"] # "q_told") \/ at["kernel"] = "r_told" => told = "DOWN"
  /\ at["health"] = "q_told" => link = "DOWN"
  /\ \A p \in {"recovery", "kernel"} : at[p] \in {"r_live", "r_told"} => link = "UP"
  /\ at["kernel"] = "resume" =>
       \/ masked = 1
       \/ link = "UP" /\ told = "UP"
       \/ flow = "pm" /\ link = "DOWN" /\ told = "DOWN"

\* Unless two of them have met.
MeetInv == overlap = 1 \/ (ServiceInv /\ TurnInv /\ ToldInv)

TransportInv == TypeOK /\ PlaceInv /\ StopInv /\ MeetInv

\* Probe ends with nobody at work.
LEMMA InitTransportInv == Init => TransportInv
  BY SMTT(60), Z3T(60), TransportAssumption
     DEF Init, TransportInv, TypeOK, PlaceInv, StopInv, Held, Halted, Stopped,
         MeetInv, ServiceInv, TurnInv, ToldInv, Closed, Taken, Unfinished, Procs,
         Flag, HealthAt, RecoveryAt, KernelAt, QuiesceAt, ReinitAt

\* Every step keeps the types.
LEMMA NextTypeOK == TypeOK /\ PlaceInv /\ [Next]_vars => TypeOK'
<1> SUFFICES ASSUME TypeOK, PlaceInv, [Next]_vars PROVE TypeOK'
  OBVIOUS
<1> USE TransportAssumption
       DEF TypeOK, PlaceInv, Flag, Procs, QuiesceAt, ReinitAt, state, monitor, work,
           own, pci, thread, aux
<1>1. CASE LinkDrop \/ LinkBack \/ EndpointReset
  BY SMTT(60), Z3T(60), <1>1 DEF LinkDrop, LinkBack, EndpointReset, LoseConfig
<1>2. CASE Xfer \/ WindowExpires \/ CooldownEnds
  BY SMTT(60), Z3T(60), <1>2 DEF Xfer, XferStart, XferEnd, WindowExpires, CooldownEnds
<1>3. CASE HealthStart \/ HealthRearm
  BY SMTT(60), Z3T(60), <1>3 DEF HealthStart, HealthRearm, Go, Blocked
<1>4. CASE HealthDown \/ HealthRestored \/ HealthUp
  BY SMTT(60), Z3T(60), <1>4 DEF HealthDown, HealthRestored, HealthUp, Go
<1>5. CASE Quiesce("health")
  BY SMTT(60), Z3T(60), <1>5
     DEF Quiesce, QuiesceState, QuiesceLink, QuiesceTold, Go, Bump
<1>6. CASE RecoveryStart \/ RecoveryCheck \/ RecoveryOwn
  BY <1>6, SMTT(60), Z3T(60) DEF RecoveryStart, RecoveryCheck, RecoveryOwn, Go, Blocked
<1>7. CASE Reinit("recovery")
  BY SMTT(60), Z3T(60), <1>7
     DEF Reinit, ReinitLink, ReinitRestore, ReinitMmio, ReinitSave, ReinitValid,
         ReinitLive, ReinitTold, ReinitFails, AfterReinit, Go, PciRestore, PciSave
<1>8. CASE (\E f \in Flows : FlowStart(f)) \/ RemoveStart \/ RemovePause
  BY SMTT(60), Z3T(60), <1>8 DEF FlowStart, RemoveStart, RemovePause, Go
<1>9. CASE CancelHealth("kernel", "cancel_work") \/ CancelWork("kernel", AfterStop)
  BY SMTT(60), Z3T(60), <1>9 DEF CancelHealth, CancelWork, AfterStop, Go
<1>10. CASE FlowSave \/ FlowBus \/ SlotReset
  BY SMTT(60), Z3T(60), <1>10 DEF FlowSave, FlowBus, SlotReset, Go, PciSave
<1>11. CASE FlowResume \/ Disconnect \/ Teardown
  BY SMTT(60), Z3T(60), <1>11 DEF FlowResume, Disconnect, Teardown, Go
<1>12. CASE Quiesce("kernel")
  BY <1>12, SMTT(60), Z3T(60)
     DEF Quiesce, QuiesceState, QuiesceLink, QuiesceTold, Go, Bump
<1>13. CASE Reinit("kernel")
  BY <1>13, SMTT(60), Z3T(60)
     DEF Reinit, ReinitLink, ReinitRestore, ReinitMmio, ReinitSave, ReinitValid,
         ReinitLive, ReinitTold, ReinitFails, AfterReinit, Go, PciRestore, PciSave
<1>14. CASE ResetStart \/ ResetState \/ ResetStuck \/ ResetSave
  BY SMTT(60), Z3T(60), <1>14
     DEF ResetStart, ResetState, ResetStuck, ResetSave, Go, Bump, PciSave
<1>15. CASE ResetBus \/ ResetRestore
  BY SMTT(60), Z3T(60), <1>15 DEF ResetBus, ResetRestore, Go, LoseConfig, PciRestore
<1>16. CASE ResetResave \/ ResetLive
  BY SMTT(60), Z3T(60), <1>16 DEF ResetResave, ResetLive, Go, PciSave
<1>17. CASE (\E to \in Flag : Toggle(to)) \/ ToggleArm
  BY SMTT(60), Z3T(60), <1>17 DEF Toggle, ToggleArm, Go
<1>18. CASE CancelHealth("sysfs", "cancel_work") \/ CancelWork("sysfs", "idle")
  BY <1>18, SMTT(60), Z3T(60) DEF CancelHealth, CancelWork, Go
<1>19. CASE Rest \/ UNCHANGED vars
  BY <1>19, SMTT(60), Z3T(60) DEF Rest, vars
<1> HIDE
       DEF TypeOK, PlaceInv, QuiesceAt, ReinitAt, state, monitor, work, own, pci,
           thread, aux
<1> QED
  BY SMTT(60), Z3T(60), <1>1, <1>2, <1>3, <1>4, <1>5, <1>6, <1>7, <1>8, <1>9, <1>10,
     <1>11, <1>12, <1>13, <1>14, <1>15, <1>16, <1>17, <1>18, <1>19
     DEF Next, Environment, Health, RecoveryWork, Kernel, ResetDma, Sysfs

\* Every process stays on its path.
LEMMA NextPlaceInv == TypeOK /\ PlaceInv /\ [Next]_vars => PlaceInv'
<1> SUFFICES ASSUME TypeOK, PlaceInv, [Next]_vars PROVE PlaceInv'
  OBVIOUS
<1> USE TransportAssumption
       DEF TypeOK, PlaceInv, Procs, HealthAt, RecoveryAt, KernelAt, QuiesceAt,
           ReinitAt, state, monitor, work, own, pci, thread, aux
<1>1. CASE LinkDrop \/ LinkBack \/ EndpointReset
  BY <1>1, ZenonT(60) DEF LinkDrop, LinkBack, EndpointReset, LoseConfig
<1>2. CASE Xfer \/ WindowExpires \/ CooldownEnds
  BY SMTT(60), Z3T(60), <1>2 DEF Xfer, XferStart, XferEnd, WindowExpires, CooldownEnds
<1>3. CASE HealthStart \/ HealthRearm
  BY ZenonT(60), <1>3 DEF HealthStart, HealthRearm, Go, Blocked
<1>4. CASE HealthDown \/ HealthRestored \/ HealthUp
  BY SMTT(60), Z3T(60), <1>4 DEF HealthDown, HealthRestored, HealthUp, Go
<1>5. CASE Quiesce("health")
  BY SMTT(60), Z3T(60), <1>5
     DEF Quiesce, QuiesceState, QuiesceLink, QuiesceTold, Go, Bump
<1>6. CASE RecoveryStart \/ RecoveryCheck \/ RecoveryOwn
  BY <1>6, SMTT(60), Z3T(60) DEF RecoveryStart, RecoveryCheck, RecoveryOwn, Go, Blocked
<1>7. CASE Reinit("recovery")
  BY SMTT(60), Z3T(60), <1>7
     DEF Reinit, ReinitLink, ReinitRestore, ReinitMmio, ReinitSave, ReinitValid,
         ReinitLive, ReinitTold, ReinitFails, AfterReinit, Go, PciRestore, PciSave
<1>8. CASE (\E f \in Flows : FlowStart(f)) \/ RemoveStart \/ RemovePause
  BY SMTT(60), Z3T(60), <1>8 DEF FlowStart, RemoveStart, RemovePause, Go
<1>9. CASE CancelHealth("kernel", "cancel_work") \/ CancelWork("kernel", AfterStop)
  BY SMTT(60), Z3T(60), <1>9 DEF CancelHealth, CancelWork, AfterStop, Go
<1>10. CASE FlowSave \/ FlowBus \/ SlotReset
  BY SMTT(60), Z3T(60), <1>10 DEF FlowSave, FlowBus, SlotReset, Go, PciSave
<1>11. CASE FlowResume \/ Disconnect \/ Teardown
  BY SMTT(60), Z3T(60), <1>11 DEF FlowResume, Disconnect, Teardown, Go
<1>12. CASE Quiesce("kernel")
  BY <1>12, SMTT(60), Z3T(60)
     DEF Quiesce, QuiesceState, QuiesceLink, QuiesceTold, Go, Bump
<1>13. CASE Reinit("kernel")
  BY <1>13, SMTT(60), Z3T(60)
     DEF Reinit, ReinitLink, ReinitRestore, ReinitMmio, ReinitSave, ReinitValid,
         ReinitLive, ReinitTold, ReinitFails, AfterReinit, Go, PciRestore, PciSave
<1>14. CASE ResetStart \/ ResetState \/ ResetStuck \/ ResetSave
  BY SMTT(60), Z3T(60), <1>14
     DEF ResetStart, ResetState, ResetStuck, ResetSave, Go, Bump, PciSave
<1>15. CASE ResetBus \/ ResetRestore
  BY SMTT(60), Z3T(60), <1>15 DEF ResetBus, ResetRestore, Go, LoseConfig, PciRestore
<1>16. CASE ResetResave \/ ResetLive
  BY SMTT(60), Z3T(60), <1>16 DEF ResetResave, ResetLive, Go, PciSave
<1>17. CASE (\E to \in Flag : Toggle(to)) \/ ToggleArm
  BY SMTT(60), Z3T(60), <1>17 DEF Toggle, ToggleArm, Go
<1>18. CASE CancelHealth("sysfs", "cancel_work") \/ CancelWork("sysfs", "idle")
  BY <1>18 DEF CancelHealth, CancelWork, Go
<1>19. CASE Rest \/ UNCHANGED vars
  BY <1>19, ZenonT(60) DEF Rest, vars
<1> HIDE
       DEF TypeOK, PlaceInv, HealthAt, RecoveryAt, KernelAt, QuiesceAt, ReinitAt,
           state, monitor, work, own, pci, thread, aux
<1> QED
  BY SMTT(60), Z3T(60), <1>1, <1>2, <1>3, <1>4, <1>5, <1>6, <1>7, <1>8, <1>9, <1>10,
     <1>11, <1>12, <1>13, <1>14, <1>15, <1>16, <1>17, <1>18, <1>19
     DEF Next, Environment, Health, RecoveryWork, Kernel, ResetDma, Sysfs

\* No worker gets past its checks while a flow holds it.
LEMMA NextStopInv == TransportInv /\ [Next]_vars => StopInv'
<1> SUFFICES ASSUME TypeOK, PlaceInv, StopInv, [Next]_vars PROVE StopInv'
  BY SMTT(60), Z3T(60) DEF TransportInv
<1>0. /\ at = [q \in Procs |-> at[q]]
      /\ queued \in {0, 1} /\ timer \in {0, 1} /\ paused \in {0, 1} /\ rearmed \in {0, 1}
  BY ZenonT(60) DEF TypeOK, Flag
<1> USE <1>0, TransportAssumption
       DEF PlaceInv, StopInv, Held, Halted, Stopped, Procs, HealthAt, RecoveryAt,
           KernelAt, QuiesceAt, ReinitAt, state, monitor, work, own, pci, thread, aux
<1>1. CASE LinkDrop \/ LinkBack \/ EndpointReset
  BY <1>1, SMTT(60), Z3T(60) DEF LinkDrop, LinkBack, EndpointReset, LoseConfig
<1>2. CASE Xfer \/ WindowExpires \/ CooldownEnds
  BY <1>2, SMTT(60), Z3T(60) DEF Xfer, XferStart, XferEnd, WindowExpires, CooldownEnds
<1>3. CASE HealthStart \/ HealthRearm
  BY <1>3, ZenonT(60) DEF HealthStart, HealthRearm, Go, Blocked
<1>4. CASE HealthDown \/ HealthRestored \/ HealthUp
  BY <1>4, ZenonT(60) DEF HealthDown, HealthRestored, HealthUp, Go
<1>5. CASE Quiesce("health")
  BY <1>5, ZenonT(60) DEF Quiesce, QuiesceState, QuiesceLink, QuiesceTold, Go, Bump
<1>6. CASE RecoveryStart \/ RecoveryCheck \/ RecoveryOwn
  BY <1>6, SMTT(60), Z3T(60) DEF RecoveryStart, RecoveryCheck, RecoveryOwn, Go, Blocked
<1>7. CASE Reinit("recovery")
  BY <1>7, SMTT(60), Z3T(60)
     DEF Reinit, ReinitLink, ReinitRestore, ReinitMmio, ReinitSave, ReinitValid,
         ReinitLive, ReinitTold, ReinitFails, AfterReinit, Go, PciRestore, PciSave
<1>8. CASE (\E f \in Flows : FlowStart(f)) \/ RemoveStart \/ RemovePause
  BY SMTT(60), Z3T(60), <1>8 DEF FlowStart, RemoveStart, RemovePause, Go
<1>9. CASE CancelHealth("kernel", "cancel_work") \/ CancelWork("kernel", AfterStop)
  BY <1>9, SMTT(60), Z3T(60) DEF CancelHealth, CancelWork, AfterStop, Go
<1>10. CASE FlowSave \/ FlowBus \/ SlotReset
  BY <1>10, ZenonT(60) DEF FlowSave, FlowBus, SlotReset, Go, PciSave
<1>11. CASE FlowResume \/ Disconnect \/ Teardown
  BY <1>11, ZenonT(60) DEF FlowResume, Disconnect, Teardown, Go
<1>12. CASE Quiesce("kernel")
  BY <1>12, ZenonT(60) DEF Quiesce, QuiesceState, QuiesceLink, QuiesceTold, Go, Bump
<1>13. CASE Reinit("kernel")
  BY <1>13, ZenonT(60)
     DEF Reinit, ReinitLink, ReinitRestore, ReinitMmio, ReinitSave, ReinitValid,
         ReinitLive, ReinitTold, ReinitFails, AfterReinit, Go, PciRestore, PciSave
<1>14. CASE ResetStart \/ ResetState \/ ResetStuck \/ ResetSave
  BY <1>14, SMTT(60), Z3T(60)
     DEF ResetStart, ResetState, ResetStuck, ResetSave, Go, Bump, PciSave
<1>15. CASE ResetBus \/ ResetRestore
  BY <1>15, SMTT(60), Z3T(60) DEF ResetBus, ResetRestore, Go, LoseConfig, PciRestore
<1>16. CASE ResetResave \/ ResetLive
  BY <1>16, SMTT(60), Z3T(60) DEF ResetResave, ResetLive, Go, PciSave
<1>17. CASE (\E to \in Flag : Toggle(to)) \/ ToggleArm
  BY <1>17, SMTT(60), Z3T(60) DEF Toggle, ToggleArm, Go
<1>18. CASE CancelHealth("sysfs", "cancel_work") \/ CancelWork("sysfs", "idle")
  BY <1>18, SMTT(60), Z3T(60) DEF CancelHealth, CancelWork, Go
<1>19. CASE Rest \/ UNCHANGED vars
  BY <1>19, ZenonT(60) DEF Rest, vars
<1> HIDE <1>0, TransportAssumption
       DEF PlaceInv, StopInv, Held, Halted, Stopped, HealthAt, RecoveryAt, KernelAt,
           QuiesceAt, ReinitAt, state, monitor, work, own, pci, thread, aux
<1> QED
  BY ZenonT(60), <1>1, <1>2, <1>3, <1>4, <1>5, <1>6, <1>7, <1>8, <1>9, <1>10, <1>11,
     <1>12, <1>13, <1>14, <1>15, <1>16, <1>17, <1>18, <1>19
     DEF Next, Environment, Health, RecoveryWork, Kernel, ResetDma, Sysfs

\* Nobody takes a quiesced device into service but the one who restored it.
LEMMA NextServiceInv == TransportInv /\ [Next]_vars => overlap' = 1 \/ ServiceInv'
<1> SUFFICES ASSUME TypeOK, PlaceInv, StopInv, MeetInv, [Next]_vars, overlap' # 1
             PROVE  ServiceInv'
  BY SMTT(60), Z3T(60) DEF TransportInv
<1>0. /\ at = [q \in Procs |-> at[q]]
      /\ dev \in {"LIVE", "RECOVERING", "AER_RESET", "REMOVING"} /\ overlap \in {0, 1}
      /\ xfer \in {"idle", "wait"} /\ stale \in {0, 1} /\ cfg \in {"set", "lost"}
  BY ZenonT(60) DEF TypeOK, Flag
<1> USE <1>0, TransportAssumption
       DEF PlaceInv, StopInv, Held, Halted, Stopped, MeetInv, ServiceInv, TurnInv,
           ToldInv, Closed, Taken, Unfinished, Procs, HealthAt, RecoveryAt, KernelAt,
           QuiesceAt, ReinitAt, Flag, state, monitor, work, own, pci, thread, aux
<1>1. CASE LinkDrop \/ LinkBack \/ EndpointReset
  BY <1>1, SMTT(60), Z3T(60) DEF LinkDrop, LinkBack, EndpointReset, LoseConfig
<1>2. CASE Xfer \/ WindowExpires \/ CooldownEnds
  BY <1>2, SMTT(60), Z3T(60) DEF Xfer, XferStart, XferEnd, WindowExpires, CooldownEnds
<1>3. CASE HealthStart \/ HealthRearm
  BY <1>3, SMTT(60), Z3T(60) DEF HealthStart, HealthRearm, Go, Blocked
<1>4. CASE HealthDown \/ HealthRestored \/ HealthUp
  BY <1>4, SMTT(60), Z3T(60) DEF HealthDown, HealthRestored, HealthUp, WorkBusy, Go
<1>5. CASE Quiesce("health")
  BY <1>5, SMTT(60), Z3T(60)
     DEF Quiesce, QuiesceState, QuiesceLink, QuiesceTold, ForLinkDown, Go, Bump
<1>6. CASE RecoveryStart \/ RecoveryCheck \/ RecoveryOwn
  BY <1>6, ZenonT(60) DEF RecoveryStart, RecoveryCheck, RecoveryOwn, Go, Blocked
<1>7. CASE Reinit("recovery")
  <2>1. CASE ReinitLink("recovery") \/ ReinitRestore("recovery") \/ ReinitSave("recovery")
    BY <2>1, SMTT(60), Z3T(60)
       DEF ReinitLink, ReinitRestore, ReinitSave, Go, PciRestore, PciSave
  <2>2. CASE ReinitMmio("recovery")
    BY <2>2, ZenonT(60) DEF ReinitMmio, ReinitFails, AfterReinit, Go
  <2>3. CASE ReinitValid("recovery")
    BY <2>3, ZenonT(60) DEF ReinitValid, ReinitFails, AfterReinit, Go
  <2>4. CASE ReinitLive("recovery") \/ ReinitTold("recovery")
    BY <2>4, SMTT(60), Z3T(60) DEF ReinitLive, ReinitTold, AfterReinit, Go
  <2> QED BY <1>7, <2>1, <2>2, <2>3, <2>4, ZenonT(60) DEF Reinit
<1>8. CASE (\E f \in Flows : FlowStart(f)) \/ RemoveStart \/ RemovePause
  BY SMTT(60), Z3T(60), <1>8 DEF FlowStart, RemoveStart, RemovePause, Go
<1>9. CASE CancelHealth("kernel", "cancel_work") \/ CancelWork("kernel", AfterStop)
  BY <1>9, SMTT(60), Z3T(60) DEF CancelHealth, CancelWork, AfterStop, Go
<1>10. CASE FlowSave \/ FlowBus \/ SlotReset
  BY <1>10, SMTT(60), Z3T(60) DEF FlowSave, FlowBus, SlotReset, Go, PciSave
<1>11. CASE FlowResume \/ Disconnect \/ Teardown
  BY <1>11, SMTT(60), Z3T(60) DEF FlowResume, Disconnect, Teardown, Go
<1>12. CASE Quiesce("kernel")
  BY <1>12, SMTT(60), Z3T(60)
     DEF Quiesce, QuiesceState, QuiesceLink, QuiesceTold, ForLinkDown, Go, Bump
<1>13. CASE Reinit("kernel")
  <2>1. CASE ReinitLink("kernel") \/ ReinitRestore("kernel") \/ ReinitSave("kernel")
    BY <2>1, SMTT(60), Z3T(60)
       DEF ReinitLink, ReinitRestore, ReinitSave, Go, PciRestore, PciSave
  <2>2. CASE ReinitMmio("kernel")
    BY <2>2, ZenonT(60) DEF ReinitMmio, ReinitFails, AfterReinit, Go
  <2>3. CASE ReinitValid("kernel")
    BY <2>3, ZenonT(60) DEF ReinitValid, ReinitFails, AfterReinit, Go
  <2>4. CASE ReinitLive("kernel") \/ ReinitTold("kernel")
    BY <2>4, SMTT(60), Z3T(60) DEF ReinitLive, ReinitTold, AfterReinit, Go
  <2> QED BY <1>13, <2>1, <2>2, <2>3, <2>4, ZenonT(60) DEF Reinit
<1>14. CASE ResetStart \/ ResetState \/ ResetStuck \/ ResetSave
  BY <1>14, SMTT(60), Z3T(60)
     DEF ResetStart, ResetState, ResetStuck, ResetSave, Go, Bump, PciSave
<1>15. CASE ResetBus \/ ResetRestore
  BY <1>15, SMTT(60), Z3T(60) DEF ResetBus, ResetRestore, Go, LoseConfig, PciRestore
<1>16. CASE ResetResave \/ ResetLive
  BY <1>16, SMTT(60), Z3T(60) DEF ResetResave, ResetLive, Go, PciSave
<1>17. CASE (\E to \in Flag : Toggle(to)) \/ ToggleArm
  BY <1>17, SMTT(60), Z3T(60) DEF Toggle, ToggleArm, Go
<1>18. CASE CancelHealth("sysfs", "cancel_work") \/ CancelWork("sysfs", "idle")
  BY <1>18, SMTT(60), Z3T(60) DEF CancelHealth, CancelWork, Go
<1>19. CASE Rest \/ UNCHANGED vars
  BY <1>19, SMTT(60), Z3T(60) DEF Rest, vars
<1> HIDE <1>0, TransportAssumption
       DEF PlaceInv, StopInv, Held, Halted, Stopped, MeetInv, ServiceInv, TurnInv,
           ToldInv, Closed, Taken, Unfinished, HealthAt, RecoveryAt, KernelAt,
           QuiesceAt, ReinitAt, state, monitor, work, own, pci, thread, aux
<1> QED
  BY ZenonT(60), <1>1, <1>2, <1>3, <1>4, <1>5, <1>6, <1>7, <1>8, <1>9, <1>10, <1>11,
     <1>12, <1>13, <1>14, <1>15, <1>16, <1>17, <1>18, <1>19
     DEF Next, Environment, Health, RecoveryWork, Kernel, ResetDma, Sysfs

\* Nobody starts to work on the link while another does.
LEMMA NextTurnInv == TransportInv /\ [Next]_vars => overlap' = 1 \/ TurnInv'
<1> SUFFICES ASSUME TypeOK, PlaceInv, StopInv, MeetInv, [Next]_vars, overlap' # 1
             PROVE  TurnInv'
  BY DEF TransportInv
<1>0. /\ at = [q \in Procs |-> at[q]]
      /\ queued \in {0, 1} /\ overlap \in {0, 1}
  BY DEF TypeOK, Flag
<1>1. CASE UNCHANGED <<at, flow, link, queued, prev, overlap>>
  BY <1>1, ZenonT(60) DEF MeetInv, TurnInv
<1>2. CASE Environment \/ Xfer \/ WindowExpires \/ CooldownEnds \/ Rest \/ UNCHANGED vars
  BY ZenonT(60), <1>1, <1>2
     DEF Environment, LinkDrop, LinkBack, EndpointReset, Xfer, XferStart, XferEnd,
         WindowExpires, CooldownEnds, Rest, vars, state, monitor, work, own, aux
<1> USE <1>0, TransportAssumption
       DEF PlaceInv, StopInv, Held, Halted, Stopped, MeetInv, TurnInv, ToldInv, Taken,
           Unfinished, Procs, HealthAt, RecoveryAt, KernelAt, QuiesceAt, ReinitAt,
           Flag, state, monitor, work, own, pci, thread, aux
<1>3. CASE HealthStart \/ HealthRearm
  BY <1>3, SMTT(60), Z3T(60) DEF HealthStart, HealthRearm, Go, Blocked
<1>4. CASE HealthDown \/ HealthRestored \/ HealthUp
  BY <1>4, SMTT(60), Z3T(60) DEF HealthDown, HealthRestored, HealthUp, WorkBusy, Go
<1>5. CASE Quiesce("health")
  BY <1>5, SMTT(60), Z3T(60)
     DEF Quiesce, QuiesceState, QuiesceLink, QuiesceTold, ForLinkDown, Go, Bump
<1>6. CASE RecoveryStart \/ RecoveryCheck \/ RecoveryOwn
  BY <1>6, SMTT(60), Z3T(60) DEF RecoveryStart, RecoveryCheck, RecoveryOwn, Go, Blocked
<1>7. CASE Reinit("recovery")
  <2>1. CASE ReinitLink("recovery") \/ ReinitRestore("recovery") \/ ReinitSave("recovery")
    BY <2>1, SMTT(60), Z3T(60)
       DEF ReinitLink, ReinitRestore, ReinitSave, Go, PciRestore, PciSave
  <2>2. CASE ReinitMmio("recovery")
    BY <2>2, ZenonT(60) DEF ReinitMmio, ReinitFails, AfterReinit, Go
  <2>3. CASE ReinitValid("recovery")
    BY <2>3, ZenonT(60) DEF ReinitValid, ReinitFails, AfterReinit, Go
  <2>4. CASE ReinitLive("recovery") \/ ReinitTold("recovery")
    BY <2>4, SMTT(60), Z3T(60) DEF ReinitLive, ReinitTold, AfterReinit, Go
  <2> QED BY <1>7, <2>1, <2>2, <2>3, <2>4, ZenonT(60) DEF Reinit
<1>8. CASE (\E f \in Flows : FlowStart(f)) \/ RemoveStart \/ RemovePause
  BY <1>8 DEF FlowStart, RemoveStart, RemovePause, Go
<1>9. CASE CancelHealth("kernel", "cancel_work") \/ CancelWork("kernel", AfterStop)
  BY <1>9, SMTT(60), Z3T(60) DEF CancelHealth, CancelWork, AfterStop, Go
<1>10. CASE FlowSave \/ FlowBus \/ SlotReset
  BY <1>10, ZenonT(60) DEF FlowSave, FlowBus, SlotReset, Go, PciSave
<1>11. CASE FlowResume \/ Disconnect \/ Teardown
  BY <1>11, SMTT(60), Z3T(60) DEF FlowResume, Disconnect, Teardown, Go
<1>12. CASE Quiesce("kernel")
  BY <1>12, SMTT(60), Z3T(60)
     DEF Quiesce, QuiesceState, QuiesceLink, QuiesceTold, ForLinkDown, Go, Bump
<1>13. CASE Reinit("kernel")
  <2>1. CASE ReinitLink("kernel") \/ ReinitRestore("kernel") \/ ReinitSave("kernel")
    BY <2>1, SMTT(60), Z3T(60)
       DEF ReinitLink, ReinitRestore, ReinitSave, Go, PciRestore, PciSave
  <2>2. CASE ReinitMmio("kernel")
    BY <2>2, ZenonT(60) DEF ReinitMmio, ReinitFails, AfterReinit, Go
  <2>3. CASE ReinitValid("kernel")
    BY <2>3, ZenonT(60) DEF ReinitValid, ReinitFails, AfterReinit, Go
  <2>4. CASE ReinitLive("kernel") \/ ReinitTold("kernel")
    BY <2>4, ZenonT(60) DEF ReinitLive, ReinitTold, AfterReinit, Go
  <2> QED BY <1>13, <2>1, <2>2, <2>3, <2>4, ZenonT(60) DEF Reinit
<1>14. CASE ResetStart \/ ResetState \/ ResetStuck \/ ResetSave
  BY <1>14, SMTT(60), Z3T(60)
     DEF ResetStart, ResetState, ResetStuck, ResetSave, Go, Bump, PciSave
<1>15. CASE ResetBus \/ ResetRestore
  BY <1>15, SMTT(60), Z3T(60) DEF ResetBus, ResetRestore, Go, LoseConfig, PciRestore
<1>16. CASE ResetResave \/ ResetLive
  BY <1>16, SMTT(60), Z3T(60) DEF ResetResave, ResetLive, Go, PciSave
<1>17. CASE (\E to \in Flag : Toggle(to)) \/ ToggleArm
  BY <1>17, SMTT(60), Z3T(60) DEF Toggle, ToggleArm, Go
<1>18. CASE CancelHealth("sysfs", "cancel_work") \/ CancelWork("sysfs", "idle")
  BY <1>18, SMTT(60), Z3T(60) DEF CancelHealth, CancelWork, Go
<1> HIDE <1>0, TransportAssumption
       DEF PlaceInv, StopInv, Held, Halted, Stopped, MeetInv, TurnInv, ToldInv, Taken,
           Unfinished, HealthAt, RecoveryAt, KernelAt, QuiesceAt, ReinitAt, state,
           monitor, work, own, pci, thread, aux
<1> QED
  BY ZenonT(60), <1>1, <1>2, <1>3, <1>4, <1>5, <1>6, <1>7, <1>8, <1>9, <1>10, <1>11,
     <1>12, <1>13, <1>14, <1>15, <1>16, <1>17, <1>18
     DEF Next, Health, RecoveryWork, Kernel, ResetDma, Sysfs

\* What a process does to the link it also reports.
LEMMA NextToldInv == TransportInv /\ [Next]_vars => overlap' = 1 \/ ToldInv'
<1> SUFFICES ASSUME TypeOK, PlaceInv, StopInv, MeetInv, [Next]_vars, overlap' # 1
             PROVE  ToldInv'
  BY DEF TransportInv
<1>0. /\ at = [q \in Procs |-> at[q]]
      /\ link \in {"UP", "DOWN", "RECOVERING"} /\ told \in {"UP", "DOWN"}
      /\ masked \in {0, 1} /\ overlap \in {0, 1}
  BY SMTT(60), Z3T(60) DEF TypeOK, Flag
<1>1. CASE UNCHANGED <<at, flow, link, told, masked, overlap>>
  BY <1>1, ZenonT(60) DEF MeetInv, ToldInv, Taken, Unfinished
<1>2. CASE Environment \/ Xfer \/ WindowExpires \/ CooldownEnds \/ Rest \/ UNCHANGED vars
  BY ZenonT(60), <1>1, <1>2
     DEF Environment, LinkDrop, LinkBack, EndpointReset, Xfer, XferStart, XferEnd,
         WindowExpires, CooldownEnds, Rest, vars, state, monitor, work, own, aux
<1> USE <1>0, TransportAssumption
       DEF PlaceInv, StopInv, Held, Halted, Stopped, MeetInv, TurnInv, ToldInv, Taken,
           Unfinished, Procs, HealthAt, RecoveryAt, KernelAt, QuiesceAt, ReinitAt,
           Flag, state, monitor, work, own, pci, thread, aux
<1>3. CASE HealthStart \/ HealthRearm
  BY <1>3, SMTT(60), Z3T(60) DEF HealthStart, HealthRearm, Go, Blocked
<1>4. CASE HealthDown \/ HealthRestored \/ HealthUp
  BY <1>4, SMTT(60), Z3T(60) DEF HealthDown, HealthRestored, HealthUp, WorkBusy, Go
<1>5. CASE Quiesce("health")
  BY <1>5, SMTT(60), Z3T(60)
     DEF Quiesce, QuiesceState, QuiesceLink, QuiesceTold, ForLinkDown, Go, Bump
<1>6. CASE RecoveryStart \/ RecoveryCheck \/ RecoveryOwn
  BY <1>6, SMTT(60), Z3T(60) DEF RecoveryStart, RecoveryCheck, RecoveryOwn, Go, Blocked
<1>7. CASE Reinit("recovery")
  <2>1. CASE ReinitLink("recovery") \/ ReinitRestore("recovery") \/ ReinitSave("recovery")
    BY <2>1, SMTT(60), Z3T(60)
       DEF ReinitLink, ReinitRestore, ReinitSave, Go, PciRestore, PciSave
  <2>2. CASE ReinitMmio("recovery")
    BY <2>2, SMTT(60), Z3T(60) DEF ReinitMmio, ReinitFails, AfterReinit, Go
  <2>3. CASE ReinitValid("recovery")
    BY <2>3, SMTT(60), Z3T(60) DEF ReinitValid, ReinitFails, AfterReinit, Go
  <2>4. CASE ReinitLive("recovery") \/ ReinitTold("recovery")
    BY <2>4, SMTT(60), Z3T(60) DEF ReinitLive, ReinitTold, AfterReinit, Go
  <2> QED BY <1>7, <2>1, <2>2, <2>3, <2>4, ZenonT(60) DEF Reinit
<1>8. CASE (\E f \in Flows : FlowStart(f)) \/ RemoveStart \/ RemovePause
  BY SMTT(60), Z3T(60), <1>8 DEF FlowStart, RemoveStart, RemovePause, Go
<1>9. CASE CancelHealth("kernel", "cancel_work") \/ CancelWork("kernel", AfterStop)
  BY <1>9, SMTT(60), Z3T(60) DEF CancelHealth, CancelWork, AfterStop, Go
<1>10. CASE FlowSave \/ FlowBus \/ SlotReset
  BY <1>10, SMTT(60), Z3T(60) DEF FlowSave, FlowBus, SlotReset, Go, PciSave
<1>11. CASE FlowResume \/ Disconnect \/ Teardown
  BY <1>11, ZenonT(60) DEF FlowResume, Disconnect, Teardown, Go
<1>12. CASE Quiesce("kernel")
  BY <1>12, SMTT(60), Z3T(60)
     DEF Quiesce, QuiesceState, QuiesceLink, QuiesceTold, ForLinkDown, Go, Bump
<1>13. CASE Reinit("kernel")
  <2>1. CASE ReinitLink("kernel") \/ ReinitRestore("kernel") \/ ReinitSave("kernel")
    BY <2>1, SMTT(60), Z3T(60)
       DEF ReinitLink, ReinitRestore, ReinitSave, Go, PciRestore, PciSave
  <2>2. CASE ReinitMmio("kernel")
    BY <2>2, SMTT(60), Z3T(60) DEF ReinitMmio, ReinitFails, AfterReinit, Go
  <2>3. CASE ReinitValid("kernel")
    BY <2>3, SMTT(60), Z3T(60) DEF ReinitValid, ReinitFails, AfterReinit, Go
  <2>4. CASE ReinitLive("kernel") \/ ReinitTold("kernel")
    BY <2>4, ZenonT(60) DEF ReinitLive, ReinitTold, AfterReinit, Go
  <2> QED BY <1>13, <2>1, <2>2, <2>3, <2>4, ZenonT(60) DEF Reinit
<1>14. CASE ResetStart \/ ResetState \/ ResetStuck \/ ResetSave
  BY <1>14, SMTT(60), Z3T(60)
     DEF ResetStart, ResetState, ResetStuck, ResetSave, Go, Bump, PciSave
<1>15. CASE ResetBus \/ ResetRestore
  BY <1>15, SMTT(60), Z3T(60) DEF ResetBus, ResetRestore, Go, LoseConfig, PciRestore
<1>16. CASE ResetResave \/ ResetLive
  BY <1>16, SMTT(60), Z3T(60) DEF ResetResave, ResetLive, Go, PciSave
<1>17. CASE (\E to \in Flag : Toggle(to)) \/ ToggleArm
  BY <1>17, SMTT(60), Z3T(60) DEF Toggle, ToggleArm, Go
<1>18. CASE CancelHealth("sysfs", "cancel_work") \/ CancelWork("sysfs", "idle")
  BY <1>18 DEF CancelHealth, CancelWork, Go
<1> HIDE <1>0, TransportAssumption
       DEF PlaceInv, StopInv, Held, Halted, Stopped, MeetInv, TurnInv, ToldInv, Taken,
           Unfinished, HealthAt, RecoveryAt, KernelAt, QuiesceAt, ReinitAt, state,
           monitor, work, own, pci, thread, aux
<1> QED
  BY SMTT(60), Z3T(60), <1>1, <1>2, <1>3, <1>4, <1>5, <1>6, <1>7, <1>8, <1>9, <1>10,
     <1>11, <1>12, <1>13, <1>14, <1>15, <1>16, <1>17, <1>18
     DEF Next, Health, RecoveryWork, Kernel, ResetDma, Sysfs

\* The inductive invariant holds in every reachable state.
THEOREM TransportInvariant == Spec => []TransportInv
<1>1. TransportInv /\ [Next]_vars => TransportInv'
  BY NextTypeOK, NextPlaceInv, NextStopInv, NextServiceInv, NextTurnInv, NextToldInv
     DEF TransportInv, MeetInv
<1> QED BY InitTransportInv, <1>1, PTL DEF Spec

\* The attempts in a window never exceed DX_RECOVERY_MAX_IN_WINDOW
\* (dx_dma_recovery_rate_ok), and the rest of the state has its types.
THEOREM TypeCorrect == Spec => []TypeOK
<1>1. TransportInv => TypeOK
  BY DEF TransportInv
<1> QED BY TransportInvariant, <1>1, PTL

\* dx_dma_full_reinit never runs for a handler of the PCI core and for the
\* recovery work at the same time.
THEOREM OneReinit == Spec => []ReinitIsExclusive
<1>1. TransportInv => ReinitIsExclusive
  BY DEF TransportInv, StopInv, Stopped, ReinitIsExclusive, ReinitAt
<1> QED BY TransportInvariant, <1>1, PTL

\* dx_link_health_stop leaves no worker running or pending for remove and
\* shutdown, but for the write to link_health_enable that WorkersStopped names.
THEOREM TeardownAlone == Spec => []WorkersStopped
<1>1. TransportInv => WorkersStopped
  BY SMTT(60), Z3T(60) DEF TransportInv, StopInv, Halted, Stopped, WorkersStopped
<1> QED BY TransportInvariant, <1>1, PTL

\* dx_dma_quiesce_channels moves recovery_epoch before the device is restored,
\* so a transfer that a reset killed is told of it.
THEOREM NoTransferLeftBehind == Spec => []DeadTransferIsTold
<1>1. TransportInv => DeadTransferIsTold
  BY ZenonT(60) DEF TransportInv, TypeOK, Flag, MeetInv, ServiceInv, DeadTransferIsTold
<1> QED BY TransportInvariant, <1>1, PTL

\* dx_pcie_notify_link_event keeps the RT driver's view of the link in step with
\* link_state.
THEOREM LinkReported == Spec => []ToldMatchesLink
<1>1. TransportInv => ToldMatchesLink
  BY
     DEF TransportInv, TypeOK, Flag, MeetInv, ToldInv, ToldMatchesLink, Quiet,
         QuiesceAt, ReinitAt
<1> QED BY TransportInvariant, <1>1, PTL

=============================================================================
