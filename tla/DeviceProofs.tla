---------------------------- MODULE DeviceProofs ----------------------------
(***************************************************************************)
(* The life of the device, and the mailbox a live device serves.           *)
(*                                                                         *)
(* For any number of files, bindings and unloads: what a probe obtained is *)
(* given back, memory outlives the work that uses it, dw counts its files, *)
(* and the message pointers of a live device are its own.                  *)
(*                                                                         *)
(* For any number of callers, commands, reboots and link losses: msg_lock  *)
(* is held exactly where the handlers need it, acknowledgements and PONGs  *)
(* are attributed to the right command, and the gate and the quarantine of *)
(* an update hold.                                                         *)
(***************************************************************************)
EXTENDS Lifecycle, MailboxState, TLAPS

\* Flags differ.
LEMMA ZeroOne == 0 # 1
  OBVIOUS

\* What the steps below use of the natural numbers.
LEMMA Counting ==
  /\ 0 \in Nat /\ 0 <= 0
  /\ \A n \in Nat : n + 1 \in Nat /\ 0 <= n /\ n + 1 # 0 /\ n + 1 <= n + 1
  /\ \A m, n \in Nat : m <= n => m <= n + 1 /\ m # n + 1
  /\ \A m \in Nat : 0 \in 0 .. m
  /\ \A m \in Nat : \A n \in 0 .. m : n \in Nat /\ (n < m => n + 1 \in 0 .. m)
  OBVIOUS

\* The records of the mailbox: its data area, a command and the job of the firmware.
IsCell(a, b, k, n) == a = [by |-> b, kind |-> k, arg |-> n]
IsOrder(m, k, n) == m = [kind |-> k, id |-> n]
IsTask(j, m, n) == j = [cmd |-> m, arg |-> n]

\* Their fields.
LEMMA Fields ==
  /\ \A a, b, k, n : IsCell(a, b, k, n) => a.by = b /\ a.kind = k /\ a.arg = n
  /\ \A m, k, n : IsOrder(m, k, n) => m.kind = k /\ m.id = n
  /\ \A j, m, n : IsTask(j, m, n) => j.cmd = m /\ j.arg = n
  BY DEF IsCell, IsOrder, IsTask

\* The sets of such records.
LEMMA RecordSets ==
  ASSUME NEW K, NEW I, NEW B, NEW M
  PROVE  /\ \A k \in K, n \in I : [kind |-> k, id |-> n] \in [kind : K, id : I]
         /\ \A b \in B, k \in K, n \in I :
              [by |-> b, kind |-> k, arg |-> n] \in [by : B, kind : K, arg : I]
         /\ \A m \in M, n \in I : [cmd |-> m, arg |-> n] \in [cmd : M, arg : I]
         /\ \A m \in [kind : K, id : I] : m.kind \in K /\ m.id \in I
         /\ \A a \in [by : B, kind : K, arg : I] : a.arg \in I
         /\ \A j \in [cmd : M, arg : I] : j.cmd \in M /\ j.arg \in I
  OBVIOUS

-----------------------------------------------------------------------------
\* What a binding holds, by the step its probe or remove has reached.
HeldInv ==
  /\ "vectors" \in held => ppc \notin {"unbound", "p_vec"}
  /\ "list" \in held => ppc \notin {"unbound", "p_vec", "p_regions", "p_list", "r_vectors"}
  /\ "pools" \in held => ppc \in {"p_wq", "p_irqs", "p_wr", "p_rd", "p_msg", "p_ifs", "p_init",
        "p_live", "bound", "r_off", "r_term", "r_kill", "r_irqs", "r_unreg", "r_bufs",
        "r_pools"} \cup UnwindSteps
  /\ "wq" \in held => ppc \in {"p_irqs", "p_wr", "p_rd", "p_msg", "p_ifs", "p_init",
        "p_live", "bound", "r_off", "r_term", "r_kill", "r_irqs", "r_unreg", "r_bufs",
        "r_pools"} \cup UnwindSteps
  /\ "irqs" \in held => ppc \in {"p_wr", "p_rd", "p_msg", "p_ifs", "p_init", "p_live",
        "bound", "r_off", "r_term", "r_kill", "r_irqs", "u_chans", "u_irqs"}
  /\ "wr" \in held \/ "rd" \in held => ppc \in {"p_rd", "p_msg", "p_ifs", "p_init", "p_live",
        "bound", "r_off", "r_term", "r_kill", "r_irqs", "r_unreg", "u_chans"}
  /\ "bufs" \in held => ppc \in {"p_rd", "p_msg", "p_ifs", "p_init", "p_live",
        "bound", "r_off", "r_term", "r_kill", "r_irqs", "r_unreg", "r_bufs", "u_chans"}
  /\ "dx_msg" \in held => ppc \in {"p_ifs", "p_init", "p_live", "bound"} \cup RemoveSteps
  /\ "ifs" \in held => failing = 0 /\ ppc \in {"p_init", "p_live", "bound", "r_off", "r_term",
        "r_kill", "r_irqs", "r_unreg", "r_bufs", "r_pools", "r_ifs"}
  /\ ppc \in ProbeSteps \cup {"bound"} => failing = 0
  /\ ppc \in {"p_wq", "p_irqs", "p_wr", "p_rd", "p_msg", "p_ifs", "p_init", "p_live", "bound",
             "r_off", "r_term", "r_kill", "r_irqs", "r_unreg", "r_bufs"} => "pools" \in held
  /\ ppc \in {"p_irqs", "p_wr", "p_rd", "p_msg", "p_ifs", "p_init", "p_live", "bound",
             "r_off", "r_term", "r_kill", "r_irqs", "r_unreg", "r_bufs"} => "wq" \in held
  /\ ppc \in {"p_rd", "p_msg", "p_ifs", "p_init", "p_live", "bound",
             "r_off", "r_term", "r_kill", "r_irqs", "r_unreg", "r_bufs"} => "bufs" \in held
  /\ ppc \in {"p_mutex", "p_pools", "p_wq", "p_irqs", "p_wr", "p_rd", "p_msg", "p_ifs", "p_init",
             "p_live", "bound"} => "list" \in held

\* The marks of dw and its channels, by the same step.
MarkInv ==
  /\ dw_state = "live" <=> ppc = "bound"
  /\ ppc # "unbound" => binds > 0
  /\ dw_state # "uninit" => ppc \in {"unbound", "bound"} \cup RemoveSteps
  /\ chans = 1 => dw_state # "uninit"
  /\ ppc \in {"r_term", "r_kill", "r_irqs", "r_unreg", "r_bufs", "r_pools"} => shutting_down = 1

\* Who may still run.
RunInv ==
  /\ isr # "idle" => "irqs" \in held
  /\ xfer = 1 => ppc \in {"bound", "r_off", "r_term"}
  /\ work = 1 \/ tasklet = 1 => ppc \in {"bound", "r_off", "r_term", "r_kill"}

\* The callbacks are registered, and run, only while dxdev is set up.
CallbackInv ==
  /\ cb = 1 => rpc = "loaded"
  /\ isr = "cb" => rpc \in {"loaded", "d_sync"}
  /\ rpc \in {"c_early", "loaded", "d_sync"} => dxdev = "ready"

\* An ioctl that outlives its binding is excused; on a live device the message
\* pointers are fresh, or somebody is about to take them anew.
PointerInv ==
  /\ "list" \notin held => \A f \in Files : fpc[f] \in {"i_init", "i_handle"} => f \in excused
  /\ ppc \in {"p_live", "bound"} =>
       init_completed = 1 \/ (\E f \in Files : fpc[f] = "i_init") \/ msg \in {0, binds}
  /\ FreshPointers

LifeInv == TypeOK /\ HeldInv /\ MarkInv /\ RunInv /\ CallbackInv /\ PointerInv

\* Nothing is bound, loaded or open when the modules are inserted.
LEMMA InitLifeInv == Init => LifeInv
  BY LifecycleAssumption, SMTT(60), Z3T(60)
     DEF Init, LifeInv, TypeOK, HeldInv, MarkInv, RunInv, CallbackInv, PointerInv,
         FreshPointers, Resources, ProbeSteps, RemoveSteps, UnwindSteps

\* Where probe and remove may be.
PciSteps == {"unbound", "bound"} \cup ProbeSteps \cup RemoveSteps \cup UnwindSteps

\* A step of the probe or the remove that only moves resources keeps the types.
LEMMA ExchangeType ==
  ASSUME TypeOK, NEW from, NEW to \in PciSteps, NEW what \in SUBSET Resources,
         Obtain(from, to, what) \/ GiveBack(from, to, what)
  PROVE  TypeOK'
<1>1. held' \subseteq Resources
  BY ZenonT(60) DEF TypeOK, Obtain, GiveBack
<1> QED
  BY <1>1
     DEF TypeOK, PciSteps, Obtain, GiveBack, PciStep, dmaVars, irqVars, rtVars,
         fileVars, ioctlVars

\* Every step keeps the types.
LEMMA NextTypeOK == TypeOK /\ [Next]_vars => TypeOK'
<1> SUFFICES ASSUME TypeOK, [Next]_vars PROVE TypeOK'
  OBVIOUS
<1> USE LifecycleAssumption DEF ProbeSteps, RemoveSteps, UnwindSteps
<1>1. CASE AllocVectors \/ MapRegions \/ DevListAdd \/ ProbeLocks \/ MemInit \/
       AllocWorkqueue \/ IrqRequest \/ SetupWrite \/ SetupRead \/ MessageInit \/
       UnwindChannels \/ UnwindIrqs \/ UnwindPools \/ RemoveKill \/ RemoveIrqs \/
       RemoveUnregister \/ RemoveBuffers \/ RemovePools \/ RemoveInterfaces \/
       RemoveVectors
  BY <1>1, ExchangeType, ZenonT(60)
     DEF AllocVectors, MapRegions, DevListAdd, ProbeLocks, MemInit, AllocWorkqueue,
         IrqRequest, SetupWrite, SetupRead, MessageInit, UnwindChannels, UnwindIrqs,
         UnwindPools, RemoveKill, RemoveIrqs, RemoveUnregister, RemoveBuffers,
         RemovePools, RemoveInterfaces, RemoveVectors, PciSteps, Resources
<1>2. CASE CreateInterfaces \/ ProbeStart \/ ProbeInitDone \/ ProbeLive \/ RemoveMark \/
       RemoveOff \/ RemoveTerminate \/ DevListRemove
  <2>1. CASE CreateInterfaces
    BY <2>1, ZenonT(60)
       DEF CreateInterfaces, Obtain, Resources, PciStep, TypeOK, pciVars, dmaVars,
           irqVars, rtVars, fileVars, ioctlVars
  <2>2. CASE ProbeStart
    BY <2>2
       DEF ProbeStart, PciStep, TypeOK, pciVars, dmaVars, irqVars, rtVars, fileVars,
           ioctlVars
  <2>3. CASE ProbeInitDone \/ ProbeLive
    BY <2>3
       DEF ProbeInitDone, ProbeLive, PciStep, TypeOK, pciVars, dmaVars, irqVars,
           rtVars, fileVars, ioctlVars
  <2>4. CASE RemoveMark \/ RemoveOff \/ RemoveTerminate
    BY <2>4
       DEF RemoveMark, RemoveOff, RemoveTerminate, PciStep, TypeOK, pciVars, dmaVars,
           irqVars, rtVars, fileVars, ioctlVars
  <2>5. CASE DevListRemove
    BY <2>5
       DEF DevListRemove, PciStep, TypeOK, pciVars, dmaVars, irqVars, rtVars,
           fileVars, ioctlVars
  <2> QED BY ZenonT(60), <1>2, <2>1, <2>2, <2>3, <2>4, <2>5
<1>3. CASE Irq \/ Rt
  <2>1. CASE Irq
    BY SMTT(60), Z3T(60), <2>1
       DEF Irq, IsrEnter, IsrDone, IsrCallback, IsrExit, Tasklet, WorkDone, IsrStep,
           TypeOK, pciVars, dmaVars, irqVars, rtVars, fileVars, ioctlVars
  <2>2. CASE Rt
    BY <2>2
       DEF Rt, CreateNode, CreateLocks, InitEarly, UnregisterCallbacks,
           SynchronizeRcu, DestroyNode, RtStep, Listed, TypeOK, pciVars, dmaVars,
           irqVars, rtVars, fileVars, ioctlVars
  <2> QED BY ZenonT(60), <1>3, <2>1, <2>2
<1>4. ASSUME NEW f \in Files, OpenCheck(f) \/ OpenLocked(f) \/ IoctlEnter(f) \/
       IoctlInit(f) PROVE TypeOK'
  <2>1. CASE OpenCheck(f)
    BY <2>1
       DEF OpenCheck, FileStep, Listed, RequestChannels, ReleaseChannels, TypeOK,
           pciVars, dmaVars, irqVars, rtVars, fileVars, ioctlVars
  <2>2. CASE OpenLocked(f)
    BY <2>2
       DEF OpenLocked, FileStep, Listed, RequestChannels, ReleaseChannels, TypeOK,
           pciVars, dmaVars, irqVars, rtVars, fileVars, ioctlVars
  <2>3. CASE IoctlEnter(f)
    BY <2>3
       DEF IoctlEnter, FileStep, Listed, RequestChannels, ReleaseChannels, TypeOK,
           pciVars, dmaVars, irqVars, rtVars, fileVars, ioctlVars
  <2>4. CASE IoctlInit(f)
    BY <2>4
       DEF IoctlInit, FileStep, Listed, RequestChannels, ReleaseChannels, TypeOK,
           pciVars, dmaVars, irqVars, rtVars, fileVars, ioctlVars
  <2> QED BY ZenonT(60), <1>4, <2>1, <2>2, <2>3, <2>4
<1>5. ASSUME NEW f \in Files, IoctlReturn(f) \/ StartTransfer(f) \/ CloseCheck(f) \/
       CloseLocked(f) PROVE TypeOK'
  <2>1. CASE IoctlReturn(f)
    BY <2>1
       DEF IoctlReturn, FileStep, Listed, RequestChannels, ReleaseChannels, TypeOK,
           pciVars, dmaVars, irqVars, rtVars, fileVars, ioctlVars
  <2>2. CASE StartTransfer(f)
    BY <2>2, ZenonT(60)
       DEF StartTransfer, FileStep, Listed, RequestChannels, ReleaseChannels, TypeOK,
           pciVars, dmaVars, irqVars, rtVars, fileVars, ioctlVars
  <2>3. CASE CloseCheck(f)
    BY <2>3
       DEF CloseCheck, FileStep, Listed, RequestChannels, ReleaseChannels, TypeOK,
           pciVars, dmaVars, irqVars, rtVars, fileVars, ioctlVars
  <2>4. CASE CloseLocked(f)
    BY <2>4
       DEF CloseLocked, FileStep, Listed, RequestChannels, ReleaseChannels, TypeOK,
           pciVars, dmaVars, irqVars, rtVars, fileVars, ioctlVars
  <2> QED BY ZenonT(60), <1>5, <2>1, <2>2, <2>3, <2>4
<1>6. CASE SetInitCompleted \/ UNCHANGED vars
  BY <1>6, ZenonT(60)
     DEF SetInitCompleted, vars, TypeOK, pciVars, dmaVars, irqVars, rtVars, fileVars,
         ioctlVars
<1> QED
  BY ZenonT(60), <1>1, <1>2, <1>3, <1>4, <1>5, <1>6 DEF Next, Pci, Irq, Rt, File

\* Probe and remove obtain and give back in the order HeldInv describes.
LEMMA NextHeldInv == TypeOK /\ HeldInv /\ [Next]_vars => HeldInv'
<1> SUFFICES ASSUME TypeOK, HeldInv, [Next]_vars PROVE HeldInv'
  OBVIOUS
<1>0. held \subseteq Resources
  BY DEF TypeOK
<1> USE <1>0
       DEF HeldInv, PciStep, Resources, ProbeSteps, RemoveSteps, UnwindSteps, pciVars
<1>1. CASE ProbeStart \/ AllocVectors \/ MapRegions \/ DevListAdd \/ ProbeLocks \/
       MemInit \/ AllocWorkqueue \/ IrqRequest \/ SetupWrite \/ SetupRead \/ MessageInit
       \/ CreateInterfaces \/ ProbeInitDone \/ ProbeLive
  <2>1. CASE ProbeStart
    BY <2>1, ZenonT(60) DEF ProbeStart
  <2>2. CASE AllocVectors \/ MapRegions \/ DevListAdd \/ ProbeLocks \/ MemInit \/
         AllocWorkqueue
    BY <2>2, ZenonT(60)
       DEF AllocVectors, MapRegions, DevListAdd, ProbeLocks, MemInit, AllocWorkqueue,
           Obtain, GiveBack
  <2>3. CASE IrqRequest \/ SetupWrite \/ SetupRead \/ MessageInit \/ CreateInterfaces
    BY <2>3, ZenonT(60)
       DEF IrqRequest, SetupWrite, SetupRead, MessageInit, CreateInterfaces, Obtain,
           GiveBack
  <2>4. CASE ProbeInitDone \/ ProbeLive
    BY <2>4, ZenonT(60) DEF ProbeInitDone, ProbeLive
  <2> QED BY ZenonT(60), <1>1, <2>1, <2>2, <2>3, <2>4
<1>2. CASE UnwindChannels \/ UnwindIrqs \/ UnwindPools \/ RemoveMark \/ RemoveOff \/
       RemoveTerminate \/ RemoveKill \/ RemoveIrqs \/ RemoveUnregister \/ RemoveBuffers \/
       RemovePools \/ RemoveInterfaces \/ DevListRemove \/ RemoveVectors
  <2>1. CASE UnwindChannels \/ UnwindIrqs \/ UnwindPools
    BY <2>1, ZenonT(60) DEF UnwindChannels, UnwindIrqs, UnwindPools, GiveBack
  <2>2. CASE RemoveMark \/ RemoveOff \/ RemoveTerminate
    BY <2>2, ZenonT(60) DEF RemoveMark, RemoveOff, RemoveTerminate
  <2>3. CASE RemoveKill \/ RemoveIrqs \/ RemoveUnregister \/ RemoveBuffers
    BY <2>3, ZenonT(60)
       DEF RemoveKill, RemoveIrqs, RemoveUnregister, RemoveBuffers, GiveBack
  <2>4. CASE RemovePools
    <3>1. CASE failing = 1
      BY <2>4, <3>1, ZeroOne, ZenonT(60) DEF RemovePools, GiveBack
    <3>2. CASE failing # 1
      BY <2>4, <3>2, ZenonT(60) DEF RemovePools, GiveBack
    <3> QED BY <3>1, <3>2, ZenonT(60)
  <2>5. CASE RemoveInterfaces
    BY <2>5, ZenonT(60) DEF RemoveInterfaces, GiveBack
  <2>6. CASE DevListRemove
    BY <2>6, ZenonT(60) DEF DevListRemove
  <2>7. CASE RemoveVectors
    BY <2>7, ZenonT(60) DEF RemoveVectors, GiveBack
  <2> QED BY ZenonT(60), <1>2, <2>1, <2>2, <2>3, <2>4, <2>5, <2>6, <2>7
<1>3. CASE Irq \/ Rt \/ SetInitCompleted \/ UNCHANGED vars
  BY <1>3, ZenonT(60)
     DEF Irq, Rt, SetInitCompleted, IsrEnter, IsrDone, IsrCallback, IsrExit, Tasklet,
         WorkDone, CreateNode, CreateLocks, InitEarly, UnregisterCallbacks,
         SynchronizeRcu, DestroyNode, vars
<1>4. ASSUME NEW f \in Files, File(f) PROVE HeldInv'
  BY <1>4, ZenonT(60)
     DEF File, OpenCheck, OpenLocked, IoctlEnter, IoctlInit, IoctlReturn,
         StartTransfer, CloseCheck, CloseLocked
<1> HIDE DEF HeldInv
<1> QED
  BY <1>1, <1>2, <1>3, <1>4, ZenonT(60) DEF Next, Pci, Irq, Rt, File

\* dw_state, shutting_down and the channels follow the probe and the remove.
LEMMA NextMarkInv == TypeOK /\ MarkInv /\ [Next]_vars => MarkInv'
<1> SUFFICES ASSUME TypeOK, MarkInv, [Next]_vars PROVE MarkInv'
  OBVIOUS
<1>0. binds \in Nat /\ chans \in {0, 1}
  BY DEF TypeOK
<1> USE <1>0
       DEF MarkInv, PciStep, ProbeSteps, RemoveSteps, UnwindSteps, pciVars, dmaVars
<1>1. CASE ProbeStart \/ AllocVectors \/ MapRegions \/ DevListAdd \/ ProbeLocks \/
       MemInit \/ AllocWorkqueue \/ IrqRequest \/ SetupWrite \/ SetupRead \/ MessageInit
       \/ CreateInterfaces \/ ProbeInitDone \/ ProbeLive
  <2>1. CASE ProbeStart
    <3>1. binds' > 0
      BY <2>1, SMTT(60), Z3T(60) DEF ProbeStart
    <3> QED BY <2>1, <3>1, ZeroOne, ZenonT(60) DEF ProbeStart
  <2>2. CASE AllocVectors \/ MapRegions \/ DevListAdd \/ ProbeLocks \/ MemInit \/
         AllocWorkqueue
    BY <2>2, ZenonT(60)
       DEF AllocVectors, MapRegions, DevListAdd, ProbeLocks, MemInit, AllocWorkqueue,
           Obtain, GiveBack
  <2>3. CASE IrqRequest \/ SetupWrite \/ SetupRead \/ MessageInit \/ CreateInterfaces
    BY <2>3
       DEF IrqRequest, SetupWrite, SetupRead, MessageInit, CreateInterfaces, Obtain,
           GiveBack
  <2>4. CASE ProbeInitDone \/ ProbeLive
    BY <2>4, ZenonT(60) DEF ProbeInitDone, ProbeLive
  <2> QED BY ZenonT(60), <1>1, <2>1, <2>2, <2>3, <2>4
<1>2. CASE UnwindChannels \/ UnwindIrqs \/ UnwindPools \/ RemoveMark \/ RemoveOff \/
       RemoveTerminate \/ RemoveKill \/ RemoveIrqs \/ RemoveUnregister \/ RemoveBuffers \/
       RemovePools \/ RemoveInterfaces \/ DevListRemove \/ RemoveVectors
  <2>1. CASE UnwindChannels \/ UnwindIrqs \/ UnwindPools
    BY <2>1, ZenonT(60) DEF UnwindChannels, UnwindIrqs, UnwindPools, GiveBack
  <2>2. CASE RemoveMark \/ RemoveOff \/ RemoveTerminate
    BY <2>2, ZenonT(60) DEF RemoveMark, RemoveOff, RemoveTerminate
  <2>3. CASE RemoveKill \/ RemoveIrqs \/ RemoveUnregister \/ RemoveBuffers
    BY <2>3, ZenonT(60)
       DEF RemoveKill, RemoveIrqs, RemoveUnregister, RemoveBuffers, GiveBack
  <2>4. CASE RemovePools \/ RemoveInterfaces \/ DevListRemove \/ RemoveVectors
    BY <2>4, ZenonT(60)
       DEF RemovePools, RemoveInterfaces, DevListRemove, RemoveVectors, GiveBack
  <2> QED BY ZenonT(60), <1>2, <2>1, <2>2, <2>3, <2>4
<1>3. CASE Irq \/ Rt \/ SetInitCompleted \/ UNCHANGED vars
  BY <1>3, ZenonT(60)
     DEF Irq, Rt, SetInitCompleted, IsrEnter, IsrDone, IsrCallback, IsrExit, Tasklet,
         WorkDone, CreateNode, CreateLocks, InitEarly, UnregisterCallbacks,
         SynchronizeRcu, DestroyNode, vars
<1>4. ASSUME NEW f \in Files, File(f) PROVE MarkInv'
  BY <1>4, ZenonT(60)
     DEF File, OpenCheck, OpenLocked, IoctlEnter, IoctlInit, IoctlReturn,
         StartTransfer, CloseCheck, CloseLocked, RequestChannels, ReleaseChannels
<1> HIDE DEF MarkInv
<1> QED
  BY <1>1, <1>2, <1>3, <1>4, ZenonT(60) DEF Next, Pci, Irq, Rt, File

\* Handlers, tasklets and work stop before what they use is given back.
LEMMA NextRunInv == TypeOK /\ HeldInv /\ MarkInv /\ RunInv /\ [Next]_vars => RunInv'
<1> SUFFICES ASSUME TypeOK, HeldInv, MarkInv, RunInv, [Next]_vars PROVE RunInv'
  BY ZenonT(60)
<1>0. chans \in {0, 1} /\ xfer \in {0, 1} /\ work \in {0, 1} /\ tasklet \in {0, 1}
  BY DEF TypeOK
<1>h. /\ "irqs" \in held => ppc \in {"p_wr", "p_rd", "p_msg", "p_ifs", "p_init", "p_live",
           "bound", "r_off", "r_term", "r_kill", "r_irqs", "u_chans", "u_irqs"}
      /\ "wq" \in held => ppc \notin {"unbound", "r_ifs", "r_list", "r_vectors"}
  BY ZenonT(60) DEF HeldInv, RemoveSteps, UnwindSteps
<1> USE <1>0, <1>h
       DEF MarkInv, RunInv, Drained, PciStep, ProbeSteps, RemoveSteps, UnwindSteps,
           pciVars, irqVars
<1>1. CASE ProbeStart \/ AllocVectors \/ MapRegions \/ DevListAdd \/ ProbeLocks \/
       MemInit \/ AllocWorkqueue \/ IrqRequest \/ SetupWrite \/ SetupRead \/ MessageInit
       \/ CreateInterfaces \/ ProbeInitDone \/ ProbeLive
  <2>1. CASE ProbeStart
    BY <2>1, ZenonT(60) DEF ProbeStart
  <2>2. CASE AllocVectors \/ MapRegions \/ DevListAdd \/ ProbeLocks \/ MemInit \/
         AllocWorkqueue
    BY <2>2, ZenonT(60)
       DEF AllocVectors, MapRegions, DevListAdd, ProbeLocks, MemInit, AllocWorkqueue,
           Obtain, GiveBack
  <2>3. CASE IrqRequest \/ SetupWrite \/ SetupRead \/ MessageInit \/ CreateInterfaces
    BY <2>3, ZenonT(60)
       DEF IrqRequest, SetupWrite, SetupRead, MessageInit, CreateInterfaces, Obtain,
           GiveBack
  <2>4. CASE ProbeInitDone \/ ProbeLive
    BY <2>4, ZenonT(60) DEF ProbeInitDone, ProbeLive
  <2> QED BY ZenonT(60), <1>1, <2>1, <2>2, <2>3, <2>4
<1>2. CASE UnwindChannels \/ UnwindIrqs \/ UnwindPools \/ RemoveMark \/ RemoveOff \/
       RemoveTerminate \/ RemoveKill \/ RemoveIrqs \/ RemoveUnregister \/ RemoveBuffers \/
       RemovePools \/ RemoveInterfaces \/ DevListRemove \/ RemoveVectors
  <2>1. CASE UnwindChannels \/ UnwindIrqs \/ UnwindPools
    BY <2>1, ZenonT(60) DEF UnwindChannels, UnwindIrqs, UnwindPools, GiveBack
  <2>2. CASE RemoveMark \/ RemoveOff \/ RemoveTerminate
    <3>1. CASE RemoveMark
      BY <3>1, ZenonT(60) DEF RemoveMark
    <3>2. CASE RemoveOff
      BY <3>2, ZenonT(60) DEF RemoveOff
    <3>3. CASE RemoveTerminate
      BY <3>3, ZeroOne, ZenonT(60) DEF RemoveTerminate
    <3> QED BY <2>2, <3>1, <3>2, <3>3, ZenonT(60)
  <2>3. CASE RemoveKill \/ RemoveIrqs \/ RemoveUnregister \/ RemoveBuffers
    BY <2>3, ZenonT(60)
       DEF RemoveKill, RemoveIrqs, RemoveUnregister, RemoveBuffers, GiveBack
  <2>4. CASE RemovePools \/ RemoveInterfaces \/ DevListRemove \/ RemoveVectors
    BY <2>4, ZenonT(60)
       DEF RemovePools, RemoveInterfaces, DevListRemove, RemoveVectors, GiveBack
  <2> QED BY ZenonT(60), <1>2, <2>1, <2>2, <2>3, <2>4
<1>3. CASE Irq
  BY <1>3, ZenonT(60)
     DEF Irq, IsrEnter, IsrDone, IsrCallback, IsrExit, Tasklet, WorkDone, IsrStep
<1>4. CASE Rt \/ SetInitCompleted \/ UNCHANGED vars
  BY <1>4, ZenonT(60)
     DEF Rt, SetInitCompleted, CreateNode, CreateLocks, InitEarly,
         UnregisterCallbacks, SynchronizeRcu, DestroyNode, vars
<1>5. ASSUME NEW f \in Files, StartTransfer(f) PROVE RunInv'
  BY <1>5, ZenonT(60) DEF StartTransfer, Listed
<1>6. ASSUME NEW f \in Files, OpenCheck(f) \/ OpenLocked(f) \/ IoctlEnter(f) \/
       IoctlInit(f) \/ IoctlReturn(f) \/ CloseCheck(f) \/ CloseLocked(f) PROVE RunInv'
  BY <1>6, ZenonT(60)
     DEF OpenCheck, OpenLocked, IoctlEnter, IoctlInit, IoctlReturn, CloseCheck,
         CloseLocked
<1> HIDE DEF MarkInv, RunInv
<1> QED
  BY <1>1, <1>2, <1>3, <1>4, <1>5, <1>6, ZenonT(60) DEF Next, Pci, Irq, Rt, File

\* Load registers the callbacks last, unload waits for them before it frees.
LEMMA NextCallbackInv == CallbackInv /\ [Next]_vars => CallbackInv'
<1> SUFFICES ASSUME CallbackInv, [Next]_vars PROVE CallbackInv'
  BY ZenonT(60)
<1> USE DEF CallbackInv, irqVars, rtVars
<1>1. CASE Pci
  BY <1>1, ZenonT(60)
     DEF Pci, ProbeStart, AllocVectors, MapRegions, DevListAdd, ProbeLocks, MemInit,
         AllocWorkqueue, IrqRequest, SetupWrite, SetupRead, MessageInit,
         CreateInterfaces, ProbeInitDone, ProbeLive, UnwindChannels, UnwindIrqs,
         UnwindPools, RemoveMark, RemoveOff, RemoveTerminate, RemoveKill, RemoveIrqs,
         RemoveUnregister, RemoveBuffers, RemovePools, RemoveInterfaces,
         DevListRemove, RemoveVectors, Obtain, GiveBack
<1>2. CASE Irq
  BY <1>2, ZenonT(60)
     DEF Irq, IsrEnter, IsrDone, IsrCallback, IsrExit, Tasklet, WorkDone, IsrStep
<1>3. CASE Rt
  BY <1>3
     DEF Rt, CreateNode, CreateLocks, InitEarly, UnregisterCallbacks, SynchronizeRcu,
         DestroyNode, RtStep
<1>4. CASE SetInitCompleted \/ UNCHANGED vars
  BY <1>4, ZenonT(60) DEF SetInitCompleted, vars
<1>5. ASSUME NEW f \in Files, File(f) PROVE CallbackInv'
  BY <1>5, ZenonT(60)
     DEF File, OpenCheck, OpenLocked, IoctlEnter, IoctlInit, IoctlReturn,
         StartTransfer, CloseCheck, CloseLocked
<1> QED
  BY <1>1, <1>2, <1>3, <1>4, <1>5 DEF Next, Pci, Irq, Rt, File

\* The first ioctl of a binding takes the message pointers anew.
LEMMA NextPointerInv ==
  TypeOK /\ HeldInv /\ MarkInv /\ PointerInv /\ [Next]_vars => PointerInv'
<1> SUFFICES ASSUME TypeOK, HeldInv, MarkInv, PointerInv, [Next]_vars PROVE PointerInv'
  OBVIOUS
<1>0. /\ binds \in Nat /\ msg \in Nat /\ init_completed \in {0, 1}
      /\ fpc \in [Files -> {"closed", "o_lock", "open", "i_init", "i_handle", "c_lock"}]
  BY DEF TypeOK
<1>h. /\ "list" \in held => ppc \notin {"unbound", "p_vec", "p_regions", "p_list", "r_vectors"}
      /\ ppc \in {"p_mutex", "p_pools", "p_wq", "p_irqs", "p_wr", "p_rd", "p_msg", "p_ifs",
                 "p_init", "p_live", "bound"} => "list" \in held
  BY ZenonT(60) DEF HeldInv
<1> USE <1>0, <1>h
       DEF MarkInv, PointerInv, FreshPointers, Listed, PciStep, ProbeSteps,
           RemoveSteps, UnwindSteps, pciVars, fileVars, ioctlVars
<1>1. CASE ProbeStart \/ AllocVectors \/ MapRegions \/ DevListAdd \/ ProbeLocks \/
       MemInit \/ AllocWorkqueue \/ IrqRequest \/ SetupWrite \/ SetupRead \/ MessageInit
       \/ CreateInterfaces \/ ProbeInitDone \/ ProbeLive
  <2>1. CASE ProbeStart
    BY <2>1, ZenonT(60) DEF ProbeStart
  <2>2. CASE AllocVectors \/ MapRegions \/ DevListAdd \/ ProbeLocks \/ MemInit \/
         AllocWorkqueue
    BY <2>2, ZenonT(60)
       DEF AllocVectors, MapRegions, DevListAdd, ProbeLocks, MemInit, AllocWorkqueue,
           Obtain, GiveBack
  <2>3. CASE IrqRequest \/ SetupWrite \/ SetupRead \/ MessageInit \/ CreateInterfaces
    BY <2>3, ZenonT(60)
       DEF IrqRequest, SetupWrite, SetupRead, MessageInit, CreateInterfaces, Obtain,
           GiveBack
  <2>4. CASE ProbeInitDone \/ ProbeLive
    BY <2>4, ZenonT(60) DEF ProbeInitDone, ProbeLive
  <2> QED BY ZenonT(60), <1>1, <2>1, <2>2, <2>3, <2>4
<1>2. CASE UnwindChannels \/ UnwindIrqs \/ UnwindPools \/ RemoveMark \/ RemoveOff \/
       RemoveTerminate \/ RemoveKill \/ RemoveIrqs \/ RemoveUnregister \/ RemoveBuffers \/
       RemovePools \/ RemoveInterfaces \/ DevListRemove \/ RemoveVectors
  <2>1. CASE UnwindChannels \/ UnwindIrqs \/ UnwindPools
    BY <2>1, ZenonT(60) DEF UnwindChannels, UnwindIrqs, UnwindPools, GiveBack
  <2>2. CASE RemoveMark \/ RemoveOff \/ RemoveTerminate
    BY <2>2, ZenonT(60) DEF RemoveMark, RemoveOff, RemoveTerminate
  <2>3. CASE RemoveKill \/ RemoveIrqs \/ RemoveUnregister \/ RemoveBuffers
    BY <2>3, ZenonT(60)
       DEF RemoveKill, RemoveIrqs, RemoveUnregister, RemoveBuffers, GiveBack
  <2>4. CASE RemovePools \/ RemoveInterfaces \/ DevListRemove \/ RemoveVectors
    BY <2>4, ZenonT(60)
       DEF RemovePools, RemoveInterfaces, DevListRemove, RemoveVectors, GiveBack
  <2> QED BY ZenonT(60), <1>2, <2>1, <2>2, <2>3, <2>4
<1>3. CASE Irq \/ UNCHANGED vars \/ Rt \/ SetInitCompleted
  <2>1. CASE Irq \/ UNCHANGED vars
    BY <2>1, ZenonT(60)
       DEF Irq, IsrEnter, IsrDone, IsrCallback, IsrExit, Tasklet, WorkDone, vars
  <2>2. CASE Rt
    BY <2>2, ZenonT(60)
       DEF Rt, CreateNode, CreateLocks, InitEarly, UnregisterCallbacks,
           SynchronizeRcu, DestroyNode
  <2>3. CASE SetInitCompleted
    BY <2>3, ZenonT(60) DEF SetInitCompleted
  <2> QED BY ZenonT(60), <1>3, <2>1, <2>2, <2>3
<1>4. ASSUME NEW f \in Files, OpenCheck(f) \/ OpenLocked(f) \/ IoctlEnter(f) \/
       IoctlInit(f) PROVE PointerInv'
  <2>1. CASE OpenCheck(f)
    BY <2>1, ZenonT(60) DEF OpenCheck, FileStep
  <2>2. CASE OpenLocked(f)
    BY <2>2, ZenonT(60) DEF OpenLocked, FileStep
  <2>3. CASE IoctlEnter(f)
    BY <2>3, ZenonT(60) DEF IoctlEnter, FileStep
  <2>4. CASE IoctlInit(f)
    BY <2>4, ZenonT(60) DEF IoctlInit, FileStep
  <2> QED BY ZenonT(60), <1>4, <2>1, <2>2, <2>3, <2>4
<1>5. ASSUME NEW f \in Files, IoctlReturn(f) \/ StartTransfer(f) \/ CloseCheck(f) \/
       CloseLocked(f) PROVE PointerInv'
  <2>1. CASE IoctlReturn(f)
    BY <2>1, ZenonT(60) DEF IoctlReturn, FileStep
  <2>2. CASE StartTransfer(f)
    BY <2>2, ZenonT(60) DEF StartTransfer, FileStep
  <2>3. CASE CloseCheck(f)
    BY <2>3, ZenonT(60) DEF CloseCheck, FileStep
  <2>4. CASE CloseLocked(f)
    BY <2>4 DEF CloseLocked, FileStep
  <2> QED BY ZenonT(60), <1>5, <2>1, <2>2, <2>3, <2>4
<1> HIDE DEF MarkInv, PointerInv
<1> QED
  BY ZenonT(60), <1>1, <1>2, <1>3, <1>4, <1>5 DEF Next, Pci, Irq, Rt, File

INSTANCE FiniteSetTheorems

\* The files the current binding serves.
Owners == {f \in Files : owner[f] = binds}

\* What the reference count of dw counts.
CountInv ==
  /\ \A f \in Files : owner[f] <= binds /\ dwp[f] <= binds
  /\ \A f \in Files : fpc[f] \in {"closed", "o_lock"} => owner[f] = 0
  /\ \A f \in Files : fpc[f] = "c_lock" => owner[f] <= dwp[f]
  /\ ppc \in ProbeSteps => ref_count = 0 /\ chans = 0 /\ Owners = {}
  /\ ppc = "bound" /\ crossed = 0 =>
       ref_count = Cardinality(Owners) /\ chans = IF ref_count > 0 THEN 1 ELSE 0

\* The owners are finitely many.
LEMMA OwnersFinite == IsFiniteSet(Owners) /\ Cardinality(Owners) \in Nat
<1>1. Owners \subseteq Files
  BY ZenonT(60) DEF Owners
<1> QED BY <1>1, FS_Subset, FS_CardinalityType, LifecycleAssumption

\* Open and close under wr_lock count the files of the binding.
LEMMA NextCountInv == TypeOK /\ HeldInv /\ MarkInv /\ CountInv /\ [Next]_vars => CountInv'
<1> SUFFICES ASSUME TypeOK, HeldInv, MarkInv, CountInv, [Next]_vars PROVE CountInv'
  OBVIOUS
<1>0. /\ binds \in Nat /\ ref_count \in Nat /\ chans \in {0, 1} /\ crossed \in {0, 1}
      /\ fpc \in [Files -> {"closed", "o_lock", "open", "i_init", "i_handle", "c_lock"}]
      /\ dwp \in [Files -> Nat] /\ owner \in [Files -> Nat]
  BY DEF TypeOK
<1>a. UNCHANGED <<owner, binds>> => Owners' = Owners
  BY ZenonT(60) DEF Owners
<1>b. /\ ppc = "bound" => "list" \in held
      /\ dw_state = "live" <=> ppc = "bound"
      /\ ppc = "bound" => binds > 0
  BY ZenonT(60) DEF HeldInv, MarkInv
<1>c. ASSUME UNCHANGED <<owner, dwp, fpc, binds>>,
             ppc' \in ProbeSteps => ppc \in ProbeSteps /\ UNCHANGED <<ref_count, chans>>,
             ppc' = "bound" => ppc = "bound" /\ UNCHANGED <<ref_count, chans, crossed>>
      PROVE  CountInv'
  BY <1>a, <1>c, ZenonT(60) DEF CountInv
<1>1. CASE ProbeStart
  BY <1>0, <1>1, SMTT(60), Z3T(60)
     DEF CountInv, ProbeStart, Owners, PciStep, ProbeSteps, dmaVars, fileVars
<1>2. CASE ProbeLive
  <2>1. Owners' = Owners /\ Owners = {} /\ Cardinality(Owners) = 0
    BY <1>2, <1>a, FS_EmptySet, ZenonT(60)
       DEF CountInv, ProbeLive, PciStep, ProbeSteps, pciVars, fileVars
  <2> QED BY <1>2, <2>1, SMTT(60), Z3T(60)
             DEF CountInv, ProbeLive, PciStep, ProbeSteps, dmaVars, fileVars
<1>3. CASE AllocVectors \/ MapRegions \/ DevListAdd \/ ProbeLocks \/ MemInit \/
       AllocWorkqueue \/ IrqRequest \/ SetupWrite \/ SetupRead \/ MessageInit \/
       CreateInterfaces \/ ProbeInitDone \/ UnwindChannels \/ UnwindIrqs \/ UnwindPools
  <2>1. CASE AllocVectors \/ MapRegions \/ DevListAdd \/ ProbeLocks \/ MemInit \/
         AllocWorkqueue
    BY <2>1, <1>c, ZenonT(60)
       DEF AllocVectors, MapRegions, DevListAdd, ProbeLocks, MemInit, AllocWorkqueue,
           Obtain, GiveBack, PciStep, ProbeSteps, dmaVars, fileVars
  <2>2. CASE IrqRequest \/ SetupWrite \/ SetupRead \/ MessageInit \/ CreateInterfaces
    BY <2>2, <1>c, ZenonT(60)
       DEF IrqRequest, SetupWrite, SetupRead, MessageInit, CreateInterfaces, Obtain,
           GiveBack, PciStep, ProbeSteps, dmaVars, fileVars
  <2>3. CASE ProbeInitDone \/ UnwindChannels \/ UnwindIrqs \/ UnwindPools
    BY <2>3, <1>c, ZenonT(60)
       DEF ProbeInitDone, UnwindChannels, UnwindIrqs, UnwindPools, GiveBack, PciStep,
           ProbeSteps, dmaVars, fileVars
  <2> QED BY ZenonT(60), <1>3, <2>1, <2>2, <2>3
<1>4. CASE RemoveMark \/ RemoveOff \/ RemoveTerminate \/ RemoveKill \/ RemoveIrqs \/
       RemoveUnregister \/ RemoveBuffers \/ RemovePools \/ RemoveInterfaces \/
       DevListRemove \/ RemoveVectors
  <2>1. CASE RemoveMark \/ RemoveOff \/ RemoveTerminate
    BY <2>1, <1>c, ZenonT(60)
       DEF RemoveMark, RemoveOff, RemoveTerminate, PciStep, ProbeSteps, dmaVars,
           fileVars
  <2>2. CASE RemoveKill \/ RemoveIrqs \/ RemoveUnregister
    BY <2>2, <1>c, ZenonT(60)
       DEF RemoveKill, RemoveIrqs, RemoveUnregister, GiveBack, PciStep, ProbeSteps,
           dmaVars, fileVars
  <2>3. CASE RemoveBuffers \/ RemovePools \/ RemoveInterfaces
    BY <2>3, <1>c, ZenonT(60)
       DEF RemoveBuffers, RemovePools, RemoveInterfaces, GiveBack, PciStep,
           ProbeSteps, dmaVars, fileVars
  <2>4. CASE DevListRemove \/ RemoveVectors
    BY <2>4, <1>c, ZenonT(60)
       DEF DevListRemove, RemoveVectors, GiveBack, PciStep, ProbeSteps, dmaVars,
           fileVars
  <2> QED BY ZenonT(60), <1>4, <2>1, <2>2, <2>3, <2>4
<1>5. CASE Irq \/ Rt \/ SetInitCompleted \/ UNCHANGED vars
  <2>1. UNCHANGED <<pciVars, dmaVars, fileVars>>
    BY <1>5, ZenonT(60)
       DEF Irq, Rt, SetInitCompleted, IsrEnter, IsrDone, IsrCallback, IsrExit,
           Tasklet, WorkDone, CreateNode, CreateLocks, InitEarly, UnregisterCallbacks,
           SynchronizeRcu, DestroyNode, vars
  <2> QED BY <2>1, <1>c, ZenonT(60) DEF pciVars, dmaVars, fileVars
<1> USE <1>0 DEF CountInv, Listed, ProbeSteps, pciVars, dmaVars, fileVars
<1>6. ASSUME NEW f \in Files, OpenCheck(f) PROVE CountInv'
  <2>1. Owners' = Owners /\ UNCHANGED <<owner, binds, ppc, ref_count, chans, crossed>>
    BY <1>6, <1>a, ZenonT(60) DEF OpenCheck
  <2>2. fpc[f] = "closed" /\ fpc'[f] = "o_lock" /\ dwp'[f] = binds
    BY <1>6, ZenonT(60) DEF OpenCheck, FileStep
  <2>3. \A g \in Files : g # f => fpc'[g] = fpc[g] /\ dwp'[g] = dwp[g]
    BY <1>6, ZenonT(60) DEF OpenCheck, FileStep
  <2>4. \A g \in Files : owner'[g] <= binds' /\ dwp'[g] <= binds'
    BY <2>1, <2>2, <2>3, SMTT(60), Z3T(60)
  <2>5. \A g \in Files : fpc'[g] \in {"closed", "o_lock"} => owner'[g] = 0
    BY <2>1, <2>2, <2>3, ZenonT(60)
  <2>6. \A g \in Files : fpc'[g] = "c_lock" => owner'[g] <= dwp'[g]
    BY <2>1, <2>2, <2>3, ZenonT(60)
  <2> QED BY <2>1, <2>4, <2>5, <2>6, ZenonT(60)
<1>7. ASSUME NEW f \in Files, IoctlEnter(f) \/ IoctlInit(f) \/ IoctlReturn(f) \/
       StartTransfer(f) PROVE CountInv'
  <2>1. CASE IoctlEnter(f)
    BY <2>1, <1>a, ZenonT(60) DEF IoctlEnter, FileStep
  <2>2. CASE IoctlInit(f) \/ IoctlReturn(f)
    BY <2>2, <1>a, ZenonT(60) DEF IoctlInit, IoctlReturn, FileStep
  <2>3. CASE StartTransfer(f)
    BY <2>3, <1>a, ZenonT(60) DEF StartTransfer
  <2> QED BY ZenonT(60), <1>7, <2>1, <2>2, <2>3
<1>8. ASSUME NEW f \in Files, CloseCheck(f) PROVE CountInv'
  <2>1. CASE ppc \in ProbeSteps \cup {"bound"}
    <3>1. Owners' = Owners
      BY <1>8, <2>1, <1>b, SMTT(60), Z3T(60) DEF CloseCheck, FileStep, Owners
    <3> QED BY <1>8, <2>1, <3>1, <1>b, SMTT(60), Z3T(60) DEF CloseCheck, FileStep
  <2>2. CASE ppc \notin ProbeSteps \cup {"bound"}
    BY <1>8, <2>2, SMTT(60), Z3T(60) DEF CloseCheck, FileStep
  <2> QED BY ZenonT(60), <2>1, <2>2
<1>9. ASSUME NEW f \in Files, OpenLocked(f) PROVE CountInv'
  <2>1. CASE fpc'[f] = "open"
    <3>1. ppc = "bound" /\ f \notin Owners /\ Owners' = Owners \cup {f}
      BY <1>b, <1>9, <2>1, SMTT(60), Z3T(60) DEF OpenLocked, FileStep, Owners
    <3>2. Cardinality(Owners') = Cardinality(Owners) + 1
      BY ZenonT(60), <3>1, OwnersFinite, FS_AddElement
    <3> QED BY <1>9, <2>1, <3>1, <3>2, OwnersFinite, SMTT(60), Z3T(60)
               DEF OpenLocked, FileStep, RequestChannels
  <2>2. CASE fpc'[f] # "open"
    BY <1>9, <2>2, ZenonT(60) DEF OpenLocked, FileStep, Owners
  <2> QED BY ZenonT(60), <2>1, <2>2
<1>10. ASSUME NEW f \in Files, CloseLocked(f) PROVE CountInv'
  <2>1. CASE f \in Owners /\ dwp[f] = binds /\ ref_count > 0 /\ ppc = "bound"
    <3>1. Owners' = Owners \ {f}
      BY <1>b, <1>10, <2>1, SMTT(60), Z3T(60) DEF CloseLocked, FileStep, Owners
    <3>2. Cardinality(Owners') = Cardinality(Owners) - 1
      BY ZenonT(60), <2>1, <3>1, OwnersFinite, FS_RemoveElement
    <3> QED BY <1>10, <2>1, <3>1, <3>2, OwnersFinite, SMTT(60), Z3T(60)
               DEF CloseLocked, FileStep, ReleaseChannels
  <2>2. CASE f \notin Owners /\ ppc \in ProbeSteps \cup {"bound"}
    <3>1. Owners' = Owners
      BY <1>10, <2>2, SMTT(60), Z3T(60) DEF CloseLocked, FileStep, Owners
    <3>2. owner[f] # binds
      BY <2>2, ZenonT(60) DEF Owners
    <3>3. crossed' = 1 \/ UNCHANGED <<ref_count, chans, crossed>>
      BY <1>10, <2>2, <3>2, ZenonT(60) DEF CloseLocked, FileStep
    <3>4. /\ UNCHANGED <<ppc, held, binds, dw_state>>
          /\ ppc \in ProbeSteps => ref_count' = 0 /\ chans' = 0
      BY <1>10, <2>2, SMTT(60), Z3T(60) DEF CloseLocked, FileStep
    <3>5. \A g \in Files : g # f => fpc'[g] = fpc[g] /\ owner'[g] = owner[g] /\ dwp'[g] = dwp[g]
      BY <1>10, ZenonT(60) DEF CloseLocked, FileStep
    <3>6. fpc'[f] = "closed" /\ owner'[f] = 0 /\ dwp'[f] = 0
      BY <1>10, ZenonT(60) DEF CloseLocked, FileStep
    <3> QED BY SMTT(60), Z3T(60), <3>1, <3>3, <3>4, <3>5, <3>6
  <2>3. CASE ppc \notin ProbeSteps \cup {"bound"}
    BY <1>10, <2>3, SMTT(60), Z3T(60) DEF CloseLocked, FileStep
  <2>4. CASE f \in Owners /\ ~(dwp[f] = binds /\ ref_count > 0) /\ ppc = "bound"
    <3>1. dwp[f] = binds /\ ref_count = 0
      BY <1>10, <2>4, SMTT(60), Z3T(60) DEF CloseLocked, FileStep, Owners
    <3>2. crossed = 1
      <4>1. SUFFICES ASSUME Cardinality(Owners) = 0 PROVE FALSE
        BY ZenonT(60), <2>4, <3>1
      <4>2. Owners = {}
        BY ZenonT(60), <4>1, OwnersFinite, FS_EmptySet
      <4> QED BY ZenonT(60), <2>4, <4>2
    <3> QED BY <1>10, <2>4, <3>1, <3>2, SMTT(60), Z3T(60) DEF CloseLocked, FileStep
  <2>5. CASE f \in Owners /\ ppc \in ProbeSteps
    BY <2>5
  <2> QED BY ZenonT(60), <2>1, <2>2, <2>3, <2>4, <2>5
<1> HIDE DEF CountInv
<1> QED
  BY <1>1, <1>2, <1>3, <1>4, <1>5, <1>6, <1>7, <1>8, <1>9, <1>10, ZenonT(60)
     DEF Next, Pci, Irq, Rt, File

\* The inductive invariant of the device's life.
THEOREM LifeInvariant == Spec => [](LifeInv /\ CountInv)
<1>1. Init => LifeInv /\ CountInv
  <2>1. Init => CountInv
    BY DEF Init, CountInv, ProbeSteps
  <2> QED BY ZenonT(60), <2>1, InitLifeInv
<1>2. LifeInv /\ CountInv /\ [Next]_vars => LifeInv' /\ CountInv'
  BY SMTT(60), Z3T(60), NextTypeOK, NextHeldInv, NextMarkInv, NextRunInv,
     NextCallbackInv, NextPointerInv, NextCountInv
     DEF LifeInv
<1> QED BY <1>1, <1>2, PTL DEF Spec

\* The types of the two drivers, the binding and the files.
THEOREM TypeCorrect == Spec => []TypeOK
<1>1. LifeInv /\ CountInv => TypeOK
  BY DEF LifeInv
<1> QED BY <1>1, LifeInvariant, PTL

\* A failed probe and a remove leave nothing allocated, registered or running
\* (dx_dma_pcie_probe, dx_dma_pcie_remove).
THEOREM BindingLeavesNothing == Spec => []NothingLeft
<1>1. LifeInv /\ CountInv => NothingLeft
  <2> SUFFICES ASSUME LifeInv, ppc = "unbound"
               PROVE  held = {} /\ isr = "idle" /\ tasklet = 0 /\ work = 0 /\ xfer = 0
    BY ZenonT(60) DEF NothingLeft
  <2>1. held = {}
    BY ZenonT(60) DEF LifeInv, TypeOK, HeldInv, Resources, RemoveSteps, UnwindSteps
  <2> QED BY <2>1 DEF LifeInv, TypeOK, RunInv
<1> QED BY <1>1, LifeInvariant, PTL

\* Work and tasklets never outlive the workqueue, the pools and the buffers
\* (dx_dma_remove).
THEOREM WorkOutlived == Spec => []WorkHasMemory
<1>1. LifeInv /\ CountInv => WorkHasMemory
  BY DEF LifeInv, HeldInv, RunInv, WorkHasMemory
<1> QED BY <1>1, LifeInvariant, PTL

\* No interrupt handler is in a callback of the RT driver when its dxdev is freed
\* (remove_dxrt_device).
THEOREM CallbackSafe == Spec => []CallbackAlive
<1>1. LifeInv /\ CountInv => CallbackAlive
  BY ZenonT(60) DEF LifeInv, CallbackInv, CallbackAlive
<1> QED BY <1>1, LifeInvariant, PTL

\* ref_count counts the files of the binding, and the channels follow it
\* (dx_sgdma_init, dx_sgdma_deinit).
THEOREM FilesCounted == Spec => []RefCounted
<1>1. LifeInv /\ CountInv => RefCounted
  BY DEF LifeInv, MarkInv, CountInv, RefCounted, Owners
<1> QED BY <1>1, LifeInvariant, PTL

\* No handler works with message pointers of an earlier binding (dxrt_dev_ioctl).
THEOREM PointersFresh == Spec => []FreshPointers
<1>1. LifeInv /\ CountInv => FreshPointers
  BY DEF LifeInv, PointerInv
<1> QED BY <1>1, LifeInvariant, PTL

-----------------------------------------------------------------------------
(* The mailbox.                                                            *)

Mbox == INSTANCE Mailbox

\* What the gate remembers and what the firmware publishes.
LatchInv ==
  /\ seen = 1 => dlmsg_contract_seen = 1
  /\ fw = "boot" => ready = 0
  /\ spoke = 0 => valid = 0 /\ dlmsg_contract_seen = 0

\* The recovery an update starts keeps the device from being ready.
StateInv == quarantine = 1 => dev_state # "ready"

\* A call that found the firmware idle when it took msg_lock has it to itself:
\* whatever the firmware does then, it does for the command of this call.
ReplyInv ==
  \A c \in Callers : c \notin owed =>
    /\ pc[c] \in {"check", "copy", "send"} => fw # "busy" /\ bell = 0
    /\ pc[c] \in {"poll", "end"} =>
         /\ bell = 1 => cmd.id = id[c]
         /\ fw = "busy" => job.cmd.id = id[c]
         /\ ack = 1 => acked = id[c]

\* The number of a call is its own, and no older command has it; no ping starts a
\* recovery.
IdInv ==
  /\ \A c \in Callers : id[c] <= commands /\ (pc[c] # "idle" => id[c] # 0)
  /\ \A c \in Callers : pc[c] = "kick" => kind[c] # "ping"
  /\ \A c, d \in Callers : id[c] # 0 /\ id[c] = id[d] => c = d
  /\ data.arg <= commands /\ job.arg <= commands
  /\ cmd.id <= commands /\ job.cmd.id <= commands

\* A PONG in the data area with the number of a call was sent to that call.
PongInv ==
  \A c \in Callers :
    id[c] # 0 /\ data.by = "fw" /\ data.kind = "ping" /\ data.arg = id[c] => id[c] \in echoed

MailboxInv ==
  /\ Mbox!TypeOK /\ LockDiscipline /\ LatchInv /\ StateInv /\ ReplyInv /\ IdInv /\ PongInv
  /\ OwnReply /\ PongIsFresh /\ BootUndisturbed /\ LegacyNeverBusy /\ UpdateQuarantined

Pcs == {"idle", "lock", "check", "copy", "send", "poll", "end", "kick", "done"}
Rets == {"none", "ok", "busy", "error"}

\* The types, in four parts: the calls, the mailbox, the firmware and the rest.
CallTypes ==
  /\ msg_lock \in Callers \union {Mbox!Nobody} /\ pc \in [Callers -> Pcs]
  /\ kind \in [Callers -> Mbox!Kinds \union {"none"}] /\ id \in [Callers -> Mbox!Ids]
  /\ ret \in [Callers -> Rets] /\ start_epoch \in [Callers -> Nat]
  /\ commands \in Mbox!Ids /\ owed \subseteq Callers

AreaTypes ==
  /\ cmd \in Mbox!Commands /\ size \in Mbox!Flag /\ ack \in Mbox!Flag /\ data \in Mbox!Area /\ bell \in Mbox!Flag
  /\ acked \in Mbox!Ids

FirmwareTypes ==
  /\ fw \in {"boot", "idle", "busy"} /\ job \in [cmd : Mbox!Commands, arg : Mbox!Ids]
  /\ modern \in Mbox!Flag /\ image \in Mbox!Flag /\ valid \in Mbox!Flag /\ ready \in Mbox!Flag /\ spoke \in Mbox!Flag
  /\ echoed \subseteq Mbox!Ids

DeviceTypes ==
  /\ dlmsg_contract_seen \in Mbox!Flag /\ seen \in Mbox!Flag /\ downgraded \in Mbox!Flag
  /\ dev_state \in {"ready", "recovering", "transport_ok"} /\ recovery_epoch \in Nat
  /\ quarantine \in Mbox!Flag /\ reboots \in 0 .. MaxReboots /\ rebooted \subseteq Callers

\* The parts are the whole.
LEMMA TypesInParts == Mbox!TypeOK <=> CallTypes /\ AreaTypes /\ FirmwareTypes /\ DeviceTypes
<1>1. Mbox!TypeOK => CallTypes
  BY ZenonT(60) DEF Mbox!TypeOK, CallTypes, Pcs, Rets
<1>2. Mbox!TypeOK => AreaTypes
  BY ZenonT(60) DEF Mbox!TypeOK, AreaTypes
<1>3. Mbox!TypeOK => FirmwareTypes
  BY ZenonT(60) DEF Mbox!TypeOK, FirmwareTypes
<1>4. Mbox!TypeOK => DeviceTypes
  BY ZenonT(60) DEF Mbox!TypeOK, DeviceTypes
<1>5. CallTypes /\ AreaTypes /\ FirmwareTypes /\ DeviceTypes => Mbox!TypeOK
  BY ZenonT(60)
     DEF Mbox!TypeOK, CallTypes, AreaTypes, FirmwareTypes, DeviceTypes, Pcs, Rets
<1> QED BY <1>1, <1>2, <1>3, <1>4, <1>5, ZenonT(60)

\* The type of an updated function.
LEMMA UpdateType ==
  ASSUME NEW S, NEW T, NEW f \in [S -> T], NEW x, NEW v \in T
  PROVE  [f EXCEPT ![x] = v] \in [S -> T]
  BY ZenonT(60)

\* The types of the records of the mailbox.
LEMMA RecordTypes ==
  /\ \A k \in Mbox!Kinds \union {"none"}, n \in Mbox!Ids :
       /\ [kind |-> k, id |-> n] \in Mbox!Commands /\ Mbox!Payload(k, n) \in Mbox!Area
       /\ [by |-> "fw", kind |-> k, arg |-> n] \in Mbox!Area
  /\ \A m \in Mbox!Commands, n \in Mbox!Ids : [cmd |-> m, arg |-> n] \in [cmd : Mbox!Commands, arg : Mbox!Ids]
  /\ \A m \in Mbox!Commands : m.kind \in Mbox!Kinds \union {"none"} /\ m.id \in Mbox!Ids
  /\ \A a \in Mbox!Area : a.arg \in Mbox!Ids
  /\ \A j \in [cmd : Mbox!Commands, arg : Mbox!Ids] : j.cmd \in Mbox!Commands /\ j.arg \in Mbox!Ids
  /\ Mbox!NoCommand \in Mbox!Commands /\ 0 \in Mbox!Ids
<1>1. 0 \in Mbox!Ids
  BY Counting, MailboxAssumption, ZenonT(60) DEF Mbox!Ids
<1>2. \A k \in Mbox!Kinds \union {"none"}, n \in Mbox!Ids :
        /\ [kind |-> k, id |-> n] \in Mbox!Commands /\ Mbox!Payload(k, n) \in Mbox!Area
        /\ [by |-> "fw", kind |-> k, arg |-> n] \in Mbox!Area
  BY RecordSets, ZenonT(60) DEF Mbox!Commands, Mbox!Area, Mbox!Payload
<1>3. /\ \A m \in Mbox!Commands, n \in Mbox!Ids : [cmd |-> m, arg |-> n] \in [cmd : Mbox!Commands, arg : Mbox!Ids]
      /\ \A j \in [cmd : Mbox!Commands, arg : Mbox!Ids] : j.cmd \in Mbox!Commands /\ j.arg \in Mbox!Ids
  BY RecordSets, ZenonT(60)
<1>4. /\ \A m \in Mbox!Commands : m.kind \in Mbox!Kinds \union {"none"} /\ m.id \in Mbox!Ids
      /\ \A a \in Mbox!Area : a.arg \in Mbox!Ids
  BY RecordSets, ZenonT(60) DEF Mbox!Commands, Mbox!Area
<1>5. Mbox!NoCommand \in Mbox!Commands
  BY <1>1, <1>2, ZenonT(60) DEF Mbox!NoCommand
<1> QED BY <1>1, <1>2, <1>3, <1>4, <1>5, ZenonT(60)

\* Those of a flag.
LEMMA FlagTypes == 0 \in Mbox!Flag /\ 1 \in Mbox!Flag
  BY ZenonT(60) DEF Mbox!Flag

\* A call that goes on, leaves or returns.
LEMMA CallKeepsTypes ==
  ASSUME CallTypes, NEW c \in Callers,
         msg_lock' \in {msg_lock, Mbox!Nobody},
         \E v \in Pcs : pc' = [pc EXCEPT ![c] = v],
         ret' = ret \/ \E v \in Rets : ret' = [ret EXCEPT ![c] = v],
         UNCHANGED <<kind, id, start_epoch, commands, owed>>
  PROVE  CallTypes'
<1>1. pc' \in [Callers -> Pcs]
  BY UpdateType, ZenonT(60) DEF CallTypes
<1>2. ret' \in [Callers -> Rets]
  BY UpdateType, ZenonT(60) DEF CallTypes
<1> QED BY <1>1, <1>2, ZenonT(60) DEF CallTypes

\* Every handler and every step of the firmware and the recovery keeps the types:
\* first those of the calls.
LEMMA NextCallTypes == CallTypes /\ recovery_epoch \in Nat /\ [Mbox!Next]_(Mbox!vars) => CallTypes'
<1> SUFFICES ASSUME CallTypes, recovery_epoch \in Nat, [Mbox!Next]_(Mbox!vars) PROVE CallTypes'
  BY ZenonT(60)
<1>1. ASSUME NEW c \in Callers, NEW k \in Mbox!Kinds, Mbox!Enter(c, k) PROVE CallTypes'
  <2>1. commands + 1 \in Mbox!Ids
    <3>1. commands \in Mbox!Ids /\ commands < MaxCommands
      BY <1>1, ZenonT(60) DEF CallTypes, Mbox!Enter
    <3> QED BY <3>1, Counting, MailboxAssumption, ZenonT(60) DEF Mbox!Ids
  <2>2. pc' \in [Callers -> Pcs] /\ "lock" \in Pcs
    <3>1. "lock" \in Pcs
      BY ZenonT(60) DEF Pcs
    <3> QED BY <1>1, <3>1, UpdateType, ZenonT(60) DEF CallTypes, Mbox!Enter
  <2>3. kind' \in [Callers -> Mbox!Kinds \union {"none"}]
    BY <1>1, UpdateType, ZenonT(60) DEF CallTypes, Mbox!Enter
  <2>4. id' \in [Callers -> Mbox!Ids]
    BY <1>1, <2>1, UpdateType, ZenonT(60) DEF CallTypes, Mbox!Enter
  <2>5. start_epoch' \in [Callers -> Nat]
    <3>1. 0 \in Nat
      BY Counting, ZenonT(60)
    <3>2. (IF k = "ping" THEN recovery_epoch ELSE 0) \in Nat
      BY <3>1, ZenonT(60)
    <3> QED BY <1>1, <3>2, UpdateType, ZenonT(60) DEF CallTypes, Mbox!Enter
  <2> QED BY <1>1, <2>1, <2>2, <2>3, <2>4, <2>5, ZenonT(60) DEF CallTypes, Mbox!Enter
<1>2. ASSUME NEW c \in Callers, Mbox!Lock(c) PROVE CallTypes'
  <2>1. pc' \in [Callers -> Pcs]
    <3>1. "check" \in Pcs
      BY ZenonT(60) DEF Pcs
    <3> QED BY <1>2, <3>1, UpdateType, ZenonT(60) DEF CallTypes, Mbox!Lock
  <2>2. owed' \subseteq Callers
    BY <1>2, ZenonT(60) DEF CallTypes, Mbox!Lock
  <2> QED BY <1>2, <2>1, <2>2, ZenonT(60) DEF CallTypes, Mbox!Lock
<1>3. ASSUME NEW c \in Callers,
             \/ Mbox!Check(c) \/ Mbox!CopyIn(c) \/ Mbox!Send(c) \/ Mbox!ResetSend(c) \/ Mbox!Poll(c)
             \/ Mbox!GeneralEnd(c) \/ Mbox!CpuResetKick(c) \/ Mbox!WaitedEnd(c) \/ Mbox!SocEnd(c)
             \/ Mbox!UpdateEnd(c) \/ Mbox!PingEnd(c)
      PROVE  CallTypes'
  <2>1. UNCHANGED <<kind, id, start_epoch, commands, owed>>
    BY <1>3, ZenonT(60)
       DEF Mbox!Check, Mbox!CopyIn, Mbox!Send, Mbox!ResetSend, Mbox!Poll,
           Mbox!GeneralEnd, Mbox!CpuResetKick, Mbox!WaitedEnd, Mbox!SocEnd,
           Mbox!UpdateEnd, Mbox!PingEnd
  <2>2. ret[c] \in Rets
    BY ZenonT(60) DEF CallTypes
  <2>3. msg_lock' \in {msg_lock, Mbox!Nobody}
    BY <1>3, ZenonT(60)
       DEF Mbox!Check, Mbox!Gate, Mbox!CopyIn, Mbox!Send, Mbox!ResetSend, Mbox!Poll,
           Mbox!GeneralEnd, Mbox!CpuResetKick, Mbox!WaitedEnd, Mbox!SocEnd,
           Mbox!UpdateEnd, Mbox!PingEnd, Mbox!Leave
  <2>4. \E v \in Pcs : pc' = [pc EXCEPT ![c] = v]
    <3>1. CASE Mbox!Check(c) \/ Mbox!CopyIn(c) \/ Mbox!Send(c) \/ Mbox!ResetSend(c) \/ Mbox!Poll(c)
      BY <3>1, ZenonT(60)
         DEF Mbox!Check, Mbox!Gate, Mbox!CopyIn, Mbox!Send, Mbox!ResetSend, Mbox!Poll,
             Mbox!Leave, Pcs
    <3>2. CASE \/ Mbox!GeneralEnd(c) \/ Mbox!CpuResetKick(c) \/ Mbox!WaitedEnd(c) \/ Mbox!SocEnd(c)
               \/ Mbox!UpdateEnd(c) \/ Mbox!PingEnd(c)
      BY <3>2, ZenonT(60)
         DEF Mbox!GeneralEnd, Mbox!CpuResetKick, Mbox!WaitedEnd, Mbox!SocEnd,
             Mbox!UpdateEnd, Mbox!PingEnd, Mbox!Leave, Pcs
    <3> QED BY <1>3, <3>1, <3>2, ZenonT(60)
  <2>5. ret' = ret \/ \E v \in Rets : ret' = [ret EXCEPT ![c] = v]
    <3>1. CASE Mbox!Check(c) \/ Mbox!CopyIn(c) \/ Mbox!Send(c) \/ Mbox!ResetSend(c) \/ Mbox!Poll(c)
      BY <3>1, ZenonT(60)
         DEF Mbox!Check, Mbox!Gate, Mbox!CopyIn, Mbox!Send, Mbox!ResetSend, Mbox!Poll,
             Mbox!Leave, Rets
    <3>2. CASE Mbox!GeneralEnd(c) \/ Mbox!CpuResetKick(c) \/ Mbox!UpdateEnd(c) \/ Mbox!PingEnd(c)
      BY <3>2, ZenonT(60)
         DEF Mbox!GeneralEnd, Mbox!CpuResetKick, Mbox!UpdateEnd, Mbox!PingEnd,
             Mbox!Leave, Rets
    <3>3. CASE Mbox!WaitedEnd(c)
      BY <2>2, <3>3, ZenonT(60) DEF Mbox!WaitedEnd, Mbox!Leave
    <3>4. CASE Mbox!SocEnd(c)
      BY <2>2, <3>4, ZenonT(60) DEF Mbox!SocEnd, Mbox!Leave, Rets
    <3> QED BY <1>3, <3>1, <3>2, <3>3, <3>4, ZenonT(60)
  <2> QED BY <2>1, <2>3, <2>4, <2>5, CallKeepsTypes, ZenonT(60)
<1>4. ASSUME NEW c \in Callers, Mbox!Return(c) PROVE CallTypes'
  <2>1. "idle" \in Pcs /\ "none" \in Rets /\ 0 \in Mbox!Ids
    BY RecordTypes, ZenonT(60) DEF Pcs, Rets
  <2>2. pc' \in [Callers -> Pcs] /\ ret' \in [Callers -> Rets]
    BY <1>4, <2>1, UpdateType, ZenonT(60) DEF CallTypes, Mbox!Return
  <2>3. kind' \in [Callers -> Mbox!Kinds \union {"none"}]
    BY <1>4, UpdateType, ZenonT(60) DEF CallTypes, Mbox!Return
  <2>4. id' \in [Callers -> Mbox!Ids]
    BY <1>4, <2>1, UpdateType, ZenonT(60) DEF CallTypes, Mbox!Return
  <2>5. start_epoch' \in [Callers -> Nat]
    <3>1. 0 \in Nat
      BY Counting, ZenonT(60)
    <3> QED BY <1>4, <3>1, UpdateType, ZenonT(60) DEF CallTypes, Mbox!Return
  <2> QED BY <1>4, <2>2, <2>3, <2>4, <2>5, ZenonT(60) DEF CallTypes, Mbox!Return
<1>5. CASE \/ Mbox!FwTake \/ Mbox!FwReply \/ Mbox!FwReboot \/ Mbox!FwPublish \/ Mbox!FwBooted
           \/ Mbox!LinkDown \/ Mbox!LinkUp \/ Mbox!Recovered \/ UNCHANGED Mbox!vars
  <2>1. UNCHANGED Mbox!calls
    BY <1>5, ZenonT(60)
       DEF Mbox!FwTake, Mbox!FwReply, Mbox!FwReboot, Mbox!FwPublish, Mbox!FwBooted,
           Mbox!LinkDown, Mbox!LinkUp, Mbox!Recovered, Mbox!vars
  <2> QED BY <2>1, ZenonT(60) DEF Mbox!calls, CallTypes
<1> QED BY <1>1, <1>2, <1>3, <1>4, <1>5, ZenonT(60) DEF Mbox!Next, Mbox!Call

\* ... then those of the mailbox.
LEMMA NextAreaTypes ==
  CallTypes /\ AreaTypes /\ FirmwareTypes /\ [Mbox!Next]_(Mbox!vars) => AreaTypes'
<1> SUFFICES ASSUME CallTypes, AreaTypes, FirmwareTypes, [Mbox!Next]_(Mbox!vars) PROVE AreaTypes'
  BY ZenonT(60)
<1>1. ASSUME NEW c \in Callers, Mbox!CopyIn(c) \/ Mbox!Send(c) \/ Mbox!ResetSend(c) PROVE AreaTypes'
  <2>1. kind[c] \in Mbox!Kinds \union {"none"} /\ id[c] \in Mbox!Ids
    BY ZenonT(60) DEF CallTypes
  <2>2. Mbox!Payload(kind[c], id[c]) \in Mbox!Area /\ [kind |-> kind[c], id |-> id[c]] \in Mbox!Commands
    BY <2>1, RecordTypes, ZenonT(60)
  <2>3. data' \in Mbox!Area
    BY <1>1, <2>2, ZenonT(60) DEF AreaTypes, Mbox!CopyIn, Mbox!Send, Mbox!ResetSend
  <2>4. cmd' \in Mbox!Commands /\ acked' \in Mbox!Ids
    BY <1>1, <2>2, RecordTypes, ZenonT(60)
       DEF AreaTypes, Mbox!CopyIn, Mbox!Send, Mbox!ResetSend, Mbox!Header, Mbox!header
  <2>5. size' \in Mbox!Flag /\ ack' \in Mbox!Flag /\ bell' \in Mbox!Flag
    BY <1>1, FlagTypes, ZenonT(60)
       DEF AreaTypes, Mbox!CopyIn, Mbox!Send, Mbox!ResetSend, Mbox!Header,
           Mbox!Notify, Mbox!header
  <2> QED BY <2>3, <2>4, <2>5, ZenonT(60) DEF AreaTypes
<1>2. CASE Mbox!FwReply
  <2>1. job.cmd.kind \in Mbox!Kinds \union {"none"} /\ job.cmd.id \in Mbox!Ids /\ job.arg \in Mbox!Ids
    BY RecordTypes, ZenonT(60) DEF FirmwareTypes
  <2>2. (IF job.cmd.kind = "ping" THEN job.arg ELSE job.cmd.id) \in Mbox!Ids
    BY <2>1, ZenonT(60)
  <2>3. [by |-> "fw", kind |-> job.cmd.kind,
         arg |-> IF job.cmd.kind = "ping" THEN job.arg ELSE job.cmd.id] \in Mbox!Area
    BY <2>1, <2>2, RecordTypes, ZenonT(60)
  <2>4. data' \in Mbox!Area
    BY <1>2, <2>3, ZenonT(60) DEF AreaTypes, Mbox!FwReply
  <2> QED BY <1>2, <2>1, <2>4, FlagTypes, ZenonT(60) DEF AreaTypes, Mbox!FwReply
<1>3. CASE Mbox!FwTake \/ Mbox!FwBooted
  BY <1>3, FlagTypes, ZenonT(60) DEF AreaTypes, Mbox!FwTake, Mbox!FwBooted, Mbox!header
<1>4. CASE UNCHANGED <<Mbox!header, data, bell>>
  BY <1>4, ZenonT(60) DEF AreaTypes, Mbox!header
<1>5. ASSUME NEW c \in Callers,
             \/ \E k \in Mbox!Kinds : Mbox!Enter(c, k)
             \/ Mbox!Lock(c) \/ Mbox!Check(c) \/ Mbox!Poll(c) \/ Mbox!GeneralEnd(c) \/ Mbox!CpuResetKick(c)
             \/ Mbox!WaitedEnd(c) \/ Mbox!SocEnd(c) \/ Mbox!UpdateEnd(c) \/ Mbox!PingEnd(c) \/ Mbox!Return(c)
      PROVE  UNCHANGED <<Mbox!header, data, bell>>
  BY <1>5, ZenonT(60)
     DEF Mbox!Enter, Mbox!Lock, Mbox!Check, Mbox!Poll, Mbox!GeneralEnd,
         Mbox!CpuResetKick, Mbox!WaitedEnd, Mbox!SocEnd, Mbox!UpdateEnd, Mbox!PingEnd,
         Mbox!Return
<1>6. CASE Mbox!FwReboot \/ Mbox!FwPublish \/ Mbox!LinkDown \/ Mbox!LinkUp \/ Mbox!Recovered \/ UNCHANGED Mbox!vars
  BY <1>4, <1>6, ZenonT(60)
     DEF Mbox!FwReboot, Mbox!FwPublish, Mbox!LinkDown, Mbox!LinkUp, Mbox!Recovered,
         Mbox!vars
<1> QED BY <1>1, <1>2, <1>3, <1>4, <1>5, <1>6, ZenonT(60) DEF Mbox!Next, Mbox!Call

\* ... of the firmware ...
LEMMA NextFirmwareTypes == AreaTypes /\ FirmwareTypes /\ [Mbox!Next]_(Mbox!vars) => FirmwareTypes'
<1> SUFFICES ASSUME AreaTypes, FirmwareTypes, [Mbox!Next]_(Mbox!vars) PROVE FirmwareTypes'
  BY ZenonT(60)
<1>1. CASE Mbox!FwTake
  <2>1. [cmd |-> cmd, arg |-> data.arg] \in [cmd : Mbox!Commands, arg : Mbox!Ids]
    BY RecordTypes, ZenonT(60) DEF AreaTypes
  <2> QED BY <1>1, <2>1, ZenonT(60) DEF FirmwareTypes, Mbox!FwTake
<1>2. [cmd |-> Mbox!NoCommand, arg |-> 0] \in [cmd : Mbox!Commands, arg : Mbox!Ids]
  BY RecordTypes, ZenonT(60)
<1>3. CASE Mbox!FwReply
  <2>1. job.arg \in Mbox!Ids
    BY RecordTypes, ZenonT(60) DEF FirmwareTypes
  <2>2. image' \in Mbox!Flag
    <3>1. CASE job.cmd.kind = "update"
      BY <1>3, <3>1, FlagTypes, ZenonT(60) DEF FirmwareTypes, Mbox!FwReply
    <3>2. CASE job.cmd.kind = "downgrade"
      BY <1>3, <3>2, FlagTypes, ZenonT(60) DEF FirmwareTypes, Mbox!FwReply
    <3>3. CASE job.cmd.kind \notin {"update", "downgrade"}
      BY <1>3, <3>3, ZenonT(60) DEF FirmwareTypes, Mbox!FwReply
    <3> QED BY <3>1, <3>2, <3>3, ZenonT(60)
  <2>3. echoed' \subseteq Mbox!Ids
    BY <1>3, <2>1, ZenonT(60) DEF FirmwareTypes, Mbox!FwReply
  <2> QED BY <1>2, <1>3, <2>2, <2>3, ZenonT(60) DEF FirmwareTypes, Mbox!FwReply
<1>4. CASE Mbox!FwReboot
  BY <1>2, <1>4, FlagTypes, ZenonT(60) DEF FirmwareTypes, Mbox!FwReboot
<1>5. CASE Mbox!FwPublish \/ Mbox!FwBooted
  BY <1>5, FlagTypes, ZenonT(60) DEF FirmwareTypes, Mbox!FwPublish, Mbox!FwBooted
<1>6. ASSUME NEW c \in Callers, Mbox!Return(c) PROVE FirmwareTypes'
  BY <1>6, ZenonT(60) DEF FirmwareTypes, Mbox!Return
<1>7. CASE UNCHANGED Mbox!device
  BY <1>7, ZenonT(60) DEF FirmwareTypes, Mbox!device
<1>8. ASSUME NEW c \in Callers,
             \/ \E k \in Mbox!Kinds : Mbox!Enter(c, k)
             \/ Mbox!Lock(c) \/ Mbox!Check(c) \/ Mbox!CopyIn(c) \/ Mbox!Send(c) \/ Mbox!ResetSend(c) \/ Mbox!Poll(c)
             \/ Mbox!GeneralEnd(c) \/ Mbox!CpuResetKick(c) \/ Mbox!WaitedEnd(c) \/ Mbox!SocEnd(c)
             \/ Mbox!UpdateEnd(c) \/ Mbox!PingEnd(c)
      PROVE  UNCHANGED Mbox!device
  BY <1>8, ZenonT(60)
     DEF Mbox!Enter, Mbox!Lock, Mbox!Check, Mbox!CopyIn, Mbox!Send, Mbox!ResetSend,
         Mbox!Poll, Mbox!GeneralEnd, Mbox!CpuResetKick, Mbox!WaitedEnd, Mbox!SocEnd,
         Mbox!UpdateEnd, Mbox!PingEnd
<1>9. CASE Mbox!LinkDown \/ Mbox!LinkUp \/ Mbox!Recovered \/ UNCHANGED Mbox!vars
  BY <1>7, <1>9, ZenonT(60) DEF Mbox!LinkDown, Mbox!LinkUp, Mbox!Recovered, Mbox!vars
<1> QED BY <1>1, <1>3, <1>4, <1>5, <1>6, <1>7, <1>8, <1>9, ZenonT(60)
           DEF Mbox!Next, Mbox!Call

\* ... and of the device and the gate.
LEMMA NextDeviceTypes == DeviceTypes /\ [Mbox!Next]_(Mbox!vars) => DeviceTypes'
<1> SUFFICES ASSUME DeviceTypes, [Mbox!Next]_(Mbox!vars) PROVE DeviceTypes'
  BY ZenonT(60)
<1>1. CASE UNCHANGED <<Mbox!gate, Mbox!state, Mbox!budget>>
  BY <1>1, ZenonT(60) DEF DeviceTypes, Mbox!gate, Mbox!state, Mbox!budget
<1>2. ASSUME NEW c \in Callers, Mbox!Lock(c) \/ Mbox!Return(c) PROVE DeviceTypes'
  BY <1>2, ZenonT(60) DEF DeviceTypes, Mbox!Lock, Mbox!Return, Mbox!gate, Mbox!state
<1>3. ASSUME NEW c \in Callers, Mbox!Check(c) PROVE DeviceTypes'
  <2>1. dlmsg_contract_seen' \in Mbox!Flag /\ seen' \in Mbox!Flag
    BY <1>3, FlagTypes, ZenonT(60) DEF DeviceTypes, Mbox!Check, Mbox!Gate
  <2> QED BY <1>3, <2>1, ZenonT(60) DEF DeviceTypes, Mbox!Check, Mbox!state, Mbox!budget
<1>4. recovery_epoch + 1 \in Nat
  <2>1. recovery_epoch \in Nat
    BY ZenonT(60) DEF DeviceTypes
  <2> QED BY <2>1, Counting, ZenonT(60)
<1>5. ASSUME NEW c \in Callers, Mbox!CpuResetKick(c) \/ Mbox!UpdateEnd(c) PROVE DeviceTypes'
  BY <1>4, <1>5, FlagTypes, ZenonT(60)
     DEF DeviceTypes, Mbox!CpuResetKick, Mbox!UpdateEnd, Mbox!Kick, Mbox!gate,
         Mbox!state, Mbox!budget
<1>6. CASE Mbox!FwReboot \/ Mbox!LinkDown
  <2>1. reboots' \in 0 .. MaxReboots
    <3>1. reboots \in 0 .. MaxReboots /\ reboots < MaxReboots /\ reboots' = reboots + 1
      BY <1>6, ZenonT(60) DEF DeviceTypes, Mbox!FwReboot, Mbox!LinkDown
    <3> QED BY <3>1, Counting, MailboxAssumption, ZenonT(60)
  <2>2. rebooted' \subseteq Callers
    BY <1>6, ZenonT(60) DEF DeviceTypes, Mbox!FwReboot, Mbox!LinkDown
  <2> QED BY <1>4, <1>6, <2>1, <2>2, ZenonT(60)
             DEF DeviceTypes, Mbox!FwReboot, Mbox!LinkDown, Mbox!gate, Mbox!state
<1>7. CASE Mbox!LinkUp \/ Mbox!Recovered
  BY <1>7, FlagTypes, ZenonT(60)
     DEF DeviceTypes, Mbox!LinkUp, Mbox!Recovered, Mbox!gate, Mbox!budget
<1>8. ASSUME NEW c \in Callers,
             \/ \E k \in Mbox!Kinds : Mbox!Enter(c, k)
             \/ Mbox!CopyIn(c) \/ Mbox!Send(c) \/ Mbox!ResetSend(c) \/ Mbox!Poll(c)
             \/ Mbox!GeneralEnd(c) \/ Mbox!WaitedEnd(c) \/ Mbox!SocEnd(c) \/ Mbox!PingEnd(c)
      PROVE  UNCHANGED <<Mbox!gate, Mbox!state, Mbox!budget>>
  BY <1>8, ZenonT(60)
     DEF Mbox!Enter, Mbox!CopyIn, Mbox!Send, Mbox!ResetSend, Mbox!Poll,
         Mbox!GeneralEnd, Mbox!WaitedEnd, Mbox!SocEnd, Mbox!PingEnd
<1>9. CASE Mbox!FwTake \/ Mbox!FwReply \/ Mbox!FwPublish \/ Mbox!FwBooted \/ UNCHANGED Mbox!vars
  BY <1>1, <1>9, ZenonT(60)
     DEF Mbox!FwTake, Mbox!FwReply, Mbox!FwPublish, Mbox!FwBooted, Mbox!vars
<1> QED BY <1>1, <1>2, <1>3, <1>5, <1>6, <1>7, <1>8, <1>9, ZenonT(60)
           DEF Mbox!Next, Mbox!Call

\* ... and so all of them.
LEMMA MailboxTypeOK == Mbox!TypeOK /\ [Mbox!Next]_(Mbox!vars) => Mbox!TypeOK'
<1> SUFFICES ASSUME Mbox!TypeOK, [Mbox!Next]_(Mbox!vars) PROVE Mbox!TypeOK'
  BY ZenonT(60)
<1>1. CallTypes /\ AreaTypes /\ FirmwareTypes /\ DeviceTypes
  BY TypesInParts, ZenonT(60)
<1>2. recovery_epoch \in Nat
  BY <1>1, ZenonT(60) DEF DeviceTypes
<1>3. CallTypes' /\ AreaTypes' /\ FirmwareTypes' /\ DeviceTypes'
  BY <1>1, <1>2, NextCallTypes, NextAreaTypes, NextFirmwareTypes, NextDeviceTypes,
     ZenonT(60)
<1>4. (Mbox!TypeOK <=> CallTypes /\ AreaTypes /\ FirmwareTypes /\ DeviceTypes)'
  BY TypesInParts, PTL
<1> QED BY <1>3, <1>4, ZenonT(60)

\* Nobody is no caller.
LEMMA NobodyApart == Mbox!Nobody \notin Callers
  BY MailboxAssumption, ZenonT(60) DEF Mbox!Nobody, Nobody

\* The state the driver finds after the probe satisfies the invariant.
LEMMA InitMailboxInv == Mbox!Init => MailboxInv
<1> SUFFICES ASSUME Mbox!Init PROVE MailboxInv
  BY ZenonT(60)
<1>1. Mbox!TypeOK
  <2>1. CallTypes
    <3>1. "idle" \in Pcs /\ "none" \in Rets /\ 0 \in Nat /\ 0 \in Mbox!Ids
      BY RecordTypes, Counting, ZenonT(60) DEF Pcs, Rets
    <3> QED BY <3>1, ZenonT(60) DEF Mbox!Init, CallTypes
  <2>2. AreaTypes
    <3>1. Mbox!Payload("none", 0) \in Mbox!Area /\ Mbox!NoCommand \in Mbox!Commands /\ 0 \in Mbox!Ids
      BY RecordTypes, ZenonT(60)
    <3> QED BY <3>1, FlagTypes, ZenonT(60) DEF Mbox!Init, AreaTypes
  <2>3. FirmwareTypes
    <3>1. [cmd |-> Mbox!NoCommand, arg |-> 0] \in [cmd : Mbox!Commands, arg : Mbox!Ids]
      BY RecordTypes, ZenonT(60)
    <3> QED BY <3>1, FlagTypes, ZenonT(60) DEF Mbox!Init, FirmwareTypes
  <2>4. DeviceTypes
    <3>1. 0 \in Nat /\ 0 \in 0 .. MaxReboots
      BY Counting, MailboxAssumption, ZenonT(60)
    <3> QED BY <3>1, FlagTypes, ZenonT(60) DEF Mbox!Init, DeviceTypes
  <2> QED BY <2>1, <2>2, <2>3, <2>4, TypesInParts, ZenonT(60)
<1>2. \A c \in Callers : pc[c] = "idle" /\ kind[c] = "none" /\ id[c] = 0 /\ ret[c] = "none"
  BY ZenonT(60) DEF Mbox!Init
<1>3. LockDiscipline
  BY <1>2, NobodyApart, ZenonT(60) DEF Mbox!Init, LockDiscipline
<1>4. LatchInv /\ StateInv
  BY ZeroOne, ZenonT(60) DEF Mbox!Init, LatchInv, StateInv
<1>5. ReplyInv
  BY <1>2, ZenonT(60) DEF ReplyInv
<1>6. data.arg = 0 /\ job.arg = 0 /\ cmd.id = 0 /\ job.cmd.id = 0
  BY Fields, ZenonT(60) DEF Mbox!Init, Mbox!NoCommand, Mbox!Payload
<1>7. IdInv
  BY <1>2, <1>6, Counting, ZenonT(60) DEF Mbox!Init, IdInv
<1>8. PongInv /\ OwnReply /\ PongIsFresh /\ BootUndisturbed
  BY <1>2, ZenonT(60) DEF PongInv, OwnReply, PongIsFresh, BootUndisturbed
<1>9. LegacyNeverBusy /\ UpdateQuarantined
  BY <1>2, ZenonT(60) DEF LegacyNeverBusy, UpdateQuarantined
<1> QED BY <1>1, <1>3, <1>4, <1>5, <1>7, <1>8, <1>9, ZenonT(60) DEF MailboxInv

\* Every step keeps msg_lock where the handlers need it.
LEMMA NextLockDiscipline == Mbox!TypeOK /\ LockDiscipline /\ [Mbox!Next]_(Mbox!vars) => LockDiscipline'
<1> SUFFICES ASSUME Mbox!TypeOK, LockDiscipline, [Mbox!Next]_(Mbox!vars) PROVE LockDiscipline'
  BY ZenonT(60)
<1>0. pc \in [Callers -> Pcs]
  BY TypesInParts, ZenonT(60) DEF CallTypes
<1>1. ASSUME NEW c \in Callers, NEW k \in Mbox!Kinds, Mbox!Enter(c, k) PROVE LockDiscipline'
  BY <1>1, <1>0, NobodyApart, ZenonT(60)
     DEF LockDiscipline, Mbox!calls, Mbox!Leave, Mbox!Enter
<1>2. ASSUME NEW c \in Callers, Mbox!Lock(c) PROVE LockDiscipline'
  BY <1>2, <1>0, NobodyApart, ZenonT(60)
     DEF LockDiscipline, Mbox!calls, Mbox!Leave, Mbox!Lock
<1>3. ASSUME NEW c \in Callers, Mbox!Check(c) PROVE LockDiscipline'
  BY <1>3, <1>0, NobodyApart, ZenonT(60)
     DEF LockDiscipline, Mbox!calls, Mbox!Leave, Mbox!Check, Mbox!Gate
<1>4. ASSUME NEW c \in Callers, Mbox!CopyIn(c) PROVE LockDiscipline'
  BY <1>4, <1>0, NobodyApart, ZenonT(60)
     DEF LockDiscipline, Mbox!calls, Mbox!Leave, Mbox!CopyIn
<1>5. ASSUME NEW c \in Callers, Mbox!Send(c) \/ Mbox!ResetSend(c) \/ Mbox!Poll(c) PROVE LockDiscipline'
  <2>1. CASE Mbox!Send(c)
    BY <2>1, <1>0, ZenonT(60) DEF LockDiscipline, Mbox!Send
  <2>2. CASE Mbox!ResetSend(c)
    BY <2>2, <1>0, NobodyApart, ZenonT(60)
       DEF LockDiscipline, Mbox!Leave, Mbox!ResetSend
  <2>3. CASE Mbox!Poll(c)
    BY <2>3, <1>0, ZenonT(60) DEF LockDiscipline, Mbox!Poll
  <2> QED BY <1>5, <2>1, <2>2, <2>3, ZenonT(60)
<1>6. ASSUME NEW c \in Callers, Mbox!GeneralEnd(c) \/ Mbox!CpuResetKick(c) PROVE LockDiscipline'
  <2>1. CASE Mbox!GeneralEnd(c)
    BY <2>1, <1>0, NobodyApart, ZenonT(60)
       DEF LockDiscipline, Mbox!calls, Mbox!Leave, Mbox!GeneralEnd
  <2>2. CASE Mbox!CpuResetKick(c)
    BY <2>2, <1>0, NobodyApart, ZenonT(60)
       DEF LockDiscipline, Mbox!calls, Mbox!Leave, Mbox!CpuResetKick
  <2> QED BY ZenonT(60), <1>6, <2>1, <2>2
<1>7. ASSUME NEW c \in Callers, Mbox!WaitedEnd(c) \/ Mbox!SocEnd(c) \/ Mbox!PingEnd(c) PROVE LockDiscipline'
  BY <1>7, <1>0, NobodyApart, ZenonT(60)
     DEF LockDiscipline, Mbox!calls, Mbox!Leave, Mbox!WaitedEnd, Mbox!SocEnd,
         Mbox!PingEnd
<1>8. ASSUME NEW c \in Callers, Mbox!UpdateEnd(c) \/ Mbox!Return(c) PROVE LockDiscipline'
  <2>1. CASE Mbox!UpdateEnd(c)
    BY <2>1, <1>0, NobodyApart, ZenonT(60)
       DEF LockDiscipline, Mbox!calls, Mbox!Leave, Mbox!UpdateEnd
  <2>2. CASE Mbox!Return(c)
    BY <2>2, <1>0, NobodyApart, ZenonT(60)
       DEF LockDiscipline, Mbox!calls, Mbox!Leave, Mbox!Return
  <2> QED BY ZenonT(60), <1>8, <2>1, <2>2
<1>9. CASE Mbox!FwTake \/ Mbox!FwReply \/ Mbox!FwReboot \/ Mbox!FwPublish \/ Mbox!FwBooted
  BY <1>9, <1>0, NobodyApart, ZenonT(60)
     DEF LockDiscipline, Mbox!calls, Mbox!Leave, Mbox!FwTake, Mbox!FwReply,
         Mbox!FwReboot, Mbox!FwPublish, Mbox!FwBooted
<1>10. CASE Mbox!LinkDown \/ Mbox!LinkUp \/ Mbox!Recovered \/ UNCHANGED Mbox!vars
  BY <1>10, <1>0, NobodyApart, ZenonT(60)
     DEF LockDiscipline, Mbox!calls, Mbox!Leave, Mbox!LinkDown, Mbox!LinkUp,
         Mbox!Recovered, Mbox!vars
<1> QED
  BY ZenonT(60), <1>1, <1>2, <1>3, <1>4, <1>5, <1>6, <1>7, <1>8, <1>9, <1>10
     DEF Mbox!Next, Mbox!Call

\* What keeps commands from a firmware that boots or is about to.
GateInv ==
  LatchInv /\ StateInv /\ BootUndisturbed /\ LegacyNeverBusy /\ UpdateQuarantined

\* A call that neither passes the gate nor starts a recovery leaves both as they are.
LEMMA GateOfCalls ==
  ASSUME NEW c \in Callers, GateInv,
         UNCHANGED <<fw, ready, valid, spoke, seen, dlmsg_contract_seen, dev_state, quarantine>>,
         \A d \in Callers : d # c => /\ pc'[d] = pc[d] /\ kind'[d] = kind[d] /\ ret'[d] = ret[d]
                                     /\ d \in rebooted => d \in rebooted',
         pc'[c] \in {"copy", "send"} =>
           /\ pc[c] \in {"copy", "send"} /\ kind'[c] = kind[c]
           /\ c \in rebooted => c \in rebooted',
         ret'[c] = "busy" => ret[c] = "busy"
  PROVE  GateInv'
<1>1. LatchInv' /\ StateInv'
  BY ZenonT(60) DEF GateInv, LatchInv, StateInv
<1>2. BootUndisturbed'
  BY ZenonT(60) DEF GateInv, BootUndisturbed, Mbox!Gated, Gated, Mbox!Checked, Checked
<1>3. LegacyNeverBusy' /\ UpdateQuarantined'
  BY ZenonT(60) DEF GateInv, LegacyNeverBusy, UpdateQuarantined, Mbox!Checked, Checked
<1> QED BY ZenonT(60), <1>1, <1>2, <1>3 DEF GateInv

\* The checks let a command through to a device that is ready and a firmware that
\* has said so, if it ever did.
LEMMA GateOfCheck ==
  ASSUME Mbox!TypeOK, LockDiscipline, GateInv, NEW c \in Callers, Mbox!Check(c)
  PROVE  GateInv'
<1>1. UNCHANGED <<kind, fw, ready, valid, spoke, dev_state, quarantine, rebooted>> /\ pc[c] = "check"
  BY ZenonT(60) DEF Mbox!Check, Mbox!device, Mbox!state, Mbox!budget
<1>2. /\ pc \in [Callers -> {"idle", "lock", "check", "copy", "send", "poll", "end", "kick", "done"}]
      /\ ret \in [Callers -> {"none", "ok", "busy", "error"}] /\ valid \in {0, 1}
  BY ZenonT(60) DEF Mbox!TypeOK, Mbox!Flag
<1>3. \A d \in Callers : d # c => pc'[d] = pc[d] /\ ret'[d] = ret[d]
  BY ZenonT(60), <1>2 DEF Mbox!Check, Mbox!Gate, Mbox!Leave
<1>4. CASE UNCHANGED <<seen, dlmsg_contract_seen>> /\ pc'[c] = "done" /\ ret'[c] = "error"
  BY ZenonT(60), <1>1, <1>3, <1>4, GateOfCalls
<1>5. msg_lock = c /\ \A d \in Callers : d # c => pc[d] \notin {"copy", "send"}
  BY ZenonT(60), <1>1 DEF LockDiscipline
<1>6. CASE /\ UNCHANGED <<seen, dlmsg_contract_seen, ret>>
           /\ kind[c] \in {"query", "reset", "ping"} \union Mbox!Updates
  <2>1. kind[c] \notin Mbox!Gated /\ kind[c] \notin Mbox!Checked
    BY ZenonT(60), <1>6 DEF Mbox!Gated, Gated, Mbox!Checked, Checked, Mbox!Updates
  <2>2. LatchInv' /\ StateInv' /\ LegacyNeverBusy'
    BY ZenonT(60), <1>1, <1>6 DEF GateInv, LatchInv, StateInv, LegacyNeverBusy
  <2>3. BootUndisturbed' /\ UpdateQuarantined'
    BY ZenonT(60), <1>1, <1>3, <1>5, <2>1
       DEF BootUndisturbed, UpdateQuarantined, Mbox!Gated, Gated, Mbox!Checked, Checked
  <2> QED BY ZenonT(60), <2>2, <2>3 DEF GateInv
<1>7. CASE /\ kind[c] \in Mbox!Checked => dev_state = "ready"
           /\ \/ valid = 1 /\ seen' = 1 /\ dlmsg_contract_seen' = 1
              \/ valid # 1 /\ UNCHANGED <<seen, dlmsg_contract_seen>>
           /\ \/ (dlmsg_contract_seen' = 0 \/ ready = 1) /\ UNCHANGED ret
              \/ dlmsg_contract_seen' # 0 /\ pc'[c] = "done"
  <2>1. 0 # 1
    BY ZeroOne, ZenonT(60)
  <2>2. LatchInv' /\ StateInv'
    BY ZenonT(60), <1>1, <1>7, <2>1 DEF GateInv, LatchInv, StateInv
  <2>3. LegacyNeverBusy'
    BY ZenonT(60), <1>1, <1>7, <2>1, <2>2 DEF GateInv, LatchInv, LegacyNeverBusy
  <2>4. BootUndisturbed'
    BY ZenonT(60), <1>1, <1>3, <1>5, <1>7, <2>1, <2>2
       DEF LatchInv, BootUndisturbed, Mbox!Gated, Gated, Mbox!Checked, Checked
  <2>5. UpdateQuarantined'
    BY ZenonT(60), <1>1, <1>3, <1>5, <1>7
       DEF GateInv, StateInv, UpdateQuarantined, Mbox!Checked, Checked
  <2> QED BY ZenonT(60), <2>2, <2>3, <2>4, <2>5 DEF GateInv
<1> QED
  <2>1. CASE kind[c] \in Mbox!Checked /\ dev_state # "ready" /\ Mbox!Leave(c, "error")
             /\ UNCHANGED <<dlmsg_contract_seen, seen>>
    BY ZenonT(60), <1>2, <1>4, <2>1 DEF Mbox!Leave
  <2>2. CASE /\ kind[c] \in Mbox!Checked => dev_state = "ready"
             /\ dlmsg_contract_seen' = (IF valid = 1 THEN 1 ELSE dlmsg_contract_seen)
             /\ seen' = IF valid = 1 THEN 1 ELSE seen
             /\ IF dlmsg_contract_seen' = 0 \/ ready = 1 THEN UNCHANGED ret
                                                        ELSE Mbox!Leave(c, "busy")
    BY ZenonT(60), <1>2, <1>7, <2>2 DEF Mbox!Leave
  <2>3. CASE kind[c] \in {"query", "reset"} \union Mbox!Updates /\ UNCHANGED <<ret, dlmsg_contract_seen, seen>>
    BY ZenonT(60), <1>6, <2>3
  <2>4. CASE /\ kind[c] = "ping" /\ UNCHANGED <<dlmsg_contract_seen, seen>>
             /\ UNCHANGED ret \/ Mbox!Leave(c, "error")
    BY ZenonT(60), <1>2, <1>4, <1>6, <2>4 DEF Mbox!Leave
  <2> QED BY ZenonT(60), <2>1, <2>2, <2>3, <2>4 DEF Mbox!Check, Mbox!Gate

\* Every step keeps the gate and the quarantine.
LEMMA NextGateInv == Mbox!TypeOK /\ LockDiscipline /\ GateInv /\ [Mbox!Next]_(Mbox!vars) => GateInv'
<1> SUFFICES ASSUME Mbox!TypeOK, LockDiscipline, GateInv, [Mbox!Next]_(Mbox!vars) PROVE GateInv'
  BY ZenonT(60)
<1>1. /\ pc \in [Callers -> {"idle", "lock", "check", "copy", "send", "poll", "end", "kick", "done"}]
      /\ kind \in [Callers -> Mbox!Kinds \union {"none"}]
      /\ ret \in [Callers -> {"none", "ok", "busy", "error"}]
  BY ZenonT(60) DEF Mbox!TypeOK
<1>2. 0 # 1
  BY ZeroOne, ZenonT(60)
<1>3. ASSUME NEW c \in Callers, (\E k \in Mbox!Kinds : Mbox!Enter(c, k)) \/ Mbox!Lock(c) \/ Mbox!Return(c) PROVE GateInv'
  <2>1. UNCHANGED <<fw, ready, valid, spoke, seen, dlmsg_contract_seen, dev_state, quarantine>>
    BY ZenonT(60), <1>3
       DEF Mbox!Enter, Mbox!Lock, Mbox!Return, Mbox!device, Mbox!gate, Mbox!state
  <2>2. /\ \A d \in Callers : d # c => /\ pc'[d] = pc[d] /\ kind'[d] = kind[d] /\ ret'[d] = ret[d]
                                       /\ d \in rebooted => d \in rebooted'
        /\ pc'[c] \notin {"copy", "send"} /\ (ret'[c] = "busy" => ret[c] = "busy")
    BY ZenonT(60), <1>1, <1>3 DEF Mbox!Enter, Mbox!Lock, Mbox!Return, Mbox!budget
  <2> QED BY ZenonT(60), <2>1, <2>2, GateOfCalls
<1>4. ASSUME NEW c \in Callers, Mbox!CopyIn(c) \/ Mbox!Send(c) \/ Mbox!ResetSend(c) \/ Mbox!Poll(c) PROVE GateInv'
  <2>1. UNCHANGED <<fw, ready, valid, spoke, seen, dlmsg_contract_seen, dev_state, quarantine, kind, rebooted>>
    BY ZenonT(60), <1>4
       DEF Mbox!CopyIn, Mbox!Send, Mbox!ResetSend, Mbox!Poll, Mbox!device, Mbox!gate,
           Mbox!state, Mbox!budget
  <2>2. /\ \A d \in Callers : d # c => pc'[d] = pc[d] /\ ret'[d] = ret[d]
        /\ pc'[c] \in {"copy", "send"} => pc[c] \in {"copy", "send"}
        /\ ret'[c] = "busy" => ret[c] = "busy"
    BY ZenonT(60), <1>1, <1>4
       DEF Mbox!CopyIn, Mbox!Send, Mbox!ResetSend, Mbox!Poll, Mbox!Leave
  <2> QED BY ZenonT(60), <2>1, <2>2, GateOfCalls
<1>5. ASSUME NEW c \in Callers, Mbox!GeneralEnd(c) \/ Mbox!WaitedEnd(c) \/ Mbox!SocEnd(c) \/ Mbox!PingEnd(c) PROVE GateInv'
  <2>1. UNCHANGED <<fw, ready, valid, spoke, seen, dlmsg_contract_seen, dev_state, quarantine, kind, rebooted>>
    BY ZenonT(60), <1>5
       DEF Mbox!GeneralEnd, Mbox!WaitedEnd, Mbox!SocEnd, Mbox!PingEnd, Mbox!device,
           Mbox!gate, Mbox!state, Mbox!budget
  <2>2. /\ \A d \in Callers : d # c => pc'[d] = pc[d] /\ ret'[d] = ret[d]
        /\ pc'[c] \notin {"copy", "send"}
        /\ ret'[c] = "busy" => ret[c] = "busy"
    BY ZenonT(60), <1>1, <1>5
       DEF Mbox!GeneralEnd, Mbox!WaitedEnd, Mbox!SocEnd, Mbox!PingEnd, Mbox!Leave
  <2> QED BY ZenonT(60), <2>1, <2>2, GateOfCalls
<1>6. ASSUME NEW c \in Callers, Mbox!CpuResetKick(c) \/ Mbox!UpdateEnd(c) PROVE GateInv'
  <2>1. UNCHANGED <<fw, ready, valid, spoke, kind, rebooted>> /\ pc'[c] \notin {"copy", "send"}
    BY ZenonT(60), <1>1, <1>6
       DEF Mbox!CpuResetKick, Mbox!UpdateEnd, Mbox!Leave, Mbox!device, Mbox!budget
  <2>2. \A d \in Callers : d # c => pc'[d] = pc[d] /\ ret'[d] = ret[d]
    BY ZenonT(60), <1>1, <1>6 DEF Mbox!CpuResetKick, Mbox!UpdateEnd, Mbox!Leave
  <2>3. /\ ret'[c] = "busy" => ret[c] = "busy"
        /\ \/ UNCHANGED <<seen, dlmsg_contract_seen>>
           \/ seen' = 0 /\ dlmsg_contract_seen' = 0
    BY ZenonT(60), <1>1, <1>6
       DEF Mbox!CpuResetKick, Mbox!UpdateEnd, Mbox!Leave, Mbox!gate
  <2>4. LatchInv' /\ LegacyNeverBusy'
    BY ZenonT(60), <1>2, <2>1, <2>2, <2>3 DEF GateInv, LatchInv, LegacyNeverBusy
  <2>5. StateInv'
    BY ZenonT(60), <1>6
       DEF Mbox!CpuResetKick, Mbox!UpdateEnd, Mbox!Kick, GateInv, StateInv, Mbox!state
  <2>6. BootUndisturbed'
    BY ZenonT(60), <1>2, <2>1, <2>2, <2>3
       DEF GateInv, BootUndisturbed, Mbox!Gated, Gated, Mbox!Checked, Checked
  <2>7. UpdateQuarantined'
    <3>1. UNCHANGED quarantine \/ pc[c] = "end"
      BY ZenonT(60), <1>6 DEF Mbox!CpuResetKick, Mbox!UpdateEnd
    <3>2. pc[c] = "end" => \A d \in Callers : d # c => pc[d] \notin {"copy", "send"}
      BY ZenonT(60) DEF LockDiscipline
    <3> QED BY ZenonT(60), <2>1, <2>2, <3>1, <3>2
               DEF GateInv, UpdateQuarantined, Mbox!Checked, Checked
  <2> QED BY ZenonT(60), <2>4, <2>5, <2>6, <2>7 DEF GateInv
<1>7. CASE Mbox!FwTake \/ Mbox!FwReply \/ Mbox!FwReboot \/ Mbox!FwPublish \/ Mbox!FwBooted
  <2>1. UNCHANGED <<msg_lock, pc, kind, ret, seen, dlmsg_contract_seen, dev_state, quarantine>>
    BY ZenonT(60), <1>7
       DEF Mbox!FwTake, Mbox!FwReply, Mbox!FwReboot, Mbox!FwPublish, Mbox!FwBooted,
           Mbox!calls, Mbox!gate, Mbox!state
  <2>2. /\ UNCHANGED <<valid, spoke>> \/ (UNCHANGED spoke /\ valid' = 0) \/ spoke' = 1
        /\ fw' = "boot" => ready' = 0
    BY ZenonT(60), <1>7
       DEF Mbox!FwTake, Mbox!FwReply, Mbox!FwReboot, Mbox!FwPublish, Mbox!FwBooted,
           GateInv, LatchInv
  <2>3. fw' = "boot" => \/ fw = "boot" /\ UNCHANGED rebooted
                        \/ \A d \in Callers : msg_lock = d => d \in rebooted'
    BY ZenonT(60), <1>7
       DEF Mbox!FwTake, Mbox!FwReply, Mbox!FwReboot, Mbox!FwPublish, Mbox!FwBooted,
           Mbox!budget
  <2>4. LatchInv' /\ StateInv' /\ LegacyNeverBusy'
    BY ZenonT(60), <1>2, <2>1, <2>2 DEF GateInv, LatchInv, StateInv, LegacyNeverBusy
  <2>5. BootUndisturbed'
    BY ZenonT(60), <2>1, <2>3
       DEF GateInv, LockDiscipline, BootUndisturbed, Mbox!Gated, Gated, Mbox!Checked,
           Checked
  <2>6. UpdateQuarantined'
    BY ZenonT(60), <2>1 DEF GateInv, UpdateQuarantined, Mbox!Checked, Checked
  <2> QED BY ZenonT(60), <2>4, <2>5, <2>6 DEF GateInv
<1>8. CASE Mbox!LinkDown \/ Mbox!LinkUp \/ Mbox!Recovered \/ UNCHANGED Mbox!vars
  <2>1. UNCHANGED <<pc, kind, ret, fw, ready, valid, spoke, seen, dlmsg_contract_seen, rebooted>>
    BY ZenonT(60), <1>8
       DEF Mbox!LinkDown, Mbox!LinkUp, Mbox!Recovered, Mbox!vars, Mbox!calls,
           Mbox!device, Mbox!gate, Mbox!budget
  <2>2. quarantine' = 1 => quarantine = 1 /\ (dev_state' = dev_state \/ dev_state' # "ready")
    BY ZenonT(60), <1>2, <1>8
       DEF Mbox!LinkDown, Mbox!LinkUp, Mbox!Recovered, Mbox!vars, Mbox!state
  <2>3. LatchInv' /\ BootUndisturbed' /\ LegacyNeverBusy'
    BY ZenonT(60), <2>1
       DEF GateInv, LatchInv, BootUndisturbed, LegacyNeverBusy, Mbox!Gated, Gated,
           Mbox!Checked, Checked
  <2>4. StateInv' /\ UpdateQuarantined'
    BY ZenonT(60), <2>1, <2>2
       DEF GateInv, StateInv, UpdateQuarantined, Mbox!Checked, Checked
  <2> QED BY ZenonT(60), <2>3, <2>4 DEF GateInv
<1> QED BY ZenonT(60), <1>3, <1>4, <1>5, <1>6, <1>7, <1>8, GateOfCheck
           DEF Mbox!Next, Mbox!Call

\* Whose reply is whose.
AnswerInv == IdInv /\ PongInv /\ ReplyInv /\ OwnReply /\ PongIsFresh

\* A step that touches neither a call nor what it waits for keeps the replies apart.
LEMMA AnswersRest ==
  ASSUME AnswerInv,
         UNCHANGED <<pc, kind, id, ret, commands, owed, cmd, ack, acked, data, bell, fw, job,
                     echoed>>
  PROVE  AnswerInv'
BY ZenonT(60) DEF AnswerInv, IdInv, PongInv, ReplyInv, OwnReply, PongIsFresh

\* So does a call that gives msg_lock back.
LEMMA AnswersOfLeaving ==
  ASSUME NEW c \in Callers, AnswerInv,
         UNCHANGED <<kind, id, commands, owed, cmd, ack, acked, data, bell, fw, job, echoed>>,
         \A d \in Callers : d # c => pc'[d] = pc[d] /\ ret'[d] = ret[d],
         pc[c] # "idle", pc'[c] \in {"done", "kick"},
         pc'[c] = "kick" => kind[c] # "ping",
         pc'[c] = "done" /\ kind[c] = "ping" /\ ret'[c] = "ok" => id[c] \in echoed
  PROVE  AnswerInv'
<1>1. IdInv' /\ PongInv'
  BY ZenonT(60) DEF AnswerInv, IdInv, PongInv
<1>2. ReplyInv'
  BY ZenonT(60) DEF AnswerInv, ReplyInv
<1>3. OwnReply' /\ PongIsFresh'
  BY ZenonT(60) DEF AnswerInv, OwnReply, PongIsFresh
<1> QED BY ZenonT(60), <1>1, <1>2, <1>3 DEF AnswerInv

\* A call that enters gets a number no other has.
LEMMA AnswersOfEntering ==
  ASSUME Mbox!TypeOK, AnswerInv, MailboxAssumption, NEW c \in Callers, NEW k \in Mbox!Kinds, Mbox!Enter(c, k)
  PROVE  AnswerInv'
<1>1. /\ UNCHANGED <<ret, owed, cmd, ack, acked, data, bell, fw, job, echoed>>
      /\ commands' = commands + 1
  BY ZenonT(60) DEF Mbox!Enter, Mbox!header, Mbox!device
<1>2. /\ pc \in [Callers -> {"idle", "lock", "check", "copy", "send", "poll", "end", "kick", "done"}]
      /\ kind \in [Callers -> Mbox!Kinds \union {"none"}] /\ id \in [Callers -> Mbox!Ids]
  BY ZenonT(60) DEF Mbox!TypeOK
<1>3. /\ pc'[c] = "lock" /\ id'[c] = commands + 1
      /\ \A d \in Callers : d # c => pc'[d] = pc[d] /\ kind'[d] = kind[d] /\ id'[d] = id[d]
  BY ZenonT(60), <1>2 DEF Mbox!Enter
<1>4. IdInv
  BY ZenonT(60) DEF AnswerInv
<1>5. commands \in Nat /\ data.arg \in Nat /\ job.arg \in Nat /\ cmd.id \in Nat /\ job.cmd.id \in Nat
  <2>1. \A n \in Mbox!Ids : n \in Nat
    BY Counting, MailboxAssumption, ZenonT(60) DEF Mbox!Ids
  <2>2. cmd \in Mbox!Commands /\ data \in Mbox!Area /\ job \in [cmd : Mbox!Commands, arg : Mbox!Ids] /\ commands \in Mbox!Ids
    BY ZenonT(60) DEF Mbox!TypeOK
  <2> QED BY <2>1, <2>2, RecordTypes, ZenonT(60)
<1>6. \A d \in Callers : id[d] \in Nat
  BY <1>2, Counting, MailboxAssumption, ZenonT(60) DEF Mbox!Ids
<1>7. IdInv'
  <2>1. /\ data'.arg <= commands' /\ job'.arg <= commands'
        /\ cmd'.id <= commands' /\ job'.cmd.id <= commands'
    BY <1>1, <1>4, <1>5, Counting, ZenonT(60) DEF IdInv
  <2>2. \A d \in Callers : id'[d] <= commands' /\ (pc'[d] # "idle" => id'[d] # 0)
    <3> TAKE d \in Callers
    <3>1. CASE d = c
      BY <1>1, <1>3, <1>5, <3>1, Counting, ZenonT(60)
    <3>2. CASE d # c
      BY <1>1, <1>3, <1>4, <1>5, <1>6, <3>2, Counting, ZenonT(60) DEF IdInv
    <3> QED BY <3>1, <3>2, ZenonT(60)
  <2>3. \A d \in Callers : d # c => id'[d] # id'[c]
    BY <1>3, <1>4, <1>5, <1>6, Counting, ZenonT(60) DEF IdInv
  <2>4. \A d, e \in Callers : id'[d] # 0 /\ id'[d] = id'[e] => d = e
    <3> TAKE d, e \in Callers
    <3>1. CASE d = c \/ e = c
      BY <2>3, <3>1, ZenonT(60)
    <3>2. CASE d # c /\ e # c
      BY <1>3, <1>4, <3>2, ZenonT(60) DEF IdInv
    <3> QED BY <3>1, <3>2, ZenonT(60)
  <2>5. \A d \in Callers : pc'[d] = "kick" => kind'[d] # "ping"
    BY <1>3, <1>4, ZenonT(60) DEF IdInv
  <2> QED BY <2>1, <2>2, <2>4, <2>5, ZenonT(60) DEF IdInv
<1>8. id'[c] # data.arg
  BY <1>3, <1>4, <1>5, Counting, ZenonT(60) DEF IdInv
<1>9. PongInv' /\ ReplyInv'
  BY ZenonT(60), <1>1, <1>3, <1>8 DEF AnswerInv, PongInv, ReplyInv
<1>10. OwnReply' /\ PongIsFresh'
  BY ZenonT(60), <1>1, <1>3 DEF AnswerInv, OwnReply, PongIsFresh
<1> QED BY ZenonT(60), <1>7, <1>9, <1>10 DEF AnswerInv

\* What a call writes into the mailbox is its own, and nobody else waits.
LEMMA AnswersOfWriting ==
  ASSUME NEW c \in Callers, AnswerInv, LockDiscipline, pc[c] \in {"check", "copy", "send"},
         UNCHANGED <<kind, id, commands, owed, fw, job, echoed>>,
         \A d \in Callers : d # c => pc'[d] = pc[d] /\ ret'[d] = ret[d],
         \/ pc'[c] \in {"copy", "send"} /\ UNCHANGED <<cmd, ack, acked, bell>>
         \/ pc'[c] = "done" /\ ret'[c] # "ok" /\ UNCHANGED <<cmd, ack, acked, bell>>
         \/ pc'[c] = "poll" /\ cmd'.id = id[c] /\ ack' # 1
         \/ pc'[c] = "done" /\ kind[c] # "ping" /\ cmd'.id = id[c] /\ ack' # 1,
         \/ UNCHANGED data
         \/ data'.by = "host" /\ data'.arg = id[c]
  PROVE  AnswerInv'
<1>1. "host" # "fw"
  BY ZenonT(60)
<1>2. msg_lock = c /\ \A d \in Callers : d # c =>
        pc[d] \notin {"check", "copy", "send", "poll", "end"}
  BY ZenonT(60) DEF LockDiscipline
<1>3. IdInv'
  BY ZenonT(60) DEF AnswerInv, IdInv
<1>4. PongInv'
  BY ZenonT(60), <1>1 DEF AnswerInv, PongInv
<1>5. ReplyInv'
  BY ZenonT(60), <1>2 DEF AnswerInv, ReplyInv
<1>6. OwnReply' /\ PongIsFresh'
  BY ZenonT(60), <1>2 DEF AnswerInv, OwnReply, PongIsFresh
<1> QED BY ZenonT(60), <1>3, <1>4, <1>5, <1>6 DEF AnswerInv

\* A call takes msg_lock, finds the ack or gives up, or returns.
LEMMA AnswersOfWaiting ==
  ASSUME Mbox!TypeOK, AnswerInv, MailboxAssumption, NEW c \in Callers,
         Mbox!Lock(c) \/ Mbox!Poll(c) \/ Mbox!Return(c)
  PROVE  AnswerInv'
<1>1. UNCHANGED <<commands, cmd, ack, acked, data, bell, fw, job>>
  BY ZenonT(60) DEF Mbox!Lock, Mbox!Poll, Mbox!Return, Mbox!header, Mbox!device
<1>2. /\ pc \in [Callers -> {"idle", "lock", "check", "copy", "send", "poll", "end", "kick", "done"}]
      /\ kind \in [Callers -> Mbox!Kinds \union {"none"}] /\ id \in [Callers -> Mbox!Ids]
      /\ ret \in [Callers -> {"none", "ok", "busy", "error"}] /\ bell \in {0, 1}
  BY ZenonT(60) DEF Mbox!TypeOK, Mbox!Flag
<1>3. CASE Mbox!Lock(c)
  <2>1. UNCHANGED <<kind, id, ret, echoed>> /\ pc[c] = "lock"
    BY ZenonT(60), <1>3 DEF Mbox!Lock, Mbox!device
  <2>2. pc'[c] = "check" /\ \A d \in Callers : d # c => pc'[d] = pc[d]
    BY ZenonT(60), <1>2, <1>3 DEF Mbox!Lock
  <2>3. /\ \A d \in Callers : d # c => (d \in owed' <=> d \in owed)
        /\ c \notin owed' => fw # "busy" /\ bell = 0
    BY ZenonT(60), <1>2, <1>3 DEF Mbox!Lock
  <2>4. IdInv' /\ PongInv'
    BY ZenonT(60), <1>1, <2>1, <2>2 DEF AnswerInv, IdInv, PongInv
  <2>5. ReplyInv'
    BY ZenonT(60), <1>1, <2>1, <2>2, <2>3 DEF AnswerInv, ReplyInv
  <2>6. OwnReply' /\ PongIsFresh'
    BY ZenonT(60), <1>1, <2>1, <2>2, <2>3 DEF AnswerInv, OwnReply, PongIsFresh
  <2> QED BY ZenonT(60), <2>4, <2>5, <2>6 DEF AnswerInv
<1>4. CASE Mbox!Poll(c)
  <2>1. UNCHANGED <<kind, id, owed, echoed>> /\ pc[c] = "poll"
    BY ZenonT(60), <1>4 DEF Mbox!Poll, Mbox!device
  <2>2. pc'[c] = "end" /\ \A d \in Callers : d # c => pc'[d] = pc[d] /\ ret'[d] = ret[d]
    BY ZenonT(60), <1>2, <1>4 DEF Mbox!Poll
  <2>3. ret'[c] = "ok" => ack = 1
    BY <1>2, <1>4, ZenonT(60) DEF Mbox!Poll
  <2>4. IdInv' /\ PongInv'
    BY ZenonT(60), <1>1, <2>1, <2>2 DEF AnswerInv, IdInv, PongInv
  <2>5. ReplyInv'
    BY ZenonT(60), <1>1, <2>1, <2>2 DEF AnswerInv, ReplyInv
  <2>6. OwnReply' /\ PongIsFresh'
    BY ZenonT(60), <1>1, <2>1, <2>2, <2>3 DEF AnswerInv, ReplyInv, OwnReply, PongIsFresh
  <2> QED BY ZenonT(60), <2>4, <2>5, <2>6 DEF AnswerInv
<1>5. CASE Mbox!Return(c)
  <2>1. pc'[c] = "idle" /\ id'[c] = 0 /\ owed' = owed \ {c} /\ echoed' = echoed \ {id[c]}
    BY ZenonT(60), <1>2, <1>5 DEF Mbox!Return
  <2>2. \A d \in Callers : d # c => /\ pc'[d] = pc[d] /\ kind'[d] = kind[d]
                                    /\ id'[d] = id[d] /\ ret'[d] = ret[d]
    BY ZenonT(60), <1>2, <1>5 DEF Mbox!Return
  <2>3. 0 <= commands
    BY Counting, MailboxAssumption, ZenonT(60) DEF Mbox!TypeOK, Mbox!Ids
  <2>4. IdInv' /\ PongInv'
    <3>. IdInv
      BY ZenonT(60) DEF AnswerInv
    <3>1. IdInv'
      <4>1. \A d \in Callers : id'[d] <= commands /\ (pc'[d] # "idle" => id'[d] # 0)
        BY ZenonT(60), <2>1, <2>2, <2>3 DEF IdInv
      <4>2. \A d, e \in Callers : id'[d] # 0 /\ id'[d] = id'[e] => d = e
        <5> TAKE d, e \in Callers
        <5>1. CASE d = c \/ e = c
          BY ZenonT(60), <2>1, <2>2, <5>1
        <5>2. CASE d # c /\ e # c
          BY ZenonT(60), <2>2, <5>2 DEF IdInv
        <5> QED BY ZenonT(60), <5>1, <5>2
      <4>3. \A d \in Callers : pc'[d] = "kick" => kind'[d] # "ping"
        BY ZenonT(60), <2>1, <2>2 DEF IdInv
      <4> QED BY ZenonT(60), <1>1, <4>1, <4>2, <4>3 DEF IdInv
    <3>2. PongInv'
      BY ZenonT(60), <1>1, <2>1, <2>2 DEF AnswerInv, IdInv, PongInv
    <3> QED BY ZenonT(60), <3>1, <3>2
  <2>5. ReplyInv'
    BY ZenonT(60), <1>1, <2>1, <2>2 DEF AnswerInv, ReplyInv
  <2>6. OwnReply' /\ PongIsFresh'
    BY ZenonT(60), <1>1, <2>1, <2>2 DEF AnswerInv, IdInv, OwnReply, PongIsFresh
  <2> QED BY ZenonT(60), <2>4, <2>5, <2>6 DEF AnswerInv
<1> QED BY ZenonT(60), <1>3, <1>4, <1>5

\* The firmware takes the command of the call that waits, and answers it.
LEMMA AnswersOfFirmware ==
  ASSUME Mbox!TypeOK, AnswerInv, MailboxAssumption, Mbox!FwTake \/ Mbox!FwReply \/ Mbox!FwReboot \/ Mbox!FwBooted
  PROVE  AnswerInv'
<1>1. UNCHANGED <<pc, kind, id, ret, commands, owed, cmd>>
  BY ZenonT(60)
     DEF Mbox!FwTake, Mbox!FwReply, Mbox!FwReboot, Mbox!FwBooted, Mbox!calls,
         Mbox!header
<1>2. 0 <= commands /\ 0 # 1
  BY Counting, ZeroOne, MailboxAssumption, ZenonT(60) DEF Mbox!TypeOK, Mbox!Ids
<1>3. CASE Mbox!FwTake
  <2>1. /\ UNCHANGED <<ack, acked, data, echoed>> /\ bell = 1 /\ bell' = 0
        /\ job'.cmd = cmd /\ job'.arg = data.arg
    BY Fields, ZenonT(60), <1>3 DEF Mbox!FwTake, Mbox!header
  <2>2. IdInv' /\ PongInv'
    BY ZenonT(60), <1>1, <2>1 DEF AnswerInv, IdInv, PongInv
  <2>3. ReplyInv'
    BY ZenonT(60), <1>1, <1>2, <2>1 DEF AnswerInv, ReplyInv
  <2>4. OwnReply' /\ PongIsFresh'
    BY ZenonT(60), <1>1, <2>1 DEF AnswerInv, OwnReply, PongIsFresh
  <2> QED BY ZenonT(60), <2>2, <2>3, <2>4 DEF AnswerInv
<1>4. CASE Mbox!FwReply
  <2>1. /\ UNCHANGED bell /\ fw = "busy" /\ fw' = "idle" /\ acked' = job.cmd.id
        /\ job'.cmd.id = 0 /\ job'.arg = 0
    BY Fields, ZenonT(60), <1>4 DEF Mbox!FwReply, Mbox!NoCommand
  <2>2. \/ UNCHANGED data
        \/ data'.kind = "ping" /\ data'.arg = job.arg /\ job.cmd.kind = "ping"
        \/ data'.kind # "ping" /\ data'.arg = job.cmd.id
    <3>1. \/ UNCHANGED data
          \/ job.cmd.kind = "ping" /\ IsCell(data', "fw", "ping", job.arg)
          \/ job.cmd.kind # "ping" /\ IsCell(data', "fw", job.cmd.kind, job.cmd.id)
      <4>1. CASE job.cmd.kind = "ping"
        BY <1>4, <4>1, ZenonT(60) DEF Mbox!FwReply, IsCell
      <4>2. CASE job.cmd.kind # "ping"
        BY <1>4, <4>2, ZenonT(60) DEF Mbox!FwReply, IsCell
      <4> QED BY <4>1, <4>2, ZenonT(60)
    <3>2. IsCell(data', "fw", "ping", job.arg) => data'.kind = "ping" /\ data'.arg = job.arg
      BY Fields, ZenonT(60)
    <3>3. IsCell(data', "fw", job.cmd.kind, job.cmd.id) =>
            data'.kind = job.cmd.kind /\ data'.arg = job.cmd.id
      BY Fields, ZenonT(60)
    <3> QED BY <3>1, <3>2, <3>3, ZenonT(60)
  <2>3. /\ \A n \in echoed : n \in echoed'
        /\ \A c \in Callers : job.cmd.kind = "ping" /\ id[c] = job.arg => id[c] \in echoed'
    BY ZenonT(60), <1>4 DEF Mbox!FwReply
  <2>4. IdInv'
    BY ZenonT(60), <1>1, <1>2, <2>1, <2>2 DEF AnswerInv, IdInv
  <2>5. PongInv'
    BY ZenonT(60), <1>1, <2>2, <2>3 DEF AnswerInv, PongInv
  <2>6. ReplyInv'
    BY ZenonT(60), <1>1, <2>1 DEF AnswerInv, ReplyInv
  <2>7. OwnReply' /\ PongIsFresh'
    BY ZenonT(60), <1>1, <2>1, <2>3 DEF AnswerInv, ReplyInv, OwnReply, PongIsFresh
  <2> QED BY ZenonT(60), <2>4, <2>5, <2>6, <2>7 DEF AnswerInv
<1>5. CASE Mbox!FwReboot \/ Mbox!FwBooted
  <2>1. /\ UNCHANGED <<ack, acked, data, echoed>> /\ bell' \in {0, bell} /\ fw' # "busy"
        /\ UNCHANGED job \/ (job'.cmd.id = 0 /\ job'.arg = 0)
    <3>1. UNCHANGED job \/ IsTask(job', Mbox!NoCommand, 0)
      BY <1>5, ZenonT(60) DEF Mbox!FwReboot, Mbox!FwBooted, IsTask
    <3>2. Mbox!NoCommand.id = 0
      <4>1. IsOrder(Mbox!NoCommand, "none", 0)
        BY ZenonT(60) DEF Mbox!NoCommand, IsOrder
      <4> QED BY <4>1, Fields, ZenonT(60)
    <3>3. UNCHANGED job \/ (job'.cmd.id = 0 /\ job'.arg = 0)
      BY <3>1, <3>2, Fields, ZenonT(60)
    <3> QED BY <1>5, <3>3, ZenonT(60) DEF Mbox!FwReboot, Mbox!FwBooted, Mbox!header
  <2>2. IdInv' /\ PongInv'
    BY ZenonT(60), <1>1, <1>2, <2>1 DEF AnswerInv, IdInv, PongInv
  <2>3. ReplyInv'
    BY ZenonT(60), <1>1, <1>2, <2>1 DEF AnswerInv, ReplyInv
  <2>4. OwnReply' /\ PongIsFresh'
    BY ZenonT(60), <1>1, <2>1 DEF AnswerInv, OwnReply, PongIsFresh
  <2> QED BY ZenonT(60), <2>2, <2>3, <2>4 DEF AnswerInv
<1> QED BY ZenonT(60), <1>3, <1>4, <1>5

\* Every step keeps the replies apart.
LEMMA NextAnswerInv == Mbox!TypeOK /\ LockDiscipline /\ AnswerInv /\ [Mbox!Next]_(Mbox!vars) => AnswerInv'
<1> SUFFICES ASSUME Mbox!TypeOK, LockDiscipline, AnswerInv, [Mbox!Next]_(Mbox!vars) PROVE AnswerInv'
  BY ZenonT(60)
<1>1. ASSUME NEW c \in Callers, NEW k \in Mbox!Kinds, Mbox!Enter(c, k) PROVE AnswerInv'
  BY ZenonT(60), <1>1, AnswersOfEntering, MailboxAssumption
<1>2. ASSUME NEW c \in Callers, Mbox!Lock(c) \/ Mbox!Poll(c) \/ Mbox!Return(c) PROVE AnswerInv'
  BY ZenonT(60), <1>2, AnswersOfWaiting, MailboxAssumption
<1>3. /\ pc \in [Callers -> {"idle", "lock", "check", "copy", "send", "poll", "end", "kick", "done"}]
      /\ ret \in [Callers -> {"none", "ok", "busy", "error"}]
  BY ZenonT(60) DEF Mbox!TypeOK
<1>4. ASSUME NEW c \in Callers, Mbox!Check(c) \/ Mbox!CopyIn(c) \/ Mbox!Send(c) \/ Mbox!ResetSend(c) PROVE AnswerInv'
  <2>1. /\ UNCHANGED <<kind, id, commands, owed, fw, job, echoed>>
        /\ pc[c] \in {"check", "copy", "send"}
    BY ZenonT(60), <1>4
       DEF Mbox!Check, Mbox!CopyIn, Mbox!Send, Mbox!ResetSend, Mbox!device
  <2>2. \A d \in Callers : d # c => pc'[d] = pc[d] /\ ret'[d] = ret[d]
    BY ZenonT(60), <1>3, <1>4
       DEF Mbox!Check, Mbox!Gate, Mbox!CopyIn, Mbox!Send, Mbox!ResetSend, Mbox!Leave
  <2>3. \/ UNCHANGED data
        \/ data'.by = "host" /\ data'.arg = id[c]
    <3>1. UNCHANGED data \/ IsCell(data', "host", kind[c], id[c])
      BY ZenonT(60), <1>4
         DEF Mbox!Check, Mbox!CopyIn, Mbox!Send, Mbox!ResetSend, Mbox!Payload, IsCell
    <3> QED BY <3>1, Fields, ZenonT(60)
  <2>4. CASE Mbox!Check(c) \/ Mbox!CopyIn(c)
    <3>1. UNCHANGED <<cmd, ack, acked, bell>>
      BY ZenonT(60), <2>4 DEF Mbox!Check, Mbox!CopyIn, Mbox!header
    <3>2. pc'[c] \in {"copy", "send"} \/ (pc'[c] = "done" /\ ret'[c] # "ok")
      BY ZenonT(60), <1>3, <2>4 DEF Mbox!Check, Mbox!Gate, Mbox!CopyIn, Mbox!Leave
    <3> QED BY ZenonT(60), <2>1, <2>2, <2>3, <3>1, <3>2, AnswersOfWriting
  <2>5. CASE Mbox!Send(c) \/ Mbox!ResetSend(c)
    <3>1. ack' # 1 /\ cmd'.id = id[c]
      <4>1. ack' = 0 /\ IsOrder(cmd', kind[c], id[c])
        BY <2>5, ZenonT(60) DEF Mbox!Send, Mbox!ResetSend, Mbox!Header, IsOrder
      <4> QED BY <4>1, Fields, ZeroOne, ZenonT(60)
    <3>2. pc'[c] = "poll" \/ (pc'[c] = "done" /\ kind[c] # "ping")
      BY ZenonT(60), <1>3, <2>5 DEF Mbox!Send, Mbox!ResetSend, Mbox!Leave
    <3> QED BY ZenonT(60), <2>1, <2>2, <2>3, <3>1, <3>2, AnswersOfWriting
  <2> QED BY ZenonT(60), <1>4, <2>4, <2>5
<1>5. ASSUME NEW c \in Callers,
             Mbox!GeneralEnd(c) \/ Mbox!CpuResetKick(c) \/ Mbox!WaitedEnd(c) \/ Mbox!SocEnd(c) \/ Mbox!UpdateEnd(c) \/ Mbox!PingEnd(c)
      PROVE  AnswerInv'
  <2>1. UNCHANGED <<kind, id, commands, owed, cmd, ack, acked, data, bell, fw, job, echoed>>
    BY ZenonT(60), <1>5
       DEF Mbox!GeneralEnd, Mbox!CpuResetKick, Mbox!WaitedEnd, Mbox!SocEnd,
           Mbox!UpdateEnd, Mbox!PingEnd, Mbox!header, Mbox!device
  <2>2. \A d \in Callers : d # c => pc'[d] = pc[d] /\ ret'[d] = ret[d]
    BY ZenonT(60), <1>3, <1>5
       DEF Mbox!GeneralEnd, Mbox!CpuResetKick, Mbox!WaitedEnd, Mbox!SocEnd,
           Mbox!UpdateEnd, Mbox!PingEnd, Mbox!Leave
  <2>3. pc[c] \in {"end", "kick"} /\ pc'[c] \in {"done", "kick"}
    BY ZenonT(60), <1>3, <1>5
       DEF Mbox!GeneralEnd, Mbox!CpuResetKick, Mbox!WaitedEnd, Mbox!SocEnd,
           Mbox!UpdateEnd, Mbox!PingEnd, Mbox!Leave
  <2>4. CASE Mbox!PingEnd(c)
    <3>1. /\ pc'[c] = "done" /\ pc[c] = "end"
          /\ ret'[c] = "ok" => IsCell(data, "fw", "ping", id[c])
      BY ZenonT(60), <1>3, <2>4 DEF Mbox!PingEnd, Mbox!Leave, IsCell
    <3>2. IsCell(data, "fw", "ping", id[c]) =>
            data.by = "fw" /\ data.kind = "ping" /\ data.arg = id[c]
      BY Fields, ZenonT(60)
    <3>3. ret'[c] = "ok" => id[c] \in echoed
      BY ZenonT(60), <3>1, <3>2 DEF AnswerInv, IdInv, PongInv
    <3> QED BY ZenonT(60), <2>1, <2>2, <3>1, <3>3, AnswersOfLeaving
  <2>5. CASE ~Mbox!PingEnd(c)
    <3>1. kind[c] # "ping"
      BY ZenonT(60), <1>5, <2>5
         DEF Mbox!GeneralEnd, Mbox!CpuResetKick, Mbox!WaitedEnd, Mbox!SocEnd,
             Mbox!UpdateEnd, Mbox!Updates, AnswerInv, IdInv
    <3> QED BY ZenonT(60), <2>1, <2>2, <2>3, <3>1, AnswersOfLeaving
  <2> QED BY ZenonT(60), <2>4, <2>5
<1>6. CASE Mbox!FwTake \/ Mbox!FwReply \/ Mbox!FwReboot \/ Mbox!FwBooted
  BY ZenonT(60), <1>6, AnswersOfFirmware, MailboxAssumption
<1>7. CASE Mbox!FwPublish \/ Mbox!LinkDown \/ Mbox!LinkUp \/ Mbox!Recovered \/ UNCHANGED Mbox!vars
  BY ZenonT(60), <1>7, AnswersRest
     DEF Mbox!FwPublish, Mbox!LinkDown, Mbox!LinkUp, Mbox!Recovered, Mbox!vars,
         Mbox!calls, Mbox!header, Mbox!device
<1> QED BY ZenonT(60), <1>1, <1>2, <1>4, <1>5, <1>6, <1>7 DEF Mbox!Next, Mbox!Call

\* The inductive invariant holds whatever the callers, the firmware and the link do.
THEOREM MailboxInvariant == Mbox!Spec => []MailboxInv
<1>1. Mbox!Init => MailboxInv
  BY InitMailboxInv, ZenonT(60)
<1>2. MailboxInv /\ [Mbox!Next]_(Mbox!vars) => MailboxInv'
  BY MailboxTypeOK, NextLockDiscipline, NextGateInv, NextAnswerInv, ZenonT(60)
     DEF MailboxInv, GateInv, AnswerInv
<1> QED BY <1>1, <1>2, PTL DEF Mbox!Spec

\* The types of the mailbox, the calls and the firmware.
THEOREM MailboxTypes == Mbox!Spec => []Mbox!TypeOK
<1>1. MailboxInv => Mbox!TypeOK
  BY ZenonT(60) DEF MailboxInv
<1> QED BY <1>1, MailboxInvariant, PTL

\* No path through a handler leaves msg_lock taken, or goes on without it.
THEOREM LockHeld == Mbox!Spec => []LockDiscipline
<1>1. MailboxInv => LockDiscipline
  BY ZenonT(60) DEF MailboxInv
<1> QED BY <1>1, MailboxInvariant, PTL

\* The ack that ends a wait is the ack of the command sent, unless the firmware owed
\* one when the call took msg_lock.
THEOREM RepliesAttributed == Mbox!Spec => []OwnReply
<1>1. MailboxInv => OwnReply
  BY ZenonT(60) DEF MailboxInv
<1> QED BY <1>1, MailboxInvariant, PTL

\* A ping that succeeds was answered by a firmware that saw it (fw_ping_probe).
THEOREM PongFresh == Mbox!Spec => []PongIsFresh
<1>1. MailboxInv => PongIsFresh
  BY ZenonT(60) DEF MailboxInv
<1> QED BY <1>1, MailboxInvariant, PTL

\* No gated command reaches a firmware that boots, once its readiness block was seen
\* (dxrt_fw_mbox_blocked).
THEOREM GateHolds == Mbox!Spec => []BootUndisturbed
<1>1. MailboxInv => BootUndisturbed
  BY ZenonT(60) DEF MailboxInv
<1> QED BY <1>1, MailboxInvariant, PTL

\* A legacy firmware is never gated (dxrt_fw_mbox_blocked).
THEOREM LegacyServed == Mbox!Spec => []LegacyNeverBusy
<1>1. MailboxInv => LegacyNeverBusy
  BY ZenonT(60) DEF MailboxInv
<1> QED BY <1>1, MailboxInvariant, PTL

\* No checked command is sent between an update and the end of its recovery
\* (dxrt_update_firmware).
THEOREM UpdateHolds == Mbox!Spec => []UpdateQuarantined
<1>1. MailboxInv => UpdateQuarantined
  BY ZenonT(60) DEF MailboxInv
<1> QED BY <1>1, MailboxInvariant, PTL

=============================================================================
