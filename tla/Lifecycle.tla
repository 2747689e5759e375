----------------------------- MODULE Lifecycle -----------------------------
(***************************************************************************)
(* The life of one device across its two drivers: probe and remove of the  *)
(* PCIe driver (dw-edma-pcie.c, dw-edma-core.c, dw-edma-mem.c, dx_cdev.c), *)
(* the list through which the RT driver finds the device (dx_util.c), load *)
(* and unload of the RT driver (dxrt_drv_cdev.c), the callbacks it leaves  *)
(* with the interrupt handlers (dx_message.c), and the files opened on     *)
(* /dev/dxrtN (dxrt_drv_cdev.c, dx_sgdma.c).                               *)
(*                                                                         *)
(* The device may be unbound while the RT driver and its files live on,    *)
(* and bound again: each binding has a dw of its own, numbered here, and   *)
(* devm frees it when remove or a failed probe returns.                    *)
(***************************************************************************)
EXTENDS Integers, FiniteSets

CONSTANTS
    Files,      \* files on /dev/dxrtN, one thread each
    MaxBinds,   \* bound on the probes
    MaxLoads    \* bound on the loads of the RT driver

ASSUME LifecycleAssumption ==
    IsFiniteSet(Files) /\ MaxBinds \in Nat /\ MaxLoads \in Nat

VARIABLES
    ppc,            \* where probe or remove of the PCIe driver is
    held,           \* what the binding has allocated or registered
    binds,          \* probes so far; the number of the current dw
    failing,        \* 1: dx_dma_remove runs for a probe that failed
    dw_state,       \* dw->dev_state
    shutting_down,  \* dw->shutting_down
    init_completed, \* dw->init_completed
    ref_count,      \* dw->ref_count
    chans,          \* 1: the DMA channels of dw are requested
    xfer,           \* 1: a transfer runs on a channel
    isr,            \* the interrupt handler: idle, run, or in a callback
    tasklet,        \* 1: the completion tasklet is scheduled
    work,           \* 1: work is queued on, or runs on, dw->shadow_wq
    rpc,            \* where load or unload of the RT driver is
    loads,          \* loads so far
    node,           \* 1: the cdev is added, /dev/dxrtN can be opened
    dxdev,          \* struct dxdev: none, raw (zeroed), ready (locks are set up)
    cb,             \* 1: the callbacks are registered
    msg,            \* the binding dx->msg points into, 0 for NULL
    fpc,            \* where the thread of each file is
    dwp,            \* the dw it holds a pointer to, 0 for none
    owner,          \* the binding whose ref_count its open raised, 0 for none
    crossed,        \* aux: 1: a file of an earlier binding lowered ref_count
    excused         \* aux: ioctls that overlap an unplug or another init

pciVars == <<ppc, held, binds, failing, dw_state, shutting_down>>
dmaVars == <<ref_count, chans, crossed>>
irqVars == <<xfer, isr, tasklet, work>>
rtVars == <<rpc, loads, node, dxdev, cb>>
fileVars == <<fpc, dwp, owner>>
ioctlVars == <<init_completed, msg, excused>>
vars == <<pciVars, dmaVars, irqVars, rtVars, fileVars, ioctlVars>>

Resources == {"vectors", "list", "pools", "wq", "irqs", "wr", "rd", "bufs",
              "dx_msg", "ifs"}

ProbeSteps == {"p_vec", "p_regions", "p_list", "p_mutex", "p_pools", "p_wq", "p_irqs",
               "p_wr", "p_rd", "p_msg", "p_ifs", "p_init", "p_live"}

RemoveSteps == {"r_off", "r_term", "r_kill", "r_irqs", "r_unreg", "r_bufs",
                "r_pools", "r_ifs", "r_list", "r_vectors"}

UnwindSteps == {"u_chans", "u_irqs", "u_pools"}

\* Types
TypeOK ==
    /\ ppc \in {"unbound", "bound"} \cup ProbeSteps \cup RemoveSteps \cup UnwindSteps
    /\ held \subseteq Resources
    /\ binds \in Nat /\ loads \in Nat /\ msg \in Nat /\ ref_count \in Nat
    /\ dw_state \in {"uninit", "live", "removing"}
    /\ {failing, shutting_down, init_completed, chans, crossed} \subseteq {0, 1}
    /\ {xfer, tasklet, work, node, cb} \subseteq {0, 1}
    /\ isr \in {"idle", "run", "cb"}
    /\ rpc \in {"unloaded", "c_init", "c_early", "loaded", "d_sync", "d_free"}
    /\ dxdev \in {"none", "raw", "ready"}
    /\ fpc \in [Files -> {"closed", "o_lock", "open", "i_init", "i_handle", "c_lock"}]
    /\ dwp \in [Files -> Nat] /\ owner \in [Files -> Nat]
    /\ excused \subseteq Files

Init ==
    /\ ppc = "unbound" /\ held = {} /\ binds = 0 /\ failing = 0
    /\ dw_state = "uninit" /\ shutting_down = 0 /\ init_completed = 0
    /\ ref_count = 0 /\ chans = 0 /\ crossed = 0
    /\ xfer = 0 /\ isr = "idle" /\ tasklet = 0 /\ work = 0
    /\ rpc = "unloaded" /\ loads = 0 /\ node = 0 /\ dxdev = "none" /\ cb = 0
    /\ msg = 0 /\ excused = {}
    /\ fpc = [f \in Files |-> "closed"]
    /\ dwp = [f \in Files |-> 0] /\ owner = [f \in Files |-> 0]

\* dx_dev_list_get: the dw of the device, 0 for NULL.
Listed == IF "list" \in held THEN binds ELSE 0

-----------------------------------------------------------------------------
(* Probe of the PCIe driver.                                               *)

PciStep(from, to) == ppc = from /\ ppc' = to

\* A probe starts; dw comes zeroed from devm_kzalloc.
ProbeStart ==
    /\ binds < MaxBinds
    /\ PciStep("unbound", "p_vec")
    /\ binds' = binds + 1
    /\ failing' = 0 /\ dw_state' = "uninit" /\ shutting_down' = 0
    /\ init_completed' = 0 /\ ref_count' = 0 /\ chans' = 0 /\ crossed' = 0
    /\ UNCHANGED <<held, irqVars, rtVars, fileVars, msg, excused>>

\* A step of the probe that obtains something and touches nothing else.
Obtain(from, to, what) ==
    /\ PciStep(from, to)
    /\ held' = held \cup what
    /\ UNCHANGED <<binds, failing, dw_state, shutting_down,
                   dmaVars, irqVars, rtVars, fileVars, ioctlVars>>

\* A step of the clean-up that gives something back and touches nothing else.
GiveBack(from, to, what) ==
    /\ PciStep(from, to)
    /\ held' = held \ what
    /\ UNCHANGED <<binds, failing, dw_state, shutting_down,
                   dmaVars, irqVars, rtVars, fileVars, ioctlVars>>

\* pci_alloc_irq_vectors: the vectors it wants, one to share, or none.
AllocVectors ==
    \/ Obtain("p_vec", "p_regions", {"vectors"})
    \/ GiveBack("p_vec", "unbound", {})

\* The size of BAR0, its regions, the tables of dw; devm takes them back.
MapRegions ==
    \/ Obtain("p_regions", "p_list", {})
    \/ GiveBack("p_regions", "r_vectors", {})

\* dx_dev_list_add, unless no index is free: from here on the RT driver finds
\* the device.
DevListAdd ==
    \/ Obtain("p_list", "p_mutex", {"list"})
    \/ GiveBack("p_list", "r_vectors", {})

\* mutex_init of wr_lock and rd_lock, and dx_dma_probe up to its channels.
ProbeLocks ==
    \/ Obtain("p_mutex", "p_pools", {})
    \/ GiveBack("p_mutex", "r_list", {})

\* dw_edma_mem_init, all or nothing.
MemInit ==
    \/ Obtain("p_pools", "p_wq", {"pools"})
    \/ GiveBack("p_pools", "r_list", {})

\* Fault: without a workqueue the memory pools are forgotten.
AllocWorkqueueLeak ==
    \/ Obtain("p_wq", "p_irqs", {"wq"})
    \/ GiveBack("p_wq", "r_list", {})

\* alloc_workqueue; without it the pools are given back.
AllocWorkqueue ==
    \/ Obtain("p_wq", "p_irqs", {"wq"})
    \/ GiveBack("p_wq", "r_list", {"pools"})

\* dw_edma_irq_request: interrupts may arrive from here on. nr_irqs counts the
\* ones obtained when a later one fails.
IrqRequest ==
    \/ Obtain("p_irqs", "p_wr", {"irqs"})
    \/ Obtain("p_irqs", "u_chans", {"irqs"})
    \/ GiveBack("p_irqs", "u_chans", {})

\* dw_edma_channel_setup for the write channels: their buffers, then the DMA
\* device; a failure leaves the buffers of the first channels.
SetupWrite ==
    \/ Obtain("p_wr", "p_rd", {"bufs", "wr"})
    \/ Obtain("p_wr", "u_chans", {"bufs"})

\* dw_edma_channel_setup for the read channels.
SetupRead ==
    \/ Obtain("p_rd", "p_msg", {"rd"})
    \/ GiveBack("p_rd", "u_chans", {})

\* The rest of dx_dma_probe: engine, user interrupts, messages, software
\* interrupts. A failure of dx_pcie_message_init is only logged.
MessageInit ==
    \/ Obtain("p_msg", "p_ifs", {"dx_msg"})
    \/ GiveBack("p_msg", "p_ifs", {})

\* xpdev_create_interfaces; without it dx_dma_remove undoes dx_dma_probe.
CreateInterfaces ==
    \/ Obtain("p_ifs", "p_init", {"ifs"})
    \/ /\ PciStep("p_ifs", "r_off")
       /\ failing' = 1
       /\ UNCHANGED <<held, binds, dw_state, shutting_down,
                      dmaVars, irqVars, rtVars, fileVars, ioctlVars>>

\* Fault: probe does not ask the next ioctl to bind the RT driver again.
ProbeInitDoneSilent ==
    /\ PciStep("p_init", "p_live")
    /\ UNCHANGED <<held, binds, failing, dw_state, shutting_down, msg, excused,
                   init_completed, dmaVars, irqVars, rtVars, fileVars>>

\* dw_edma_thread_init, then init_completed is set, dx_link_health_init.
ProbeInitDone ==
    /\ PciStep("p_init", "p_live")
    /\ init_completed' = 1
    /\ UNCHANGED <<held, binds, failing, dw_state, shutting_down, msg, excused,
                   dmaVars, irqVars, rtVars, fileVars>>

\* The device goes live.
ProbeLive ==
    /\ PciStep("p_live", "bound")
    /\ dw_state' = "live"
    /\ UNCHANGED <<held, binds, failing, shutting_down,
                   dmaVars, irqVars, rtVars, fileVars, ioctlVars>>

\* err_irq_free of dx_dma_probe: DMA devices and buffers first, then the
\* interrupts that were obtained, then workqueue and pools.
UnwindChannels == GiveBack("u_chans", "u_irqs", {"wr", "rd", "bufs"})

\* free_irq waits for a running handler.
UnwindIrqs == isr = "idle" /\ GiveBack("u_irqs", "u_pools", {"irqs"})

UnwindPools == GiveBack("u_pools", "r_list", {"wq", "pools"})

-----------------------------------------------------------------------------
(* Remove of the PCIe driver.                                              *)

\* dx_dma_pcie_remove marks the device; the health worker is stopped and
\* dx_dma_remove stops the engine.
RemoveMark ==
    /\ PciStep("bound", "r_off")
    /\ dw_state' = "removing"
    /\ excused' = excused \cup {f \in Files : fpc[f] \in {"i_init", "i_handle"}}
    /\ UNCHANGED <<held, binds, failing, shutting_down, fpc, dwp, owner,
                   dmaVars, irqVars, rtVars, init_completed, msg>>

\* Fault: the tasklets are killed but the workqueue is not flushed.
DrainedTaskletOnly == tasklet = 0

\* tasklet_kill of every channel and flush_workqueue.
Drained == tasklet = 0 /\ work = 0

\* shutting_down, engine off, first flush.
RemoveOff ==
    /\ work = 0
    /\ PciStep("r_off", "r_term")
    /\ shutting_down' = 1
    /\ UNCHANGED <<held, binds, failing, dw_state,
                   dmaVars, irqVars, rtVars, fileVars, ioctlVars>>

\* dw_edma_device_terminate_all, twice per channel: the descriptor of a running
\* transfer is freed, which may take deferred work.
RemoveTerminate ==
    /\ PciStep("r_term", "r_kill")
    /\ xfer' = 0
    /\ \/ xfer = 1 /\ work' = 1
       \/ work' = work
    /\ UNCHANGED <<held, binds, failing, dw_state, shutting_down, isr, tasklet,
                   dmaVars, rtVars, fileVars, ioctlVars>>

RemoveKill == Drained /\ GiveBack("r_kill", "r_irqs", {})

RemoveIrqs == isr = "idle" /\ GiveBack("r_irqs", "r_unreg", {"irqs"})

RemoveUnregister == Drained /\ GiveBack("r_unreg", "r_bufs", {"wr", "rd"})

RemoveBuffers == Drained /\ GiveBack("r_bufs", "r_pools", {"bufs"})

\* destroy_workqueue drains the queue; the pools go last. In remove the
\* interfaces are next, in a failed probe there are none.
RemovePools ==
    /\ work = 0
    /\ GiveBack("r_pools", IF failing = 1 THEN "r_list" ELSE "r_ifs", {"wq", "pools"})

RemoveInterfaces == GiveBack("r_ifs", "r_list", {"ifs"})

\* dx_dev_list_remove. In a failed probe nothing marked the device before.
DevListRemove ==
    /\ PciStep("r_list", "r_vectors")
    /\ held' = held \ {"list"}
    /\ excused' = excused \cup {f \in Files : fpc[f] \in {"i_init", "i_handle"}}
    /\ UNCHANGED <<binds, failing, dw_state, shutting_down, fpc, dwp, owner,
                   dmaVars, irqVars, rtVars, init_completed, msg>>

\* pci_free_irq_vectors, dw_edma_thread_exit; devm frees dw on return.
RemoveVectors ==
    GiveBack("r_vectors", "unbound", {"vectors", "dx_msg"})

-----------------------------------------------------------------------------
(* Interrupts, the completion tasklet and the workqueue.                   *)

IsrStep(from, to) == isr = from /\ isr' = to

IsrEnter ==
    /\ "irqs" \in held
    /\ IsrStep("idle", "run")
    /\ UNCHANGED <<xfer, tasklet, work, pciVars, dmaVars, rtVars, fileVars, ioctlVars>>

\* A Done interrupt of a running transfer: the next chunk is queued, or the
\* descriptor completes and the tasklet is scheduled.
IsrDone ==
    /\ xfer = 1
    /\ IsrStep("run", "idle")
    /\ \/ "wq" \in held /\ work' = 1 /\ UNCHANGED <<xfer, tasklet>>
       \/ xfer' = 0 /\ tasklet' = 1 /\ UNCHANGED work
    /\ UNCHANGED <<pciVars, dmaVars, rtVars, fileVars, ioctlVars>>

\* A response or an event: the registered callback is called with its dxdev,
\* under rcu_read_lock. Without dx_msg the handler would not get this far.
IsrCallback ==
    /\ cb = 1 /\ "dx_msg" \in held
    /\ IsrStep("run", "cb")
    /\ UNCHANGED <<xfer, tasklet, work, pciVars, dmaVars, rtVars, fileVars, ioctlVars>>

IsrExit ==
    /\ \/ IsrStep("run", "idle")
       \/ IsrStep("cb", "idle")
    /\ UNCHANGED <<xfer, tasklet, work, pciVars, dmaVars, rtVars, fileVars, ioctlVars>>

\* vchan_complete: the descriptor is freed by deferred work.
Tasklet ==
    /\ tasklet = 1 /\ tasklet' = 0
    /\ work' = IF "wq" \in held THEN 1 ELSE work
    /\ UNCHANGED <<xfer, isr, pciVars, dmaVars, rtVars, fileVars, ioctlVars>>

WorkDone ==
    /\ work = 1 /\ work' = 0
    /\ UNCHANGED <<xfer, isr, tasklet, pciVars, dmaVars, rtVars, fileVars, ioctlVars>>

\* An ioctl starts a transfer; dw_edma_start_transfer refuses when the device
\* is shutting down, and queues the launch.
StartTransfer(f) ==
    /\ fpc[f] = "i_handle"
    /\ Listed # 0 /\ chans = 1 /\ shutting_down = 0 /\ "wq" \in held /\ xfer = 0
    /\ xfer' = 1 /\ work' = 1
    /\ UNCHANGED <<isr, tasklet, pciVars, dmaVars, rtVars, fileVars, ioctlVars>>

-----------------------------------------------------------------------------
(* Load and unload of the RT driver.                                       *)

RtStep(from, to) == rpc = from /\ rpc' = to

\* dxrt_driver_cdev_init counts the listed devices; create_dxrt_device makes
\* the zeroed dxdev reachable through its cdev before it sets it up.
CreateNode ==
    /\ loads < MaxLoads
    /\ Listed # 0
    /\ RtStep("unloaded", "c_init")
    /\ loads' = loads + 1
    /\ node' = 1 /\ dxdev' = "raw" /\ msg' = 0
    /\ UNCHANGED <<cb, init_completed, excused, pciVars, dmaVars, irqVars, fileVars>>

\* Lists, locks and counters, dxrt_recovery_state_init, sysfs.
CreateLocks ==
    /\ RtStep("c_init", "c_early")
    /\ dxdev' = "ready"
    /\ UNCHANGED <<loads, node, cb, pciVars, dmaVars, irqVars, fileVars, ioctlVars>>

\* dxrt_device_init_early: wait queues, pointers, then the callbacks.
InitEarly ==
    /\ RtStep("c_early", "loaded")
    /\ msg' = Listed
    /\ cb' = 1
    /\ UNCHANGED <<loads, node, dxdev, init_completed, excused,
                   pciVars, dmaVars, irqVars, fileVars>>

\* remove_dxrt_device, at unload, which no open file permits, or when a later
\* device cannot be created: the callbacks are unregistered. A load that fails
\* while a file is open would free its dxdev; it is left out.
UnregisterCallbacks ==
    /\ \A f \in Files : fpc[f] = "closed"
    /\ RtStep("loaded", "d_sync")
    /\ cb' = 0
    /\ UNCHANGED <<loads, node, dxdev, pciVars, dmaVars, irqVars, fileVars, ioctlVars>>

\* Fault: unregistering does not wait for the callbacks that run.
SynchronizeRcuSkipped ==
    /\ RtStep("d_sync", "d_free")
    /\ UNCHANGED <<loads, node, dxdev, cb, pciVars, dmaVars, irqVars, fileVars, ioctlVars>>

\* synchronize_rcu: a callback that runs has ended.
SynchronizeRcu ==
    /\ isr # "cb"
    /\ RtStep("d_sync", "d_free")
    /\ UNCHANGED <<loads, node, dxdev, cb, pciVars, dmaVars, irqVars, fileVars, ioctlVars>>

\* sysfs, the readiness work, the node, then kfree.
DestroyNode ==
    /\ RtStep("d_free", "unloaded")
    /\ node' = 0 /\ dxdev' = "none"
    /\ UNCHANGED <<loads, cb, pciVars, dmaVars, irqVars, fileVars, ioctlVars>>

-----------------------------------------------------------------------------
(* Files on /dev/dxrtN.                                                    *)

FileStep(f, from, to) == fpc[f] = from /\ fpc' = [fpc EXCEPT ![f] = to]

\* dxrt_dev_open, dx_sgdma_init up to wr_lock. The module is not unloading.
OpenCheck(f) ==
    /\ node = 1 /\ rpc \notin {"d_sync", "d_free"}
    /\ Listed # 0 /\ dw_state = "live"
    /\ FileStep(f, "closed", "o_lock")
    /\ dwp' = [dwp EXCEPT ![f] = Listed]
    /\ UNCHANGED <<owner, pciVars, dmaVars, irqVars, rtVars, ioctlVars>>

\* dw_edma_dma_allocation of every channel, for the ones that are not requested.
RequestChannels == chans' = 1

\* dw_edma_dma_deallocation of every channel.
ReleaseChannels == chans' = 0

\* dx_sgdma_init under wr_lock: the state is checked again, the first user
\* requests the channels; link not up, recovery paused or no channel: refused,
\* and what was requested is released.
OpenLocked(f) ==
    /\ dwp' = [dwp EXCEPT ![f] = 0]
    /\ \/ /\ dwp[f] = binds /\ dw_state = "live"
          /\ FileStep(f, "o_lock", "open")
          /\ RequestChannels
          /\ ref_count' = ref_count + 1
          /\ owner' = [owner EXCEPT ![f] = dwp[f]]
       \/ /\ FileStep(f, "o_lock", "closed")
          /\ UNCHANGED <<chans, ref_count, owner>>
    /\ UNCHANGED <<crossed, pciVars, irqVars, rtVars, ioctlVars>>

\* dxrt_dev_ioctl tests and clears init_completed: the caller that finds it set
\* binds the RT driver, any other goes on to its handler.
IoctlEnter(f) ==
    /\ IF Listed # 0 /\ init_completed = 1
       THEN FileStep(f, "open", "i_init") /\ init_completed' = 0
       ELSE FileStep(f, "open", "i_handle") /\ UNCHANGED init_completed
    /\ excused' = IF dw_state # "live" \/ Listed = 0 \/ \E g \in Files : fpc[g] = "i_init"
                  THEN excused \cup {f} ELSE excused
    /\ UNCHANGED <<dwp, owner, msg, pciVars, dmaVars, irqVars, rtVars>>

\* The stale-MMIO guard, then dxrt_device_init: pointers into the message area
\* of a device that is gone are dropped, any other are taken anew.
IoctlInit(f) ==
    /\ IF msg # 0 /\ Listed = 0
       THEN FileStep(f, "i_init", "open") /\ excused' = excused \ {f}
       ELSE FileStep(f, "i_init", "i_handle") /\ UNCHANGED excused
    /\ msg' = Listed
    /\ UNCHANGED <<init_completed, dwp, owner, pciVars, dmaVars, irqVars, rtVars>>

\* The handler returns.
IoctlReturn(f) ==
    /\ FileStep(f, "i_handle", "open")
    /\ excused' = excused \ {f}
    /\ UNCHANGED <<init_completed, msg, dwp, owner, pciVars, dmaVars, irqVars, rtVars>>

\* dx_pcie_set_init_completed, by a recovery of a device that is bound.
SetInitCompleted ==
    /\ Listed # 0 /\ dw_state = "live"
    /\ init_completed' = 1
    /\ UNCHANGED <<msg, excused, pciVars, dmaVars, irqVars, rtVars, fileVars>>

\* dxrt_dev_release, dx_sgdma_deinit up to wr_lock: nothing for a device that
\* is gone or going.
CloseCheck(f) ==
    /\ IF Listed = 0 \/ dw_state = "removing"
       THEN /\ FileStep(f, "open", "closed")
            /\ owner' = [owner EXCEPT ![f] = 0]
            /\ UNCHANGED dwp
       ELSE /\ FileStep(f, "open", "c_lock")
            /\ dwp' = [dwp EXCEPT ![f] = Listed]
            /\ UNCHANGED owner
    /\ UNCHANGED <<pciVars, dmaVars, irqVars, rtVars, ioctlVars>>

\* Fault: the channels are released when any file closes.
CloseLockedAny(f) ==
    /\ FileStep(f, "c_lock", "closed")
    /\ dwp' = [dwp EXCEPT ![f] = 0] /\ owner' = [owner EXCEPT ![f] = 0]
    /\ IF dwp[f] = binds /\ ref_count > 0
       THEN /\ ref_count' = ref_count - 1
            /\ ReleaseChannels
            /\ crossed' = IF owner[f] # dwp[f] THEN 1 ELSE crossed
       ELSE UNCHANGED <<ref_count, chans, crossed>>
    /\ UNCHANGED <<pciVars, irqVars, rtVars, ioctlVars>>

\* dx_sgdma_deinit under wr_lock: the last user releases the channels. What it
\* does to a dw that was freed meanwhile has no effect on the current one.
CloseLocked(f) ==
    /\ FileStep(f, "c_lock", "closed")
    /\ dwp' = [dwp EXCEPT ![f] = 0] /\ owner' = [owner EXCEPT ![f] = 0]
    /\ IF dwp[f] = binds /\ ref_count > 0
       THEN /\ ref_count' = ref_count - 1
            /\ IF ref_count = 1 THEN ReleaseChannels ELSE UNCHANGED chans
            /\ crossed' = IF owner[f] # dwp[f] THEN 1 ELSE crossed
       ELSE UNCHANGED <<ref_count, chans, crossed>>
    /\ UNCHANGED <<pciVars, irqVars, rtVars, ioctlVars>>

-----------------------------------------------------------------------------
Pci ==
    \/ ProbeStart \/ AllocVectors \/ MapRegions \/ DevListAdd \/ ProbeLocks \/ MemInit
    \/ AllocWorkqueue \/ IrqRequest \/ SetupWrite \/ SetupRead \/ MessageInit
    \/ CreateInterfaces \/ ProbeInitDone \/ ProbeLive
    \/ UnwindChannels \/ UnwindIrqs \/ UnwindPools
    \/ RemoveMark \/ RemoveOff \/ RemoveTerminate \/ RemoveKill \/ RemoveIrqs
    \/ RemoveUnregister \/ RemoveBuffers \/ RemovePools \/ RemoveInterfaces
    \/ DevListRemove \/ RemoveVectors

Irq == IsrEnter \/ IsrDone \/ IsrCallback \/ IsrExit \/ Tasklet \/ WorkDone

Rt == CreateNode \/ CreateLocks \/ InitEarly \/ UnregisterCallbacks
      \/ SynchronizeRcu \/ DestroyNode

File(f) == OpenCheck(f) \/ OpenLocked(f) \/ IoctlEnter(f) \/ IoctlInit(f)
           \/ IoctlReturn(f) \/ StartTransfer(f) \/ CloseCheck(f) \/ CloseLocked(f)

Next == Pci \/ Irq \/ Rt \/ SetInitCompleted \/ \E f \in Files : File(f)

Spec == Init /\ [][Next]_vars

-----------------------------------------------------------------------------
\* Whatever step a probe fails at, and after every remove, nothing is left
\* allocated or registered, and no handler, tasklet or work of the binding
\* runs when devm frees dw.
NothingLeft ==
    ppc = "unbound" => held = {} /\ isr = "idle" /\ tasklet = 0 /\ work = 0 /\ xfer = 0

\* Work is queued only while the workqueue, the pools and the buffers of the
\* channels it uses exist: remove drains it before it frees any of them.
WorkHasMemory == work = 1 \/ tasklet = 1 => {"wq", "pools", "bufs"} \subseteq held

\* An interrupt handler that is inside a callback of the RT driver finds a
\* dxdev that is set up and not freed, across load and unload of that driver.
CallbackAlive == isr = "cb" => dxdev = "ready"

\* On a live device ref_count is the number of files it serves, and the channels
\* are requested exactly when there is one, unless a file opened on an earlier
\* binding was closed on this one.
RefCounted ==
    dw_state = "live" /\ "list" \in held /\ crossed = 0 =>
        /\ ref_count = Cardinality({f \in Files : owner[f] = binds})
        /\ chans = IF ref_count > 0 THEN 1 ELSE 0

\* A handler never works with pointers into the message area of an earlier
\* binding, unless its ioctl overlaps an unplug or the initialisation by
\* another ioctl: the probe raises init_completed for the first ioctl.
FreshPointers ==
    \A f \in Files : fpc[f] = "i_handle" /\ f \notin excused => msg \in {0, binds}
=============================================================================
