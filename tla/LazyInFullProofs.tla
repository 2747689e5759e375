-------------------------- MODULE LazyInFullProofs --------------------------
(***************************************************************************)
(* For every number of chunks of the long transfer and every number of     *)
(* failures: a long transfer that is reported complete has moved every     *)
(* chunk once and in order.                                                *)
(***************************************************************************)
EXTENDS LazyTransferProofs

-----------------------------------------------------------------------------
(* What was moved                                                          *)

\* The first k chunks, in order
FirstChunks(k) == [i \in 1 .. k |-> i]

\* Before the first transfer nothing was moved.
StartInv == cur = 0 => request = "none" /\ moved = <<>> /\ xfer_sz = 0

\* Every chunk was moved and counted, and nobody will ring for the descriptor again.
Full ==
    /\ moved = FirstChunks(Chunks) /\ xfer_sz = Chunks
    /\ 1 \notin issued /\ cs # "run" /\ lq = 0 /\ lpc = "idle"
    /\ shadow_state = "idle" /\ shadow_chunk = 0 /\ wpc \in {"idle", "nothing"}
    /\ zq = 0 /\ zpc = "idle"

\* The thread knows, or will know when it wakes, that the transfer failed.
Dirty == result = "err" \/ hw_err = 1 \/ aborted = 1

\* Nothing has gone wrong so far.
Clean ==
    /\ result = "none" /\ tpc = "wait" /\ done = 0 /\ hw_err = 0 /\ aborted = 0
    /\ 1 \in issued /\ completed = {} /\ fpc = "none" /\ request = "none"
    /\ ipc \in {"idle", "done"} /\ shadow_state # "cancelled"

\* The first chunk is being launched, or is not because the device is not live.
Launching ==
    /\ moved = <<>> /\ xfer_sz = 0 /\ chunk = 1 /\ cursor = 2 /\ lazy_mode = 1
    /\ xfer_started = 0 /\ cs = "stop" /\ done_int = 0 /\ ipc = "idle" /\ abort_int = 0
    /\ sq = 0 /\ wpc = "idle" /\ zq = 0 /\ zpc = "idle" /\ built = {1}
    /\ mode = "shadow" => /\ shadow_state = "building" /\ shadow_chunk = 2
                          /\ has_more = 1 /\ sg_remaining > 0
    /\ lpc = "copy" => desc_buf = 1
    /\ lpc = "armed" => sram = 1

\* The active chunk is moved, or was and the Done has not been served.
Moving ==
    /\ xfer_started = 1 /\ chunk \in 1 .. Chunks /\ xfer_sz = chunk - 1
    /\ \/ cs = "run" /\ moving = chunk /\ moved = FirstChunks(chunk - 1)
            /\ done_int = 0 /\ ipc = "idle"
       \/ cs = "err" /\ done_int = 0 /\ ipc = "idle"
       \/ cs = "stop" /\ moved = FirstChunks(chunk)

\* Its Done was served.
Served == xfer_started = 0 /\ cs = "stop" /\ moved = FirstChunks(chunk)

\* The shadow worker is one chunk ahead.
ShadowAhead ==
    /\ chunk \in 1 .. Chunks
    /\ has_more = IF cursor <= Chunks THEN 1 ELSE 0
    /\ shadow_state # "idle" => shadow_chunk = chunk + 1 /\ lazy_mode = 1 /\ sg_remaining > 0
    /\ shadow_state = "idle" => /\ shadow_chunk = 0 /\ wpc \in {"idle", "nothing", "short"}
                                /\ wpc # "short" => chunk = Chunks
                                /\ wpc = "short" => lazy_mode = 1 /\ sg_remaining > 0
    /\ shadow_chunk \in built => desc_buf = shadow_chunk
    /\ shadow_state = "ready" => shadow_chunk \in built
    /\ wpc = "switch" => shadow_state \in {"building", "isr_pending"}
    /\ wpc \in {"ready", "recheck"} => shadow_state \in {"ready", "isr_pending"}
    /\ wpc = "unbuild" => wret = "err"
    /\ wpc = "commit" => sram = shadow_chunk
    /\ wpc # "short2"

\* Shadow mode after the first doorbell
ShadowRun ==
    /\ mode = "shadow" /\ lq = 0 /\ lpc = "idle" /\ ShadowAhead
    /\ \/ /\ Moving /\ shadow_state \in {"idle", "building", "ready"}
          /\ wpc \notin {"handoff", "precopy", "copy", "unbuild", "commit"}
       \/ /\ Served /\ xfer_sz = chunk - 1 /\ shadow_state = "ready" /\ wpc = "handoff"
       \/ /\ Served /\ xfer_sz = chunk /\ shadow_state = "isr_pending"
          /\ wpc # "handoff"

\* Fixed-buffer mode after the first doorbell
FixedRun ==
    /\ mode = "fixed" /\ lq = 0 /\ lpc = "idle"
    /\ \/ /\ Moving /\ cursor = chunk + 1 /\ zq = 0 /\ zpc = "idle"
          /\ lazy_mode = IF chunk < Chunks THEN 1 ELSE 0
       \/ /\ Served /\ chunk # 0 /\ cursor = chunk + 1 /\ xfer_sz = chunk
          /\ lazy_mode = 1 /\ lazy_state = "pending"
          /\ \/ zq = 1 /\ zpc = "idle"
             \/ zq = 0 /\ zpc \in {"wait", "claim"}
       \/ /\ xfer_started = 0 /\ cs = "stop" /\ moved = FirstChunks(cursor - 1)
          /\ xfer_sz = cursor - 1 /\ zq = 0 /\ zpc \in {"refill", "copy", "commit"}
          /\ lazy_mode = 1 /\ lazy_state = "preparing"
          /\ zpc = "copy" => zchild = cursor /\ desc_buf = cursor
          /\ zpc = "commit" /\ zret = 0 => zchild = cursor /\ sram = cursor

OnTrack == Clean /\ (Launching \/ ShadowRun \/ FixedRun)

\* A long transfer is on track, has moved everything, or cannot be reported complete.
MovedInv ==
    /\ StartInv
    /\ cur = 1 /\ overtaken = 0 =>
         /\ result \in {"none", "ok", "err"} /\ (result = "err" => tpc # "wait")
         /\ result = "ok" => Full
         /\ OnTrack \/ Full \/ Dirty

\* A chunk that is moved after the first k.
LEMMA NextChunk ==
  ASSUME NEW k \in Nat
  PROVE  Append(FirstChunks(k), k + 1) = FirstChunks(k + 1)
<1>1. FirstChunks(k) \in Seq(Int) /\ Len(FirstChunks(k)) = k
  BY DEF FirstChunks
<1>2. /\ Append(FirstChunks(k), k + 1) \in Seq(Int)
      /\ Len(Append(FirstChunks(k), k + 1)) = k + 1
      /\ \A i \in 1 .. k + 1 : Append(FirstChunks(k), k + 1)[i] = i
  BY <1>1 DEF FirstChunks
<1> QED BY <1>2 DEF FirstChunks

\* Nobody but the thread takes an error back.
LEMMA ErrorsStay ==
  ASSUME Launch \/ HwDone \/ HwAbort \/ NotLive \/ PeerKills \/ Interrupts \/ Tasklet
           \/ Shadow \/ Refill \/ FreeDesc \/ Terminated
  PROVE  /\ UNCHANGED <<cur, tpc, result>>
         /\ hw_err' \in {hw_err, 1} /\ aborted' \in {aborted, 1} /\ overtaken' \in {overtaken, 1}
<1> DEFINE Stays == /\ UNCHANGED <<cur, tpc, result>> /\ hw_err' \in {hw_err, 1}
                    /\ aborted' \in {aborted, 1} /\ overtaken' \in {overtaken, 1}
<1>. USE DEF thread, errs
<1>1. Launch => Stays
  BY ZenonT(60)
     DEF Launch, LaunchStart, LaunchWrite, LaunchCopy, LaunchDoorbell, LaunchFails,
         Quiet, Doorbell, NoDoorbell
<1>2. HwDone \/ HwAbort \/ NotLive \/ PeerKills \/ Tasklet \/ FreeDesc \/ Terminated => Stays
  BY ZenonT(60)
     DEF HwDone, HwAbort, NotLive, PeerKills, World, Tasklet, FreeDesc, FreeMark,
         FreeShadow, FreeChunks, FOther, Terminated, vars
<1>3. Interrupts => Stays
  <2>1. DoneInterrupt \/ AbortInterrupt \/ AbortLocked \/ AbortIdle => Stays
    BY ZenonT(60) DEF DoneInterrupt, AbortInterrupt, AbortLocked, AbortIdle
  <2>2. DoneLocked => Stays
    BY ZenonT(60) DEF DoneLocked, CompleteLong, CompleteShort, HandOver, Finish
  <2> QED BY <2>1, <2>2 DEF Interrupts
<1>4. Shadow => Stays
  <2>1. ShadowStart \/ ShadowNothing \/ ShadowFill \/ ShadowFailed \/ ShadowSwitch
          \/ ShadowStopped \/ ShadowHandoff => Stays
    BY ZenonT(60)
       DEF ShadowStart, ShadowNothing, ShadowFill, ShadowFailed, ShadowSwitch,
           ShadowStopped, ShadowHandoff, SOther
  <2>2. ShadowRecheck \/ ShadowAcquire \/ ShadowCopy \/ ShadowUnbuild
          \/ ShadowShort \/ ShadowShort2 => Stays
    BY ZenonT(60)
       DEF ShadowRecheck, ShadowAcquire, ShadowCopy, ShadowUnbuild, ShadowShort,
           ShadowShort2, SOther
  <2>3. ShadowCommit => Stays
    BY ZenonT(60) DEF ShadowCommit, SOther, Doorbell, NoDoorbell
  <2> QED BY ZenonT(60), <2>1, <2>2, <2>3 DEF Shadow
<1>5. Refill => Stays
  <2>1. RefillStart \/ RefillWait \/ RefillClaim \/ RefillWrite \/ RefillCopy => Stays
    BY ZenonT(60)
       DEF RefillStart, RefillWait, RefillClaim, RefillWrite, RefillCopy, ZOther
  <2>2. RefillCommit => Stays
    BY ZenonT(60) DEF RefillCommit, ZOther, Doorbell, NoDoorbell
  <2> QED BY ZenonT(60), <2>1, <2>2 DEF Refill
<1> QED BY ZenonT(60), <1>1, <1>2, <1>3, <1>4, <1>5

\* The thread takes an error back only into its result.
LEMMA ThreadReports ==
  ASSUME Thread \/ Timeout
  PROVE  /\ UNCHANGED <<cur, overtaken>> /\ hw_err' \in {hw_err, 1} /\ tpc' # "wait"
         /\ \/ result' = "err"
            \/ result' = result /\ tpc # "wait" /\ aborted' = aborted
            \/ /\ WaitEnds /\ result' = "ok" /\ tpc = "wait" /\ done = 1
               /\ hw_err = 0 /\ aborted = 0 /\ aborted' = aborted
<1>. USE DEF thread, errs
<1>1. CASE WaitEnds \/ Timeout
  BY SMTT(60), Z3T(60), <1>1 DEF WaitEnds, Timeout, Fail, Elsewhere
<1>2. CASE Rewait \/ TermCancel
  BY <1>2 DEF Rewait, TermCancel, Elsewhere
<1>3. CASE TermLock
  <2>1. tpc = "lock" /\ UNCHANGED <<cur, overtaken, aborted, result>>
    BY ZenonT(60), <1>3 DEF TermLock
  <2>2. hw_err' \in {hw_err, 1} /\ tpc' # "wait"
    BY SMTT(60), Z3T(60), <1>3
       DEF TermLock, TermNotConfigured, TermIdle, TermStopped, TermForce, TermRequest,
           Returns
  <2> QED BY SMTT(60), Z3T(60), <2>1, <2>2
<1>4. CASE TermDrain \/ TermFreed
  BY <1>4 DEF TermDrain, TermFreed, Returns, Elsewhere
<1> QED BY ZenonT(60), <1>1, <1>2, <1>3, <1>4 DEF Thread

\* As long as everything goes well only the launch, the hardware, the Done interrupt and
\* the workers go on; anything else is the beginning of an error.
LEMMA CleanDisables ==
  ASSUME Clean, Next, cur = 1
  PROVE  Timeout \/ Launch \/ HwDone \/ HwAbort \/ NotLive \/ PeerKills \/ DoneInterrupt
           \/ DoneLocked \/ AbortInterrupt \/ Shadow \/ Refill
<1>. USE DEF Clean
<1>1. ~StartLong /\ ~StartShort /\ ~Terminated
  BY DEF StartLong, StartShort, Terminated
<1>2. ~Thread
  BY DEF Thread, WaitEnds, Rewait, TermCancel, TermLock, TermDrain, TermFreed
<1>3. ~AbortLocked /\ ~AbortIdle /\ ~Tasklet /\ ~FreeDesc
  BY DEF AbortLocked, AbortIdle, Tasklet, FreeDesc, FreeMark, FreeShadow, FreeChunks
<1> QED BY ZenonT(60), <1>1, <1>2, <1>3 DEF Next, Interrupts

\* What was moved in full stays so.
LEMMA FullStays ==
  ASSUME Full, OwnInv, cur = 1, Next, ~StartShort
  PROVE  Full'
<1>. BareInv /\ FreshInv /\ ListInv /\ GoneInv /\ ModeInv /\ ShadowInv /\ WorkInv /\ RefillInv /\ MemInv
  BY SMTT(60), Z3T(60) DEF OwnInv, CoreInv
<1>1. ~StartLong /\ ~Launch /\ ~HwDone /\ ~HwAbort
  BY SMTT(60), Z3T(60)
     DEF Full, StartLong, Launch, LaunchStart, LaunchWrite, LaunchCopy,
         LaunchDoorbell, HwDone, HwAbort
<1>2. ~Refill
  BY
     DEF Full, Refill, RefillStart, RefillWait, RefillClaim, RefillWrite, RefillCopy,
         RefillCommit
<1>3. Shadow => ShadowStart \/ ShadowNothing
  BY ZenonT(60)
     DEF Full, Shadow, ShadowFill, ShadowFailed, ShadowSwitch, ShadowStopped,
         ShadowHandoff, ShadowRecheck, ShadowAcquire, ShadowCopy, ShadowUnbuild,
         ShadowCommit, ShadowShort, ShadowShort2
<1>4. NextDesc = 0
  BY DEF Full, NextDesc, ListInv
<1>5. CASE Thread \/ Timeout
  <2>1. UNCHANGED <<moved, xfer_sz, lpc, shadow_state, shadow_chunk, wpc, zq, zpc>>
    <3>1. WaitEnds \/ Timeout \/ Rewait \/ TermCancel \/ TermFreed
            => UNCHANGED <<moved, xfer_sz, lpc, shadow_state, shadow_chunk, wpc, zq, zpc>>
      BY ZenonT(60)
         DEF WaitEnds, Timeout, Rewait, TermCancel, TermFreed, Elsewhere, hw, launch,
             desc, shadows, swork, zwork
    <3>2. TermLock \/ TermDrain
            => UNCHANGED <<moved, xfer_sz, lpc, shadow_state, shadow_chunk, wpc, zq, zpc>>
      BY ZenonT(60) DEF TermLock, TermDrain, hw, launch, desc, shadows, swork, zwork
    <3> QED BY ZenonT(60), <1>5, <3>1, <3>2 DEF Thread
  <2>2. lq' \in {0, lq} /\ (1 \in issued' => 1 \in issued) /\ (cs' = "run" => cs = "run")
    <3>1. WaitEnds \/ Timeout \/ Rewait \/ TermCancel \/ TermFreed \/ TermDrain
            => lq' \in {0, lq} /\ (1 \in issued' => 1 \in issued) /\ cs' = cs
      BY ZenonT(60)
         DEF WaitEnds, Timeout, Rewait, TermCancel, TermFreed, TermDrain, Elsewhere,
             hw, launch, lists
    <3>2. TermLock => lq' = lq /\ (1 \in issued' => 1 \in issued) /\ (cs' = "run" => cs = "run")
      BY
         DEF TermLock, TermNotConfigured, TermIdle, TermStopped, TermForce,
             TermRequest, SoftReset, Cycled, lists
    <3> QED BY ZenonT(60), <1>5, <3>1, <3>2 DEF Thread
  <2> QED BY <2>1, <2>2 DEF Full
<1>6. CASE NotLive \/ PeerKills \/ Terminated
  <2>1. UNCHANGED <<moved, xfer_sz, issued, lq, lpc, shadow_state, shadow_chunk, wpc, zq, zpc>>
        /\ (cs' = "run" => cs = "run")
    BY <1>6
       DEF NotLive, PeerKills, Terminated, World, vars, hw, launch, lists, desc,
           shadows, swork, zwork
  <2> QED BY ZenonT(60), <2>1 DEF Full
<1>7. CASE Interrupts \/ Tasklet
  <2>1. DoneInterrupt \/ AbortInterrupt \/ AbortIdle \/ Tasklet
          => UNCHANGED <<moved, xfer_sz, issued, cs, lq, lpc, shadow_state, shadow_chunk, wpc, zq, zpc>>
    BY ZenonT(60)
       DEF DoneInterrupt, AbortInterrupt, AbortIdle, Tasklet, hw, launch, lists, desc,
           shadows, swork, zwork
  <2>2. AbortLocked
          => UNCHANGED <<moved, xfer_sz, issued, cs, lq, lpc, shadow_state, shadow_chunk, wpc, zq, zpc>>
    BY SMTT(60), Z3T(60), <1>4
       DEF AbortLocked, hw, launch, lists, desc, shadows, swork, zwork
  <2>3. DoneLocked
          => UNCHANGED <<moved, xfer_sz, issued, cs, lq, lpc, shadow_state, shadow_chunk, wpc, zq, zpc>>
    BY <1>4 DEF DoneLocked, CompleteLong, CompleteShort, hw, launch, lists, shadows
  <2> QED BY <1>7, <2>1, <2>2, <2>3 DEF Interrupts, Full
<1>8. CASE FreeDesc
  <2>1. UNCHANGED <<moved, xfer_sz, issued, cs, lq, lpc, wpc, zpc>>
    BY <1>8, ZenonT(60)
       DEF FreeDesc, FreeMark, FreeShadow, FreeChunks, FOther, hw, launch, lists
  <2>2. shadow_chunk' \in {0, shadow_chunk} /\ zq' \in {0, zq}
        /\ (shadow_state = "idle" => shadow_state' = "idle")
    BY <1>8 DEF FreeDesc, FreeMark, FreeShadow, FreeChunks, shadows
  <2> QED BY <2>1, <2>2 DEF Full
<1>9. CASE ShadowStart \/ ShadowNothing
  <2>1. UNCHANGED <<moved, xfer_sz, issued, cs, lq, lpc, shadow_state, shadow_chunk, zq, zpc>>
    BY <1>9, ZenonT(60)
       DEF ShadowStart, ShadowNothing, SOther, hw, launch, lists, desc, shadows, zwork
  <2>2. wpc' \in {"idle", "nothing"}
    BY <1>9 DEF ShadowStart, ShadowNothing, SEnd, Full
  <2> QED BY <2>1, <2>2 DEF Full
<1> QED BY ZenonT(60), <1>1, <1>2, <1>3, <1>5, <1>6, <1>7, <1>8, <1>9 DEF Next

\* Steps of the others leave a clean transfer clean, or spoil it for the thread to see.
LEMMA CleanStays ==
  ASSUME Clean, Launch \/ HwDone \/ HwAbort \/ NotLive \/ DoneInterrupt \/ Shadow \/ Refill
  PROVE  Clean' \/ Dirty'
<1>1. UNCHANGED <<tpc, result>> /\ hw_err' \in {hw_err, 1} /\ aborted' \in {aborted, 1}
  BY ErrorsStay DEF Interrupts
<1>2. UNCHANGED <<done, issued, completed, fpc, request>>
  <2>. USE DEF lists, chan, freeing, errs
  <2>1. Launch => UNCHANGED <<done, issued, completed, fpc, request>>
    BY ZenonT(60)
       DEF Launch, LaunchStart, LaunchWrite, LaunchCopy, LaunchDoorbell, Quiet
  <2>2. HwDone \/ HwAbort \/ NotLive \/ DoneInterrupt => UNCHANGED <<done, issued, completed, fpc, request>>
    BY ZenonT(60) DEF HwDone, HwAbort, NotLive, World, DoneInterrupt
  <2>3. Shadow => UNCHANGED <<done, issued, completed, fpc, request>>
    <3>1. ShadowStart \/ ShadowNothing \/ ShadowFill \/ ShadowFailed \/ ShadowSwitch
            \/ ShadowStopped \/ ShadowHandoff => UNCHANGED <<done, issued, completed, fpc, request>>
      BY ZenonT(60)
         DEF ShadowStart, ShadowNothing, ShadowFill, ShadowFailed, ShadowSwitch,
             ShadowStopped, ShadowHandoff, SOther
    <3>2. ShadowRecheck \/ ShadowAcquire \/ ShadowCopy \/ ShadowUnbuild \/ ShadowCommit
            \/ ShadowShort \/ ShadowShort2 => UNCHANGED <<done, issued, completed, fpc, request>>
      BY ZenonT(60)
         DEF ShadowRecheck, ShadowAcquire, ShadowCopy, ShadowUnbuild, ShadowCommit,
             ShadowShort, ShadowShort2, SOther
    <3> QED BY ZenonT(60), <3>1, <3>2 DEF Shadow
  <2>4. Refill => UNCHANGED <<done, issued, completed, fpc, request>>
    <3>1. request # "stop"
      BY DEF Clean
    <3>2. RefillStart \/ RefillWait \/ RefillWrite \/ RefillCopy
            => UNCHANGED <<done, issued, completed, fpc, request>>
      BY ZenonT(60) DEF RefillStart, RefillWait, RefillWrite, RefillCopy, ZOther
    <3>3. RefillClaim \/ RefillCommit => UNCHANGED <<done, issued, completed, fpc, request>>
      BY ZenonT(60), <3>1 DEF RefillClaim, RefillCommit, ZOther
    <3> QED BY ZenonT(60), <3>2, <3>3 DEF Refill
  <2> QED BY ZenonT(60), <2>1, <2>2, <2>3, <2>4
<1>3. ipc' = ipc \/ ipc' = "done"
  BY ZenonT(60)
     DEF Launch, LaunchStart, LaunchWrite, LaunchCopy, LaunchDoorbell, Quiet, HwDone,
         HwAbort, NotLive, World, DoneInterrupt, Shadow, ShadowStart, ShadowNothing,
         ShadowFill, ShadowFailed, ShadowSwitch, ShadowStopped, ShadowHandoff,
         ShadowRecheck, ShadowAcquire, ShadowCopy, ShadowUnbuild, ShadowCommit,
         ShadowShort, ShadowShort2, SOther, Refill, RefillStart, RefillWait,
         RefillClaim, RefillWrite, RefillCopy, RefillCommit, ZOther
<1>4. shadow_state' = shadow_state \/ shadow_state' # "cancelled"
  <2>. USE DEF desc
  <2>1. Launch \/ HwDone \/ HwAbort \/ NotLive \/ DoneInterrupt => UNCHANGED shadow_state
    BY ZenonT(60)
       DEF Launch, LaunchStart, LaunchWrite, LaunchCopy, LaunchDoorbell, HwDone,
           HwAbort, NotLive, World, DoneInterrupt
  <2>2. Refill => UNCHANGED shadow_state
    BY RefillLeaves
  <2>3. ShadowStart \/ ShadowNothing \/ ShadowFill \/ ShadowStopped \/ ShadowRecheck
          \/ ShadowAcquire \/ ShadowCopy \/ ShadowShort \/ ShadowShort2 => UNCHANGED shadow_state
    BY ZenonT(60)
       DEF ShadowStart, ShadowNothing, ShadowFill, ShadowStopped, ShadowRecheck,
           ShadowAcquire, ShadowCopy, ShadowShort, ShadowShort2
  <2>4. ShadowFailed \/ ShadowSwitch \/ ShadowHandoff \/ ShadowUnbuild \/ ShadowCommit
          => shadow_state' = shadow_state \/ shadow_state' # "cancelled"
    BY DEF ShadowFailed, ShadowSwitch, ShadowHandoff, ShadowUnbuild, ShadowCommit
  <2> QED BY ZenonT(60), <2>1, <2>2, <2>3, <2>4 DEF Shadow
<1> QED BY ZenonT(60), <1>1, <1>2, <1>3, <1>4 DEF Clean, Dirty

\* A worker that is neither queued nor running does nothing.
LEMMA WorkersRest ==
  /\ sq = 0 /\ wpc = "idle" => ~Shadow
  /\ zq = 0 /\ zpc = "idle" => ~Refill
<1>1. sq # 1 /\ wpc = "idle" => ~Shadow
  BY ZenonT(60)
     DEF Shadow, ShadowStart, ShadowNothing, ShadowFill, ShadowFailed, ShadowSwitch,
         ShadowStopped, ShadowHandoff, ShadowRecheck, ShadowAcquire, ShadowCopy,
         ShadowUnbuild, ShadowCommit, ShadowShort, ShadowShort2
<1>2. zq # 1 /\ zpc = "idle" => ~Refill
  BY ZenonT(60)
     DEF Refill, RefillStart, RefillWait, RefillClaim, RefillWrite, RefillCopy,
         RefillCommit
<1> QED BY SMTT(60), Z3T(60), <1>1, <1>2

\* The first chunk comes to its doorbell.
LEMMA LaunchingGoes ==
  ASSUME Clean, Clean', Launching, OwnInv, ConstantsAssumption, cur = 1, overtaken' = 0,
         Launch \/ HwDone \/ HwAbort \/ NotLive \/ DoneInterrupt \/ Shadow \/ Refill
  PROVE  Launching' \/ ShadowRun' \/ FixedRun'
<1>. BareInv /\ FreshInv /\ ListInv /\ GoneInv /\ ModeInv /\ ShadowInv /\ WorkInv /\ RefillInv /\ MemInv
  BY ZenonT(60) DEF OwnInv, CoreInv
<1>1. ~HwDone /\ ~HwAbort /\ ~DoneInterrupt
  BY DEF Launching, HwDone, HwAbort, DoneInterrupt
<1>2. ~Shadow
  BY WorkersRest DEF Launching
<1>3. ~Refill
  BY SMTT(60), Z3T(60), WorkersRest DEF Launching
<1>4. CASE NotLive
  <2>1. UNCHANGED <<moved, xfer_sz, chunk, cursor, lazy_mode, xfer_started, cs, done_int, ipc, abort_int,
                    sq, wpc, zq, zpc, built, mode, shadow_state, shadow_chunk, has_more,
                    sg_remaining, lpc, desc_buf, sram>>
    BY <1>4, ZenonT(60)
       DEF NotLive, World, hw, desc, scan, shadows, swork, zwork, launch, tables
  <2> QED BY <2>1 DEF Launching
<1>5. CASE Launch
  <2>1. UNCHANGED <<xfer_sz, chunk, cursor, lazy_mode, ipc, abort_int, moved, wpc, zq, zpc, built,
                    mode, shadow_state, shadow_chunk, has_more, sg_remaining, wret>>
    BY <1>5, ZenonT(60)
       DEF Launch, LaunchStart, LaunchWrite, LaunchCopy, LaunchDoorbell, Quiet,
           Doorbell, NoDoorbell, hw, desc, scan, shadows, swork, zwork
  <2>2. CASE LaunchStart \/ LaunchWrite \/ LaunchCopy
    <3>1. UNCHANGED <<xfer_started, cs, sq>> /\ done_int' \in {0, done_int}
      BY <2>2, ZenonT(60) DEF LaunchStart, LaunchWrite, LaunchCopy, hw, swork
    <3>2. lpc # "idle" => pending = 1
      BY DEF FreshInv
    <3>3. (lpc' = "copy" => desc_buf' = 1) /\ (lpc' = "armed" => sram' = 1)
      <4>1. CASE LaunchStart
        BY ZenonT(60), <4>1 DEF LaunchStart, Launching, tables
      <4>2. CASE LaunchWrite
        BY ZenonT(60), <4>2, <3>2 DEF LaunchWrite, LaunchFails, Launching, Active
      <4>3. CASE LaunchCopy
        BY SMTT(60), Z3T(60), <4>3 DEF LaunchCopy, LaunchFails, Launching
      <4> QED BY ZenonT(60), <2>2, <4>1, <4>2, <4>3
    <3> QED BY SMTT(60), Z3T(60), <2>1, <3>1, <3>3 DEF Launching
  <2>3. CASE LaunchDoorbell
    <3>1. lpc = "armed" /\ lpc' = "idle" /\ UNCHANGED <<lq, sram, desc_buf>>
      BY SMTT(60), Z3T(60), <2>3 DEF LaunchDoorbell, tables
    <3>2. lq = 0
      BY SMTT(60), Z3T(60), <3>1 DEF FreshInv
    <3>3. (NoDoorbell /\ UNCHANGED sq) \/ Doorbell
      BY ZenonT(60), <2>3 DEF LaunchDoorbell
    <3>4. CASE NoDoorbell /\ UNCHANGED sq
      BY ZenonT(60), <2>1, <3>1, <3>4 DEF Launching, NoDoorbell, hw
    <3>5. CASE Doorbell
      <4>1. xfer_started' = 1 /\ done_int' = 0 /\ cs' = "run" /\ moving' = 1
        BY ZenonT(60), <3>1, <3>5 DEF Doorbell, Launching
      <4>2. moved' = FirstChunks(0)
        BY SMTT(60), Z3T(60), <2>1 DEF Launching, FirstChunks
      <4>3. Moving'
        BY SMTT(60), Z3T(60), <2>1, <4>1, <4>2
           DEF Moving, Launching, ConstantsAssumption
      <4>4. mode \in {"shadow", "fixed"}
        BY SMTT(60), Z3T(60) DEF ModeInv
      <4>5. CASE mode = "fixed"
        BY SMTT(60), Z3T(60), <2>1, <3>1, <3>2, <4>3, <4>5
           DEF FixedRun, Launching, ConstantsAssumption
      <4>6. CASE mode = "shadow"
        <5>1. ShadowAhead'
          BY SMTT(60), Z3T(60), <2>1, <3>1, <4>6
             DEF ShadowAhead, Launching, ConstantsAssumption
        <5> QED BY ZenonT(60), <2>1, <3>1, <3>2, <4>3, <4>6, <5>1
                   DEF ShadowRun, Launching
      <4> QED BY ZenonT(60), <4>4, <4>5, <4>6
    <3> QED BY ZenonT(60), <3>3, <3>4, <3>5
  <2> QED BY ZenonT(60), <1>5, <2>2, <2>3 DEF Launch
<1> QED BY ZenonT(60), <1>1, <1>2, <1>3, <1>4, <1>5

\* The hardware moves the active chunk.
LEMMA MovingGoes ==
  ASSUME Moving, HwDone \/ HwAbort, UNCHANGED <<chunk, xfer_sz, ipc>>
  PROVE  Moving'
<1>1. cs = "run" /\ UNCHANGED xfer_started
  BY SMTT(60), Z3T(60) DEF HwDone, HwAbort
<1>2. moving = chunk /\ moved = FirstChunks(chunk - 1) /\ done_int = 0 /\ ipc = "idle"
  BY ZenonT(60), <1>1 DEF Moving
<1>3. CASE HwDone
  <2>1. cs' = "stop" /\ moved' = Append(moved, moving)
    BY SMTT(60), Z3T(60), <1>3 DEF HwDone
  <2>2. chunk - 1 \in Nat /\ (chunk - 1) + 1 = chunk
    BY DEF Moving
  <2>3. moved' = FirstChunks(chunk)
    BY ZenonT(60), <1>2, <2>1, <2>2, NextChunk
  <2> QED BY ZenonT(60), <1>1, <2>1, <2>3 DEF Moving
<1>4. CASE HwAbort
  <2>1. cs' = "err" /\ UNCHANGED done_int
    BY SMTT(60), Z3T(60), <1>4 DEF HwAbort
  <2> QED BY ZenonT(60), <1>1, <1>2, <2>1 DEF Moving
<1> QED BY ZenonT(60), <1>3, <1>4

\* A Done that is in the interrupt handler does not disturb.
LEMMA QuietlyMoving ==
  ASSUME UNCHANGED <<chunk, xfer_sz, xfer_started, cs, moving, moved>>,
         UNCHANGED <<done_int, ipc>> \/ DoneInterrupt
  PROVE  (Moving => Moving') /\ (Served => Served')
<1>1. Served => Served'
  BY ZenonT(60) DEF Served
<1>2. CASE UNCHANGED <<done_int, ipc>>
  BY ZenonT(60), <1>2, <1>1 DEF Moving
<1>3. CASE DoneInterrupt
  <2>1. done_int = 1
    BY SMTT(60), Z3T(60), <1>3 DEF DoneInterrupt
  <2> QED BY SMTT(60), Z3T(60), <1>1, <2>1 DEF Moving
<1> QED BY SMTT(60), Z3T(60), <1>2, <1>3

\* Shadow mode: the hardware and the interrupt.
LEMMA ShadowRunsOn ==
  ASSUME ShadowRun, HwDone \/ HwAbort \/ NotLive \/ DoneInterrupt
  PROVE  ShadowRun'
<1>1. UNCHANGED <<mode, lq, lpc, chunk, has_more, cursor, shadow_state, shadow_chunk, lazy_mode,
                  sg_remaining, wpc, built, desc_buf, wret, sram, xfer_started, xfer_sz>>
  BY ZenonT(60)
     DEF HwDone, HwAbort, NotLive, World, DoneInterrupt, scan, launch, desc, shadows,
         swork, tables
<1>2. ShadowAhead'
  BY <1>1 DEF ShadowRun, ShadowAhead
<1>3. CASE HwDone \/ HwAbort
  <2>1. UNCHANGED ipc /\ cs = "run"
    BY ZenonT(60), <1>3 DEF HwDone, HwAbort, World
  <2>2. Moving /\ shadow_state \in {"idle", "building", "ready"}
          /\ wpc \notin {"handoff", "precopy", "copy", "unbuild", "commit"}
    BY <2>1 DEF ShadowRun, Served
  <2>3. Moving'
    BY ZenonT(60), <1>1, <1>3, <2>1, <2>2, MovingGoes
  <2> QED BY ZenonT(60), <1>1, <1>2, <2>2, <2>3 DEF ShadowRun
<1>4. CASE NotLive \/ DoneInterrupt
  <2>1. UNCHANGED <<cs, moving, moved>> /\ (UNCHANGED <<done_int, ipc>> \/ DoneInterrupt)
    BY ZenonT(60), <1>4 DEF NotLive, World, DoneInterrupt, hw
  <2>2. (Moving => Moving') /\ (Served => Served')
    BY ZenonT(60), <1>1, <2>1, QuietlyMoving
  <2> QED BY ZenonT(60), <1>1, <1>2, <2>2 DEF ShadowRun
<1> QED BY SMTT(60), Z3T(60), <1>3, <1>4

\* What the shadow worker leaves alone until it commits
LEMMA ShadowLeaves ==
  ASSUME ShadowStart \/ ShadowFill \/ ShadowSwitch \/ ShadowStopped \/ ShadowHandoff
           \/ ShadowRecheck \/ ShadowAcquire \/ ShadowCopy
  PROVE  UNCHANGED <<mode, lq, lpc, chunk, shadow_chunk, lazy_mode, sg_remaining, cs, moving, moved,
                     ipc>>
<1>. USE DEF SOther, launch, shadows, hw, desc
<1>1. ShadowStart \/ ShadowFill \/ ShadowSwitch \/ ShadowStopped
        => UNCHANGED <<mode, lq, lpc, chunk, shadow_chunk, lazy_mode, sg_remaining, cs, moving, moved,
                       ipc>>
  BY ZenonT(60) DEF ShadowStart, ShadowFill, ShadowSwitch, ShadowStopped
<1>2. ShadowHandoff \/ ShadowRecheck \/ ShadowAcquire \/ ShadowCopy
        => UNCHANGED <<mode, lq, lpc, chunk, shadow_chunk, lazy_mode, sg_remaining, cs, moving, moved,
                       ipc>>
  BY ZenonT(60) DEF ShadowHandoff, ShadowRecheck, ShadowAcquire, ShadowCopy
<1> QED BY SMTT(60), Z3T(60), <1>1, <1>2

\* The shadow worker starts, fills and switches.
LEMMA ShadowBuilds ==
  ASSUME ShadowRun, CoreInv, ConstantsAssumption, ShadowStart \/ ShadowFill \/ ShadowSwitch
  PROVE  ShadowRun'
<1>. ListInv /\ GoneInv /\ ModeInv /\ ShadowInv /\ WorkInv /\ RefillInv /\ MemInv
  BY SMTT(60), Z3T(60) DEF CoreInv
<1>1. UNCHANGED <<mode, lq, lpc, chunk, shadow_chunk, lazy_mode, sg_remaining, cs, moving, moved, ipc>>
  BY ShadowLeaves
<1>2. UNCHANGED <<xfer_started, done_int, xfer_sz, sram>>
  BY ZenonT(60) DEF ShadowStart, ShadowFill, ShadowSwitch, hw, tables
<1>3. (Moving => Moving') /\ (Served => Served')
  BY ZenonT(60), <1>1, <1>2, QuietlyMoving
<1>4. wpc \in {"idle", "fill", "switch"}
  BY ZenonT(60) DEF ShadowStart, ShadowFill, ShadowSwitch
<1>5. \/ Moving /\ shadow_state \in {"idle", "building", "ready"}
      \/ Served /\ xfer_sz = chunk /\ shadow_state = "isr_pending"
  BY <1>4 DEF ShadowRun
<1>6. mode = "shadow" /\ lq = 0 /\ lpc = "idle" /\ ShadowAhead
  BY ZenonT(60) DEF ShadowRun
<1>7. CASE ShadowStart
  <2>1. /\ UNCHANGED <<has_more, cursor, shadow_state, built, desc_buf>> /\ wpc = "idle" /\ wret' = "ok"
        /\ \/ shadow_state = "isr_pending" /\ wpc' = "precopy"
           \/ wpc' = IF shadow_chunk = 0 THEN "nothing" ELSE "fill"
    BY ZenonT(60), <1>7 DEF ShadowStart, tables
  <2>2. wpc' \in {"nothing", "fill"} \/ (shadow_state = "isr_pending" /\ wpc' = "precopy")
    BY ZenonT(60), <2>1
  <2>3. shadow_state # "idle" => wpc' # "nothing"
    BY SMTT(60), Z3T(60), <1>6, <2>1 DEF ShadowAhead
  <2>4. shadow_state = "idle" => wpc' = "nothing"
    BY ZenonT(60), <1>6, <2>1 DEF ShadowAhead
  <2>5. ShadowAhead'
    BY ZenonT(60), <1>1, <1>6, <2>1, <2>2, <2>4 DEF ShadowAhead
  <2> QED BY ZenonT(60), <1>1, <1>2, <1>3, <1>5, <1>6, <2>1, <2>2, <2>3, <2>5
             DEF ShadowRun
<1>8. CASE ShadowFill
  <2>1. wpc = "fill" /\ UNCHANGED <<shadow_state, wret>>
    BY ZenonT(60), <1>8 DEF ShadowFill
  <2>2. \/ /\ wshadow \notin built /\ built' = built \union {wshadow} /\ desc_buf' = wshadow
           /\ cursor' = cursor + 1 /\ cursor <= Chunks
           /\ has_more' = (IF cursor < Chunks THEN 1 ELSE 0) /\ wpc' = "switch"
        \/ wpc' = "failed" /\ UNCHANGED <<built, cursor, has_more, desc_buf>>
    BY ZenonT(60), <1>8 DEF ShadowFill
  <2>3. wshadow = shadow_chunk
    BY <2>1 DEF WorkInv
  <2>4. shadow_state # "idle"
    BY ZenonT(60), <1>6, <2>1 DEF ShadowAhead
  <2>5. wpc' = "switch" => shadow_state \in {"building", "isr_pending"}
    BY ZenonT(60), <1>5, <1>6, <2>2, <2>3, <2>4 DEF ShadowAhead
  <2>6. cursor \in Int
    BY SMTT(60), Z3T(60) DEF ModeInv
  <2>7. has_more' = IF cursor' <= Chunks THEN 1 ELSE 0
    BY SMTT(60), Z3T(60), <1>6, <2>2, <2>6 DEF ShadowAhead, ConstantsAssumption
  <2>8. (shadow_chunk \in built' => desc_buf' = shadow_chunk) /\ built \subseteq built'
    BY SMTT(60), Z3T(60), <1>6, <2>2, <2>3 DEF ShadowAhead
  <2>9. wpc' \in {"switch", "failed"}
    BY ZenonT(60), <2>2
  <2>10. ShadowAhead'
    BY ZenonT(60), <1>1, <1>6, <2>1, <2>4, <2>5, <2>7, <2>8, <2>9 DEF ShadowAhead
  <2> QED BY ZenonT(60), <1>1, <1>2, <1>3, <1>5, <1>6, <2>1, <2>9, <2>10 DEF ShadowRun
<1>9. CASE ShadowSwitch
  <2>1. wpc = "switch" /\ UNCHANGED <<has_more, cursor, built, desc_buf, wret>>
    BY <1>9 DEF ShadowSwitch, tables
  <2>2. shadow_state \in {"building", "isr_pending"}
    BY ZenonT(60), <1>6, <2>1 DEF ShadowAhead
  <2>3. \/ shadow_state = "building" /\ shadow_state' = "ready" /\ wpc' = "ready"
        \/ shadow_state = "isr_pending" /\ shadow_state' = "isr_pending" /\ wpc' = "precopy"
    BY SMTT(60), Z3T(60), <1>9, <2>2 DEF ShadowSwitch
  <2>4. shadow_chunk \in built
    BY ZenonT(60), <2>1 DEF WorkInv
  <2>5. ShadowAhead'
    BY ZenonT(60), <1>1, <1>6, <2>1, <2>3, <2>4 DEF ShadowAhead
  <2> QED BY ZenonT(60), <1>1, <1>2, <1>3, <1>5, <1>6, <2>3, <2>5 DEF ShadowRun
<1> QED BY ZenonT(60), <1>7, <1>8, <1>9

\* The shadow worker looks whether the active chunk is done.
LEMMA ShadowLooks ==
  ASSUME ShadowRun, CoreInv, ConstantsAssumption, ShadowStopped \/ ShadowHandoff \/ ShadowRecheck
  PROVE  ShadowRun'
<1>. ListInv /\ GoneInv /\ ModeInv /\ ShadowInv /\ WorkInv /\ RefillInv /\ MemInv
  BY DEF CoreInv
<1>1. UNCHANGED <<mode, lq, lpc, chunk, shadow_chunk, lazy_mode, sg_remaining, cs, moving, moved, ipc>>
  BY ShadowLeaves
<1>2. UNCHANGED <<has_more, cursor, built, desc_buf, sram, wret>>
  BY ZenonT(60) DEF ShadowStopped, ShadowHandoff, ShadowRecheck, tables
<1>3. mode = "shadow" /\ lq = 0 /\ lpc = "idle" /\ ShadowAhead
  BY ZenonT(60) DEF ShadowRun
<1>4. wpc \in {"ready", "handoff", "recheck"} /\ wshadow = shadow_chunk /\ shadow_chunk \in built
  BY DEF ShadowStopped, ShadowHandoff, ShadowRecheck, WorkInv
<1>5. CASE ShadowStopped
  <2>1. UNCHANGED <<shadow_state, xfer_sz>>
        /\ \/ xfer_started = 1 /\ cs = "stop" /\ xfer_started' = 0 /\ wpc' = "handoff"
           \/ wpc' = "recheck" /\ UNCHANGED <<done_int, xfer_started>>
    BY ZenonT(60), <1>5 DEF ShadowStopped
  <2>2. wpc = "ready"
    BY ZenonT(60), <1>5 DEF ShadowStopped
  <2>3. \/ Moving /\ shadow_state = "ready"
        \/ Served /\ xfer_sz = chunk /\ shadow_state = "isr_pending"
    BY ZenonT(60), <1>3, <2>2 DEF ShadowRun, ShadowAhead
  <2>4. ShadowAhead'
    BY ZenonT(60), <1>1, <1>2, <1>3, <2>1, <2>3 DEF ShadowAhead
  <2>5. CASE xfer_started = 1 /\ cs = "stop" /\ xfer_started' = 0 /\ wpc' = "handoff"
    <3>1. Moving /\ shadow_state = "ready"
      BY SMTT(60), Z3T(60), <2>3, <2>5 DEF Served
    <3>2. Served' /\ xfer_sz' = chunk' - 1
      BY ZenonT(60), <1>1, <2>1, <2>5, <3>1 DEF Moving, Served
    <3> QED BY ZenonT(60), <1>1, <1>3, <2>1, <2>4, <2>5, <3>1, <3>2 DEF ShadowRun
  <2>6. CASE wpc' = "recheck" /\ UNCHANGED <<done_int, xfer_started>>
    <3>1. (Moving => Moving') /\ (Served => Served')
      BY ZenonT(60), <1>1, <2>1, <2>6, QuietlyMoving
    <3> QED BY ZenonT(60), <1>1, <1>3, <2>1, <2>3, <2>4, <2>6, <3>1 DEF ShadowRun
  <2> QED BY ZenonT(60), <2>1, <2>5, <2>6
<1>6. CASE ShadowHandoff
  <2>1. wpc = "handoff" /\ UNCHANGED xfer_started
    BY ZenonT(60), <1>6 DEF ShadowHandoff
  <2>2. Served /\ xfer_sz = chunk - 1 /\ shadow_state = "ready" /\ lazy_mode = 1 /\ chunk \in 1 .. Chunks
    BY ZenonT(60), <1>3, <2>1 DEF ShadowRun, ShadowAhead
  <2>3. xfer_sz' = xfer_sz + 1 /\ shadow_state' = "isr_pending" /\ wpc' = "precopy"
    BY SMTT(60), Z3T(60), <1>4, <1>6, <2>2 DEF ShadowHandoff, TakeNext
  <2>4. Served' /\ xfer_sz' = chunk'
    BY SMTT(60), Z3T(60), <1>1, <2>1, <2>2, <2>3 DEF Served, ConstantsAssumption
  <2>5. ShadowAhead'
    BY ZenonT(60), <1>1, <1>2, <1>3, <2>2, <2>3 DEF ShadowAhead
  <2> QED BY ZenonT(60), <1>1, <1>3, <2>3, <2>4, <2>5 DEF ShadowRun
<1>7. CASE ShadowRecheck
  <2>1. wpc = "recheck" /\ UNCHANGED <<xfer_started, done_int, shadow_state, xfer_sz>>
    BY ZenonT(60), <1>7 DEF ShadowRecheck, hw
  <2>2. (shadow_state = "isr_pending" /\ wpc' = "precopy") \/ wpc' = "idle"
    BY ZenonT(60), <1>7 DEF ShadowRecheck, TakeNext, SEnd
  <2>3. \/ Moving /\ shadow_state = "ready"
        \/ Served /\ xfer_sz = chunk /\ shadow_state = "isr_pending"
    BY ZenonT(60), <1>3, <2>1 DEF ShadowRun, ShadowAhead
  <2>4. ShadowAhead'
    BY ZenonT(60), <1>1, <1>2, <1>3, <2>1, <2>2, <2>3 DEF ShadowAhead
  <2>5. (Moving => Moving') /\ (Served => Served')
    BY ZenonT(60), <1>1, <2>1, QuietlyMoving
  <2> QED BY ZenonT(60), <1>1, <1>3, <2>1, <2>2, <2>3, <2>4, <2>5 DEF ShadowRun
<1> QED BY <1>5, <1>6, <1>7

\* The shadow worker copies the table.
LEMMA ShadowCopies ==
  ASSUME ShadowRun, Clean, CoreInv, ShadowAcquire \/ ShadowCopy
  PROVE  ShadowRun'
<1>. ListInv /\ GoneInv /\ ModeInv /\ ShadowInv /\ WorkInv /\ RefillInv /\ MemInv
  BY SMTT(60), Z3T(60) DEF CoreInv
<1>1. UNCHANGED <<mode, lq, lpc, chunk, shadow_chunk, lazy_mode, sg_remaining, cs, moving, moved, ipc>>
  BY ShadowLeaves
<1>2. UNCHANGED <<has_more, cursor, built, desc_buf, xfer_started, done_int, shadow_state, xfer_sz>>
  BY ZenonT(60) DEF ShadowAcquire, ShadowCopy, tables, hw, desc
<1>3. mode = "shadow" /\ lq = 0 /\ lpc = "idle" /\ ShadowAhead
  BY ZenonT(60) DEF ShadowRun
<1>4. wpc \in {"precopy", "copy"} /\ shadow_chunk \in built
  BY SMTT(60), Z3T(60) DEF ShadowAcquire, ShadowCopy, WorkInv
<1>5. Served /\ xfer_sz = chunk /\ shadow_state = "isr_pending"
  BY SMTT(60), Z3T(60), <1>4 DEF ShadowRun
<1>6. ~Unwanted
  BY DEF Clean, Unwanted
<1>7. \A ret : PrecopyFails(ret) => wpc' = "unbuild" /\ wret' = "err"
  BY <1>6 DEF PrecopyFails
<1>8. \/ wpc' = "copy"
      \/ wpc' = "commit" /\ sram' = desc_buf
      \/ wpc' = "unbuild" /\ wret' = "err"
  BY ZenonT(60), <1>7 DEF ShadowAcquire, ShadowCopy
<1>9. ShadowAhead'
  BY ZenonT(60), <1>1, <1>2, <1>3, <1>4, <1>5, <1>8 DEF ShadowAhead
<1>10. Served'
  BY ZenonT(60), <1>1, <1>2, <1>5 DEF Served
<1> QED BY ZenonT(60), <1>1, <1>2, <1>3, <1>5, <1>8, <1>9, <1>10 DEF ShadowRun

\* The shadow worker rings for the next chunk.
LEMMA ShadowCommits ==
  ASSUME ShadowRun, Clean, Clean', CoreInv, ConstantsAssumption, overtaken' = 0, ShadowCommit
  PROVE  ShadowRun'
<1>. ListInv /\ GoneInv /\ ModeInv /\ ShadowInv /\ WorkInv /\ RefillInv /\ MemInv
  BY DEF CoreInv
<1>1. UNCHANGED <<mode, lq, lpc, ipc, has_more, cursor, built, desc_buf, sram, xfer_sz, moved>>
  BY ZenonT(60) DEF ShadowCommit, SOther, launch, tables, Doorbell, NoDoorbell, hw
<1>2. wpc = "commit" /\ ~Unwanted /\ hw_err' = 0
  BY SMTT(60), Z3T(60) DEF ShadowCommit, Clean, Unwanted
<1>3. /\ chunk' = wshadow /\ Doorbell /\ shadow_chunk' = wnext
      /\ IF has_more = 0 THEN lazy_mode' = 0 /\ sg_remaining' = 0
         ELSE UNCHANGED <<lazy_mode, sg_remaining>>
      /\ IF wnext # 0 THEN shadow_state' = "building" ELSE shadow_state' = "idle"
      /\ wpc' = IF has_more = 1 /\ wnext = 0 THEN "short" ELSE "idle"
  BY SMTT(60), Z3T(60), <1>2 DEF ShadowCommit, SEnd
<1>4. wshadow = shadow_chunk /\ shadow_chunk \in built
  BY SMTT(60), Z3T(60), <1>2 DEF WorkInv
<1>5. mode = "shadow" /\ lq = 0 /\ lpc = "idle" /\ ShadowAhead
  BY DEF ShadowRun
<1>6. Served /\ xfer_sz = chunk /\ shadow_state = "isr_pending"
  BY ZenonT(60), <1>2 DEF ShadowRun
<1>7. /\ chunk \in 1 .. Chunks /\ shadow_chunk = chunk + 1 /\ lazy_mode = 1 /\ sg_remaining > 0
      /\ sram = shadow_chunk /\ has_more = IF cursor <= Chunks THEN 1 ELSE 0
  BY ZenonT(60), <1>2, <1>5, <1>6 DEF ShadowAhead
<1>8. /\ cursor \in 0 .. Short /\ shadow_chunk = cursor - 1 /\ shadow_chunk \in 0 .. Chunks
      /\ wnext \in 0 .. Chunks /\ (wnext # 0 => wnext = cursor)
      /\ built \subseteq 1 .. cursor - 1
  BY SMTT(60), Z3T(60), <1>4, <1>5, <1>7 DEF ModeInv, ShadowInv
<1>9. Moving'
  <2>1. /\ xfer_started' = 1 /\ done_int' = 0 /\ cs' = "run" /\ moving' = sram /\ ipc = "idle"
    BY SMTT(60), Z3T(60), <1>3 DEF Doorbell
  <2>2. chunk' \in 1 .. Chunks /\ chunk' - 1 = chunk
    BY SMTT(60), Z3T(60), <1>3, <1>4, <1>7, <1>8
  <2> QED BY ZenonT(60), <1>1, <1>3, <1>4, <1>6, <1>7, <2>1, <2>2 DEF Moving, Served
<1>10. ShadowAhead'
  <2>1. chunk' \in 1 .. Chunks /\ chunk' = cursor - 1
    BY SMTT(60), Z3T(60), <1>3, <1>4, <1>7, <1>8
  <2>2. CASE wnext # 0
    <3>1. /\ shadow_chunk' = cursor /\ cursor <= Chunks /\ shadow_state' = "building" /\ wpc' = "idle"
          /\ lazy_mode' = 1 /\ sg_remaining' > 0
      BY SMTT(60), Z3T(60), <1>3, <1>7, <1>8, <2>2
    <3>2. cursor \notin built /\ shadow_chunk' = chunk' + 1
      BY SMTT(60), Z3T(60), <1>8, <2>1, <3>1
    <3> QED BY ZenonT(60), <1>1, <1>7, <2>1, <3>1, <3>2 DEF ShadowAhead
  <2>3. CASE wnext = 0
    <3>1. shadow_chunk' = 0 /\ shadow_state' = "idle" /\ 0 \notin built
      BY SMTT(60), Z3T(60), <1>3, <1>8, <2>3
    <3>2. CASE cursor <= Chunks
      <4>1. wpc' = "short" /\ lazy_mode' = 1 /\ sg_remaining' > 0
        BY SMTT(60), Z3T(60), <1>3, <1>7, <2>3, <3>2
      <4> QED BY ZenonT(60), <1>1, <1>7, <2>1, <3>1, <4>1 DEF ShadowAhead
    <3>3. CASE ~(cursor <= Chunks)
      <4>1. wpc' = "idle" /\ chunk' = Chunks
        BY SMTT(60), Z3T(60), <1>3, <1>7, <1>8, <2>1, <3>3
           DEF Short, ConstantsAssumption
      <4> QED BY ZenonT(60), <1>1, <1>7, <2>1, <3>1, <4>1 DEF ShadowAhead
    <3> QED BY ZenonT(60), <3>2, <3>3
  <2> QED BY ZenonT(60), <2>2, <2>3
<1>11. wpc' \in {"short", "idle"} /\ shadow_state' \in {"idle", "building"}
  BY <1>3
<1> QED BY ZenonT(60), <1>1, <1>5, <1>9, <1>10, <1>11 DEF ShadowRun

\* Shadow mode: every step of the worker that is not an error goes on.
LEMMA ShadowGoesOn ==
  ASSUME ShadowRun, Clean, Clean', CoreInv, ConstantsAssumption, overtaken' = 0,
         Launch \/ HwDone \/ HwAbort \/ NotLive \/ DoneInterrupt \/ Shadow \/ Refill
  PROVE  ShadowRun'
<1>. ListInv /\ GoneInv /\ ModeInv /\ ShadowInv /\ WorkInv /\ RefillInv /\ MemInv
  BY ZenonT(60) DEF CoreInv
<1>0. lq # 1 /\ lpc = "idle" /\ ShadowAhead /\ hw_err' # 1
  BY DEF ShadowRun, Clean
<1>1. ~Launch
  BY ZenonT(60), <1>0 DEF Launch, LaunchStart, LaunchWrite, LaunchCopy, LaunchDoorbell
<1>2. ~Refill
  BY ZenonT(60), WorkersRest DEF ShadowRun, ModeInv
<1>3. ~ShadowNothing /\ ~ShadowFailed
  BY ZenonT(60), <1>0 DEF Clean, ShadowNothing, ShadowFailed
<1>4. ~ShadowUnbuild
  BY ZenonT(60), <1>0 DEF ShadowUnbuild, ShadowAhead
<1>5. ~ShadowShort /\ ~ShadowShort2
  BY SMTT(60), Z3T(60) DEF Clean, ShadowShort, ShadowShort2, ShadowRun, ShadowAhead
<1> QED BY ZenonT(60), <1>1, <1>2, <1>3, <1>4, <1>5, ShadowRunsOn, ShadowBuilds,
           ShadowLooks, ShadowCopies, ShadowCommits
           DEF Shadow

\* Fixed-buffer mode: the hardware and the interrupt.
LEMMA FixedRunsOn ==
  ASSUME FixedRun, HwDone \/ HwAbort \/ NotLive \/ DoneInterrupt
  PROVE  FixedRun'
<1>1. UNCHANGED <<mode, lq, lpc, chunk, cursor, lazy_mode, lazy_state, zq, zpc, zchild, zret, desc_buf, sram,
                  xfer_started, xfer_sz>>
  BY ZenonT(60)
     DEF HwDone, HwAbort, NotLive, World, DoneInterrupt, scan, launch, desc, zwork,
         tables
<1>2. CASE HwDone \/ HwAbort
  <2>1. UNCHANGED ipc /\ cs = "run"
    BY <1>2 DEF HwDone, HwAbort, World
  <2>2. Moving /\ cursor = chunk + 1 /\ zq = 0 /\ zpc = "idle"
          /\ lazy_mode = IF chunk < Chunks THEN 1 ELSE 0
    BY <2>1 DEF FixedRun, Served
  <2>3. Moving'
    BY ZenonT(60), <1>1, <1>2, <2>1, <2>2, MovingGoes
  <2> QED BY ZenonT(60), <1>1, <2>2, <2>3 DEF FixedRun
<1>3. CASE NotLive \/ DoneInterrupt
  <2>1. UNCHANGED <<cs, moving, moved>> /\ (UNCHANGED <<done_int, ipc>> \/ DoneInterrupt)
    BY <1>3 DEF NotLive, World, DoneInterrupt, hw
  <2>2. (Moving => Moving') /\ (Served => Served')
    BY SMTT(60), Z3T(60), <1>1, <2>1, QuietlyMoving
  <2> QED BY ZenonT(60), <1>1, <2>1, <2>2 DEF FixedRun
<1> QED BY <1>2, <1>3

\* The refill gives the chunk its next batch and rings.
LEMMA RefillGoesOn ==
  ASSUME FixedRun, Clean, Clean', CoreInv, ConstantsAssumption, overtaken' = 0, Refill
  PROVE  FixedRun'
<1>. ListInv /\ GoneInv /\ ModeInv /\ ShadowInv /\ WorkInv /\ RefillInv /\ MemInv
  BY DEF CoreInv
<1>1. UNCHANGED <<mode, lq, lpc, ipc, xfer_sz, moved>>
  <2>1. RefillStart \/ RefillWait \/ RefillClaim => UNCHANGED <<mode, lq, lpc, ipc, xfer_sz, moved>>
    BY ZenonT(60) DEF RefillStart, RefillWait, RefillClaim, ZOther, launch, hw
  <2>2. RefillWrite \/ RefillCopy \/ RefillCommit => UNCHANGED <<mode, lq, lpc, ipc, xfer_sz, moved>>
    BY ZenonT(60)
       DEF RefillWrite, RefillCopy, RefillCommit, Doorbell, NoDoorbell, ZOther,
           launch, hw
  <2> QED BY <2>1, <2>2 DEF Refill
<1>2. mode = "fixed" /\ lq = 0 /\ lpc = "idle"
  BY ZenonT(60) DEF FixedRun
<1> DEFINE Waiting == /\ Served /\ chunk # 0 /\ cursor = chunk + 1 /\ xfer_sz = chunk
                      /\ lazy_mode = 1 /\ lazy_state = "pending"
           Refilling == /\ xfer_started = 0 /\ cs = "stop" /\ moved = FirstChunks(cursor - 1)
                        /\ xfer_sz = cursor - 1 /\ zq = 0
                        /\ lazy_mode = 1 /\ lazy_state = "preparing"
<1>3. CASE RefillStart \/ RefillWait
  <2>1. UNCHANGED <<xfer_started, cs, chunk, cursor, lazy_mode, lazy_state>>
    BY <1>3, ZenonT(60) DEF RefillStart, RefillWait, hw
  <2>2. \/ zq = 1 /\ zpc = "idle" /\ zq' = 0 /\ zpc' = "wait"
        \/ zpc = "wait" /\ zpc' = "claim" /\ UNCHANGED zq
    BY ZenonT(60), <1>3 DEF RefillStart, RefillWait
  <2>3. Waiting /\ zq' = 0 /\ zpc' \in {"wait", "claim"}
    BY <2>2 DEF FixedRun
  <2>4. Served'
    BY ZenonT(60), <1>1, <2>1, <2>3 DEF Served
  <2> QED BY SMTT(60), Z3T(60), <1>1, <1>2, <2>1, <2>3, <2>4 DEF FixedRun
<1>4. CASE RefillClaim
  <2>1. zpc = "claim" /\ UNCHANGED <<xfer_started, cs, cursor, zq>>
    BY ZenonT(60), <1>4 DEF RefillClaim, hw
  <2>2. Waiting /\ zq = 0
    BY <2>1 DEF FixedRun
  <2>3. NextDesc = 1 /\ request = "none" /\ hw_err' = 0
    BY ZenonT(60) DEF Clean, NextDesc
  <2>4. zpc' = "refill" /\ lazy_state' = "preparing" /\ UNCHANGED lazy_mode
    BY SMTT(60), Z3T(60), <1>4, <2>2, <2>3 DEF RefillClaim
  <2>5. chunk \in 0 .. Chunks
    BY DEF ShadowInv
  <2>6. cursor - 1 = chunk
    BY SMTT(60), Z3T(60), <2>2, <2>5
  <2> QED BY ZenonT(60), <1>1, <1>2, <2>1, <2>2, <2>4, <2>6 DEF FixedRun, Served
<1>5. CASE RefillWrite \/ RefillCopy
  <2>1. zpc \in {"refill", "copy"}
        /\ UNCHANGED <<xfer_started, cs, cursor, zq, lazy_mode, lazy_state>>
    BY ZenonT(60), <1>5 DEF RefillWrite, RefillCopy, hw
  <2>2. Refilling /\ (zpc = "copy" => zchild = cursor /\ desc_buf = cursor)
    BY <2>1 DEF FixedRun
  <2>3. \/ zpc' = "copy" /\ zchild' = cursor /\ desc_buf' = cursor
        \/ zpc' = "commit" /\ zret' = 1
        \/ zpc' = "commit" /\ zpc = "copy" /\ sram' = desc_buf /\ UNCHANGED zchild
    BY ZenonT(60), <1>5 DEF RefillWrite, RefillCopy
  <2> QED BY SMTT(60), Z3T(60), <1>1, <1>2, <2>1, <2>2, <2>3 DEF FixedRun
<1>6. CASE RefillCommit
  <2>1. zpc = "commit" /\ zpc' = "idle" /\ UNCHANGED zq
    BY ZenonT(60), <1>6 DEF RefillCommit, ZEnd
  <2>2. Refilling /\ (zret = 0 => zchild = cursor /\ sram = cursor)
    BY ZenonT(60), <2>1 DEF FixedRun
  <2>3. NextDesc = 1 /\ request = "none" /\ hw_err' = 0 /\ hw_err = 0 /\ aborted = 0
    BY ZenonT(60) DEF Clean, NextDesc
  <2>4. /\ zret = 0 /\ cursor' = cursor + 1 /\ chunk' = zchild /\ Doorbell
        /\ lazy_mode' = IF sg_remaining = 1 THEN 0 ELSE 1
    BY SMTT(60), Z3T(60), <1>6, <2>2, <2>3 DEF RefillCommit
  <2>5. cursor \in 1 .. Chunks /\ sg_remaining = Chunks + 1 - cursor
    <3>1. zchild # 0
      BY ZenonT(60), <2>1 DEF RefillInv
    <3> QED BY SMTT(60), Z3T(60), <2>1, <2>2, <2>4, <3>1, RefillHas
  <2>6. /\ xfer_started' = 1 /\ done_int' = 0 /\ cs' = "run" /\ moving' = sram /\ ipc = "idle"
    BY <2>4 DEF Doorbell
  <2>7. Moving'
    BY ZenonT(60), <1>1, <2>2, <2>4, <2>5, <2>6 DEF Moving
  <2>8. cursor' = chunk' + 1 /\ lazy_mode' = IF chunk' < Chunks THEN 1 ELSE 0
    BY SMTT(60), Z3T(60), <2>2, <2>4, <2>5 DEF ConstantsAssumption
  <2> QED BY ZenonT(60), <1>1, <1>2, <2>1, <2>2, <2>7, <2>8 DEF FixedRun
<1> QED BY ZenonT(60), <1>3, <1>4, <1>5, <1>6 DEF Refill

\* Fixed-buffer mode: every step that is not an error goes on.
LEMMA FixedGoesOn ==
  ASSUME FixedRun, Clean, Clean', CoreInv, ConstantsAssumption, overtaken' = 0,
         Launch \/ HwDone \/ HwAbort \/ NotLive \/ DoneInterrupt \/ Shadow \/ Refill
  PROVE  FixedRun'
<1>. ListInv /\ GoneInv /\ ModeInv /\ ShadowInv /\ WorkInv /\ RefillInv /\ MemInv
  BY ZenonT(60) DEF CoreInv
<1>0. lq # 1 /\ lpc = "idle"
  BY DEF FixedRun
<1>1. ~Launch
  BY ZenonT(60), <1>0 DEF Launch, LaunchStart, LaunchWrite, LaunchCopy, LaunchDoorbell
<1>2. ~Shadow
  BY ZenonT(60), WorkersRest DEF FixedRun, ModeInv
<1> QED BY ZenonT(60), <1>1, <1>2, FixedRunsOn, RefillGoesOn

\* The Done of the active chunk: a worker goes on, or it was the last one.
LEMMA DoneGoesOn ==
  ASSUME Clean, ShadowRun \/ FixedRun, OwnInv, ConstantsAssumption, cur = 1, DoneLocked
  PROVE  (Clean' /\ (ShadowRun' \/ FixedRun')) \/ Full' \/ Dirty'
<1>. BareInv /\ FreshInv /\ ListInv /\ GoneInv /\ ModeInv /\ ShadowInv /\ WorkInv /\ RefillInv /\ MemInv
  BY DEF OwnInv, CoreInv
<1>1. /\ ipc' = "idle" /\ xfer_started' = 0
      /\ UNCHANGED <<tpc, cur, result, done, fpc, lq, lpc, cs, moved, sram, desc_buf, sg_remaining, mode,
                     cursor, has_more, built, shadow_chunk, wpc, wret, zpc, zchild, zret>>
  BY ZenonT(60) DEF DoneLocked, thread, launch, hw, tables, scan, shadows, freeing
<1>2. NextDesc = 1 /\ request = "none" /\ hw_err = 0 /\ aborted = 0 /\ ipc = "done"
  BY DEF Clean, NextDesc, DoneLocked
<1>3. \/ xfer_started = 1 /\ CompleteLong
      \/ /\ xfer_started = 0
         /\ UNCHANGED <<chunk, issued, completed, request, aborted, lazy_state, lazy_mode,
                        shadow_state, zq, hw_err, xfer_sz>>
  <2>1. ~CompleteShort /\ NextDesc # 0
    BY <1>2 DEF CompleteShort
  <2> QED BY <2>1, ZenonT(60) DEF DoneLocked, lists
<1>4. CASE xfer_started = 0 /\ UNCHANGED <<chunk, issued, completed, request, aborted, lazy_state,
                        lazy_mode, shadow_state, zq, hw_err, xfer_sz>>
  <2>1. Clean'
    BY ZenonT(60), <1>1, <1>4 DEF Clean
  <2>2. ~Moving /\ (Served => Served')
    BY SMTT(60), Z3T(60), <1>1, <1>4 DEF Moving, Served
  <2>3. ShadowRun => ShadowRun'
    <3>1. ShadowAhead => ShadowAhead'
      BY ZenonT(60), <1>1, <1>4 DEF ShadowAhead
    <3> QED BY ZenonT(60), <1>1, <1>4, <2>2, <3>1 DEF ShadowRun
  <2>4. FixedRun => FixedRun'
    BY ZenonT(60), <1>1, <1>4, <2>2 DEF FixedRun
  <2> QED BY ZenonT(60), <2>1, <2>3, <2>4
<1>5. CASE xfer_started = 1 /\ CompleteLong
  <2>. xfer_started # 0
    BY <1>5
  <2>1. /\ Moving
        /\ \/ /\ mode = "shadow" /\ ShadowAhead /\ shadow_state \in {"idle", "building", "ready"}
              /\ wpc \notin {"handoff", "precopy", "copy", "unbuild", "commit"}
           \/ /\ mode = "fixed" /\ cursor = chunk + 1 /\ zq = 0 /\ zpc = "idle"
              /\ lazy_mode = IF chunk < Chunks THEN 1 ELSE 0
    BY ZenonT(60) DEF ShadowRun, FixedRun, Served
  <2>2. /\ cs = "stop" /\ moved = FirstChunks(chunk) /\ chunk \in 1 .. Chunks /\ lq = 0 /\ lpc = "idle"
        /\ xfer_sz' = chunk
    BY SMTT(60), Z3T(60), <1>2, <1>5, <2>1 DEF Moving, ShadowRun, FixedRun, CompleteLong
  <2>3. mode = "fixed" => /\ sg_remaining = Chunks + 1 - cursor /\ shadow_state = "idle"
                          /\ shadow_chunk = 0 /\ wpc = "idle"
    BY ZenonT(60) DEF RefillInv, ModeInv
  <2>4. mode = "shadow" => zq = 0 /\ zpc = "idle"
    BY DEF ModeInv
  <2>5. CASE HandOver
    <3>1. lazy_mode = 1 /\ UNCHANGED <<chunk, issued, completed, request, aborted>>
      BY ZenonT(60), <2>5 DEF HandOver, lists
    <3>2. Served'
      BY ZenonT(60), <1>1, <2>2, <3>1 DEF Served
    <3>3. CASE shadow_state \in {"ready", "building"}
      <4>1. /\ shadow_state' = "isr_pending" /\ UNCHANGED <<lazy_mode, hw_err>> /\ mode = "shadow"
        BY ZenonT(60), <2>1, <2>3, <2>5, <3>3 DEF HandOver
      <4>2. Clean'
        BY ZenonT(60), <1>1, <3>1, <4>1 DEF Clean
      <4>3. ShadowAhead'
        BY ZenonT(60), <1>1, <2>1, <3>1, <3>3, <4>1 DEF ShadowAhead
      <4> QED BY ZenonT(60), <1>1, <2>1, <2>2, <3>1, <3>2, <4>1, <4>2, <4>3
                 DEF ShadowRun
    <3>4. CASE shadow_state \notin {"ready", "building"}
      <4>1. /\ UNCHANGED shadow_state /\ lazy_state' = "pending"
            /\ IF mode = "fixed" THEN zq' = 1 /\ UNCHANGED <<lazy_mode, hw_err>> ELSE hw_err' = 1
        BY SMTT(60), Z3T(60), <2>5, <3>4 DEF HandOver
      <4>2. CASE mode = "fixed"
        <5>1. Clean'
          BY ZenonT(60), <1>1, <3>1, <4>1, <4>2 DEF Clean
        <5>2. chunk # 0
          BY <2>2
        <5>3. cursor = chunk + 1 /\ zpc = "idle"
          BY ZenonT(60), <2>1, <4>2
        <5>4. FixedRun'
          BY ZenonT(60), <1>1, <2>2, <3>1, <3>2, <4>1, <4>2, <5>2, <5>3 DEF FixedRun
        <5> QED BY ZenonT(60), <5>1, <5>4
      <4>3. CASE mode # "fixed"
        BY ZenonT(60), <4>1, <4>3 DEF Dirty
      <4> QED BY ZenonT(60), <4>2, <4>3
    <3> QED BY ZenonT(60), <3>3, <3>4
  <2>6. CASE Finish
    <3>1. ~Unexpected
      BY ZenonT(60), <2>1, <2>3 DEF Unexpected
    <3>2. (lazy_mode = 0 \/ (shadow_state = "idle" /\ sg_remaining = 0)) /\ 1 \notin issued'
          /\ UNCHANGED <<shadow_state, zq>>
      BY SMTT(60), Z3T(60), <1>2, <2>2, <2>6, <3>1 DEF Finish, LastOrStop, Complete
    <3>3. chunk = Chunks /\ shadow_state = "idle" /\ shadow_chunk = 0 /\ wpc \in {"idle", "nothing"}
      <4>1. CASE mode = "fixed"
        BY SMTT(60), Z3T(60), <2>1, <2>2, <2>3, <3>2, <4>1 DEF ConstantsAssumption
      <4>2. CASE mode = "shadow"
        BY SMTT(60), Z3T(60), <2>1, <3>2, <4>2 DEF ShadowAhead
      <4> QED BY ZenonT(60), <2>1, <4>1, <4>2
    <3>4. zq = 0 /\ zpc = "idle"
      BY ZenonT(60), <2>1, <2>4
    <3> QED BY ZenonT(60), <1>1, <2>2, <3>2, <3>3, <3>4 DEF Full
  <2> QED BY ZenonT(60), <1>5, <2>5, <2>6 DEF CompleteLong
<1> QED BY ZenonT(60), <1>3, <1>4, <1>5

\* The long transfer is set up.
LEMMA StartsOnTrack ==
  ASSUME StartInv, OwnInv, ConstantsAssumption, StartLong
  PROVE  OnTrack' /\ result' = "none"
<1>. BareInv /\ FreshInv /\ ListInv /\ GoneInv /\ ModeInv /\ ShadowInv /\ WorkInv /\ RefillInv /\ MemInv
  BY DEF OwnInv, CoreInv
<1>1. cur = 0
  BY ZenonT(60) DEF StartLong
<1>2. /\ status = "idle" /\ shadow_state = "idle" /\ issued = {} /\ completed = {} /\ fpc = "none"
      /\ ipc = "idle" /\ lpc = "idle" /\ sq = 0 /\ wpc = "idle" /\ zq = 0 /\ zpc = "idle"
      /\ cs = "stop" /\ done_int = 0 /\ abort_int = 0 /\ request = "none" /\ moved = <<>> /\ xfer_sz = 0
  BY ZenonT(60), <1>1 DEF BareInv, StartInv
<1>3. /\ result' = "none" /\ tpc' = "wait" /\ done' = 0 /\ hw_err' = 0 /\ aborted' = 0
      /\ 1 \in issued' /\ UNCHANGED <<completed, request, lpc>>
  BY ZenonT(60), <1>2 DEF StartLong, ChannelReset, Issue
<1>4. /\ chunk' = 1 /\ cursor' = 2 /\ lazy_mode' = 1 /\ built' = {1} /\ has_more' = 1
      /\ sg_remaining' = Chunks - 1 /\ xfer_started' = 0
      /\ UNCHANGED <<moved, xfer_sz, cs, done_int, abort_int, ipc, sq, wpc, zq, zpc, fpc>>
  BY ZenonT(60) DEF StartLong, hw, swork, zwork, freeing
<1>5. \/ mode' = "shadow" /\ shadow_state' = "building" /\ shadow_chunk' = 2
      \/ mode' = "fixed" /\ UNCHANGED shadow_state
  BY ZenonT(60) DEF StartLong, ShadowMode, FixedMode
<1>6. Clean'
  BY ZenonT(60), <1>2, <1>3, <1>4, <1>5 DEF Clean
<1>7. Launching'
  BY SMTT(60), Z3T(60), <1>2, <1>3, <1>4, <1>5 DEF Launching, ConstantsAssumption
<1> QED BY ZenonT(60), <1>3, <1>6, <1>7 DEF OnTrack

\* Every step of the long transfer keeps it on track, complete or known to have failed.
LEMMA TrackKept ==
  ASSUME OnTrack \/ Full \/ Dirty, result = "err" => tpc # "wait", result = "ok" => Full,
         OwnInv, ConstantsAssumption, cur = 1, overtaken' = 0, Next, ~StartShort
  PROVE  /\ OnTrack' \/ Full' \/ Dirty'
         /\ result' = "ok" => Full'
<1>1. Full => Full'
  BY ZenonT(60), FullStays
<1>2. ~StartLong
  BY SMTT(60), Z3T(60) DEF StartLong
<1>3. CASE Thread \/ Timeout
  <2>1. /\ hw_err' \in {hw_err, 1}
        /\ \/ result' = "err"
           \/ result' = result /\ tpc # "wait" /\ aborted' = aborted
           \/ result' = "ok" /\ tpc = "wait" /\ done = 1 /\ hw_err = 0 /\ aborted = 0
    BY ZenonT(60), <1>3, ThreadReports
  <2> QED BY SMTT(60), Z3T(60), <1>1, <2>1 DEF OnTrack, Clean, Dirty
<1>4. CASE ~(Thread \/ Timeout)
  <2>1. UNCHANGED <<tpc, result>> /\ hw_err' \in {hw_err, 1} /\ aborted' \in {aborted, 1}
    BY ZenonT(60), <1>2, <1>4, ErrorsStay DEF Next
  <2>2. Dirty => Dirty'
    BY SMTT(60), Z3T(60), <2>1 DEF Dirty
  <2>3. OnTrack => OnTrack' \/ Full' \/ Dirty'
    <3>1. SUFFICES ASSUME OnTrack PROVE OnTrack' \/ Full' \/ Dirty'
      OBVIOUS
    <3>2. Clean /\ (Launching \/ ShadowRun \/ FixedRun) /\ CoreInv
      BY ZenonT(60), <3>1 DEF OnTrack, OwnInv
    <3>3. PeerKills \/ AbortInterrupt => Dirty'
      BY DEF PeerKills, AbortInterrupt, Dirty
    <3>4. DoneLocked => OnTrack' \/ Full' \/ Dirty'
      <4>1. Launching => ~DoneLocked
        BY SMTT(60), Z3T(60) DEF Launching, DoneLocked
      <4> QED BY ZenonT(60), <3>2, <4>1, DoneGoesOn DEF OnTrack
    <3>5. CASE Launch \/ HwDone \/ HwAbort \/ NotLive \/ DoneInterrupt \/ Shadow \/ Refill
      <4>1. Clean' \/ Dirty'
        BY ZenonT(60), <3>2, <3>5, CleanStays
      <4>2. CASE Clean'
        BY ZenonT(60), <3>2, <3>5, <4>2, LaunchingGoes, ShadowGoesOn, FixedGoesOn
           DEF OnTrack
      <4> QED BY SMTT(60), Z3T(60), <4>1, <4>2
    <3> QED BY ZenonT(60), <1>4, <3>2, <3>3, <3>4, <3>5, CleanDisables
  <2> QED BY ZenonT(60), <1>1, <2>1, <2>2, <2>3
<1> QED BY SMTT(60), Z3T(60), <1>3, <1>4

\* Every step keeps what was moved in order.
LEMMA MovedKeeps ==
  ASSUME MovedInv, OwnInv, ConstantsAssumption, [Next]_vars
  PROVE  MovedInv'
<1>1. CASE UNCHANGED vars
  <2>1. UNCHANGED <<cur, request, moved, xfer_sz, overtaken, result, tpc, done, hw_err, aborted>>
    BY ZenonT(60), <1>1 DEF vars, thread, chan, hw, desc, errs
  <2>2. UNCHANGED <<issued, completed, fpc, ipc, shadow_state, cs, lq, lpc, shadow_chunk, wpc, zq, zpc>>
    BY ZenonT(60), <1>1
       DEF vars, lists, launch, hw, desc, shadows, swork, zwork, freeing
  <2>3. UNCHANGED <<chunk, cursor, lazy_mode, xfer_started, done_int, abort_int, sq, built, mode,
                    has_more, sg_remaining, desc_buf, sram>>
    BY ZenonT(60), <1>1 DEF vars, hw, desc, scan, tables, swork
  <2>4. UNCHANGED <<moving, wret, lazy_state, zchild, zret>>
    BY <1>1 DEF vars, hw, desc, swork, zwork
  <2>5. StartInv => StartInv'
    BY ZenonT(60), <2>1 DEF StartInv
  <2>6. (Full => Full') /\ (Dirty => Dirty') /\ (Clean => Clean')
    BY ZenonT(60), <2>1, <2>2 DEF Full, Dirty, Clean
  <2>7. Launching => Launching'
    BY ZenonT(60), <2>1, <2>2, <2>3 DEF Launching
  <2>8. (Moving => Moving') /\ (Served => Served') /\ (ShadowAhead => ShadowAhead')
    BY ZenonT(60), <2>1, <2>2, <2>3, <2>4 DEF Moving, Served, ShadowAhead
  <2>9. ShadowRun => ShadowRun'
    BY ZenonT(60), <2>1, <2>2, <2>3, <2>8 DEF ShadowRun
  <2>10. FixedRun => FixedRun'
    BY ZenonT(60), <2>1, <2>2, <2>3, <2>4, <2>8 DEF FixedRun
  <2> QED BY ZenonT(60), <2>1, <2>5, <2>6, <2>7, <2>9, <2>10 DEF MovedInv, OnTrack
<1>2. CASE Next /\ cur = 0
  <2>1. CASE StartLong
    <3>1. OnTrack' /\ result' = "none"
      BY ZenonT(60), <2>1, StartsOnTrack DEF MovedInv
    <3>2. cur' = 1
      BY ZenonT(60), <2>1 DEF StartLong
    <3> QED BY SMTT(60), Z3T(60), <3>1, <3>2 DEF MovedInv, StartInv
  <2>2. CASE NotLive
    <3>1. UNCHANGED <<cur, request, moved, xfer_sz>>
      BY ZenonT(60), <2>2 DEF NotLive, World, thread, chan, hw, desc
    <3> QED BY SMTT(60), Z3T(60), <1>2, <3>1 DEF MovedInv, StartInv
  <2> QED BY ZenonT(60), <1>2, <2>1, <2>2, BareDisables DEF OwnInv
<1>3. CASE Next /\ cur # 0
  <2>1. cur' # 0
    BY SMTT(60), Z3T(60), <1>3, FreshKeeps DEF OwnInv
  <2>2. StartInv'
    BY ZenonT(60), <2>1 DEF StartInv
  <2>3. CASE StartShort
    BY SMTT(60), Z3T(60), <2>2, <2>3 DEF StartShort, MovedInv
  <2>4. CASE ~StartShort
    <3>1. ~StartLong
      BY <1>3 DEF StartLong
    <3>2. /\ UNCHANGED cur /\ overtaken' \in {overtaken, 1}
          /\ (result' = result /\ tpc' = tpc) \/ (tpc' # "wait" /\ result' \in {result, "ok", "err"})
      BY ZenonT(60), <1>3, <2>4, <3>1, ErrorsStay, ThreadReports DEF Next
    <3>3. SUFFICES ASSUME cur' = 1, overtaken' = 0
                   PROVE  /\ result' \in {"none", "ok", "err"} /\ (result' = "err" => tpc' # "wait")
                          /\ result' = "ok" => Full'
                          /\ OnTrack' \/ Full' \/ Dirty'
      BY ZenonT(60), <2>2 DEF MovedInv
    <3>4. cur = 1 /\ overtaken = 0
      BY SMTT(60), Z3T(60), <3>2, <3>3
    <3>5. /\ result \in {"none", "ok", "err"} /\ (result = "err" => tpc # "wait")
          /\ result = "ok" => Full
          /\ OnTrack \/ Full \/ Dirty
      BY <3>4 DEF MovedInv
    <3>6. (OnTrack' \/ Full' \/ Dirty') /\ (result' = "ok" => Full')
      BY ZenonT(60), <1>3, <2>4, <3>3, <3>4, <3>5, TrackKept
    <3> QED BY ZenonT(60), <3>2, <3>5, <3>6
  <2> QED BY ZenonT(60), <2>3, <2>4
<1> QED BY ZenonT(60), <1>1, <1>2, <1>3

\* A long transfer that is reported as good has moved each of its chunks once and
\* in order, and counted them, for any number of chunks and of failures, unless an interrupt
\* handler was overtaken.
THEOREM InFullCorrect == Spec => []CompletedInFull
<1>1. Init => OwnInv /\ MovedInv
  BY OwnInit, ConstantsAssumption DEF Init, MovedInv, StartInv
<1>2. OwnInv /\ MovedInv /\ [Next]_vars => (OwnInv /\ MovedInv)'
  BY ZenonT(60), OwnKeeps, MovedKeeps, ConstantsAssumption
<1>3. OwnInv /\ MovedInv => CompletedInFull
  BY DEF MovedInv, Full, FirstChunks, CompletedInFull
<1> QED BY <1>1, <1>2, <1>3, PTL DEF Spec
=============================================================================
