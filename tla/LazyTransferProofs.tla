------------------------ MODULE LazyTransferProofs --------------------------
(***************************************************************************)
(* For every number of chunks of the long transfer and every number of     *)
(* failures: no chunk is freed twice, used after it was freed or left      *)
(* behind, and the table in the device is not written while the hardware   *)
(* walks it.                                                               *)
(***************************************************************************)
EXTENDS LazyTransfer, TLAPS

\* Before the first transfer nothing exists.
BareInv ==
    cur = 0 =>
      /\ tpc = "idle" /\ status = "idle" /\ mode = "none" /\ shadow_state = "idle"
      /\ cursor = 0 /\ built = {}
      /\ chunk = 0 /\ shadow_chunk = 0 /\ shadow_next_chunk = 0
      /\ sq = 0 /\ wpc = "idle" /\ zq = 0 /\ zpc = "idle"
      /\ issued = {} /\ completed = {} /\ head = {} /\ fpc = "none"
      /\ lq = 0 /\ lpc = "idle" /\ pending = 0 /\ ipc = "idle"
      /\ cs = "stop" /\ done_int = 0 /\ abort_int = 0
      /\ mem = [c \in AllChunks |-> "none"]

\* Until its first doorbell the long transfer has not met anybody.
FreshInv ==
    /\ cur = 1 => pending \in {0, 1}
    /\ cur = 1 /\ lpc # "idle" => lq = 0 /\ pending = 1
    /\ cur = 1 /\ (lq = 1 \/ lpc # "idle") =>
         /\ tpc \in {"wait", "cancel"} /\ xfer_started = 0 /\ ipc = "idle"
         /\ cs = "stop" /\ done_int = 0 /\ abort_int = 0
         /\ shadow_state \in {"idle", "building"}
         /\ sq = 0 /\ wpc = "idle" /\ zq = 0 /\ zpc = "idle" /\ fpc = "none" /\ chunk = 1
         /\ done = 0 /\ completed = {} /\ 1 \notin head

\* Descriptor 1 is in one list at most, and in none once it is being freed.
ListInv ==
    /\ cur \in {0, 1, 2}
    /\ 1 \in issued => 1 \notin completed /\ 1 \notin head
    /\ 1 \in completed => 1 \notin head
    /\ fpc # "none" => 1 \notin issued \union completed \union head
    /\ 2 \in issued => mem[Short] = "live" /\ cur = 2
    /\ mem[Short] = "live" => cur = 2

\* Nobody works on a descriptor whose chunks are freed.
GoneInv ==
    /\ fpc \in {"none", "mark", "sync", "lazy", "gone"}
    /\ fpc \in {"lazy", "gone"} =>
         sq = 0 /\ wpc = "idle" /\ shadow_chunk = 0 /\ shadow_next_chunk = 0
    /\ fpc = "gone" => zq = 0 /\ zpc = "idle" /\ chunk = 0

\* Each mode has its own worker.
ModeInv ==
    /\ mode \in {"none", "shadow", "fixed"} /\ (cur # 0 => mode # "none")
    /\ cursor \in 0 .. Short
    /\ mode # "shadow" => /\ sq = 0 /\ wpc = "idle" /\ shadow_chunk = 0
                          /\ shadow_next_chunk = 0 /\ shadow_state = "idle"
    /\ mode # "fixed" => zq = 0 /\ zpc = "idle"

\* The chunk in front of the shadow worker is the one it builds or has just built, and
\* the one after it has not been built.
ShadowInv ==
    /\ chunk \in 0 .. Chunks /\ shadow_chunk \in 0 .. Chunks
    /\ shadow_next_chunk \in 0 .. Chunks /\ wnext \in 0 .. Chunks
    /\ chunk # 0 => chunk < cursor
    /\ mode = "shadow" => built \subseteq 1 .. cursor - 1
    /\ shadow_chunk # 0 =>
         /\ chunk < shadow_chunk
         /\ shadow_chunk = IF shadow_chunk \in built THEN cursor - 1 ELSE cursor
    /\ shadow_next_chunk # 0 =>
         shadow_next_chunk = cursor /\ shadow_chunk # cursor /\ wnext = 0
    /\ wnext # 0 => wnext = cursor /\ shadow_chunk # cursor

\* What the shadow worker has in hand
WorkInv ==
    /\ wpc \in {"idle", "nothing", "fill", "failed", "switch", "ready", "handoff",
                "recheck", "precopy", "copy", "unbuild", "commit", "short", "short2"}
    /\ wpc = "idle" => wshadow = 0
    /\ wpc \in {"idle", "nothing", "fill", "failed", "ready", "handoff", "recheck",
                "short", "short2"} => wnext = 0
    /\ wpc \notin {"idle", "short", "short2"} => wshadow = shadow_chunk
    /\ wpc \notin {"idle", "nothing", "short", "short2"} => wshadow # 0
    /\ wpc \in {"switch", "ready", "handoff", "recheck", "precopy", "copy", "unbuild",
                "commit"} => wshadow \in built
    /\ wpc \in {"switch", "precopy", "copy", "unbuild", "commit"} => shadow_next_chunk = 0

\* What the refill has in hand
RefillInv ==
    /\ zpc \in {"idle", "wait", "claim", "refill", "copy", "commit"}
    /\ zpc \in {"idle", "wait", "claim"} <=> zchild = 0
    /\ zchild \in 0 .. Chunks /\ zchild <= cursor
    /\ zchild # 0 => chunk = 0 /\ cursor <= Chunks
    /\ zpc = "refill" => zchild < cursor
    /\ mode = "fixed" => sg_remaining = Chunks + 1 - cursor

\* Who has to free a chunk
Released == IF wpc \in {"failed", "unbuild"} THEN {wshadow, wnext} ELSE {}
Owned == {chunk, zchild, shadow_chunk, shadow_next_chunk, wnext} \ Released

\* The chunks that are allocated are the ones that somebody will free.
MemInv ==
    /\ mem \in [AllChunks -> {"none", "live", "freed"}]
    /\ \A c \in 1 .. Chunks : mem[c] = "live" <=> c \in Owned

\* What every step of any actor keeps.
CoreInv ==
    ListInv /\ GoneInv /\ ModeInv /\ ShadowInv /\ WorkInv /\ RefillInv /\ MemInv

\* The inductive invariant behind ChunksOwned.
OwnInv == BareInv /\ FreshInv /\ CoreInv

\* A doorbell is not rung while a table is prepared.
StableInv ==
    cur = 1 /\ overtaken = 0 =>
      /\ done_int = 1 \/ ipc = "done" => cs # "run"
      /\ shadow_state = "isr_pending" => cs # "run"
      /\ wpc \in {"handoff", "precopy", "copy", "commit"} => cs # "run"
      /\ zpc = "copy" => cs # "run"

-----------------------------------------------------------------------------
(* What an action that cannot happen would need                            *)

\* Before the first transfer only its start, and the end of the device's service, can
\* happen.
LEMMA BareDisables ==
  ASSUME BareInv, cur = 0, Next
  PROVE  StartLong \/ NotLive
<1>. USE DEF BareInv
<1>1. ~StartShort /\ ~Thread /\ ~Timeout /\ ~Terminated
  BY
     DEF StartShort, Thread, Timeout, Terminated, WaitEnds, Rewait, TermCancel,
         TermLock, TermDrain, TermFreed
<1>2. ~Launch /\ ~HwDone /\ ~HwAbort /\ ~PeerKills
  BY
     DEF Launch, LaunchStart, LaunchWrite, LaunchCopy, LaunchDoorbell, HwDone,
         HwAbort, PeerKills
<1>3. ~Interrupts /\ ~Tasklet /\ ~FreeDesc
  BY SMTT(60), Z3T(60)
     DEF Interrupts, DoneInterrupt, DoneLocked, AbortInterrupt, AbortLocked,
         AbortIdle, Tasklet, FreeDesc, FreeMark, FreeShadow, FreeChunks
<1>4. ~Shadow
  BY SMTT(60), Z3T(60)
     DEF Shadow, ShadowStart, ShadowNothing, ShadowFill, ShadowFailed, ShadowSwitch,
         ShadowStopped, ShadowHandoff, ShadowRecheck, ShadowAcquire, ShadowCopy,
         ShadowUnbuild, ShadowCommit, ShadowShort, ShadowShort2
<1>5. ~Refill
  BY
     DEF Refill, RefillStart, RefillWait, RefillClaim, RefillWrite, RefillCopy,
         RefillCommit
<1> QED BY ZenonT(60), <1>1, <1>2, <1>3, <1>4, <1>5 DEF Next

\* Until the first doorbell of the long transfer only the thread, the worker that
\* launches it and the device's surroundings can do something.
LEMMA FreshDisables ==
  ASSUME FreshInv, cur = 1, lq = 1 \/ lpc # "idle", Next
  PROVE  WaitEnds \/ Timeout \/ TermCancel \/ Launch \/ NotLive \/ PeerKills
<1>. USE DEF FreshInv
<1>1. ~StartLong /\ ~StartShort /\ ~Terminated
  BY DEF StartLong, StartShort, Terminated
<1>2. ~Rewait /\ ~TermLock /\ ~TermDrain /\ ~TermFreed
  BY SMTT(60), Z3T(60) DEF Rewait, TermLock, TermDrain, TermFreed
<1>3. ~Interrupts /\ ~Tasklet /\ ~FreeDesc /\ ~HwDone /\ ~HwAbort
  BY SMTT(60), Z3T(60)
     DEF Tasklet, Interrupts, DoneInterrupt, DoneLocked, AbortInterrupt, AbortLocked,
         AbortIdle, FreeDesc, FreeMark, FreeShadow, FreeChunks, HwDone, HwAbort
<1>4. ~Shadow
  BY SMTT(60), Z3T(60)
     DEF Shadow, ShadowStart, ShadowNothing, ShadowFill, ShadowFailed, ShadowSwitch,
         ShadowStopped, ShadowHandoff, ShadowRecheck, ShadowAcquire, ShadowCopy,
         ShadowUnbuild, ShadowCommit, ShadowShort, ShadowShort2
<1>5. ~Refill
  BY
     DEF Refill, RefillStart, RefillWait, RefillClaim, RefillWrite, RefillCopy,
         RefillCommit
<1> QED BY ZenonT(60), <1>1, <1>2, <1>3, <1>4, <1>5 DEF Next, Thread

-----------------------------------------------------------------------------
(* The launch                                                              *)

staging == <<cur, lq, lpc, pending>>

\* Everybody but the thread and the launch worker leaves the launch alone.
LEMMA StagingUntouched ==
  ASSUME Rewait \/ TermDrain \/ TermFreed \/ HwDone \/ HwAbort \/ Interrupts \/ Shadow
           \/ Refill \/ FreeDesc \/ Terminated \/ Tasklet
  PROVE  UNCHANGED staging
<1>. USE DEF staging, thread, launch
<1>1. Rewait \/ TermDrain \/ TermFreed \/ Terminated => UNCHANGED staging
  BY ZenonT(60) DEF Rewait, TermDrain, TermFreed, Terminated, vars
<1>2. HwDone \/ HwAbort \/ Tasklet => UNCHANGED staging
  BY DEF Tasklet, HwDone, HwAbort, World
<1>3. Interrupts => UNCHANGED staging
  BY ZenonT(60)
     DEF Interrupts, DoneInterrupt, DoneLocked, AbortInterrupt, AbortLocked, AbortIdle
<1>4. Shadow => UNCHANGED staging
  <2>1. ShadowStart \/ ShadowNothing \/ ShadowFill \/ ShadowFailed \/ ShadowSwitch
          \/ ShadowStopped \/ ShadowHandoff => UNCHANGED staging
    BY ZenonT(60)
       DEF ShadowStart, ShadowNothing, ShadowFill, ShadowFailed, ShadowSwitch,
           ShadowStopped, ShadowHandoff, SOther
  <2>2. ShadowRecheck \/ ShadowAcquire \/ ShadowCopy \/ ShadowUnbuild \/ ShadowCommit
          \/ ShadowShort \/ ShadowShort2 => UNCHANGED staging
    BY ZenonT(60)
       DEF ShadowRecheck, ShadowAcquire, ShadowCopy, ShadowUnbuild, ShadowCommit,
           ShadowShort, ShadowShort2, SOther
  <2> QED BY ZenonT(60), <2>1, <2>2 DEF Shadow
<1>5. Refill => UNCHANGED staging
  BY ZenonT(60)
     DEF Refill, RefillStart, RefillWait, RefillClaim, RefillWrite, RefillCopy,
         RefillCommit, ZOther
<1>6. FreeDesc => UNCHANGED staging
  BY ZenonT(60) DEF FreeDesc, FreeMark, FreeShadow, FreeChunks, FOther
<1> QED BY ZenonT(60), <1>1, <1>2, <1>3, <1>4, <1>5, <1>6

\* The long transfer stays fresh until its first doorbell.
LEMMA FreshKeeps ==
  ASSUME FreshInv, BareInv, cur # 0, Next
  PROVE  FreshInv' /\ cur' # 0
<1>1. CASE UNCHANGED staging /\ ~(cur = 1 /\ (lq = 1 \/ lpc # "idle"))
  BY <1>1 DEF FreshInv, staging
<1>2. CASE WaitEnds \/ Timeout \/ NotLive \/ PeerKills
  <2>1. UNCHANGED <<staging, xfer_started, ipc, done, done_int, abort_int, shadow_state, sq, wpc,
                    zq, zpc, fpc, chunk, completed, head>>
    BY <1>2, ZenonT(60)
       DEF WaitEnds, Timeout, Fail, NotLive, PeerKills, World, Elsewhere, staging,
           thread, launch, hw, lists, desc, swork, zwork, freeing
  <2>2. cs = "stop" => cs' = "stop"
    BY ZenonT(60), <1>2 DEF WaitEnds, Timeout, NotLive, PeerKills, Elsewhere, hw
  <2>3. tpc' = tpc \/ tpc' = "cancel" \/ done = 1
    BY <1>2 DEF WaitEnds, Timeout, Fail, NotLive, PeerKills, World, thread
  <2> QED BY <2>1, <2>2, <2>3 DEF FreshInv, staging
<1>3. CASE TermCancel
  <2>1. tpc' = "lock" /\ lpc = "idle" /\ lq' = 0 /\ UNCHANGED <<cur, lpc, pending>>
    BY <1>3 DEF TermCancel
  <2> QED BY <2>1 DEF FreshInv
<1>4. CASE TermLock
  <2>1. tpc = "lock" /\ pending' = 0 /\ UNCHANGED <<cur, lpc, lq>>
    BY <1>4 DEF TermLock
  <2> QED BY <2>1 DEF FreshInv
<1>5. CASE Launch
  <2>1. UNCHANGED <<cur, tpc, done, ipc, abort_int, shadow_state, wpc, zq, zpc, fpc, chunk,
                    completed, head>>
    BY <1>5, ZenonT(60)
       DEF Launch, LaunchStart, LaunchWrite, LaunchCopy, LaunchDoorbell, Quiet,
           Doorbell, NoDoorbell, thread, lists, freeing, hw, desc, zwork, swork
  <2>2. CASE LaunchStart
    <3>1. lq = 1 /\ lq' = 0 /\ UNCHANGED <<xfer_started, cs, done_int, sq>>
          /\ lpc = "idle" /\ (lpc' # "idle" => pending # 0 /\ pending' = pending)
          /\ pending' \in {0, pending}
      BY <2>2 DEF LaunchStart, hw, swork
    <3> QED BY <2>1, <3>1 DEF FreshInv
  <2>3. CASE LaunchWrite \/ LaunchCopy
    <3>1. UNCHANGED <<xfer_started, cs, sq, lq>> /\ done_int' \in {0, done_int}
          /\ lpc # "idle"
          /\ (pending' = pending \/ (pending' = 0 /\ lpc' = "idle"))
      BY <2>3, ZenonT(60) DEF LaunchWrite, LaunchCopy, LaunchFails, hw, swork
    <3> QED BY <2>1, <3>1 DEF FreshInv
  <2>4. CASE LaunchDoorbell
    <3>1. lpc # "idle" /\ lpc' = "idle" /\ pending' = 0 /\ UNCHANGED lq
      BY <2>4 DEF LaunchDoorbell
    <3> QED BY <2>1, <3>1 DEF FreshInv
  <2> QED BY ZenonT(60), <1>5, <2>2, <2>3, <2>4, <2>1 DEF Launch
<1>6. CASE StartShort
  BY <1>6 DEF StartShort, FreshInv
<1>7. ~StartLong
  BY DEF StartLong
<1> QED BY ZenonT(60), <1>1, <1>2, <1>3, <1>4, <1>5, <1>6, <1>7, StagingUntouched,
           FreshDisables
           DEF Next, Thread

-----------------------------------------------------------------------------
(* Memory                                                                  *)

held == <<mode, cursor, built, chunk, shadow_chunk, shadow_next_chunk, wpc, wshadow,
          wnext, zpc, zchild, sg_remaining, mem>>

\* Steps that neither pass a chunk on nor free one.
LEMMA HeldUntouched ==
  ASSUME ShadowInv, WorkInv, RefillInv, MemInv, UNCHANGED held
  PROVE  ShadowInv' /\ WorkInv' /\ RefillInv' /\ MemInv'
<1>1. ShadowInv' /\ WorkInv'
  BY DEF ShadowInv, WorkInv, held
<1>2. RefillInv'
  BY SMTT(60), Z3T(60) DEF RefillInv, held
<1>3. MemInv'
  BY DEF MemInv, held, Owned, Released
<1> QED BY SMTT(60), Z3T(60), <1>1, <1>2, <1>3

\* A chunk that is there is one of the long transfer.
LEMMA ChunkNumbers ==
  ASSUME ConstantsAssumption
  PROVE  \A c \in 0 .. Chunks : c # 0 => c \in 1 .. Chunks
BY DEF ConstantsAssumption

\* Who has a chunk to free has it alive, and afterwards nobody has it.
LEMMA MemFrees ==
  ASSUME MemInv, ConstantsAssumption,
         NEW S, \A c \in S : c \in 1 .. Chunks /\ c \in Owned,
         mem' = FreeAll(mem, S),
         \A c \in 1 .. Chunks : c \in Owned' <=> c \in Owned /\ c \notin S
  PROVE  MemInv' /\ mem'[Short] = mem[Short]
<1>1. Short \in AllChunks /\ \A c \in 1 .. Chunks : c \in AllChunks /\ c # Short
  BY DEF ConstantsAssumption, AllChunks, Short
<1>2. \A c \in AllChunks : mem'[c] = IF c \in S THEN "freed" ELSE mem[c]
  BY <1>1 DEF FreeAll, MemInv
<1>3. mem' \in [AllChunks -> {"none", "live", "freed"}]
  BY <1>2 DEF FreeAll, MemInv
<1>4. \A c \in 1 .. Chunks : mem'[c] = "live" <=> c \in Owned'
  BY <1>1, <1>2 DEF MemInv
<1>5. mem'[Short] = mem[Short]
  BY <1>1, <1>2
<1> QED BY <1>3, <1>4, <1>5 DEF MemInv

\* A chunk that is allocated gets an owner.
LEMMA MemAllocs ==
  ASSUME MemInv, ConstantsAssumption,
         NEW S, \A c \in S : c \in 1 .. Chunks,
         mem' = Alloc(S),
         \A c \in 1 .. Chunks : c \in Owned' <=> c \in Owned \/ c \in S
  PROVE  MemInv' /\ mem'[Short] = mem[Short]
<1>1. Short \in AllChunks /\ \A c \in 1 .. Chunks : c \in AllChunks /\ c # Short
  BY DEF ConstantsAssumption, AllChunks, Short
<1>2. \A c \in AllChunks : mem'[c] = IF c \in S THEN "live" ELSE mem[c]
  BY DEF Alloc
<1>3. mem' \in [AllChunks -> {"none", "live", "freed"}]
  BY <1>2 DEF Alloc, MemInv
<1>4. \A c \in 1 .. Chunks : mem'[c] = "live" <=> c \in Owned'
  BY <1>1, <1>2 DEF MemInv
<1>5. mem'[Short] = mem[Short]
  BY SMTT(60), Z3T(60), <1>1, <1>2
<1> QED BY <1>3, <1>4, <1>5 DEF MemInv

\* Steps that leave the lists alone.
LEMMA ListUntouched ==
  ASSUME ListInv, UNCHANGED <<cur, issued, completed, head, fpc>>, mem'[Short] = mem[Short]
  PROVE  ListInv'
BY DEF ListInv, Short

\* Steps that only queue work, move the descriptor between the lists or begin to free it.
LEMMA QueueKeeps ==
  ASSUME CoreInv, UNCHANGED <<cur, held>>, ListInv',
         fpc' = fpc \/ fpc' \in {"mark", "sync"},
         sq' = sq \/ (mode = "shadow" /\ fpc \notin {"lazy", "gone"}),
         zq' = zq \/ (mode = "fixed" /\ fpc # "gone"),
         shadow_state' = shadow_state \/ mode = "shadow"
  PROVE  CoreInv'
<1>. ListInv /\ GoneInv /\ ModeInv /\ ShadowInv /\ WorkInv /\ RefillInv /\ MemInv
  BY DEF CoreInv
<1>1. GoneInv'
  BY DEF GoneInv, held
<1>2. ModeInv'
  BY DEF ModeInv, held
<1>3. ShadowInv' /\ WorkInv' /\ RefillInv' /\ MemInv'
  BY ZenonT(60), HeldUntouched DEF CoreInv
<1> QED BY <1>1, <1>2, <1>3 DEF CoreInv

\* What CoreInv reads
core == <<cur, issued, completed, head, fpc, sq, zq, shadow_state, held>>

\* Steps that change none of it.
LEMMA CoreUntouched ==
  ASSUME CoreInv, UNCHANGED core
  PROVE  CoreInv'
<1>1. UNCHANGED <<cur, issued, completed, head, fpc, sq, zq, shadow_state, held>>
  BY DEF core
<1>2. ListInv'
  BY <1>1, ListUntouched DEF CoreInv, held
<1> QED BY ZenonT(60), <1>1, <1>2, QueueKeeps

-----------------------------------------------------------------------------
(* The thread, the launch worker, the hardware                             *)

\* The thread's waiting, the preparation of the launch and the hardware.
LEMMA BystandersKeep ==
  ASSUME CoreInv,
         \/ WaitEnds \/ Timeout \/ Rewait \/ TermCancel \/ TermFreed \/ Terminated
         \/ LaunchStart \/ LaunchWrite \/ LaunchCopy \/ HwDone \/ HwAbort \/ NotLive
         \/ PeerKills \/ DoneInterrupt \/ AbortInterrupt \/ AbortIdle
  PROVE  CoreInv'
<1>. USE DEF core, held
<1>1. WaitEnds \/ Timeout \/ Rewait \/ TermCancel \/ TermFreed => UNCHANGED core
  BY ZenonT(60)
     DEF WaitEnds, Timeout, Rewait, TermCancel, TermFreed, Fail, Elsewhere, thread,
         lists, desc, scan, shadows, swork, zwork, freeing
<1>2. LaunchStart \/ LaunchWrite \/ LaunchCopy => UNCHANGED core
  BY ZenonT(60)
     DEF LaunchStart, LaunchWrite, LaunchCopy, Quiet, thread, lists, desc, scan,
         shadows, swork, zwork, freeing
<1>3. HwDone \/ HwAbort \/ NotLive \/ PeerKills \/ Terminated => UNCHANGED core
  BY ZenonT(60)
     DEF HwDone, HwAbort, NotLive, PeerKills, Terminated, World, vars, thread, lists,
         desc, scan, shadows, swork, zwork, freeing
<1>4. DoneInterrupt \/ AbortInterrupt \/ AbortIdle => UNCHANGED core
  BY ZenonT(60)
     DEF DoneInterrupt, AbortInterrupt, AbortIdle, thread, lists, desc, scan, shadows,
         swork, zwork, freeing
<1> QED BY ZenonT(60), <1>1, <1>2, <1>3, <1>4, CoreUntouched

\* The first doorbell queues the shadow worker.
LEMMA DoorbellKeeps ==
  ASSUME CoreInv, FreshInv, LaunchDoorbell
  PROVE  CoreInv'
<1>. ListInv /\ GoneInv /\ ModeInv /\ ShadowInv /\ WorkInv /\ RefillInv /\ MemInv
  BY DEF CoreInv
<1>1. UNCHANGED <<cur, held, issued, completed, head, fpc, zq, shadow_state>>
  BY ZenonT(60)
     DEF LaunchDoorbell, Quiet, held, thread, lists, desc, scan, shadows, zwork, freeing
<1>2. sq' = sq \/ (NextDesc = 1 /\ shadow_state = "building")
  BY DEF LaunchDoorbell
<1>3. NextDesc = 1 => fpc = "none"
  BY DEF NextDesc, ListInv
<1>4. shadow_state = "building" => mode = "shadow"
  BY DEF ModeInv
<1>5. ListInv'
  BY <1>1, ListUntouched DEF CoreInv, held
<1> QED BY SMTT(60), Z3T(60), <1>1, <1>2, <1>3, <1>4, <1>5, QueueKeeps

\* terminate_all takes the descriptors and frees them.
LEMMA TerminateKeeps ==
  ASSUME CoreInv, ConstantsAssumption, TermLock \/ TermDrain
  PROVE  CoreInv'
<1>. ListInv /\ GoneInv /\ ModeInv /\ ShadowInv /\ WorkInv /\ RefillInv /\ MemInv
  BY DEF CoreInv
<1>1. UNCHANGED <<cur, mode, cursor, built, chunk, shadow_chunk, shadow_next_chunk, wpc,
                  wshadow, wnext, zpc, zchild, sg_remaining, sq, zq, shadow_state>>
  BY ZenonT(60) DEF TermLock, TermDrain, desc, scan, shadows, swork, zwork
<1>2. CASE TermLock
  <2>1. UNCHANGED <<mem, fpc>>
    BY <1>2 DEF TermLock
  <2>2. UNCHANGED <<issued, completed, head>>
        \/ (issued' = {} /\ completed' = {} /\ head' = issued \union completed)
    BY ZenonT(60), <1>2
       DEF TermLock, TermNotConfigured, TermIdle, TermStopped, TermForce, TermRequest,
           lists
  <2>3. ListInv'
    BY <1>1, <2>1, <2>2 DEF ListInv
  <2> QED BY ZenonT(60), <1>1, <2>1, <2>3, QueueKeeps DEF held
<1>3. CASE TermDrain
  <2>1. /\ completed = {} /\ issued' = {} /\ head' = {} /\ completed' = completed
        /\ IF 1 \in issued \union head THEN fpc' = "mark" ELSE UNCHANGED fpc
    BY ZenonT(60), <1>3 DEF TermDrain
  <2>2. mem' = mem \/ (mem[Short] = "live" /\ mem' = FreeAll(mem, {Short}))
    BY <1>3 DEF TermDrain
  <2>3. /\ Short \in AllChunks /\ \A c \in 1 .. Chunks : c \in AllChunks /\ c # Short
    BY DEF ConstantsAssumption, AllChunks, Short
  <2>4. /\ mem' \in [AllChunks -> {"none", "live", "freed"}]
        /\ \A c \in 1 .. Chunks : mem'[c] = mem[c]
        /\ mem'[Short] = "live" => mem[Short] = "live"
    BY ZenonT(60), <2>2, <2>3 DEF FreeAll, MemInv
  <2>5. MemInv'
    BY ZenonT(60), <1>1, <2>4 DEF MemInv, Owned, Released
  <2>6. ListInv'
    BY ZenonT(60), <1>1, <2>1, <2>4 DEF ListInv, Short
  <2>7. GoneInv' /\ ModeInv'
    BY ZenonT(60), <1>1, <2>1 DEF GoneInv, ModeInv
  <2>8. ShadowInv' /\ WorkInv' /\ RefillInv'
    BY <1>1 DEF ShadowInv, WorkInv, RefillInv
  <2> QED BY ZenonT(60), <2>5, <2>6, <2>7, <2>8 DEF CoreInv
<1> QED BY <1>2, <1>3

\* The long transfer begins with one chunk, or two in shadow mode.
LEMMA StartLongKeeps ==
  ASSUME CoreInv, BareInv, ConstantsAssumption, StartLong
  PROVE  CoreInv' /\ FreshInv' /\ cur' # 0
<1>. ListInv /\ GoneInv /\ ModeInv /\ ShadowInv /\ WorkInv /\ RefillInv /\ MemInv
  BY DEF CoreInv
<1>1. cur = 0 /\ cur' = 1
  BY ZenonT(60) DEF StartLong
<1>2. /\ tpc' = "wait" /\ xfer_started' = 0 /\ done' = 0 /\ chunk' = 1 /\ built' = {1}
      /\ sg_remaining' = Chunks - 1 /\ cursor' = 2
      /\ UNCHANGED <<completed, lpc, head, fpc, shadow_next_chunk, cs, done_int, abort_int,
                     ipc, sq, wpc, wshadow, wnext, zq, zpc, zchild>>
  BY SMTT(60), Z3T(60) DEF StartLong, ChannelReset, Issue, hw, swork, zwork, freeing
<1>3. issued' \subseteq issued \union {1} /\ (pending' = 1 \/ UNCHANGED <<lq, pending>>)
  BY SMTT(60), Z3T(60) DEF StartLong, Issue
<1>4. \/ /\ mode' = "shadow" /\ shadow_state' = "building" /\ shadow_chunk' = 2
         /\ mem' = Alloc({1, 2})
      \/ /\ mode' = "fixed" /\ mem' = Alloc({1}) /\ UNCHANGED <<shadow_state, shadow_chunk>>
  BY ZenonT(60) DEF StartLong, ShadowMode, FixedMode
<1>5. ListInv' /\ GoneInv'
  <2>1. mem[Short] = "none" /\ mem'[Short] = "none"
    BY SMTT(60), Z3T(60), <1>1, <1>4
       DEF BareInv, Alloc, AllChunks, Short, ConstantsAssumption
  <2> QED BY SMTT(60), Z3T(60), <1>1, <1>2, <1>3, <2>1
             DEF BareInv, ListInv, GoneInv, Short
<1>6. ModeInv'
  BY SMTT(60), Z3T(60), <1>1, <1>2, <1>4
     DEF BareInv, ModeInv, Short, ConstantsAssumption
<1>7. wshadow = 0 /\ wnext = 0 /\ zchild = 0
  BY ZenonT(60), <1>1 DEF BareInv, WorkInv, RefillInv
<1>8. ShadowInv'
  BY SMTT(60), Z3T(60), <1>1, <1>2, <1>4, <1>7
     DEF BareInv, ShadowInv, ConstantsAssumption
<1>9. WorkInv' /\ RefillInv'
  BY SMTT(60), Z3T(60), <1>1, <1>2, <1>4, <1>7
     DEF BareInv, WorkInv, RefillInv, ConstantsAssumption
<1>10. MemInv'
  <2>1. \A c \in 1 .. Chunks : c \notin Owned
    BY <1>1, <1>7 DEF BareInv, Owned
  <2>2. 1 \in 1 .. Chunks /\ 2 \in 1 .. Chunks
    BY DEF ConstantsAssumption
  <2>3. CASE mem' = Alloc({1, 2}) /\ shadow_chunk' = 2
    <3>1. \A c \in 1 .. Chunks : c \in Owned' <=> c \in Owned \/ c \in {1, 2}
      BY ZenonT(60), <1>1, <1>2, <1>7, <2>1, <2>3 DEF BareInv, Owned, Released
    <3> QED BY ZenonT(60), <2>2, <2>3, <3>1, MemAllocs DEF CoreInv
  <2>4. CASE mem' = Alloc({1}) /\ shadow_chunk' = 0
    <3>1. \A c \in 1 .. Chunks : c \in Owned' <=> c \in Owned \/ c \in {1}
      BY ZenonT(60), <1>1, <1>2, <1>7, <2>1, <2>4 DEF BareInv, Owned, Released
    <3> QED BY <2>2, <2>4, <3>1, MemAllocs DEF CoreInv
  <2> QED BY ZenonT(60), <1>1, <1>4, <2>3, <2>4 DEF BareInv
<1>11. FreshInv'
  BY <1>1, <1>2, <1>3, <1>4 DEF BareInv, FreshInv
<1> QED BY SMTT(60), Z3T(60), <1>1, <1>5, <1>6, <1>8, <1>9, <1>10, <1>11 DEF CoreInv

\* The short transfer has a chunk of its own.
LEMMA StartShortKeeps ==
  ASSUME CoreInv, ConstantsAssumption, StartShort
  PROVE  CoreInv'
<1>. ListInv /\ GoneInv /\ ModeInv /\ ShadowInv /\ WorkInv /\ RefillInv /\ MemInv
  BY ZenonT(60) DEF CoreInv
<1>1. /\ cur = 1 /\ cur' = 2 /\ mem' = Alloc({Short})
      /\ UNCHANGED <<completed, head, fpc, mode, shadow_state, sq, zq, cursor, built, chunk,
                     shadow_chunk, shadow_next_chunk, wpc, wshadow, wnext, zpc, zchild,
                     sg_remaining>>
  BY ZenonT(60) DEF StartShort, Issue, desc, scan, shadows, swork, zwork, freeing
<1>2. issued' \in {issued, issued \union {2}}
  BY DEF StartShort, Issue
<1>3. Short \in AllChunks /\ \A c \in 1 .. Chunks : c \in AllChunks /\ c # Short
  BY SMTT(60), Z3T(60) DEF ConstantsAssumption, AllChunks, Short
<1>4. /\ mem' \in [AllChunks -> {"none", "live", "freed"}]
      /\ \A c \in 1 .. Chunks : mem'[c] = mem[c]
      /\ mem'[Short] = "live"
  BY ZenonT(60), <1>1, <1>3 DEF Alloc, MemInv
<1>5. MemInv'
  BY ZenonT(60), <1>1, <1>4 DEF MemInv, Owned, Released
<1>6. ListInv'
  BY <1>1, <1>2, <1>4 DEF ListInv, Short
<1>7. GoneInv' /\ ModeInv'
  BY ZenonT(60), <1>1 DEF GoneInv, ModeInv
<1>8. ShadowInv' /\ WorkInv' /\ RefillInv'
  BY SMTT(60), Z3T(60), <1>1 DEF ShadowInv, WorkInv, RefillInv
<1> QED BY ZenonT(60), <1>5, <1>6, <1>7, <1>8 DEF CoreInv

-----------------------------------------------------------------------------
(* Interrupts                                                              *)

\* A Done that a worker takes over only queues it.
LEMMA HandOverKeeps ==
  ASSUME CoreInv, NextDesc = 1, HandOver, UNCHANGED <<cur, fpc, head, cursor, mode, built, has_more, shadows,
           wpc, wshadow, wnext, zpc, zchild, sg_remaining>>
  PROVE  CoreInv'
<1>. ListInv /\ GoneInv /\ ModeInv /\ ShadowInv /\ WorkInv /\ RefillInv /\ MemInv
  BY ZenonT(60) DEF CoreInv
<1>1. /\ UNCHANGED <<chunk, mem, issued, completed>>
      /\ sq' = sq \/ shadow_state \in {"ready", "building"}
      /\ shadow_state' = shadow_state \/ shadow_state \in {"ready", "building"}
      /\ zq' = zq \/ mode = "fixed"
  BY SMTT(60), Z3T(60) DEF HandOver, lists
<1>2. fpc = "none"
  BY SMTT(60), Z3T(60) DEF NextDesc, ListInv
<1>3. shadow_state \in {"ready", "building"} => mode = "shadow"
  BY ZenonT(60) DEF ModeInv
<1>4. ListInv'
  BY <1>1, ListUntouched DEF CoreInv
<1> QED BY SMTT(60), Z3T(60), <1>1, <1>2, <1>3, <1>4, QueueKeeps DEF held, shadows

\* The last Done frees the active chunk and completes the descriptor.
LEMMA FinishKeeps ==
  ASSUME CoreInv, ConstantsAssumption, NextDesc = 1, Finish,
         UNCHANGED <<cur, fpc, head, cursor, mode, built, has_more, shadows, wpc, wshadow,
                     wnext, zpc, zchild, sg_remaining>>
  PROVE  CoreInv'
<1>. ListInv /\ GoneInv /\ ModeInv /\ ShadowInv /\ WorkInv /\ RefillInv /\ MemInv
  BY ZenonT(60) DEF CoreInv
<1>1. /\ mem' = IF chunk # 0 THEN FreeAll(mem, {chunk}) ELSE mem
      /\ chunk' = 0 /\ issued' = issued \ {1} /\ completed' = completed \union {1}
      /\ UNCHANGED <<sq, zq>>
  BY ZenonT(60) DEF Finish, Complete
<1>2. shadow_state = "idle" => shadow_state' = "idle"
  BY ZenonT(60) DEF Finish
<1>3. fpc = "none" /\ 1 \in issued
  BY SMTT(60), Z3T(60) DEF NextDesc, ListInv
<1>4. MemInv' /\ mem'[Short] = mem[Short]
  <2>1. CASE chunk = 0
    BY ZenonT(60), <1>1, <2>1 DEF MemInv, Owned, Released, shadows
  <2>2. CASE chunk # 0
    <3>1. chunk \in 1 .. Chunks
      BY SMTT(60), Z3T(60), <2>2 DEF ShadowInv
    <3>2. /\ chunk # zchild
          /\ shadow_chunk # chunk /\ shadow_next_chunk # chunk /\ wnext # chunk
      BY SMTT(60), Z3T(60), <2>2, <3>1 DEF ShadowInv, RefillInv
    <3>3. wpc \in {"failed", "unbuild"} => wshadow # chunk
      BY ZenonT(60), <3>2 DEF WorkInv
    <3>4. chunk \in Owned
      BY ZenonT(60), <3>2, <3>3 DEF Owned, Released
    <3>5. \A c \in 1 .. Chunks : c \in Owned' <=> c \in Owned /\ c \notin {chunk}
      BY SMTT(60), Z3T(60), <1>1, <3>1, <3>2, <3>3 DEF Owned, Released, shadows
    <3> QED BY ZenonT(60), <1>1, <2>2, <3>1, <3>4, <3>5, MemFrees DEF CoreInv
  <2> QED BY ZenonT(60), <2>1, <2>2
<1>5. ListInv'
  BY ZenonT(60), <1>1, <1>3, <1>4 DEF ListInv
<1>6. GoneInv' /\ ModeInv'
  BY ZenonT(60), <1>1, <1>2, <1>3 DEF GoneInv, ModeInv, shadows
<1>7. ShadowInv' /\ WorkInv' /\ RefillInv'
  BY <1>1 DEF ShadowInv, WorkInv, RefillInv, shadows
<1> QED BY ZenonT(60), <1>4, <1>5, <1>6, <1>7 DEF CoreInv

\* The Done of the short transfer.
LEMMA CompleteShortKeeps ==
  ASSUME CoreInv, ConstantsAssumption, CompleteShort,
         UNCHANGED <<cur, fpc, head, cursor, mode, built, has_more, shadows, wpc, wshadow,
                     wnext, zpc, zchild, sg_remaining>>
  PROVE  CoreInv'
<1>. ListInv /\ GoneInv /\ ModeInv /\ ShadowInv /\ WorkInv /\ RefillInv /\ MemInv
  BY SMTT(60), Z3T(60) DEF CoreInv
<1>1. /\ mem' = FreeAll(mem, {Short}) /\ issued' = issued \ {2}
      /\ completed' = completed \union {2} /\ UNCHANGED <<sq, zq, shadow_state, chunk>>
  BY ZenonT(60) DEF CompleteShort, Complete
<1>2. mem[Short] = "live"
  BY DEF CompleteShort, NextDesc, ListInv
<1>3. Short \in AllChunks /\ \A c \in 1 .. Chunks : c \in AllChunks /\ c # Short
  BY DEF ConstantsAssumption, AllChunks, Short
<1>4. /\ mem' \in [AllChunks -> {"none", "live", "freed"}]
      /\ \A c \in 1 .. Chunks : mem'[c] = mem[c]
      /\ mem'[Short] = "freed"
  BY ZenonT(60), <1>1, <1>2, <1>3 DEF FreeAll, MemInv
<1>5. MemInv'
  BY ZenonT(60), <1>1, <1>4 DEF MemInv, Owned, Released, shadows
<1>6. ListInv'
  BY <1>1, <1>4 DEF ListInv, Short
<1>7. GoneInv' /\ ModeInv'
  BY ZenonT(60), <1>1 DEF GoneInv, ModeInv, shadows
<1>8. ShadowInv' /\ WorkInv' /\ RefillInv'
  BY <1>1 DEF ShadowInv, WorkInv, RefillInv, shadows
<1> QED BY ZenonT(60), <1>5, <1>6, <1>7, <1>8 DEF CoreInv

\* The interrupt handlers and the tasklet.
LEMMA HandlersKeep ==
  ASSUME CoreInv, ConstantsAssumption, DoneLocked \/ AbortLocked \/ Tasklet
  PROVE  CoreInv'
<1>. ListInv /\ GoneInv /\ ModeInv /\ ShadowInv /\ WorkInv /\ RefillInv /\ MemInv
  BY DEF CoreInv
<1>1. CASE DoneLocked
  <2>1. UNCHANGED <<cur, fpc, head, cursor, mode, built, has_more, shadows, wpc, wshadow,
                    wnext, zpc, zchild, sg_remaining>>
    BY ZenonT(60), <1>1 DEF DoneLocked, thread, scan, freeing
  <2>2. \/ NextDesc = 1 /\ (HandOver \/ Finish)
        \/ CompleteShort
        \/ UNCHANGED <<chunk, mem, lists, shadow_state, sq, zq>>
    BY ZenonT(60), <1>1 DEF DoneLocked, CompleteLong
  <2>3. CASE UNCHANGED <<chunk, mem, lists, shadow_state, sq, zq>>
    BY <2>1, <2>3, CoreUntouched DEF core, held, lists, shadows
  <2> QED BY ZenonT(60), <2>1, <2>2, <2>3, HandOverKeeps, FinishKeeps,
             CompleteShortKeeps
<1>2. CASE AbortLocked
  <2>1. /\ UNCHANGED <<cur, held, fpc, head, sq, zq>>
        /\ shadow_state' = shadow_state \/ shadow_state \in {"building", "isr_pending"}
    BY ZenonT(60), <1>2
       DEF AbortLocked, held, thread, scan, shadows, swork, zwork, freeing
  <2>2. IF NextDesc = 0 THEN UNCHANGED <<issued, completed>>
        ELSE issued' = issued \ {NextDesc} /\ completed' = completed \union {NextDesc}
    BY <1>2 DEF AbortLocked, Complete, lists
  <2>3. NextDesc \in {0} \union issued
    BY ZenonT(60) DEF NextDesc
  <2>4. ListInv'
    BY ZenonT(60), <2>1, <2>2, <2>3 DEF ListInv, held
  <2>5. shadow_state' = shadow_state \/ mode = "shadow"
    BY <2>1 DEF ModeInv
  <2> QED BY ZenonT(60), <2>1, <2>4, <2>5, QueueKeeps
<1>3. CASE Tasklet
  <2>1. /\ UNCHANGED <<cur, held, issued, head, sq, zq, shadow_state>> /\ completed' = {}
        /\ IF 1 \in completed THEN fpc' = "mark" ELSE UNCHANGED fpc
    BY ZenonT(60), <1>3 DEF Tasklet, held, thread, desc, scan, shadows, swork, zwork
  <2>2. ListInv'
    BY <2>1 DEF ListInv, held
  <2> QED BY ZenonT(60), <2>1, <2>2, QueueKeeps
<1> QED BY <1>1, <1>2, <1>3

-----------------------------------------------------------------------------
(* The shadow worker                                                       *)

\* Chunks that change hands without being freed.
LEMMA MemPasses ==
  ASSUME MemInv, ConstantsAssumption, mem' = mem,
         \A c \in 1 .. Chunks : c \in Owned' <=> c \in Owned
  PROVE  MemInv' /\ mem'[Short] = mem[Short]
BY ZenonT(60) DEF MemInv

\* What the shadow worker leaves alone
LEMMA ShadowFrame ==
  ASSUME CoreInv, wpc # "idle" \/ sq = 1,
         UNCHANGED <<cur, issued, completed, head, fpc, mode, zq, zpc, zchild>>,
         cursor' \in 0 .. Short, ShadowInv', WorkInv', MemInv', mem'[Short] = mem[Short]
  PROVE  CoreInv'
<1>. ListInv /\ GoneInv /\ ModeInv /\ ShadowInv /\ WorkInv /\ RefillInv /\ MemInv
  BY ZenonT(60) DEF CoreInv
<1>1. mode = "shadow" /\ fpc \notin {"lazy", "gone"} /\ zpc = "idle" /\ zq = 0
  BY DEF ModeInv, GoneInv
<1>2. ListInv'
  BY ZenonT(60), ListUntouched DEF CoreInv
<1>3. GoneInv'
  BY ZenonT(60), <1>1 DEF GoneInv
<1>4. ModeInv'
  BY ZenonT(60), <1>1 DEF ModeInv
<1>5. RefillInv'
  BY SMTT(60), Z3T(60), <1>1 DEF RefillInv, Short
<1> QED BY ZenonT(60), <1>2, <1>3, <1>4, <1>5 DEF CoreInv

\* The shadow worker has the chunk it works on, and nobody else has it.
LEMMA ShadowHas ==
  ASSUME CoreInv, wpc # "idle" \/ sq = 1
  PROVE  /\ mode = "shadow" /\ zchild = 0 /\ cursor \in 0 .. Short
         /\ chunk \in 0 .. Chunks /\ shadow_chunk \in 0 .. Chunks
         /\ shadow_next_chunk \in 0 .. Chunks /\ wnext \in 0 .. Chunks
         /\ shadow_chunk # 0 => chunk # shadow_chunk /\ chunk < shadow_chunk
         /\ shadow_next_chunk # 0 => chunk # shadow_next_chunk
                                     /\ shadow_chunk # shadow_next_chunk /\ wnext = 0
         /\ wnext # 0 => chunk # wnext /\ shadow_chunk # wnext
<1>. ListInv /\ GoneInv /\ ModeInv /\ ShadowInv /\ WorkInv /\ RefillInv /\ MemInv
  BY DEF CoreInv
<1>1. mode = "shadow" /\ zpc = "idle" /\ cursor \in 0 .. Short
  BY DEF ModeInv
<1>2. zchild = 0
  BY <1>1 DEF RefillInv
<1>3. cursor \in Int /\ chunk \in Int /\ shadow_chunk \in Int
  BY SMTT(60), Z3T(60), <1>1 DEF ShadowInv
<1> QED BY <1>1, <1>2, <1>3 DEF ShadowInv

\* The worker starts.
LEMMA ShadowStartKeeps ==
  ASSUME CoreInv, ConstantsAssumption, ShadowStart
  PROVE  CoreInv'
<1>. ListInv /\ GoneInv /\ ModeInv /\ ShadowInv /\ WorkInv /\ RefillInv /\ MemInv
  BY DEF CoreInv
<1>1. /\ sq = 1 /\ wpc = "idle" /\ wshadow' = shadow_chunk
      /\ UNCHANGED <<cur, issued, completed, head, fpc, mode, zq, zpc, zchild, cursor, built,
                     chunk, shadow_chunk, mem>>
  BY ZenonT(60) DEF ShadowStart, SOther, thread, lists, zwork, freeing
<1>2. \/ shadow_chunk \in built /\ wpc' = "precopy" /\ wnext' = shadow_next_chunk
           /\ shadow_next_chunk' = 0
      \/ /\ wpc' = IF shadow_chunk = 0 THEN "nothing" ELSE "fill"
         /\ UNCHANGED <<wnext, shadow_next_chunk>>
  BY ZenonT(60) DEF ShadowStart
<1>3. wnext = 0
  BY ZenonT(60), <1>1 DEF WorkInv
<1>4. shadow_chunk \in built => shadow_chunk # 0
  BY <1>1, ShadowHas DEF ShadowInv
<1>5. MemInv' /\ mem'[Short] = mem[Short]
  <2>1. \A c \in 1 .. Chunks : c \in Owned' <=> c \in Owned
    BY ZenonT(60), <1>1, <1>2, <1>3 DEF Owned, Released
  <2> QED BY ZenonT(60), <1>1, <2>1, MemPasses DEF CoreInv
<1>6. ShadowInv'
  BY ZenonT(60), <1>1, <1>2, <1>3 DEF ShadowInv
<1>7. WorkInv'
  BY ZenonT(60), <1>1, <1>2, <1>3, <1>4 DEF WorkInv
<1>8. cursor' \in 0 .. Short
  BY ZenonT(60), <1>1 DEF ModeInv
<1> QED BY <1>1, <1>5, <1>6, <1>7, <1>8, ShadowFrame

\* Steps of the shadow worker on its way: nothing is passed on, or the next chunk.
LEMMA ShadowWalksKeep ==
  ASSUME CoreInv, ConstantsAssumption,
         \/ ShadowNothing \/ ShadowStopped \/ ShadowHandoff \/ ShadowRecheck \/ ShadowShort
         \/ ShadowShort2
  PROVE  CoreInv'
<1>. ListInv /\ GoneInv /\ ModeInv /\ ShadowInv /\ WorkInv /\ RefillInv /\ MemInv
  BY DEF CoreInv
<1>1. UNCHANGED <<cur, issued, completed, head, fpc, mode, zq, zpc, zchild, cursor, built,
                  chunk, shadow_chunk, mem>>
  BY ZenonT(60)
     DEF ShadowNothing, ShadowStopped, ShadowHandoff, ShadowRecheck, ShadowShort,
         ShadowShort2, SOther, thread, lists, zwork, freeing, desc, scan, shadows
<1>2. wpc \in {"nothing", "ready", "handoff", "recheck", "short", "short2"}
  BY ZenonT(60)
     DEF ShadowNothing, ShadowStopped, ShadowHandoff, ShadowRecheck, ShadowShort,
         ShadowShort2
<1>3. \/ SEnd /\ UNCHANGED shadow_next_chunk
      \/ /\ UNCHANGED <<wshadow, wnext, shadow_next_chunk>>
         /\ \/ wpc = "ready" /\ wpc' \in {"handoff", "recheck"}
            \/ wpc = "handoff" /\ wpc' = "recheck"
            \/ wpc = "short" /\ wpc' = "short2"
      \/ wpc \in {"handoff", "recheck"} /\ TakeNext /\ UNCHANGED wshadow
  <2>1. CASE ShadowNothing \/ ShadowShort2
    BY ZenonT(60), <2>1 DEF ShadowNothing, ShadowShort2, shadows
  <2>2. CASE ShadowStopped \/ ShadowShort
    BY <2>2 DEF ShadowStopped, ShadowShort, shadows
  <2>3. CASE ShadowHandoff \/ ShadowRecheck
    BY <2>3, ZenonT(60) DEF ShadowHandoff, ShadowRecheck
  <2> QED BY ZenonT(60), <2>1, <2>2, <2>3
<1>4. wnext = 0
  BY <1>2 DEF WorkInv
<1>5. MemInv' /\ mem'[Short] = mem[Short]
  <2>1. \A c \in 1 .. Chunks : c \in Owned' <=> c \in Owned
    BY ZenonT(60), <1>1, <1>2, <1>3, <1>4 DEF Owned, Released, SEnd, TakeNext
  <2> QED BY ZenonT(60), <1>1, <2>1, MemPasses DEF CoreInv
<1>6. ShadowInv'
  BY ZenonT(60), <1>1, <1>3, <1>4 DEF ShadowInv, SEnd, TakeNext
<1>7. WorkInv'
  BY <1>1, <1>2, <1>3, <1>4 DEF WorkInv, SEnd, TakeNext
<1>8. cursor' \in 0 .. Short
  BY ZenonT(60), <1>1 DEF ModeInv
<1> QED BY ZenonT(60), <1>1, <1>2, <1>5, <1>6, <1>7, <1>8, ShadowFrame

\* The worker fills a chunk and allocates the next one, or gives up and frees it.
LEMMA ShadowFillKeeps ==
  ASSUME CoreInv, ConstantsAssumption, ShadowFill
  PROVE  CoreInv'
<1>. ListInv /\ GoneInv /\ ModeInv /\ ShadowInv /\ WorkInv /\ RefillInv /\ MemInv
  BY DEF CoreInv
<1>1. /\ wpc = "fill"
      /\ UNCHANGED <<cur, issued, completed, head, fpc, mode, zq, zpc, zchild, chunk,
                     shadow_chunk, shadow_next_chunk, wshadow>>
  BY ZenonT(60) DEF ShadowFill, SOther, thread, lists, zwork, freeing, shadows
<1>2. wnext = 0 /\ wshadow = shadow_chunk /\ wshadow # 0
  BY <1>1 DEF WorkInv
<1>3. wshadow \in 1 .. Chunks /\ zchild = 0 /\ cursor \in 0 .. Short /\ mode = "shadow"
  BY ZenonT(60), <1>1, <1>2, ShadowHas, ChunkNumbers
<1>4. \/ /\ cursor <= Chunks /\ wshadow \notin built
         /\ built' = built \union {wshadow} /\ cursor' = cursor + 1 /\ wpc' = "switch"
         /\ \/ cursor < Chunks /\ wnext' = wshadow + 1 /\ mem' = Alloc({wshadow + 1})
            \/ UNCHANGED <<wnext, mem>>
      \/ mem' = FreeAll(mem, {wshadow}) /\ wpc' = "failed" /\ UNCHANGED <<built, cursor, wnext>>
  BY DEF ShadowFill, Free
<1>5. CASE /\ cursor <= Chunks /\ wshadow \notin built
           /\ built' = built \union {wshadow} /\ cursor' = cursor + 1 /\ wpc' = "switch"
           /\ \/ cursor < Chunks /\ wnext' = wshadow + 1 /\ mem' = Alloc({wshadow + 1})
              \/ UNCHANGED <<wnext, mem>>
  <2>1. wshadow = cursor
    BY <1>2, <1>5 DEF ShadowInv
  <2>2. shadow_next_chunk = 0
    BY ZenonT(60), <1>2, <2>1 DEF ShadowInv
  <2>3. MemInv' /\ mem'[Short] = mem[Short]
    <3>1. CASE UNCHANGED <<wnext, mem>>
      <4>1. \A c \in 1 .. Chunks : c \in Owned' <=> c \in Owned
        BY ZenonT(60), <1>1, <1>5, <3>1 DEF Owned, Released
      <4> QED BY ZenonT(60), <4>1, <3>1, MemPasses DEF CoreInv
    <3>2. CASE cursor < Chunks /\ wnext' = wshadow + 1 /\ mem' = Alloc({wshadow + 1})
      <4>1. wshadow + 1 \in 1 .. Chunks
        BY SMTT(60), Z3T(60), <3>2, <2>1, <1>3 DEF ConstantsAssumption
      <4>2. \A c \in 1 .. Chunks : c \in Owned' <=> c \in Owned \/ c \in {wshadow + 1}
        BY SMTT(60), Z3T(60), <1>1, <1>2, <1>5, <3>2 DEF Owned, Released
      <4> QED BY ZenonT(60), <4>1, <4>2, <3>2, MemAllocs DEF CoreInv
    <3> QED BY <1>5, <3>1, <3>2
  <2>4. cursor' \in 0 .. Short
    BY SMTT(60), Z3T(60), <1>3, <1>5 DEF Short, ConstantsAssumption
  <2>5. ShadowInv'
    <3>1. wnext' = 0 \/ (cursor < Chunks /\ wnext' = cursor + 1)
      BY ZenonT(60), <1>2, <1>5, <2>1
    <3>2. built' \subseteq 1 .. cursor' - 1
      <4>1. built \subseteq 1 .. cursor - 1 /\ built' = built \union {wshadow}
        BY ZenonT(60), <1>3, <1>5 DEF ShadowInv
      <4> QED BY <1>3, <1>5, <2>1, <4>1
    <3>3. chunk' # 0 => chunk' < cursor'
      BY SMTT(60), Z3T(60), <1>1, <1>3, <1>5 DEF ShadowInv
    <3>4. shadow_chunk' \in built' /\ shadow_chunk' = cursor' - 1 /\ chunk' < shadow_chunk'
      BY SMTT(60), Z3T(60), <1>1, <1>2, <1>3, <1>5, <2>1 DEF ShadowInv
    <3>5. wnext' # 0 => wnext' = cursor' /\ shadow_chunk' # cursor'
      BY SMTT(60), Z3T(60), <1>3, <1>5, <3>1, <3>4
    <3>6. wnext' \in 0 .. Chunks
      BY SMTT(60), Z3T(60), <1>3, <3>1 DEF ConstantsAssumption
    <3> QED BY ZenonT(60), <1>1, <2>2, <3>2, <3>3, <3>4, <3>5, <3>6 DEF ShadowInv
  <2>6. WorkInv'
    BY <1>1, <1>2, <1>5, <2>2 DEF WorkInv
  <2> QED BY ZenonT(60), <1>1, <2>3, <2>4, <2>5, <2>6, ShadowFrame
<1>6. CASE mem' = FreeAll(mem, {wshadow}) /\ wpc' = "failed" /\ UNCHANGED <<built, cursor, wnext>>
  <2>1. wshadow \in Owned
    BY ZenonT(60), <1>1, <1>2 DEF Owned, Released
  <2>2. \A c \in 1 .. Chunks : c \in Owned' <=> c \in Owned /\ c \notin {wshadow}
    BY <1>1, <1>2, <1>6 DEF Owned, Released
  <2>3. MemInv' /\ mem'[Short] = mem[Short]
    BY ZenonT(60), <1>3, <1>6, <2>1, <2>2, MemFrees DEF CoreInv
  <2>4. ShadowInv'
    BY ZenonT(60), <1>1, <1>6 DEF ShadowInv
  <2>5. WorkInv'
    BY ZenonT(60), <1>1, <1>2, <1>6 DEF WorkInv
  <2> QED BY ZenonT(60), <1>1, <1>3, <1>6, <2>3, <2>4, <2>5, ShadowFrame
<1> QED BY ZenonT(60), <1>4, <1>5, <1>6

\* The worker gives up, after the chunk was freed.
LEMMA ShadowDropsKeep ==
  ASSUME CoreInv, ConstantsAssumption, ShadowFailed \/ ShadowUnbuild
  PROVE  CoreInv'
<1>. ListInv /\ GoneInv /\ ModeInv /\ ShadowInv /\ WorkInv /\ RefillInv /\ MemInv
  BY DEF CoreInv
<1>1. /\ wpc \in {"failed", "unbuild"}
      /\ UNCHANGED <<cur, issued, completed, head, fpc, mode, zq, zpc, zchild, chunk, cursor,
                     built, mem>>
      /\ wpc' = "idle" /\ wshadow' = 0 /\ wnext' = 0 /\ shadow_chunk' = 0
  BY ZenonT(60)
     DEF ShadowFailed, ShadowUnbuild, SOther, thread, lists, zwork, freeing, SEnd
<1>2. UNCHANGED shadow_next_chunk \/ (wpc = "unbuild" /\ shadow_next_chunk' = 0)
  BY ZenonT(60) DEF ShadowFailed, ShadowUnbuild
<1>3. wshadow = shadow_chunk /\ wshadow # 0 /\ (wpc = "failed" => wnext = 0)
      /\ (wpc = "unbuild" => shadow_next_chunk = 0)
  BY ZenonT(60), <1>1 DEF WorkInv
<1>4. /\ zchild = 0 /\ cursor \in 0 .. Short /\ chunk # shadow_chunk
      /\ shadow_next_chunk # 0 => shadow_chunk # shadow_next_chunk
      /\ wnext # 0 => chunk # wnext
  BY ZenonT(60), <1>1, <1>3, ShadowHas
<1>5. \A c \in 1 .. Chunks : c \in Owned' <=> c \in Owned
  BY <1>1, <1>2, <1>3, <1>4 DEF Owned, Released
<1>6. MemInv' /\ mem'[Short] = mem[Short]
  BY ZenonT(60), <1>1, <1>5, MemPasses DEF CoreInv
<1>7. ShadowInv'
  BY ZenonT(60), <1>1, <1>2, <1>3, <1>4 DEF ShadowInv, ConstantsAssumption
<1>8. WorkInv'
  BY ZenonT(60), <1>1 DEF WorkInv
<1> QED BY <1>1, <1>4, <1>6, <1>7, <1>8, ShadowFrame

\* The chunk that was built is ready, is copied at once or is not wanted any more.
LEMMA ShadowSwitchKeeps ==
  ASSUME CoreInv, ConstantsAssumption, ShadowSwitch
  PROVE  CoreInv'
<1>. ListInv /\ GoneInv /\ ModeInv /\ ShadowInv /\ WorkInv /\ RefillInv /\ MemInv
  BY DEF CoreInv
<1>1. /\ wpc = "switch"
      /\ UNCHANGED <<cur, issued, completed, head, fpc, mode, zq, zpc, zchild, chunk, cursor,
                     built, shadow_chunk>>
  BY ZenonT(60) DEF ShadowSwitch, SOther, thread, lists, zwork, freeing
<1>2. \/ shadow_next_chunk' = wnext /\ wpc' = "ready" /\ wnext' = 0 /\ UNCHANGED <<wshadow, mem>>
      \/ wpc' = "precopy" /\ UNCHANGED <<shadow_next_chunk, wshadow, wnext, mem>>
      \/ mem' = FreeAll(mem, {wnext} \ {0}) /\ UNCHANGED shadow_next_chunk
           /\ wpc' = "idle" /\ wshadow' = 0 /\ wnext' = 0
  BY ZenonT(60) DEF ShadowSwitch, SEnd, Free
<1>3. wshadow = shadow_chunk /\ wshadow # 0 /\ wshadow \in built /\ shadow_next_chunk = 0
  BY <1>1 DEF WorkInv
<1>4. /\ zchild = 0 /\ cursor \in 0 .. Short /\ wnext \in 0 .. Chunks
      /\ wnext # 0 => chunk # wnext /\ shadow_chunk # wnext
  BY ZenonT(60), <1>1, ShadowHas
<1>5. MemInv' /\ mem'[Short] = mem[Short]
  <2>1. CASE UNCHANGED mem /\ wpc' \in {"ready", "precopy"}
    <3>1. \A c \in 1 .. Chunks : c \in Owned' <=> c \in Owned
      BY <1>1, <1>2, <1>3, <2>1 DEF Owned, Released
    <3> QED BY ZenonT(60), <2>1, <3>1, MemPasses DEF CoreInv
  <2>2. CASE mem' = FreeAll(mem, {wnext} \ {0}) /\ UNCHANGED shadow_next_chunk
               /\ wpc' = "idle" /\ wnext' = 0
    <3>1. \A c \in {wnext} \ {0} : c \in 1 .. Chunks /\ c \in Owned
      BY ZenonT(60), <1>1, <1>4, ChunkNumbers DEF Owned, Released
    <3>2. \A c \in 1 .. Chunks : c \in Owned' <=> c \in Owned /\ c \notin {wnext} \ {0}
      BY <1>1, <1>3, <1>4, <2>2 DEF Owned, Released
    <3> QED BY ZenonT(60), <2>2, <3>1, <3>2, MemFrees DEF CoreInv
  <2> QED BY <1>2, <2>1, <2>2
<1>6. ShadowInv'
  BY ZenonT(60), <1>1, <1>2, <1>3 DEF ShadowInv
<1>7. WorkInv'
  BY ZenonT(60), <1>1, <1>2, <1>3 DEF WorkInv
<1> QED BY SMTT(60), Z3T(60), <1>1, <1>4, <1>5, <1>6, <1>7, ShadowFrame

\* The table is copied, or the chunks the worker has in hand are freed.
LEMMA ShadowCopiesKeep ==
  ASSUME CoreInv, ConstantsAssumption, ShadowAcquire \/ ShadowCopy
  PROVE  CoreInv'
<1>. ListInv /\ GoneInv /\ ModeInv /\ ShadowInv /\ WorkInv /\ RefillInv /\ MemInv
  BY DEF CoreInv
<1>1. /\ wpc \in {"precopy", "copy"}
      /\ UNCHANGED <<cur, issued, completed, head, fpc, mode, zq, zpc, zchild, chunk, cursor,
                     built, shadow_chunk, shadow_next_chunk, wshadow, wnext>>
  BY ZenonT(60)
     DEF ShadowAcquire, ShadowCopy, SOther, thread, lists, zwork, freeing, desc, shadows
<1>2. \/ wpc' \in {"copy", "commit"} /\ UNCHANGED mem
      \/ mem' = FreeAll(mem, {wshadow, wnext} \ {0}) /\ wpc' = "unbuild"
  <2>1. \A ret : PrecopyFails(ret) =>
            mem' = FreeAll(mem, {wshadow, wnext} \ {0}) /\ wpc' = "unbuild"
    BY DEF PrecopyFails, Free
  <2> QED BY <2>1, ZenonT(60) DEF ShadowAcquire, ShadowCopy
<1>3. wshadow = shadow_chunk /\ wshadow # 0 /\ wshadow \in built /\ shadow_next_chunk = 0
  BY ZenonT(60), <1>1 DEF WorkInv
<1>4. cursor \in 0 .. Short /\ wnext \in 0 .. Chunks /\ wshadow \in 1 .. Chunks
  BY ZenonT(60), <1>1, <1>3, ShadowHas, ChunkNumbers
<1>5. MemInv' /\ mem'[Short] = mem[Short]
  <2>1. CASE wpc' \in {"copy", "commit"} /\ UNCHANGED mem
    <3>1. \A c \in 1 .. Chunks : c \in Owned' <=> c \in Owned
      BY ZenonT(60), <1>1, <2>1 DEF Owned, Released
    <3> QED BY ZenonT(60), <2>1, <3>1, MemPasses DEF CoreInv
  <2>2. CASE mem' = FreeAll(mem, {wshadow, wnext} \ {0}) /\ wpc' = "unbuild"
    <3>1. \A c \in {wshadow, wnext} \ {0} : c \in 1 .. Chunks /\ c \in Owned
      BY ZenonT(60), <1>1, <1>3, <1>4, ChunkNumbers DEF Owned, Released
    <3>2. \A c \in 1 .. Chunks : c \in Owned' <=> c \in Owned /\ c \notin {wshadow, wnext} \ {0}
      BY <1>1, <2>2 DEF Owned, Released
    <3> QED BY ZenonT(60), <2>2, <3>1, <3>2, MemFrees DEF CoreInv
  <2> QED BY <1>2, <2>1, <2>2
<1>6. ShadowInv'
  BY ZenonT(60), <1>1 DEF ShadowInv
<1>7. WorkInv'
  BY ZenonT(60), <1>1, <1>2, <1>3 DEF WorkInv
<1> QED BY <1>1, <1>4, <1>5, <1>6, <1>7, ShadowFrame

\* The chunk that was copied becomes the active one.
LEMMA ShadowCommitKeeps ==
  ASSUME CoreInv, ConstantsAssumption, ShadowCommit
  PROVE  CoreInv'
<1>. ListInv /\ GoneInv /\ ModeInv /\ ShadowInv /\ WorkInv /\ RefillInv /\ MemInv
  BY DEF CoreInv
<1>1. /\ wpc = "commit"
      /\ UNCHANGED <<cur, issued, completed, head, fpc, mode, zq, zpc, zchild, cursor, built,
                     shadow_next_chunk>>
  BY ZenonT(60) DEF ShadowCommit, SOther, thread, lists, zwork, freeing
<1> DEFINE End == wpc' = "idle" /\ wshadow' = 0 /\ wnext' = 0
           A == mem' = FreeAll(mem, {wnext} \ {0}) /\ End /\ UNCHANGED <<chunk, shadow_chunk>>
           B == mem' = FreeAll(mem, {chunk, wnext} \ {0}) /\ End /\ chunk' = wshadow
                  /\ shadow_chunk' = 0
           C == /\ mem' = FreeAll(mem, {chunk} \ {0}) /\ chunk' = wshadow
                /\ shadow_chunk' = wnext
                /\ End \/ (wpc' = "short" /\ wnext = 0 /\ UNCHANGED <<wshadow, wnext>>)
<1>2. A \/ B \/ C
  BY ZenonT(60) DEF ShadowCommit, SEnd, Free
<1>3. wshadow = shadow_chunk /\ wshadow # 0 /\ wshadow \in built /\ shadow_next_chunk = 0
  BY ZenonT(60), <1>1 DEF WorkInv
<1>4. /\ zchild = 0 /\ mode = "shadow" /\ cursor \in 0 .. Short
      /\ wnext \in 0 .. Chunks /\ wshadow \in 1 .. Chunks /\ chunk \in 0 .. Chunks
      /\ chunk # shadow_chunk
      /\ wnext # 0 => chunk # wnext /\ shadow_chunk # wnext
  BY ZenonT(60), <1>1, <1>3, ShadowHas, ChunkNumbers
<1>5. wshadow = cursor - 1 /\ (wnext # 0 => wnext = cursor) /\ cursor \notin built
      /\ built \subseteq 1 .. cursor - 1 /\ (chunk # 0 => chunk < cursor)
      /\ chunk < shadow_chunk
  BY SMTT(60), Z3T(60), <1>3, <1>4 DEF ShadowInv
<1>6. wnext' = 0
  BY <1>2
<1>7. MemInv' /\ mem'[Short] = mem[Short]
  <2>1. CASE A
    <3>1. \A c \in {wnext} \ {0} : c \in 1 .. Chunks /\ c \in Owned
      BY ZenonT(60), <1>1, <1>4, ChunkNumbers DEF Owned, Released
    <3>2. \A c \in 1 .. Chunks : c \in Owned' <=> c \in Owned /\ c \notin {wnext} \ {0}
      BY ZenonT(60), <1>1, <1>3, <1>4, <1>6, <2>1 DEF Owned, Released
    <3> HIDE DEF A
    <3>3. mem' = FreeAll(mem, {wnext} \ {0})
      BY <2>1 DEF A
    <3> QED BY ZenonT(60), <3>1, <3>2, <3>3, MemFrees DEF CoreInv
  <2>2. CASE B
    <3>1. \A c \in {chunk, wnext} \ {0} : c \in 1 .. Chunks /\ c \in Owned
      BY ZenonT(60), <1>1, <1>4, ChunkNumbers DEF Owned, Released
    <3>2. \A c \in 1 .. Chunks : c \in Owned' <=> c \in Owned /\ c \notin {chunk, wnext} \ {0}
      BY <1>1, <1>3, <1>4, <1>6, <2>2 DEF Owned, Released
    <3> HIDE DEF B
    <3>3. mem' = FreeAll(mem, {chunk, wnext} \ {0})
      BY ZenonT(60), <2>2 DEF B
    <3> QED BY ZenonT(60), <3>1, <3>2, <3>3, MemFrees DEF CoreInv
  <2>3. CASE C
    <3>1. \A c \in {chunk} \ {0} : c \in 1 .. Chunks /\ c \in Owned
      BY ZenonT(60), <1>1, <1>4, ChunkNumbers DEF Owned, Released
    <3>2. \A c \in 1 .. Chunks : c \in Owned' <=> c \in Owned /\ c \notin {chunk} \ {0}
      BY ZenonT(60), <1>1, <1>3, <1>4, <1>6, <2>3 DEF Owned, Released
    <3> HIDE DEF C
    <3>3. mem' = FreeAll(mem, {chunk} \ {0})
      BY <2>3 DEF C
    <3> QED BY ZenonT(60), <3>1, <3>2, <3>3, MemFrees DEF CoreInv
  <2> HIDE DEF A, B, C
  <2> QED BY ZenonT(60), <1>2, <2>1, <2>2, <2>3
<1>8. ShadowInv'
  <2>1. chunk' \in {chunk, wshadow} /\ shadow_chunk' \in {0, shadow_chunk, wnext}
        /\ (shadow_chunk' # 0 /\ chunk' = wshadow => shadow_chunk' = wnext)
        /\ (chunk' = chunk => shadow_chunk' = shadow_chunk)
    BY ZenonT(60), <1>2, <1>4, <1>3
  <2> HIDE DEF A, B, C
  <2>2. chunk' \in 0 .. Chunks /\ shadow_chunk' \in 0 .. Chunks
        /\ (chunk' # 0 => chunk' < cursor)
    BY SMTT(60), Z3T(60), <1>3, <1>4, <1>5, <2>1 DEF ConstantsAssumption
  <2>3. shadow_chunk' # 0 => chunk' < shadow_chunk'
        /\ shadow_chunk' = IF shadow_chunk' \in built THEN cursor - 1 ELSE cursor
    BY SMTT(60), Z3T(60), <1>3, <1>4, <1>5, <2>1
  <2> QED BY ZenonT(60), <1>1, <1>3, <1>4, <1>5, <1>6, <2>2, <2>3 DEF ShadowInv
<1>9. WorkInv'
  <2>1. (wpc' = "idle" /\ wshadow' = 0) \/ wpc' = "short"
    BY ZenonT(60), <1>2
  <2> HIDE DEF A, B, C
  <2> QED BY <1>6, <2>1 DEF WorkInv
<1> HIDE DEF A, B, C
<1> QED BY SMTT(60), Z3T(60), <1>1, <1>4, <1>7, <1>8, <1>9, ShadowFrame

-----------------------------------------------------------------------------
(* The refill                                                              *)

\* While a refill is queued or runs the shadow worker has nothing.
LEMMA RefillHas ==
  ASSUME CoreInv, zpc # "idle" \/ zq = 1
  PROVE  /\ mode = "fixed" /\ fpc # "gone" /\ cursor \in 0 .. Short
         /\ shadow_chunk = 0 /\ shadow_next_chunk = 0 /\ wnext = 0 /\ wpc = "idle" /\ wshadow = 0
         /\ chunk \in 0 .. Chunks /\ zchild \in 0 .. Chunks /\ zchild <= cursor
         /\ chunk # 0 => chunk < cursor
         /\ zchild # 0 => chunk = 0 /\ cursor <= Chunks
         /\ sg_remaining = Chunks + 1 - cursor
<1>. ListInv /\ GoneInv /\ ModeInv /\ ShadowInv /\ WorkInv /\ RefillInv /\ MemInv
  BY DEF CoreInv
<1>1. mode = "fixed" /\ fpc # "gone" /\ cursor \in 0 .. Short
      /\ shadow_chunk = 0 /\ shadow_next_chunk = 0 /\ wpc = "idle"
  BY SMTT(60), Z3T(60) DEF ModeInv, GoneInv
<1>2. wnext = 0 /\ wshadow = 0
  BY ZenonT(60), <1>1 DEF WorkInv
<1> QED BY SMTT(60), Z3T(60), <1>1, <1>2 DEF ShadowInv, RefillInv

\* What the refill leaves alone
LEMMA RefillFrame ==
  ASSUME CoreInv, zpc # "idle" \/ zq = 1,
         UNCHANGED <<cur, fpc, mode, shadow_state, sq, wpc, wshadow, wnext, shadow_chunk,
                     shadow_next_chunk>>,
         cursor' \in 0 .. Short, chunk' \in 0 .. Chunks, chunk' # 0 => chunk' < cursor',
         ListInv', RefillInv', MemInv'
  PROVE  CoreInv'
<1>. ListInv /\ GoneInv /\ ModeInv /\ ShadowInv /\ WorkInv /\ RefillInv /\ MemInv
  BY ZenonT(60) DEF CoreInv
<1>1. GoneInv'
  BY ZenonT(60), RefillHas DEF GoneInv
<1>2. ModeInv'
  BY RefillHas DEF ModeInv
<1>3. ShadowInv'
  BY ZenonT(60), RefillHas DEF ShadowInv
<1>4. WorkInv'
  BY ZenonT(60), RefillHas DEF WorkInv
<1> QED BY <1>1, <1>2, <1>3, <1>4 DEF CoreInv

\* What each step of the refill leaves alone
LEMMA RefillLeaves ==
  ASSUME Refill
  PROVE  UNCHANGED <<cur, fpc, head, mode, shadow_state, sq, wpc, wshadow, wnext, shadow_chunk,
                     shadow_next_chunk>>
<1>. USE DEF ZOther, thread, shadows, swork, freeing
<1>1. RefillStart \/ RefillWait => UNCHANGED <<cur, fpc, head, mode, shadow_state, sq, wpc,
                    wshadow, wnext, shadow_chunk, shadow_next_chunk>>
  BY ZenonT(60) DEF RefillStart, RefillWait
<1>2. RefillClaim \/ RefillWrite => UNCHANGED <<cur, fpc, head, mode, shadow_state, sq, wpc,
                    wshadow, wnext, shadow_chunk, shadow_next_chunk>>
  BY ZenonT(60) DEF RefillClaim, RefillWrite
<1>3. RefillCopy \/ RefillCommit => UNCHANGED <<cur, fpc, head, mode, shadow_state, sq, wpc,
                    wshadow, wnext, shadow_chunk, shadow_next_chunk>>
  BY ZenonT(60) DEF RefillCopy, RefillCommit
<1> QED BY <1>1, <1>2, <1>3 DEF Refill

\* The refill waits for the channel and copies the table.
LEMMA RefillWalksKeep ==
  ASSUME CoreInv, ConstantsAssumption, RefillStart \/ RefillWait \/ RefillCopy
  PROVE  CoreInv'
<1>. ListInv /\ GoneInv /\ ModeInv /\ ShadowInv /\ WorkInv /\ RefillInv /\ MemInv
  BY DEF CoreInv
<1>1. /\ UNCHANGED <<issued, completed, cursor, chunk, zchild, sg_remaining, mem>>
      /\ \/ zq = 1 /\ zpc = "idle" /\ zpc' = "wait"
         \/ zpc = "wait" /\ zpc' = "claim"
         \/ zpc = "copy" /\ zpc' = "commit"
  BY ZenonT(60) DEF RefillStart, RefillWait, RefillCopy, lists
<1>2. UNCHANGED <<cur, fpc, head, mode, shadow_state, sq, wpc, wshadow, wnext, shadow_chunk,
                  shadow_next_chunk>>
  BY ZenonT(60), RefillLeaves DEF Refill
<1>3. ListInv'
  BY ZenonT(60), <1>1, <1>2, ListUntouched DEF CoreInv
<1>4. MemInv'
  BY ZenonT(60), <1>1, <1>2 DEF MemInv, Owned, Released
<1>5. RefillInv'
  BY ZenonT(60), <1>1, <1>2 DEF RefillInv
<1>6. cursor' \in 0 .. Short /\ chunk' \in 0 .. Chunks /\ (chunk' # 0 => chunk' < cursor')
  BY <1>1, RefillHas
<1> QED BY ZenonT(60), <1>1, <1>2, <1>3, <1>4, <1>5, <1>6, RefillFrame

\* A chunk that the refill frees was the descriptor's, and the descriptor may be completed.
LEMMA RefillFrees ==
  ASSUME CoreInv, ConstantsAssumption, zpc # "idle" \/ zq = 1, NEW c0 \in {chunk, zchild},
         c0 # 0, mem' = FreeAll(mem, {c0}), chunk' = 0, zchild' = 0,
         UNCHANGED <<cur, fpc, head, wpc, wshadow, wnext, shadow_chunk, shadow_next_chunk>>,
         \/ UNCHANGED <<issued, completed>>
         \/ 1 \in issued /\ issued' = issued \ {1} /\ completed' = completed \union {1}
  PROVE  ListInv' /\ MemInv'
<1>. ListInv /\ GoneInv /\ ModeInv /\ ShadowInv /\ WorkInv /\ RefillInv /\ MemInv
  BY ZenonT(60) DEF CoreInv
<1>1. c0 \in 1 .. Chunks /\ c0 \in Owned
  BY ZenonT(60), RefillHas, ChunkNumbers DEF Owned, Released
<1>2. \A c \in 1 .. Chunks : c \in Owned' <=> c \in Owned /\ c \notin {c0}
  BY RefillHas DEF Owned, Released
<1>3. MemInv' /\ mem'[Short] = mem[Short]
  BY ZenonT(60), <1>1, <1>2, MemFrees DEF CoreInv
<1>4. ListInv'
  BY ZenonT(60), <1>3 DEF ListInv, Short
<1> QED BY ZenonT(60), <1>3, <1>4

\* The chunk that was moved is detached.
LEMMA RefillClaimKeeps ==
  ASSUME CoreInv, ConstantsAssumption, RefillClaim
  PROVE  CoreInv'
<1>. ListInv /\ GoneInv /\ ModeInv /\ ShadowInv /\ WorkInv /\ RefillInv /\ MemInv
  BY DEF CoreInv
<1> DEFINE A == zpc' = "idle" /\ zchild' = 0 /\ UNCHANGED <<chunk, mem, issued, completed>>
           B == /\ NextDesc = 1 /\ chunk # 0 /\ chunk' = 0 /\ zpc' = "idle" /\ zchild' = 0
                /\ mem' = FreeAll(mem, {chunk})
                /\ issued' = issued \ {1} /\ completed' = completed \union {1}
           C == /\ chunk # 0 /\ sg_remaining > 0 /\ zpc' = "refill" /\ zchild' = chunk
                /\ chunk' = 0 /\ UNCHANGED <<mem, issued, completed>>
<1>1. zpc = "claim" /\ UNCHANGED <<cursor, sg_remaining>>
  BY ZenonT(60) DEF RefillClaim
<1>2. A \/ B \/ C
  BY ZenonT(60) DEF RefillClaim, ZEnd, Stop, Free, Complete, lists
<1>3. UNCHANGED <<cur, fpc, head, mode, shadow_state, sq, wpc, wshadow, wnext, shadow_chunk,
                  shadow_next_chunk>>
  BY ZenonT(60), RefillLeaves DEF Refill
<1>4. zchild = 0
  BY <1>1 DEF RefillInv
<1>5. ListInv' /\ MemInv'
  <2>1. CASE A \/ C
    <3>1. UNCHANGED <<mem, issued, completed>>
      BY ZenonT(60), <2>1
    <3>2. \A c \in 1 .. Chunks : c \in Owned' <=> c \in Owned
      BY ZenonT(60), <1>1, <1>3, <1>4, <2>1 DEF Owned, Released
    <3> HIDE DEF A, C
    <3> QED BY ZenonT(60), <1>3, <3>1, <3>2, MemPasses, ListUntouched DEF CoreInv
  <2>2. CASE B
    <3>1. /\ chunk # 0 /\ chunk' = 0 /\ zchild' = 0 /\ mem' = FreeAll(mem, {chunk})
          /\ 1 \in issued /\ issued' = issued \ {1} /\ completed' = completed \union {1}
      BY <2>2 DEF NextDesc
    <3> HIDE DEF B
    <3> QED BY ZenonT(60), <1>1, <1>3, <3>1, RefillFrees
  <2> HIDE DEF A, B, C
  <2> QED BY ZenonT(60), <1>2, <2>1, <2>2
<1>6. cursor' \in 0 .. Short /\ chunk' \in 0 .. Chunks /\ (chunk' # 0 => chunk' < cursor')
  BY ZenonT(60), <1>1, <1>2, RefillHas DEF ConstantsAssumption
<1>7. RefillInv'
  <2>1. (zpc' = "idle" /\ zchild' = 0)
          \/ (zpc' = "refill" /\ zchild' = chunk /\ chunk # 0 /\ chunk' = 0 /\ sg_remaining > 0)
    BY ZenonT(60), <1>2
  <2> HIDE DEF A, B, C
  <2> QED BY SMTT(60), Z3T(60), <1>1, <1>3, <2>1, RefillHas
             DEF RefillInv, ConstantsAssumption, Short
<1> HIDE DEF A, B, C
<1> QED BY ZenonT(60), <1>1, <1>3, <1>5, <1>6, <1>7, RefillFrame

\* The chunk gets its next batch.
LEMMA RefillWriteKeeps ==
  ASSUME CoreInv, ConstantsAssumption, RefillWrite
  PROVE  CoreInv'
<1>. ListInv /\ GoneInv /\ ModeInv /\ ShadowInv /\ WorkInv /\ RefillInv /\ MemInv
  BY DEF CoreInv
<1>1. zpc = "refill" /\ UNCHANGED <<cursor, sg_remaining, chunk, issued, completed>>
  BY ZenonT(60) DEF RefillWrite, lists
<1>2. \/ zpc' = "copy" /\ zchild' = cursor
           /\ mem' = [FreeAll(mem, {zchild}) EXCEPT ![cursor] = "live"]
      \/ zpc' = "commit" /\ UNCHANGED <<zchild, mem>>
  BY ZenonT(60) DEF RefillWrite
<1>3. UNCHANGED <<cur, fpc, head, mode, shadow_state, sq, wpc, wshadow, wnext, shadow_chunk,
                  shadow_next_chunk>>
  BY ZenonT(60), RefillLeaves DEF Refill
<1>4. zchild \in 1 .. Chunks /\ zchild < cursor /\ chunk = 0 /\ cursor \in 1 .. Chunks
      /\ mode = "fixed" /\ sg_remaining = Chunks + 1 - cursor
      /\ shadow_chunk = 0 /\ shadow_next_chunk = 0 /\ wnext = 0 /\ wpc = "idle"
  BY SMTT(60), Z3T(60), <1>1, RefillHas DEF RefillInv, ConstantsAssumption
<1>5. MemInv' /\ mem'[Short] = mem[Short]
  <2>1. CASE zpc' = "commit" /\ UNCHANGED <<zchild, mem>>
    <3>1. \A c \in 1 .. Chunks : c \in Owned' <=> c \in Owned
      BY ZenonT(60), <1>1, <1>3, <2>1 DEF Owned, Released
    <3> QED BY ZenonT(60), <2>1, <3>1, MemPasses DEF CoreInv
  <2>2. CASE zchild' = cursor /\ mem' = [FreeAll(mem, {zchild}) EXCEPT ![cursor] = "live"]
    <3>1. /\ Short \in AllChunks /\ zchild \in AllChunks /\ cursor \in AllChunks
          /\ \A c \in 1 .. Chunks : c \in AllChunks /\ c # Short
      BY SMTT(60), Z3T(60), <1>4 DEF ConstantsAssumption, AllChunks, Short
    <3>2. mem[zchild] = "live"
      BY ZenonT(60), <1>4 DEF MemInv, Owned, Released
    <3>3. \A c \in AllChunks : mem'[c] = IF c = cursor THEN "live"
                                         ELSE IF c = zchild THEN "freed" ELSE mem[c]
      BY <2>2, <3>2 DEF FreeAll
    <3>4. mem' \in [AllChunks -> {"none", "live", "freed"}]
      BY ZenonT(60), <2>2, <3>2, <3>3 DEF FreeAll, MemInv
    <3>5. \A c \in 1 .. Chunks : c \in Owned <=> c = zchild
      BY SMTT(60), Z3T(60), <1>4 DEF Owned, Released
    <3>6. \A c \in 1 .. Chunks : c \in Owned' <=> c = cursor
      BY SMTT(60), Z3T(60), <1>1, <1>3, <1>4, <2>2 DEF Owned, Released
    <3>7. \A c \in 1 .. Chunks : mem'[c] = "live" <=> c \in Owned'
      BY ZenonT(60), <1>4, <3>1, <3>3, <3>5, <3>6 DEF MemInv
    <3>8. mem'[Short] = mem[Short]
      BY SMTT(60), Z3T(60), <1>4, <3>1, <3>3
    <3> QED BY ZenonT(60), <3>4, <3>7, <3>8 DEF MemInv
  <2> QED BY <1>2, <2>1, <2>2
<1>6. ListInv'
  BY ZenonT(60), <1>1, <1>3, <1>5, ListUntouched DEF CoreInv
<1>7. cursor' \in 0 .. Short /\ chunk' \in 0 .. Chunks /\ (chunk' # 0 => chunk' < cursor')
  BY ZenonT(60), <1>1, RefillHas
<1>8. RefillInv'
  BY SMTT(60), Z3T(60), <1>1, <1>2, <1>3, <1>4 DEF RefillInv
<1> QED BY ZenonT(60), <1>1, <1>3, <1>5, <1>6, <1>7, <1>8, RefillFrame

\* The chunk becomes the active one again, or is freed.
LEMMA RefillCommitKeeps ==
  ASSUME CoreInv, ConstantsAssumption, RefillCommit
  PROVE  CoreInv'
<1>. ListInv /\ GoneInv /\ ModeInv /\ ShadowInv /\ WorkInv /\ RefillInv /\ MemInv
  BY DEF CoreInv
<1> DEFINE A == /\ mem' = FreeAll(mem, {zchild}) /\ UNCHANGED <<cursor, sg_remaining, chunk>>
                /\ \/ UNCHANGED <<issued, completed>>
                   \/ NextDesc = 1 /\ issued' = issued \ {1} /\ completed' = completed \union {1}
           B == /\ sg_remaining' = sg_remaining - 1 /\ cursor' = cursor + 1 /\ chunk' = zchild
                /\ UNCHANGED <<mem, issued, completed>>
<1>1. zpc = "commit" /\ zpc' = "idle" /\ zchild' = 0
  BY ZenonT(60) DEF RefillCommit, ZEnd
<1>2. A \/ B
  BY ZenonT(60) DEF RefillCommit, Stop, Free, Complete, lists
<1>3. UNCHANGED <<cur, fpc, head, mode, shadow_state, sq, wpc, wshadow, wnext, shadow_chunk,
                  shadow_next_chunk>>
  BY ZenonT(60), RefillLeaves DEF Refill
<1>4. zchild # 0
  BY ZenonT(60), <1>1 DEF RefillInv
<1>5. zchild \in 1 .. Chunks /\ zchild <= cursor /\ chunk = 0 /\ cursor \in 0 .. Chunks
      /\ sg_remaining = Chunks + 1 - cursor /\ mode = "fixed"
  BY SMTT(60), Z3T(60), <1>1, <1>4, RefillHas
<1>6. ListInv' /\ MemInv'
  <2>1. CASE A
    <3>1. /\ mem' = FreeAll(mem, {zchild}) /\ chunk' = 0
          /\ \/ UNCHANGED <<issued, completed>>
             \/ 1 \in issued /\ issued' = issued \ {1} /\ completed' = completed \union {1}
      BY SMTT(60), Z3T(60), <1>5, <2>1 DEF NextDesc
    <3> HIDE DEF A
    <3> QED BY ZenonT(60), <1>1, <1>3, <1>4, <3>1, RefillFrees
  <2>2. CASE B
    <3>1. UNCHANGED <<mem, issued, completed>>
      BY ZenonT(60), <2>2
    <3>2. \A c \in 1 .. Chunks : c \in Owned' <=> c \in Owned
      BY ZenonT(60), <1>1, <1>3, <1>5, <2>2 DEF Owned, Released
    <3> HIDE DEF B
    <3> QED BY SMTT(60), Z3T(60), <1>3, <3>1, <3>2, MemPasses, ListUntouched DEF CoreInv
  <2> HIDE DEF A, B
  <2> QED BY ZenonT(60), <1>2, <2>1, <2>2
<1>7. /\ cursor' \in 0 .. Short /\ chunk' \in 0 .. Chunks /\ (chunk' # 0 => chunk' < cursor')
      /\ sg_remaining' = Chunks + 1 - cursor'
  BY SMTT(60), Z3T(60), <1>2, <1>5 DEF Short, ConstantsAssumption
<1>8. RefillInv'
  BY SMTT(60), Z3T(60), <1>1, <1>7 DEF RefillInv, ConstantsAssumption, Short
<1> HIDE DEF A, B
<1> QED BY ZenonT(60), <1>1, <1>3, <1>6, <1>7, <1>8, RefillFrame

-----------------------------------------------------------------------------
(* The descriptor is freed.                                                *)

\* dw_edma_free_desc frees what nobody else will free.
LEMMA FreeDescKeeps ==
  ASSUME CoreInv, ConstantsAssumption, FreeDesc
  PROVE  CoreInv'
<1>. ListInv /\ GoneInv /\ ModeInv /\ ShadowInv /\ WorkInv /\ RefillInv /\ MemInv
  BY DEF CoreInv
<1>1. UNCHANGED <<cur, issued, completed, head, mode, cursor, built, wpc, wshadow, wnext, zpc,
                  zchild, sg_remaining>>
  BY ZenonT(60)
     DEF FreeDesc, FreeMark, FreeShadow, FreeChunks, FOther, thread, lists, scan
<1>2. CASE FreeMark
  <2>1. /\ fpc = "mark" /\ fpc' = "sync"
        /\ UNCHANGED <<chunk, shadow_chunk, shadow_next_chunk, sq, zq, mem>>
        /\ shadow_state' = shadow_state \/ shadow_state # "idle"
    BY <1>2 DEF FreeMark, shadows
  <2>2. shadow_state' = shadow_state \/ mode = "shadow"
    BY ZenonT(60), <2>1 DEF ModeInv
  <2>3. ListInv'
    BY ZenonT(60), <1>1, <2>1 DEF ListInv
  <2> QED BY ZenonT(60), <1>1, <2>1, <2>2, <2>3, QueueKeeps DEF held
<1>3. CASE FreeShadow
  <2>1. /\ fpc = "sync" /\ wpc = "idle" /\ fpc' = "lazy" /\ sq' = 0
        /\ mem' = FreeAll(mem, {shadow_chunk, shadow_next_chunk} \ {0})
        /\ shadow_chunk' = 0 /\ shadow_next_chunk' = 0
        /\ UNCHANGED <<shadow_state, chunk, zq>>
    BY ZenonT(60), <1>3 DEF FreeShadow, Free
  <2>2. wnext = 0 /\ wshadow = 0
    BY ZenonT(60), <2>1 DEF WorkInv
  <2>3. shadow_chunk \in 0 .. Chunks /\ shadow_next_chunk \in 0 .. Chunks
    BY ZenonT(60) DEF ShadowInv
  <2>4. (shadow_chunk # 0 \/ shadow_next_chunk # 0) => zchild = 0
    BY ZenonT(60) DEF ModeInv, RefillInv
  <2>5. (shadow_chunk # 0 => chunk # shadow_chunk)
        /\ (shadow_next_chunk # 0 => chunk # shadow_next_chunk)
    <3>1. chunk \in Int /\ cursor \in Int
      BY DEF ShadowInv, ModeInv
    <3> QED BY SMTT(60), Z3T(60), <3>1 DEF ShadowInv
  <2>6. MemInv' /\ mem'[Short] = mem[Short]
    <3>1. \A c \in {shadow_chunk, shadow_next_chunk} \ {0} : c \in 1 .. Chunks /\ c \in Owned
      BY <2>1, <2>3 DEF Owned, Released, ConstantsAssumption
    <3>2. \A c \in 1 .. Chunks : c \in Owned'
              <=> c \in Owned /\ c \notin {shadow_chunk, shadow_next_chunk} \ {0}
      BY ZenonT(60), <1>1, <2>1, <2>2, <2>4, <2>5 DEF Owned, Released
    <3> QED BY ZenonT(60), <2>1, <3>1, <3>2, MemFrees DEF CoreInv
  <2>7. ListInv'
    BY ZenonT(60), <1>1, <2>1, <2>6 DEF ListInv, Short
  <2>8. GoneInv' /\ ModeInv'
    BY ZenonT(60), <1>1, <2>1 DEF GoneInv, ModeInv
  <2>9. ShadowInv' /\ WorkInv' /\ RefillInv'
    BY ZenonT(60), <1>1, <2>1, <2>2
       DEF ShadowInv, WorkInv, RefillInv, ConstantsAssumption
  <2> QED BY ZenonT(60), <2>6, <2>7, <2>8, <2>9 DEF CoreInv
<1>4. CASE FreeChunks
  <2>1. /\ fpc = "lazy" /\ zpc = "idle" /\ fpc' = "gone" /\ zq' = 0
        /\ mem' = FreeAll(mem, {chunk} \ {0}) /\ chunk' = 0
        /\ UNCHANGED <<shadow_state, shadow_chunk, shadow_next_chunk, sq>>
    BY ZenonT(60), <1>4 DEF FreeChunks, Free, shadows
  <2>2. sq = 0 /\ wpc = "idle" /\ shadow_chunk = 0 /\ shadow_next_chunk = 0
    BY ZenonT(60), <2>1 DEF GoneInv
  <2>3. wnext = 0 /\ zchild = 0 /\ chunk \in 0 .. Chunks
    BY ZenonT(60), <2>1, <2>2 DEF WorkInv, RefillInv, ShadowInv
  <2>4. MemInv' /\ mem'[Short] = mem[Short]
    <3>1. \A c \in {chunk} \ {0} : c \in 1 .. Chunks /\ c \in Owned
      BY <2>2, <2>3 DEF Owned, Released, ConstantsAssumption
    <3>2. \A c \in 1 .. Chunks : c \in Owned' <=> c \in Owned /\ c \notin {chunk} \ {0}
      BY ZenonT(60), <1>1, <2>1, <2>2, <2>3 DEF Owned, Released
    <3> QED BY ZenonT(60), <2>1, <3>1, <3>2, MemFrees DEF CoreInv
  <2>5. ListInv'
    BY ZenonT(60), <1>1, <2>1, <2>4 DEF ListInv, Short
  <2>6. GoneInv' /\ ModeInv'
    BY SMTT(60), Z3T(60), <1>1, <2>1, <2>2 DEF GoneInv, ModeInv
  <2>7. ShadowInv' /\ WorkInv' /\ RefillInv'
    BY ZenonT(60), <1>1, <2>1, <2>2, <2>3
       DEF ShadowInv, WorkInv, RefillInv, ConstantsAssumption
  <2> QED BY SMTT(60), Z3T(60), <2>4, <2>5, <2>6, <2>7 DEF CoreInv
<1> QED BY <1>2, <1>3, <1>4 DEF FreeDesc

-----------------------------------------------------------------------------
(* Ownership of the chunks                                                 *)

\* Every step keeps who owns what.
LEMMA OwnKeeps ==
  ASSUME OwnInv, ConstantsAssumption, [Next]_vars
  PROVE  OwnInv'
<1>. BareInv /\ FreshInv /\ ListInv /\ GoneInv /\ ModeInv /\ ShadowInv /\ WorkInv /\ RefillInv /\ MemInv
  BY SMTT(60), Z3T(60) DEF OwnInv, CoreInv
<1>1. CASE UNCHANGED vars
  <2>1. BareInv' /\ FreshInv'
    BY ZenonT(60), <1>1
       DEF BareInv, FreshInv, vars, thread, chan, lists, launch, hw, desc, scan,
           shadows, swork, zwork, freeing
  <2>2. UNCHANGED core
    BY ZenonT(60), <1>1
       DEF vars, core, held, thread, lists, desc, scan, shadows, swork, zwork, freeing
  <2> QED BY SMTT(60), Z3T(60), <2>1, <2>2, CoreUntouched DEF OwnInv
<1>2. CASE cur = 0 /\ Next
  <2>1. CASE StartLong
    <3>1. CoreInv' /\ FreshInv' /\ cur' # 0
      BY ZenonT(60), <2>1, StartLongKeeps DEF OwnInv
    <3> QED BY SMTT(60), Z3T(60), <3>1 DEF OwnInv, BareInv
  <2>2. CASE NotLive
    <3>1. BareInv' /\ FreshInv'
      BY ZenonT(60), <2>2
         DEF BareInv, FreshInv, NotLive, World, thread, chan, lists, launch, hw, desc,
             scan, shadows, swork, zwork, freeing
    <3> QED BY SMTT(60), Z3T(60), <2>2, <3>1, BystandersKeep DEF OwnInv
  <2> QED BY ZenonT(60), <1>2, <2>1, <2>2, BareDisables DEF OwnInv
<1>3. CASE cur # 0 /\ Next
  <2>1. FreshInv' /\ cur' # 0
    BY ZenonT(60), <1>3, FreshKeeps DEF OwnInv
  <2>2. BareInv'
    BY <2>1 DEF BareInv
  <2>3. CoreInv /\ FreshInv
    BY ZenonT(60) DEF OwnInv
  <2>4. ~StartLong
    BY <1>3 DEF StartLong
  <2>5. StartShort \/ Timeout \/ Thread => CoreInv'
    BY ZenonT(60), <2>3, StartShortKeeps, BystandersKeep, TerminateKeeps DEF Thread
  <2>6. Launch \/ HwDone \/ HwAbort \/ NotLive \/ PeerKills \/ Terminated => CoreInv'
    BY ZenonT(60), <2>3, BystandersKeep, DoorbellKeeps DEF Launch
  <2>7. Interrupts \/ Tasklet => CoreInv'
    BY ZenonT(60), <2>3, BystandersKeep, HandlersKeep DEF Interrupts
  <2>8. Shadow => CoreInv'
    BY ZenonT(60), <2>3, ShadowStartKeeps, ShadowWalksKeep, ShadowFillKeeps,
       ShadowDropsKeep, ShadowSwitchKeeps, ShadowCopiesKeep, ShadowCommitKeeps
       DEF Shadow
  <2>9. Refill \/ FreeDesc => CoreInv'
    BY ZenonT(60), <2>3, RefillWalksKeep, RefillClaimKeeps, RefillWriteKeeps,
       RefillCommitKeeps, FreeDescKeeps
       DEF Refill
  <2>10. CoreInv'
    BY ZenonT(60), <1>3, <2>4, <2>5, <2>6, <2>7, <2>8, <2>9 DEF Next
  <2> QED BY <2>1, <2>2, <2>10 DEF OwnInv
<1> QED BY SMTT(60), Z3T(60), <1>1, <1>2, <1>3

\* Initially nothing is allocated.
LEMMA OwnInit ==
  ASSUME Init, ConstantsAssumption
  PROVE  OwnInv
<1>1. BareInv /\ FreshInv
  BY DEF Init, BareInv, FreshInv
<1>2. Short \in AllChunks /\ \A c \in 1 .. Chunks : c \in AllChunks
  BY DEF ConstantsAssumption, AllChunks, Short
<1>3. ListInv /\ GoneInv /\ ModeInv
  <2>1. ListInv /\ GoneInv
    BY <1>2 DEF Init, ListInv, GoneInv
  <2>2. 0 \in 0 .. Short
    BY DEF Short, ConstantsAssumption
  <2>3. ModeInv
    BY ZenonT(60), <2>2 DEF Init, ModeInv
  <2> QED BY ZenonT(60), <2>1, <2>3
<1>4. ShadowInv /\ WorkInv /\ RefillInv
  BY DEF Init, ShadowInv, WorkInv, RefillInv, ConstantsAssumption
<1>5. MemInv
  <2>1. \A c \in 1 .. Chunks : c \notin Owned
    BY SMTT(60), Z3T(60) DEF Init, Owned
  <2> QED BY ZenonT(60), <1>2, <2>1 DEF Init, MemInv
<1> QED BY ZenonT(60), <1>1, <1>3, <1>4, <1>5 DEF OwnInv, CoreInv

\* Who owns what decides what is alive.
LEMMA OwnedIsLive ==
  ASSUME OwnInv, ConstantsAssumption
  PROVE  ChunksOwned
<1>. BareInv /\ FreshInv /\ ListInv /\ GoneInv /\ ModeInv /\ ShadowInv /\ WorkInv /\ RefillInv /\ MemInv
  BY DEF OwnInv, CoreInv
<1>0. CoreInv
  BY DEF OwnInv
<1>1. \A c \in AllChunks : mem[c] # "twice"
  BY ZenonT(60) DEF MemInv
<1>2. /\ chunk \in 0 .. Chunks /\ shadow_chunk \in 0 .. Chunks
      /\ shadow_next_chunk \in 0 .. Chunks /\ wnext \in 0 .. Chunks /\ zchild \in 0 .. Chunks
  BY ZenonT(60) DEF ShadowInv, RefillInv
<1>3. wpc \in {"failed", "unbuild"} => /\ wshadow = shadow_chunk /\ wshadow # 0
                                       /\ zchild = 0 /\ chunk # shadow_chunk
                                       /\ (wnext # 0 => chunk # wnext)
                                       /\ (wpc = "failed" => wnext = 0)
  BY ZenonT(60), <1>0, ShadowHas DEF WorkInv
<1>4. chunk # 0 => chunk \in Owned
  BY <1>3 DEF Owned, Released
<1>5. zchild # 0 => zchild \in Owned
  BY ZenonT(60), <1>3 DEF Owned, Released
<1>6. wpc \in {"fill", "switch", "precopy", "copy", "commit"} => wshadow \in Owned /\ wshadow # 0 /\ wshadow = shadow_chunk
  BY ZenonT(60) DEF WorkInv, Owned, Released
<1>7. wnext # 0 /\ wpc # "unbuild" => wnext \in Owned
  BY ZenonT(60), <1>3 DEF Owned, Released
<1>8. \A c \in 0 .. Chunks : c # 0 /\ c \in Owned => mem[c] = "live"
  BY SMTT(60), Z3T(60) DEF MemInv, ConstantsAssumption
<1>9. fpc = "gone" => \A c \in 1 .. Chunks : mem[c] # "live"
  <2>1. SUFFICES ASSUME fpc = "gone" PROVE \A c \in 1 .. Chunks : c \notin Owned
    BY ZenonT(60) DEF MemInv
  <2>2. chunk = 0 /\ shadow_chunk = 0 /\ shadow_next_chunk = 0 /\ wpc = "idle" /\ zpc = "idle"
    BY ZenonT(60), <2>1 DEF GoneInv
  <2>3. wnext = 0 /\ zchild = 0
    BY ZenonT(60), <2>2 DEF WorkInv, RefillInv
  <2> QED BY SMTT(60), Z3T(60), <2>2, <2>3 DEF Owned
<1>10. cur = 1 /\ lpc \in {"write", "copy"} => Active(pending) = chunk /\ chunk # 0
  BY DEF FreshInv, Active
<1> QED BY ZenonT(60), <1>1, <1>2, <1>4, <1>5, <1>6, <1>7, <1>8, <1>9, <1>10
           DEF ChunksOwned

\* In every state of every transfer, of any number of chunks and with any number
\* of failures, no chunk is freed twice or used after it was freed, and none is left when
\* dw_edma_free_desc has returned.
THEOREM ChunksCorrect == Spec => []ChunksOwned
<1>1. Init => OwnInv
  BY SMTT(60), Z3T(60), OwnInit, ConstantsAssumption
<1>2. OwnInv /\ [Next]_vars => OwnInv'
  BY OwnKeeps, ConstantsAssumption
<1>3. OwnInv => ChunksOwned
  BY ZenonT(60), OwnedIsLive, ConstantsAssumption
<1> QED BY <1>1, <1>2, <1>3, PTL DEF Spec

-----------------------------------------------------------------------------
(* The table in the device                                                 *)

\* What StableInv reads
table == <<cur, overtaken, cs, done_int, ipc, shadow_state, wpc, zpc>>

\* Where the shadow worker relies on a channel that has stopped
Relying == {"handoff", "precopy", "copy", "commit"}

\* Steps that start nothing and claim nothing new.
LEMMA CalmStays ==
  ASSUME StableInv, UNCHANGED <<cur, overtaken>>,
         cs' = "run" => cs = "run",
         done_int' \in {0, done_int} \/ cs' # "run",
         ipc' = "done" => ipc = "done" \/ done_int = 1,
         shadow_state' = "isr_pending" => shadow_state = "isr_pending",
         wpc' \in Relying => wpc \in Relying \/ shadow_state = "isr_pending" \/ cs # "run",
         zpc' = "copy" => zpc = "copy" \/ cs # "run"
  PROVE  StableInv'
BY DEF StableInv, Relying

\* The thread and the preparation of the launch.
LEMMA ThreadIsCalm ==
  ASSUME StableInv, Thread \/ Timeout \/ LaunchStart \/ LaunchWrite \/ LaunchCopy \/ Terminated
  PROVE  StableInv'
<1>1. CASE ~TermLock /\ ~LaunchWrite
  <2>1. UNCHANGED table
    <3>. USE DEF table
    <3>1. WaitEnds \/ Timeout \/ Rewait \/ TermCancel \/ TermFreed => UNCHANGED table
      BY ZenonT(60)
         DEF WaitEnds, Timeout, Rewait, TermCancel, TermFreed, Fail, Elsewhere, hw,
             desc, swork, zwork
    <3>2. TermDrain \/ Terminated => UNCHANGED table
      BY ZenonT(60) DEF TermDrain, Terminated, vars, thread, hw, desc, swork, zwork
    <3>3. LaunchStart \/ LaunchCopy => UNCHANGED table
      BY ZenonT(60) DEF LaunchStart, LaunchCopy, Quiet, thread, hw, desc, swork, zwork
    <3> QED BY SMTT(60), Z3T(60), <1>1, <3>1, <3>2, <3>3 DEF Thread
  <2> QED BY ZenonT(60), <2>1 DEF table, StableInv
<1>2. CASE LaunchWrite
  <2>1. UNCHANGED <<cur, overtaken, cs, ipc, shadow_state, wpc, zpc>>
        /\ done_int' \in {0, done_int}
    BY <1>2, ZenonT(60) DEF LaunchWrite, Quiet, thread, desc, swork, zwork
  <2> QED BY SMTT(60), Z3T(60), <2>1, CalmStays
<1>3. CASE TermLock
  <2>1. UNCHANGED <<cur, overtaken, ipc, shadow_state, wpc, zpc>>
    BY <1>3 DEF TermLock, desc, swork, zwork
  <2>2. (cs' = "run" => cs = "run") /\ done_int' \in {0, done_int}
    <3>1. TermNotConfigured \/ TermIdle \/ TermStopped \/ TermForce \/ TermRequest
      BY <1>3 DEF TermLock
    <3>2. SoftReset \/ Cycled => cs' # "run" /\ done_int' = 0
      BY ZenonT(60) DEF SoftReset, Cycled
    <3>3. TermNotConfigured \/ TermStopped \/ TermRequest => UNCHANGED <<cs, done_int>>
      BY ZenonT(60) DEF TermNotConfigured, TermStopped, TermRequest
    <3>4. TermIdle => UNCHANGED <<cs, done_int>> \/ SoftReset
      BY ZenonT(60) DEF TermIdle
    <3>5. TermForce => (UNCHANGED cs /\ done_int' = 0) \/ SoftReset \/ Cycled
      BY DEF TermForce
    <3> QED BY ZenonT(60), <3>1, <3>2, <3>3, <3>4, <3>5
  <2> QED BY ZenonT(60), <2>1, <2>2, CalmStays
<1> QED BY ZenonT(60), <1>1, <1>2, <1>3 DEF Thread

\* The hardware, the interrupts and the end of the descriptor.
LEMMA InterruptsAreCalm ==
  ASSUME StableInv,
         HwDone \/ HwAbort \/ NotLive \/ PeerKills \/ Interrupts \/ Tasklet \/ FreeDesc
  PROVE  StableInv'
<1>1. CASE HwDone \/ HwAbort \/ NotLive \/ PeerKills
  <2>1. UNCHANGED <<cur, overtaken, ipc, shadow_state, wpc, zpc>>
    BY <1>1, ZenonT(60)
       DEF HwDone, HwAbort, NotLive, PeerKills, World, thread, desc, swork, zwork
  <2>2. (cs' = "run" => cs = "run") /\ (done_int' = done_int \/ cs' # "run")
    BY ZenonT(60), <1>1 DEF HwDone, HwAbort, NotLive, PeerKills, hw
  <2> QED BY ZenonT(60), <2>1, <2>2, CalmStays
<1>2. CASE DoneInterrupt \/ AbortInterrupt
  <2>1. UNCHANGED <<cur, overtaken, cs, shadow_state, wpc, zpc>>
    BY <1>2, ZenonT(60) DEF DoneInterrupt, AbortInterrupt, thread, desc, swork, zwork
  <2>2. done_int' \in {0, done_int} /\ (ipc' = "done" => done_int = 1)
    BY <1>2 DEF DoneInterrupt, AbortInterrupt
  <2> QED BY ZenonT(60), <2>1, <2>2, CalmStays
<1>3. CASE DoneLocked
  <2>1. ipc = "done" /\ ipc' = "idle" /\ UNCHANGED <<cur, overtaken, cs, done_int, wpc, zpc>>
    BY ZenonT(60), <1>3 DEF DoneLocked, thread, hw
  <2> QED BY ZenonT(60), <2>1 DEF StableInv
<1>4. CASE AbortLocked \/ AbortIdle \/ Tasklet \/ FreeDesc
  <2>1. UNCHANGED <<cur, overtaken, cs, done_int, wpc, zpc>>
    BY <1>4, ZenonT(60)
       DEF AbortLocked, AbortIdle, Tasklet, FreeDesc, FreeMark, FreeShadow,
           FreeChunks, FOther, thread, hw, swork, zwork
  <2>2. (ipc' = "done" => ipc = "done")
    BY <1>4, ZenonT(60)
       DEF AbortLocked, AbortIdle, Tasklet, FreeDesc, FreeMark, FreeShadow,
           FreeChunks, FOther
  <2>3. shadow_state' = "isr_pending" => shadow_state = "isr_pending"
    BY ZenonT(60), <1>4
       DEF AbortLocked, AbortIdle, Tasklet, FreeDesc, FreeMark, FreeShadow,
           FreeChunks, desc
  <2> QED BY ZenonT(60), <2>1, <2>2, <2>3, CalmStays
<1> QED BY ZenonT(60), <1>1, <1>2, <1>3, <1>4 DEF Interrupts

\* The shadow worker copies when the channel has stopped, and goes home when it rings.
LEMMA ShadowIsCalm ==
  ASSUME StableInv, CoreInv, Shadow
  PROVE  StableInv'
<1>. ListInv /\ GoneInv /\ ModeInv /\ ShadowInv /\ WorkInv /\ RefillInv /\ MemInv
  BY DEF CoreInv
<1>1. UNCHANGED <<cur, ipc, zpc>>
  <2>1. ShadowStart \/ ShadowNothing \/ ShadowFill \/ ShadowFailed \/ ShadowSwitch
          \/ ShadowStopped \/ ShadowHandoff => UNCHANGED <<cur, ipc, zpc>>
    BY ZenonT(60)
       DEF ShadowStart, ShadowNothing, ShadowFill, ShadowFailed, ShadowSwitch,
           ShadowStopped, ShadowHandoff, SOther, thread, zwork
  <2>2. ShadowRecheck \/ ShadowAcquire \/ ShadowCopy \/ ShadowUnbuild \/ ShadowCommit
          \/ ShadowShort \/ ShadowShort2 => UNCHANGED <<cur, ipc, zpc>>
    BY ZenonT(60)
       DEF ShadowRecheck, ShadowAcquire, ShadowCopy, ShadowUnbuild, ShadowCommit,
           ShadowShort, ShadowShort2, SOther, thread, zwork
  <2> QED BY ZenonT(60), <2>1, <2>2 DEF Shadow
<1>2. CASE ShadowCommit
  <2>1. /\ wpc' \notin Relying /\ shadow_state' # "isr_pending"
        /\ NoDoorbell \/ Doorbell
    BY ZenonT(60), <1>2 DEF ShadowCommit, SEnd, Relying
  <2>2. wpc = "commit"
    BY <1>2 DEF ShadowCommit
  <2>3. zpc = "idle"
    BY ZenonT(60), <2>2 DEF ModeInv
  <2> QED BY SMTT(60), Z3T(60), <1>1, <2>1, <2>2, <2>3
             DEF StableInv, NoDoorbell, Doorbell, hw, Relying
<1>3. CASE ShadowHandoff
  <2>1. wpc = "handoff" /\ UNCHANGED <<overtaken, cs, done_int>>
    BY ZenonT(60), <1>3 DEF ShadowHandoff, hw
  <2> QED BY ZenonT(60), <1>1, <2>1 DEF StableInv
<1>4. CASE ShadowStart \/ ShadowFill \/ ShadowNothing \/ ShadowFailed \/ ShadowSwitch
  <2>1. UNCHANGED <<overtaken, cs, done_int>>
    BY <1>4, ZenonT(60)
       DEF ShadowStart, ShadowFill, ShadowNothing, ShadowFailed, ShadowSwitch, hw
  <2>2. shadow_state' = "isr_pending" => shadow_state = "isr_pending"
    BY ZenonT(60), <1>4
       DEF ShadowStart, ShadowFill, ShadowNothing, ShadowFailed, ShadowSwitch, desc
  <2>3. wpc' \in Relying => shadow_state = "isr_pending"
    BY ZenonT(60), <1>4
       DEF ShadowStart, ShadowFill, ShadowNothing, ShadowFailed, ShadowSwitch, SEnd,
           Relying
  <2> QED BY ZenonT(60), <1>1, <2>1, <2>2, <2>3, CalmStays
<1>5. CASE ShadowStopped
  <2>1. /\ UNCHANGED <<overtaken, cs, shadow_state>> /\ done_int' \in {0, done_int}
        /\ wpc' \in Relying => cs # "run"
    BY ZenonT(60), <1>5 DEF ShadowStopped, Relying
  <2> QED BY ZenonT(60), <1>1, <2>1, CalmStays
<1>6. CASE ShadowRecheck \/ ShadowAcquire \/ ShadowCopy \/ ShadowUnbuild \/ ShadowShort \/ ShadowShort2
  <2>1. UNCHANGED <<overtaken, cs, done_int>>
    BY <1>6, ZenonT(60)
       DEF ShadowRecheck, ShadowAcquire, ShadowCopy, ShadowUnbuild, ShadowShort,
           ShadowShort2, hw
  <2>2. shadow_state' = "isr_pending" => shadow_state = "isr_pending"
    BY <1>6, ZenonT(60)
       DEF ShadowRecheck, ShadowAcquire, ShadowCopy, ShadowUnbuild, ShadowShort,
           ShadowShort2, desc
  <2>3. wpc' \in Relying => wpc \in Relying \/ shadow_state = "isr_pending"
    BY ZenonT(60), <1>6
       DEF ShadowRecheck, ShadowAcquire, ShadowCopy, ShadowUnbuild, ShadowShort,
           ShadowShort2, SEnd, Relying
  <2> QED BY ZenonT(60), <1>1, <2>1, <2>2, <2>3, CalmStays
<1> QED BY ZenonT(60), <1>2, <1>3, <1>4, <1>5, <1>6 DEF Shadow

\* The refill copies when the channel has stopped.
LEMMA RefillIsCalm ==
  ASSUME StableInv, CoreInv, Refill
  PROVE  StableInv'
<1>. ListInv /\ GoneInv /\ ModeInv /\ ShadowInv /\ WorkInv /\ RefillInv /\ MemInv
  BY DEF CoreInv
<1>1. UNCHANGED <<cur, wpc, shadow_state>>
  BY SMTT(60), Z3T(60), RefillLeaves
<1>2. UNCHANGED ipc
  BY ZenonT(60)
     DEF Refill, RefillStart, RefillWait, RefillClaim, RefillWrite, RefillCopy,
         RefillCommit, ZOther
<1>3. CASE RefillCommit
  <2>1. zpc = "commit" /\ zpc' = "idle" /\ (NoDoorbell \/ Doorbell)
    BY ZenonT(60), <1>3 DEF RefillCommit, ZEnd
  <2>2. mode = "fixed"
    BY <2>1 DEF ModeInv
  <2>3. shadow_state = "idle" /\ wpc = "idle"
    BY ZenonT(60), <2>2 DEF ModeInv
  <2> QED BY SMTT(60), Z3T(60), <1>1, <1>2, <2>1, <2>3
             DEF StableInv, NoDoorbell, Doorbell, hw
<1>4. CASE RefillWrite
  <2>1. /\ UNCHANGED <<overtaken, cs>> /\ done_int' \in {0, done_int}
        /\ zpc' = "copy" => cs # "run"
    BY ZenonT(60), <1>4 DEF RefillWrite
  <2> QED BY ZenonT(60), <1>1, <1>2, <2>1, CalmStays
<1>5. CASE RefillStart \/ RefillWait \/ RefillClaim \/ RefillCopy
  <2>1. UNCHANGED <<overtaken, cs, done_int>>
    BY <1>5, ZenonT(60) DEF RefillStart, RefillWait, RefillClaim, RefillCopy, hw
  <2>2. zpc' # "copy"
    BY ZenonT(60), <1>5 DEF RefillStart, RefillWait, RefillClaim, RefillCopy, ZEnd
  <2> QED BY SMTT(60), Z3T(60), <1>1, <1>2, <2>1, <2>2, CalmStays
<1> QED BY ZenonT(60), <1>3, <1>4, <1>5 DEF Refill

\* A transfer starts with a channel that has stopped.
LEMMA StartIsCalm ==
  ASSUME StableInv, OwnInv, StartLong \/ StartShort \/ LaunchDoorbell
  PROVE  StableInv'
<1>. BareInv /\ FreshInv /\ ListInv /\ GoneInv /\ ModeInv /\ ShadowInv /\ WorkInv /\ RefillInv /\ MemInv
  BY DEF OwnInv, CoreInv
<1>1. CASE StartShort
  <2>1. cur' # 1
    BY <1>1 DEF StartShort
  <2> QED BY ZenonT(60), <2>1 DEF StableInv
<1>2. CASE StartLong
  <2>1. cur = 0 /\ UNCHANGED cs
    BY ZenonT(60), <1>2 DEF StartLong, hw
  <2>2. cs = "stop"
    BY ZenonT(60), <2>1 DEF BareInv
  <2> QED BY ZenonT(60), <2>1, <2>2 DEF StableInv
<1>3. CASE LaunchDoorbell
  <2>1. /\ UNCHANGED <<cur, ipc, shadow_state, wpc, zpc>> /\ lpc = "armed"
        /\ NoDoorbell \/ Doorbell
    BY <1>3, ZenonT(60) DEF LaunchDoorbell, Quiet, thread, desc, zwork
  <2>2. cur = 1 => ipc = "idle" /\ shadow_state # "isr_pending" /\ wpc = "idle" /\ zpc = "idle"
    BY <2>1 DEF FreshInv
  <2> QED BY SMTT(60), Z3T(60), <2>1, <2>2 DEF StableInv, NoDoorbell, Doorbell, hw
<1> QED BY ZenonT(60), <1>1, <1>2, <1>3

\* Every step keeps the channel stopped while somebody relies on it.
LEMMA StableKeeps ==
  ASSUME StableInv, OwnInv, [Next]_vars
  PROVE  StableInv'
<1>1. CASE UNCHANGED vars
  BY ZenonT(60), <1>1 DEF StableInv, vars, thread, hw, desc, swork, zwork
<1>2. CoreInv
  BY DEF OwnInv
<1> QED BY ZenonT(60), <1>1, <1>2, ThreadIsCalm, InterruptsAreCalm, ShadowIsCalm,
           RefillIsCalm, StartIsCalm
           DEF Next, Launch

\* Only a worker that copies writes the table in the device.
LEMMA CopiersWrite ==
  ASSUME [Next]_vars, sram' # sram
  PROVE  LaunchCopy \/ ShadowCopy \/ RefillCopy
<1>. USE DEF tables
<1>1. StartLong \/ StartShort \/ UNCHANGED vars => UNCHANGED sram
  BY ZenonT(60) DEF StartLong, StartShort, vars
<1>2. Thread \/ Timeout \/ Terminated => UNCHANGED sram
  BY ZenonT(60)
     DEF Thread, Timeout, Terminated, vars, WaitEnds, Rewait, TermCancel, TermLock,
         TermDrain, TermFreed, Elsewhere
<1>3. LaunchStart \/ LaunchWrite \/ LaunchDoorbell => UNCHANGED sram
  BY ZenonT(60) DEF LaunchStart, LaunchWrite, LaunchDoorbell
<1>4. HwDone \/ HwAbort \/ NotLive \/ PeerKills \/ Tasklet \/ FreeDesc => UNCHANGED sram
  BY ZenonT(60)
     DEF HwDone, HwAbort, NotLive, PeerKills, World, Tasklet, FreeDesc, FreeMark,
         FreeShadow, FreeChunks, FOther
<1>5. Interrupts => UNCHANGED sram
  BY ZenonT(60)
     DEF Interrupts, DoneInterrupt, DoneLocked, AbortInterrupt, AbortLocked, AbortIdle
<1>6. Shadow => ShadowCopy \/ UNCHANGED sram
  <2>1. ShadowStart \/ ShadowNothing \/ ShadowFill \/ ShadowFailed \/ ShadowSwitch
          \/ ShadowStopped \/ ShadowHandoff => UNCHANGED sram
    BY ZenonT(60)
       DEF ShadowStart, ShadowNothing, ShadowFill, ShadowFailed, ShadowSwitch,
           ShadowStopped, ShadowHandoff
  <2>2. ShadowRecheck \/ ShadowAcquire \/ ShadowUnbuild \/ ShadowCommit
          \/ ShadowShort \/ ShadowShort2 => UNCHANGED sram
    BY ZenonT(60)
       DEF ShadowRecheck, ShadowAcquire, ShadowUnbuild, ShadowCommit, ShadowShort,
           ShadowShort2
  <2> QED BY ZenonT(60), <2>1, <2>2 DEF Shadow
<1>7. Refill => RefillCopy \/ UNCHANGED sram
  BY ZenonT(60)
     DEF Refill, RefillStart, RefillWait, RefillClaim, RefillWrite, RefillCommit
<1> QED BY ZenonT(60), <1>1, <1>2, <1>3, <1>4, <1>5, <1>6, <1>7 DEF Next, Launch

\* Nobody writes the table in the device while the hardware walks it, unless an
\* interrupt handler was overtaken.
THEOREM TableCorrect == Spec => TableStable
<1>1. Init => OwnInv /\ StableInv
  BY ZenonT(60), OwnInit, ConstantsAssumption DEF Init, StableInv
<1>2. OwnInv /\ StableInv /\ [Next]_vars => (OwnInv /\ StableInv)'
  BY ZenonT(60), OwnKeeps, StableKeeps, ConstantsAssumption
<1>3. OwnInv /\ StableInv /\ [Next]_vars
        => [cur = 1 /\ overtaken = 0 /\ sram' # sram => cs # "run"]_vars
  <2>1. SUFFICES ASSUME OwnInv, StableInv, [Next]_vars, cur = 1, overtaken = 0, sram' # sram
                 PROVE  cs # "run"
    OBVIOUS
  <2>2. lpc = "copy" \/ wpc = "copy" \/ zpc = "copy"
    BY ZenonT(60), <2>1, CopiersWrite DEF LaunchCopy, ShadowCopy, RefillCopy
  <2> QED BY ZenonT(60), <2>1, <2>2 DEF StableInv, OwnInv, FreshInv
<1> QED BY <1>1, <1>2, <1>3, PTL DEF Spec, TableStable
=============================================================================
