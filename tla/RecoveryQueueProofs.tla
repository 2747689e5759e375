------------------------ MODULE RecoveryQueueProofs -------------------------
(***************************************************************************)
(* The recovery, and the request queues it shuts and opens again.          *)
(*                                                                         *)
(* For every number of kickers and callers, and with no bound on the       *)
(* triggers: a transition state of the recovery always has an owner, and a *)
(* PING follows the reboot it is meant to confirm.                         *)
(*                                                                         *)
(* For any number of submitters and slots: the firmware keeps away while a *)
(* slot is filled, and the slots hold the requests in order.               *)
(***************************************************************************)
EXTENDS Recovery, RequestQueueState, TLAPS

\* Every variable keeps its type (all the actions of the recovery state
\* machine).
THEOREM TypeCorrect == Spec => []TypeOK
<1>. USE ConstantsAssumption
        DEF TypeOK, DevStates, InTransit, KickReasons, Flag, EdgeReasons, Reasons,
            DownPc, UpPc, BridgePc, KickPc, ManualPc, WorkerPc, Probing
<1>1. Init => TypeOK
  BY SMTT(60), Z3T(60) DEF Init
<1>2. TypeOK /\ [Next]_vars => TypeOK'
  <2>. SUFFICES ASSUME TypeOK, [Next]_vars PROVE TypeOK'
    OBVIOUS
  <2>. USE DEF shared, counts, bridge, kick, manual, worker, fw, tally
  <2>1. CASE Bridge \/ ResetPrepare \/ ResetDone
    <3>1. CASE LinkDown
      BY <3>1 DEF LinkDown, Trigger, BridgeStep
    <3>2. CASE DownCheck
      BY <3>2 DEF DownCheck
    <3>3. CASE DownState
      BY <3>3 DEF DownState, BridgeStep
    <3>4. CASE DownFlag
      BY <3>4 DEF DownFlag, BridgeStep
    <3>5. CASE DownEpoch
      BY <3>5 DEF DownEpoch, BridgeStep
    <3>6. CASE DownClean
      BY <3>6 DEF DownClean, cancel_delayed_work, BridgeStep
    <3>7. CASE LinkRestored
      BY <3>7 DEF LinkRestored, BridgeStep
    <3>8. CASE UpCheck
      BY <3>8 DEF UpCheck, BridgeIdle
    <3>9. CASE UpState
      BY <3>9 DEF UpState, BridgeStep
    <3>10. CASE UpSched
      BY <3>10 DEF UpSched, BridgeStep, BridgeIdle
    <3>11. CASE ResetPrepare
      BY <3>11, SMTT(60), Z3T(60) DEF ResetPrepare, Trigger, BridgeStep
    <3>12. CASE ResetDone
      BY <3>12, SMTT(60), Z3T(60) DEF ResetDone, BridgeStep
        <3> QED BY ZenonT(60), <2>1, <3>1, <3>2, <3>3, <3>4, <3>5, <3>6, <3>7, <3>8,
                   <3>9, <3>10, <3>11, <3>12
                   DEF Bridge
  <2>2. ASSUME NEW k \in Kickers, KickSend(k) \/ KickerStep(k)
        PROVE  TypeOK'
    <3>1. CASE KickSend(k)
      BY <3>1 DEF KickSend, Trigger, MailboxReady, KickStep
    <3>2. CASE KickAcked(k)
      BY <3>2 DEF KickAcked, MailboxReady, KickStep
    <3>3. CASE KickFailed(k)
      BY <3>3 DEF KickFailed, KickStep
    <3>4. CASE KickCheck(k)
      BY <3>4 DEF KickCheck, KickStep
    <3>5. CASE KickState(k)
      BY <3>5 DEF KickState, KickStep
    <3>6. CASE KickFlag(k)
      BY <3>6 DEF KickFlag, KickStep
    <3>7. CASE KickEpoch(k)
      BY <3>7 DEF KickEpoch, KickStep
    <3>8. CASE KickClean(k)
      BY <3>8 DEF KickClean, cancel_delayed_work, KickStep
    <3>9. CASE KickTransportOk(k)
      BY <3>9 DEF KickTransportOk, KickStep
    <3>10. CASE KickSched(k)
      BY <3>10 DEF KickSched, KickStep
        <3> QED BY ZenonT(60), <2>2, <3>1, <3>2, <3>3, <3>4, <3>5, <3>6, <3>7, <3>8,
                   <3>9, <3>10
                   DEF KickerStep
  <2>3. ASSUME NEW c \in Callers, ManualEnter(c) \/ CallerStep(c)
        PROVE  TypeOK'
    <3>1. CASE ManualEnter(c)
      BY <3>1 DEF ManualEnter, Trigger, ManualStep
    <3>2. CASE ManualLock(c)
      BY <3>2 DEF ManualLock, ManualStep
    <3>3. CASE ManualRecheck(c)
      BY <3>3 DEF ManualRecheck, ManualStep
    <3>4. CASE ManualState(c)
      BY <3>4 DEF ManualState, ManualStep
    <3>5. CASE ManualFlag(c)
      BY <3>5 DEF ManualFlag, ManualStep
    <3>6. CASE ManualEpoch(c)
      BY <3>6 DEF ManualEpoch, ManualStep
    <3>7. CASE ManualResetRefused(c)
      BY <3>7 DEF ManualResetRefused, ManualStep
    <3>8. CASE ManualReset(c)
      BY <3>8 DEF ManualReset, ManualStep
    <3>9. CASE ManualClean(c)
      BY <3>9 DEF ManualClean, ManualStep
    <3>10. CASE ManualSawEdge(c)
      BY <3>10 DEF ManualSawEdge, MailboxReady, ManualStep
    <3>11. CASE ManualTimeout(c)
      BY <3>11 DEF ManualTimeout, MailboxReady, ManualStep
    <3>12. CASE ManualTransportOk(c)
      BY SMTT(60), Z3T(60), <3>12 DEF ManualTransportOk, ManualStep
    <3>13. CASE ManualSched(c)
      BY <3>13 DEF ManualSched, ManualStep
    <3>14. CASE ManualFlushed(c)
      BY SMTT(60), Z3T(60), <3>14 DEF ManualFlushed, ManualStep
    <3>15. CASE ManualOutcome(c)
      BY SMTT(60), Z3T(60), <3>15 DEF ManualOutcome, ManualStep
    <3>16. CASE ManualClearFlag(c)
      BY SMTT(60), Z3T(60), <3>16 DEF ManualClearFlag, ManualStep
    <3>17. CASE ManualReadState(c)
      BY SMTT(60), Z3T(60), <3>17 DEF ManualReadState, ManualStep
    <3>18. CASE ManualStoreState(c)
      BY SMTT(60), Z3T(60), <3>18 DEF ManualStoreState, ManualStep
    <3>19. CASE ManualUnlock(c)
      BY <3>19 DEF ManualUnlock, ManualStep
        <3> QED BY ZenonT(60), <2>3, <3>1, <3>2, <3>3, <3>4, <3>5, <3>6, <3>7, <3>8,
                   <3>9, <3>10, <3>11, <3>12, <3>13, <3>14, <3>15, <3>16, <3>17,
                   <3>18, <3>19
                   DEF CallerStep
  <2>4. CASE WorkerStep
    <3>1. CASE WorkerStart
      BY <3>1 DEF WorkerStart
    <3>2. CASE WorkerReadsEpoch
      BY <3>2 DEF WorkerReadsEpoch
    <3>3. CASE WorkerReason
      BY <3>3 DEF WorkerReason, CheckPasses
    <3>4. CASE WorkerSuperseded
      BY <3>4 DEF WorkerSuperseded, CheckFails, WorkerReturns
    <3>5. CASE WorkerSettled
      BY <3>5 DEF WorkerSettled, CheckPasses
    <3>6. CASE WorkerSawMailbox
      BY SMTT(60), Z3T(60), <3>6 DEF WorkerSawMailbox, MailboxReady, CheckPasses
    <3>7. CASE WorkerTimeout
      BY <3>7 DEF WorkerTimeout, MailboxReady, CheckPasses
    <3>8. CASE WorkerPong
      BY <3>8 DEF WorkerPong, MailboxReady, CheckPasses
    <3>9. CASE WorkerNoPong
      BY <3>9 DEF WorkerNoPong, CheckPasses
    <3>10. CASE WorkerCommit
      BY <3>10 DEF WorkerCommit, CheckPasses
    <3>11. CASE WorkerCount
      BY SMTT(60), Z3T(60), <3>11 DEF WorkerCount
    <3>12. CASE WorkerReady
      BY <3>12, SMTT(60), Z3T(60) DEF WorkerReady, WorkerReturns
    <3>13. CASE WorkerHang
      BY <3>13, SMTT(60), Z3T(60) DEF WorkerHang
    <3>14. CASE WorkerHangFlag
      BY <3>14, SMTT(60), Z3T(60) DEF WorkerHangFlag
    <3>15. CASE WorkerPermCheck
      BY <3>15, SMTT(60), Z3T(60) DEF WorkerPermCheck, WorkerReturns
        <3> QED BY ZenonT(60), <2>4, <3>1, <3>2, <3>3, <3>4, <3>5, <3>6, <3>7, <3>8,
                   <3>9, <3>10, <3>11, <3>12, <3>13, <3>14, <3>15
                   DEF WorkerStep
  <2>5. CASE FwReboot \/ FwPublish
    <3>1. CASE FwReboot
      BY <3>1, SMTT(60), Z3T(60) DEF FwReboot
    <3>2. CASE FwPublish
      BY <3>2, SMTT(60), Z3T(60) DEF FwPublish
        <3> QED BY ZenonT(60), <2>5, <3>1, <3>2
  <2>6. CASE UNCHANGED vars
    BY <2>6 DEF vars
  <2> QED BY ZenonT(60), <2>1, <2>2, <2>3, <2>4, <2>5, <2>6 DEF Next
<1>. QED
  BY <1>1, <1>2, PTL DEF Spec

-----------------------------------------------------------------------------
\* TransitionHasOwner is inductive together with a fact about the transport
\* that the refused DMA reset of dxrt_recovery_device relies on: a dead link
\* has its UP still to come.
OwnerInv == /\ TransitionHasOwner
            /\ link = "down" => bpc \in DownPc \cup {"down"}

\* A transition state always has an owner, whatever the number of threads and
\* of PCI resets, but for a recovery call that a PCI reset refused
\* (dxrt_link_event_notify, dxrt_kick_fw_reboot_recovery,
\* dxrt_recovery_device and dxrt_recovery_ready_work_fn together).
THEOREM OwnerCorrect == Spec => []TransitionHasOwner
<1>. USE
        DEF OwnerInv, TransitionHasOwner, StoreToCome, ProbeToCome, Bridging, Kicking,
            Finalising, Committing, Probing, InTransit, ManualPc, DownPc
<1>1. Init => OwnerInv
  BY SMTT(60), Z3T(60) DEF Init
<1>2. TypeOK /\ OwnerInv /\ [Next]_vars => OwnerInv'
  <2>. SUFFICES ASSUME TypeOK, OwnerInv, [Next]_vars PROVE OwnerInv'
    OBVIOUS
  <2>. /\ recovery_epoch \in Nat /\ wepoch \in Nat
       /\ kpc \in [Kickers -> KickPc] /\ mpc \in [Callers -> ManualPc]
    BY DEF TypeOK
  <2>. USE DEF shared, bridge, kick, manual, worker, tally
  <2>1. CASE Bridge \/ ResetPrepare \/ ResetDone
    <3>1. CASE LinkDown
      BY <3>1 DEF LinkDown, Trigger, BridgeStep
    <3>2. CASE DownCheck
      BY <3>2 DEF DownCheck
    <3>3. CASE DownState
      BY <3>3 DEF DownState, BridgeStep
    <3>4. CASE DownFlag
      BY <3>4 DEF DownFlag, BridgeStep
    <3>5. CASE DownEpoch
      BY <3>5 DEF DownEpoch, BridgeStep
    <3>6. CASE DownClean
      BY <3>6 DEF DownClean, cancel_delayed_work, BridgeStep
    <3>7. CASE LinkRestored
      BY SMTT(60), Z3T(60), <3>7 DEF LinkRestored, BridgeStep
    <3>8. CASE UpCheck
      BY <3>8 DEF UpCheck, BridgeIdle
    <3>9. CASE UpState
      BY SMTT(60), Z3T(60), <3>9 DEF UpState, BridgeStep
    <3>10. CASE UpSched
      BY SMTT(60), Z3T(60), <3>10 DEF UpSched, BridgeStep, BridgeIdle
    <3>11. CASE ResetPrepare
      BY SMTT(60), Z3T(60), <3>11 DEF ResetPrepare, Trigger, BridgeStep
    <3>12. CASE ResetDone
      BY <3>12, SMTT(60), Z3T(60) DEF ResetDone, BridgeStep
        <3> QED BY ZenonT(60), <2>1, <3>1, <3>2, <3>3, <3>4, <3>5, <3>6, <3>7, <3>8,
                   <3>9, <3>10, <3>11, <3>12
                   DEF Bridge
  <2>2. ASSUME NEW k \in Kickers, KickSend(k) \/ KickerStep(k)
        PROVE  OwnerInv'
    <3>1. CASE KickSend(k)
      BY SMTT(60), Z3T(60), <3>1 DEF KickSend, Trigger, MailboxReady, KickStep
    <3>2. CASE KickAcked(k)
      BY SMTT(60), Z3T(60), <3>2 DEF KickAcked, MailboxReady, KickStep
    <3>3. CASE KickFailed(k)
      BY SMTT(60), Z3T(60), <3>3 DEF KickFailed, KickStep
    <3>4. CASE KickCheck(k)
      BY <3>4 DEF KickCheck, KickStep
    <3>5. CASE KickState(k)
      BY <3>5 DEF KickState, KickStep
    <3>6. CASE KickFlag(k)
      BY <3>6 DEF KickFlag, KickStep
    <3>7. CASE KickEpoch(k)
      BY SMTT(60), Z3T(60), <3>7 DEF KickEpoch, KickStep
    <3>8. CASE KickClean(k)
      BY SMTT(60), Z3T(60), <3>8 DEF KickClean, cancel_delayed_work, KickStep
    <3>9. CASE KickTransportOk(k)
      BY <3>9 DEF KickTransportOk, KickStep
    <3>10. CASE KickSched(k)
      BY <3>10 DEF KickSched, KickStep
        <3> QED BY ZenonT(60), <2>2, <3>1, <3>2, <3>3, <3>4, <3>5, <3>6, <3>7, <3>8,
                   <3>9, <3>10
                   DEF KickerStep
  <2>3. ASSUME NEW c \in Callers, ManualEnter(c) \/ CallerStep(c)
        PROVE  OwnerInv'
    <3>1. CASE ManualEnter(c)
      BY SMTT(60), Z3T(60), <3>1 DEF ManualEnter, Trigger, ManualStep
    <3>2. CASE ManualLock(c)
      BY SMTT(60), Z3T(60), <3>2 DEF ManualLock, ManualStep
    <3>3. CASE ManualRecheck(c)
      BY SMTT(60), Z3T(60), <3>3 DEF ManualRecheck, ManualStep
    <3>4. CASE ManualState(c)
      BY SMTT(60), Z3T(60), <3>4 DEF ManualState, ManualStep
    <3>5. CASE ManualFlag(c)
      BY SMTT(60), Z3T(60), <3>5 DEF ManualFlag, ManualStep
    <3>6. CASE ManualEpoch(c)
      BY SMTT(60), Z3T(60), <3>6 DEF ManualEpoch, ManualStep
    <3>7. CASE ManualResetRefused(c)
      BY SMTT(60), Z3T(60), <3>7 DEF ManualResetRefused, ManualStep
    <3>8. CASE ManualReset(c)
      BY SMTT(60), Z3T(60), <3>8 DEF ManualReset, ManualStep
    <3>9. CASE ManualClean(c)
      BY SMTT(60), Z3T(60), <3>9 DEF ManualClean, ManualStep
    <3>10. CASE ManualSawEdge(c)
      BY SMTT(60), Z3T(60), <3>10 DEF ManualSawEdge, MailboxReady, ManualStep
    <3>11. CASE ManualTimeout(c)
      BY SMTT(60), Z3T(60), <3>11 DEF ManualTimeout, MailboxReady, ManualStep
    <3>12. CASE ManualTransportOk(c)
      BY SMTT(60), Z3T(60), <3>12 DEF ManualTransportOk, ManualStep
    <3>13. CASE ManualSched(c)
      BY <3>13, ZenonT(60) DEF ManualSched, ManualStep
    <3>14. CASE ManualFlushed(c)
      BY <3>14, ZenonT(60) DEF ManualFlushed, ManualStep
    <3>15. CASE ManualOutcome(c)
      BY SMTT(60), Z3T(60), <3>15 DEF ManualOutcome, ManualStep
    <3>16. CASE ManualClearFlag(c)
      BY SMTT(60), Z3T(60), <3>16 DEF ManualClearFlag, ManualStep
    <3>17. CASE ManualReadState(c)
      BY SMTT(60), Z3T(60), <3>17 DEF ManualReadState, ManualStep
    <3>18. CASE ManualStoreState(c)
      BY ZenonT(60), <3>18 DEF ManualStoreState, ManualStep
    <3>19. CASE ManualUnlock(c)
      BY <3>19 DEF ManualUnlock, ManualStep
        <3> QED BY ZenonT(60), <2>3, <3>1, <3>2, <3>3, <3>4, <3>5, <3>6, <3>7, <3>8,
                   <3>9, <3>10, <3>11, <3>12, <3>13, <3>14, <3>15, <3>16, <3>17,
                   <3>18, <3>19
                   DEF CallerStep
  <2>4. CASE WorkerStep
    <3>1. CASE WorkerStart
      BY ZenonT(60), <3>1 DEF WorkerStart
    <3>2. CASE WorkerReadsEpoch
      BY SMTT(60), Z3T(60), <3>2 DEF WorkerReadsEpoch
    <3>3. CASE WorkerReason
      BY SMTT(60), Z3T(60), <3>3 DEF WorkerReason, CheckPasses
    <3>4. CASE WorkerSuperseded
      BY SMTT(60), Z3T(60), <3>4 DEF WorkerSuperseded, CheckFails, WorkerReturns
    <3>5. CASE WorkerSettled
      BY SMTT(60), Z3T(60), <3>5 DEF WorkerSettled, CheckPasses
    <3>6. CASE WorkerSawMailbox
      BY SMTT(60), Z3T(60), <3>6 DEF WorkerSawMailbox, MailboxReady, CheckPasses
    <3>7. CASE WorkerTimeout
      BY SMTT(60), Z3T(60), <3>7 DEF WorkerTimeout, MailboxReady, CheckPasses
    <3>8. CASE WorkerPong
      BY SMTT(60), Z3T(60), <3>8 DEF WorkerPong, MailboxReady, CheckPasses
    <3>9. CASE WorkerNoPong
      BY SMTT(60), Z3T(60), <3>9 DEF WorkerNoPong, CheckPasses
    <3>10. CASE WorkerCommit
      BY SMTT(60), Z3T(60), <3>10 DEF WorkerCommit, CheckPasses
    <3>11. CASE WorkerCount
      BY SMTT(60), Z3T(60), <3>11 DEF WorkerCount
    <3>12. CASE WorkerReady
      BY SMTT(60), Z3T(60), <3>12 DEF WorkerReady, WorkerReturns
    <3>13. CASE WorkerHang
      BY <3>13, ZenonT(60) DEF WorkerHang
    <3>14. CASE WorkerHangFlag
      BY <3>14, ZenonT(60) DEF WorkerHangFlag
    <3>15. CASE WorkerPermCheck
      BY <3>15 DEF WorkerPermCheck, WorkerReturns
        <3> QED BY ZenonT(60), <2>4, <3>1, <3>2, <3>3, <3>4, <3>5, <3>6, <3>7, <3>8,
                   <3>9, <3>10, <3>11, <3>12, <3>13, <3>14, <3>15
                   DEF WorkerStep
  <2>5. CASE FwReboot \/ FwPublish
    <3>1. CASE FwReboot
      BY SMTT(60), Z3T(60), <3>1 DEF FwReboot
    <3>2. CASE FwPublish
      BY ZenonT(60), <3>2 DEF FwPublish
        <3> QED BY ZenonT(60), <2>5, <3>1, <3>2
  <2>6. CASE UNCHANGED vars
    BY <2>6 DEF vars
  <2> QED BY ZenonT(60), <2>1, <2>2, <2>3, <2>4, <2>5, <2>6 DEF Next
<1>. QED
  BY <1>1, <1>2, TypeCorrect, PTL DEF Spec

-----------------------------------------------------------------------------
\* A kick whose reboot is due will bump recovery_epoch.
KickDue == \E k \in Kickers : kpc[k] \in {"check", "state", "flag", "epoch"}

\* PingAfterReboot also holds while the worker waits for the mailbox to be
\* republished, because it saw the mailbox down before, and a mailbox that is
\* down has no reboot due.  A kick is only dropped in PERM_FAIL, where no worker
\* runs, and one that is not dropped outdates the worker's epoch.
RebootInv ==
  /\ wepoch <= recovery_epoch
  /\ reboot_due = 1 => MailboxReady
  /\ wpc # "idle" => dev_state # "PERM_FAIL"
  /\ wpc = "ready" => wreason \notin EdgeReasons
  /\ wpc \in {"republish", "ping"} /\ wreason \in EdgeReasons /\ reboot_due = 1
       => wepoch # recovery_epoch \/ KickDue

\* What RebootInv reads, but for the kickers and dev_state.
watched == <<recovery_epoch, link, fw, wpc, wepoch, wreason>>

\* A step that touches none of it, keeps the kicks that are due and does not
\* store PERM_FAIL keeps the invariant.
LEMMA RebootUntouched ==
  ASSUME RebootInv, UNCHANGED watched, KickDue => KickDue',
         dev_state' # "PERM_FAIL" \/ dev_state' = dev_state
  PROVE  RebootInv'
<1>1. MailboxReady' = MailboxReady
  BY DEF watched, fw, MailboxReady
<1> QED BY <1>1, ZenonT(60) DEF RebootInv, watched, fw

\* The bridge: a link that goes down takes the reboot with it, and
\* recovery_epoch only grows.
LEMMA BridgeKeepsReboot ==
  ASSUME TypeOK, RebootInv, Bridge \/ ResetPrepare \/ ResetDone
  PROVE  RebootInv'
<1>1. recovery_epoch \in Nat /\ wepoch \in Nat
  BY DEF TypeOK
<1>2. CASE \/ DownCheck \/ DownState \/ DownFlag \/ DownClean \/ UpCheck
           \/ UpState \/ UpSched \/ ResetDone
  <2>1. UNCHANGED watched /\ kpc' = kpc
    BY <1>2, ZenonT(60)
       DEF DownCheck, DownState, DownFlag, DownClean, UpCheck, UpState, UpSched,
           ResetDone, watched, shared, kick, worker
  <2>2. dev_state' # "PERM_FAIL" \/ dev_state' = dev_state
    BY SMTT(60), Z3T(60), <1>2
       DEF DownCheck, DownState, DownFlag, DownClean, UpCheck, UpState, UpSched,
           ResetDone, shared
  <2> QED BY <2>1, <2>2, RebootUntouched DEF KickDue
<1>3. CASE LinkDown \/ ResetPrepare
  BY <1>3 DEF LinkDown, ResetPrepare, RebootInv, shared, worker
<1>4. CASE DownEpoch
  BY <1>1, <1>4 DEF DownEpoch, RebootInv, MailboxReady, worker, fw
<1>5. CASE LinkRestored
  BY <1>1, <1>5
     DEF LinkRestored, RebootInv, MailboxReady, KickDue, shared, kick, worker, fw
<1> QED BY <1>2, <1>3, <1>4, <1>5 DEF Bridge

\* The kickers: an acked kick is due until it has bumped recovery_epoch.
LEMMA KickKeepsReboot ==
  ASSUME TypeOK, RebootInv, NEW k \in Kickers, KickSend(k) \/ KickerStep(k)
  PROVE  RebootInv'
<1>1. recovery_epoch \in Nat /\ wepoch \in Nat /\ kpc \in [Kickers -> KickPc]
  BY DEF TypeOK
<1>2. CASE \/ KickSend(k) \/ KickFailed(k) \/ KickState(k) \/ KickFlag(k)
           \/ KickClean(k) \/ KickTransportOk(k) \/ KickSched(k)
  <2>1. UNCHANGED watched
    BY <1>2, ZenonT(60)
       DEF KickSend, KickFailed, KickState, KickFlag, KickClean, KickTransportOk,
           KickSched, watched, shared, bridge, worker
  <2>2. dev_state' # "PERM_FAIL" \/ dev_state' = dev_state
    BY ZenonT(60), <1>2
       DEF KickSend, KickFailed, KickState, KickFlag, KickClean, KickTransportOk,
           KickSched, shared
  <2>3. KickDue => KickDue'
    BY <1>1, <1>2
       DEF KickSend, KickFailed, KickState, KickFlag, KickClean, KickTransportOk,
           KickSched, KickStep, KickDue
  <2> QED BY <2>1, <2>2, <2>3, RebootUntouched
<1>3. CASE KickAcked(k)
  <2>1. KickDue'
    BY <1>1, <1>3 DEF KickAcked, KickStep, KickDue
  <2> QED BY <1>3, <2>1 DEF KickAcked, RebootInv, MailboxReady, shared, bridge, worker
<1>4. CASE KickCheck(k)
  <2>1. UNCHANGED watched /\ dev_state' = dev_state
    BY <1>4 DEF KickCheck, watched, shared, bridge, worker
  <2>2. CASE dev_state = "PERM_FAIL"
    BY <2>1, <2>2 DEF RebootInv, watched, fw, MailboxReady
  <2>3. CASE dev_state # "PERM_FAIL"
    <3>1. KickDue'
      BY SMTT(60), Z3T(60), <1>1, <1>4, <2>3 DEF KickCheck, KickStep, KickDue
    <3> QED BY <2>1, <3>1, RebootUntouched
  <2> QED BY <2>2, <2>3
<1>5. CASE KickEpoch(k)
  BY <1>1, <1>5 DEF KickEpoch, RebootInv, MailboxReady, bridge, worker, fw
<1> QED BY <1>2, <1>3, <1>4, <1>5 DEF KickerStep

\* The recovery callers: a bus reset is the reboot.
LEMMA ManualKeepsReboot ==
  ASSUME TypeOK, RebootInv, NEW c \in Callers, ManualEnter(c) \/ CallerStep(c)
  PROVE  RebootInv'
<1>1. recovery_epoch \in Nat /\ wepoch \in Nat
  BY SMTT(60), Z3T(60) DEF TypeOK
<1>2. CASE ManualEpoch(c)
  BY SMTT(60), Z3T(60), <1>1, <1>2
     DEF ManualEpoch, RebootInv, MailboxReady, bridge, worker, fw
<1>3. CASE ManualReset(c)
  BY <1>3
     DEF ManualReset, RebootInv, MailboxReady, KickDue, shared, bridge, kick, worker
<1>4. CASE ~(ManualEpoch(c) \/ ManualReset(c))
  <2>1. UNCHANGED watched /\ kpc' = kpc
    BY <1>4, ZenonT(60)
       DEF ManualEnter, CallerStep, ManualLock, ManualRecheck, ManualState,
           ManualFlag, ManualResetRefused, ManualClean, ManualSawEdge, ManualTimeout,
           ManualTransportOk, ManualSched, ManualFlushed, ManualOutcome,
           ManualClearFlag, ManualReadState, ManualStoreState, ManualUnlock, watched,
           shared, bridge, kick, worker
  <2>2. dev_state' # "PERM_FAIL" \/ dev_state' = dev_state
    BY ZenonT(60), <1>4
       DEF ManualEnter, CallerStep, ManualLock, ManualRecheck, ManualState,
           ManualFlag, ManualResetRefused, ManualClean, ManualSawEdge, ManualTimeout,
           ManualTransportOk, ManualSched, ManualFlushed, ManualOutcome,
           ManualClearFlag, ManualReadState, ManualStoreState, ManualUnlock, shared
  <2> QED BY <2>1, <2>2, RebootUntouched DEF KickDue
<1> QED BY <1>2, <1>3, <1>4

\* The worker: it reaches the PING of a reboot through a mailbox that was down.
LEMMA WorkerKeepsReboot ==
  ASSUME TypeOK, RebootInv, WorkerStep
  PROVE  RebootInv'
<1>1. /\ recovery_epoch \in Nat /\ wepoch \in Nat
      /\ UNCHANGED <<recovery_epoch, link, fw, kpc>>
  BY ZenonT(60)
     DEF TypeOK, WorkerStep, WorkerStart, WorkerReadsEpoch, WorkerReason,
         WorkerSuperseded, WorkerSettled, WorkerSawMailbox, WorkerTimeout, WorkerPong,
         WorkerNoPong, WorkerCommit, WorkerCount, WorkerReady, WorkerHang,
         WorkerHangFlag, WorkerPermCheck, shared, bridge, kick
<1>2. MailboxReady' = MailboxReady /\ KickDue' = KickDue
  BY <1>1 DEF MailboxReady, KickDue, fw
<1>3. reboot_due' = reboot_due
  BY SMTT(60), Z3T(60), <1>1 DEF fw
<1>4. CASE WorkerStart
  BY SMTT(60), Z3T(60), <1>1, <1>2, <1>3, <1>4 DEF WorkerStart, RebootInv
<1>5. CASE WorkerReason
  BY SMTT(60), Z3T(60), <1>1, <1>2, <1>3, <1>5
     DEF WorkerReason, RebootInv, EdgeReasons, shared
<1>6. CASE WorkerSawMailbox
  BY SMTT(60), Z3T(60), <1>1, <1>2, <1>3, <1>6 DEF WorkerSawMailbox, RebootInv, shared
<1>7. CASE WorkerReadsEpoch
  BY <1>1, <1>2, <1>3, <1>7 DEF WorkerReadsEpoch, RebootInv, shared
<1>8. CASE \/ WorkerSettled \/ WorkerTimeout \/ WorkerPong \/ WorkerNoPong
           \/ WorkerCommit \/ WorkerCount \/ WorkerHang \/ WorkerHangFlag
  <2>1. /\ wpc # "idle" /\ wpc' \notin {"idle", "ready", "republish", "ping"}
        /\ dev_state' = dev_state \/ dev_state' = "FW_HANG"
        /\ wepoch' = wepoch
    BY <1>8
       DEF WorkerSettled, WorkerTimeout, WorkerPong, WorkerNoPong, WorkerCommit,
           WorkerCount, WorkerHang, WorkerHangFlag, shared
  <2> QED BY ZenonT(60), <1>1, <1>2, <1>3, <2>1 DEF RebootInv
<1>9. CASE WorkerSuperseded \/ WorkerReady \/ WorkerPermCheck
  <2>1. wpc' = "idle" /\ wepoch' = wepoch
    BY <1>9 DEF WorkerSuperseded, WorkerReady, WorkerPermCheck, WorkerReturns
  <2> QED BY ZenonT(60), <1>1, <1>2, <1>3, <2>1 DEF RebootInv
<1> QED BY <1>4, <1>5, <1>6, <1>7, <1>8, <1>9, ZenonT(60) DEF WorkerStep

\* After a CPU reset or a firmware update the worker does not PING before the
\* reboot has begun, for any number of kickers and recovery callers
\* (dxrt_recovery_ready_work_fn, dxrt_kick_fw_reboot_recovery).
THEOREM PingCorrect == Spec => []PingAfterReboot
<1>1. Init => RebootInv
  BY DEF Init, RebootInv
<1>2. TypeOK /\ RebootInv /\ [Next]_vars => RebootInv'
  <2> SUFFICES ASSUME TypeOK, RebootInv, [Next]_vars PROVE RebootInv'
    OBVIOUS
  <2>1. CASE Bridge \/ ResetPrepare \/ ResetDone
    BY <2>1, BridgeKeepsReboot
  <2>2. ASSUME NEW k \in Kickers, KickSend(k) \/ KickerStep(k)
        PROVE  RebootInv'
    BY <2>2, KickKeepsReboot
  <2>3. ASSUME NEW c \in Callers, ManualEnter(c) \/ CallerStep(c)
        PROVE  RebootInv'
    BY <2>3, ManualKeepsReboot
  <2>4. CASE WorkerStep
    BY ZenonT(60), <2>4, WorkerKeepsReboot
  <2>5. CASE FwReboot \/ FwPublish
    BY <2>5
       DEF FwReboot, FwPublish, RebootInv, MailboxReady, KickDue, shared, bridge,
           kick, worker
  <2>6. CASE UNCHANGED vars
    <3>1. UNCHANGED watched /\ kpc' = kpc /\ dev_state' = dev_state
      BY <2>6, ZenonT(60) DEF vars, shared, bridge, kick, worker, watched
    <3> QED BY <3>1, RebootUntouched DEF KickDue
  <2> QED BY <2>1, <2>2, <2>3, <2>4, <2>5, <2>6 DEF Next
<1>3. RebootInv => PingAfterReboot
  BY DEF RebootInv, PingAfterReboot, KickDue
<1> QED
  BY <1>1, <1>2, <1>3, TypeCorrect, PTL DEF Spec

-----------------------------------------------------------------------------
(* The request queues.                                                     *)

Req == INSTANCE RequestQueue

\* A submitter holds the mutex exactly between TakeMutex and Leave.
MutexInv ==
  \A s \in Submitters : pc[s] \notin {"idle", "mutex"} <=> mutex = s

\* From the test for room to the store of count there is room.
RoomInv ==
  \A s \in Submitters :
    /\ pc[s] \in {"lock", "flag", "copy", "count"} => count < MaxCount
    /\ pc[s] = "store" => old_count[s] < MaxCount /\ count < MaxCount

\* Only the submitter that has just stored count locks a full queue.
LockInv ==
  mmio = "live" =>
    /\ lock = 1 => \/ count < MaxCount
                   \/ \E s \in Submitters : pc[s] = "unlock"
    /\ \A s \in Submitters : pc[s] = "done" => lock = 0

\* An unlock doorbell that is not served has a submitter waiting for it.
ReleaseInv ==
  disturbed = 0 =>
    /\ mmio = "live"
    /\ unlock_irq = 1 => \E s \in Submitters : pc[s] = "done"
    /\ \A s \in Submitters : Req!Filling(s) => flag = 1

QueueInv == Req!TypeOK /\ MutexInv /\ RoomInv /\ LockInv /\ ReleaseInv

\* A remainder is an index: rear, front and the request numbers stay in range
\* (dxrt_enqueue).
LEMMA ModRange ==
  ASSUME NEW a \in Nat, NEW m \in Nat \ {0}
  PROVE  a % m \in 0 .. m - 1
  BY SMTT(60), Z3T(60)

\* dxrt_init_queue establishes the invariant.
LEMMA InitQueueInv == Req!Init => QueueInv
  BY SMTT(60), Z3T(60), QueueAssumption
     DEF Req!Init, QueueInv, Req!TypeOK, MutexInv, RoomInv, LockInv, ReleaseInv,
         Req!Filling, Req!Flag, Req!Slots, Req!Pcs

\* Every step of a submitter, the driver and the firmware keeps the types;
\* count stays in range because the store of count follows a test for room.
LEMMA QueueTypeOK == QueueInv /\ [Req!Next]_(Req!vars) => Req!TypeOK'
<1> SUFFICES ASSUME QueueInv, [Req!Next]_(Req!vars) PROVE Req!TypeOK'
  BY ZenonT(60)
<1> USE QueueAssumption
       DEF QueueInv, Req!TypeOK, Req!Flag, Req!Slots, Req!Pcs, Req!ring,
           Req!handshake, Req!outside
<1>1. ASSUME NEW s \in Submitters, Req!Enter(s) PROVE Req!TypeOK'
  BY ZenonT(60), <1>1 DEF Req!Enter, Req!Step
<1>2. ASSUME NEW s \in Submitters, Req!TakeMutex(s) PROVE Req!TypeOK'
  BY SMTT(60), Z3T(60), <1>2 DEF Req!TakeMutex, Req!Step
<1>3. ASSUME NEW s \in Submitters, Req!Rejected(s) PROVE Req!TypeOK'
  BY SMTT(60), Z3T(60), <1>3 DEF Req!Rejected, Req!Leave, Req!Step
<1>4. ASSUME NEW s \in Submitters, Req!NotFull(s) PROVE Req!TypeOK'
  BY SMTT(60), Z3T(60), <1>4 DEF Req!NotFull, Req!Step
<1>5. ASSUME NEW s \in Submitters, Req!LockQueue(s) PROVE Req!TypeOK'
  BY SMTT(60), Z3T(60), <1>5 DEF Req!LockQueue, Req!Step, Req!Write
<1>6. ASSUME NEW s \in Submitters, Req!LockGranted(s) PROVE Req!TypeOK'
  BY ZenonT(60), <1>6 DEF Req!LockGranted, Req!Step
<1>7. ASSUME NEW s \in Submitters, Req!LockTimeout(s) PROVE Req!TypeOK'
  BY SMTT(60), Z3T(60), <1>7 DEF Req!LockTimeout, Req!Leave, Req!Step
<1>8. ASSUME NEW s \in Submitters, Req!Disabled(s) PROVE Req!TypeOK'
  BY ZenonT(60), <1>8 DEF Req!Disabled, Req!Step
<1>9. ASSUME NEW s \in Submitters, Req!Copy(s) PROVE Req!TypeOK'
  <2>0. rear + 1 \in Nat /\ sent + 1 \in Nat /\ Ids \in Nat \ {0}
    OBVIOUS
  <2>1. (rear + 1) % MaxCount \in 0 .. MaxCount - 1
    BY ZenonT(60), <2>0, ModRange
  <2>2. (sent + 1) % Ids \in 0 .. Ids - 1
    BY ZenonT(60), <2>0, ModRange
  <2>3. buffer' \in [Req!Slots -> 0 .. Ids - 1]
    BY SMTT(60), Z3T(60), <1>9 DEF Req!Copy, Req!Write
  <2>4. rear' \in Req!Slots
    BY ZenonT(60), <1>9, <2>1 DEF Req!Copy, Req!Write
  <2>5. sent' \in 0 .. Ids - 1
    BY ZenonT(60), <1>9, <2>2 DEF Req!Copy, Req!Write
  <2>6. pc' \in [Submitters -> Req!Pcs]
    BY ZenonT(60), <1>9 DEF Req!Copy, Req!Step
  <2>7. UNCHANGED <<enable, front, count, Req!handshake, Req!outside, mutex,
                    old_count, taken, disturbed>>
    BY ZenonT(60), <1>9 DEF Req!Copy
  <2> QED BY ZenonT(60), <2>3, <2>4, <2>5, <2>6, <2>7
<1>10. ASSUME NEW s \in Submitters, Req!ReadCount(s) PROVE Req!TypeOK'
  BY ZenonT(60), <1>10 DEF Req!ReadCount, Req!Step
<1>11. ASSUME NEW s \in Submitters, Req!StoreCount(s) PROVE Req!TypeOK'
  BY <1>11, SMTT(60), Z3T(60) DEF Req!StoreCount, Req!Step, Req!Write, RoomInv
<1>12. ASSUME NEW s \in Submitters, Req!Unlock(s) PROVE Req!TypeOK'
  BY ZenonT(60), <1>12 DEF Req!Unlock, Req!Step, Req!Write
<1>13. ASSUME NEW s \in Submitters, Req!Done(s) PROVE Req!TypeOK'
  BY ZenonT(60), <1>13 DEF Req!Done, Req!Leave, Req!Step
<1>14. ASSUME NEW s \in Submitters, Req!DoneTimeout(s) PROVE Req!TypeOK'
  BY <1>14 DEF Req!DoneTimeout, Req!Leave, Req!Step
<1>15. ASSUME Req!DisableQueue \/ Req!CycleQueue \/ Req!LinkDown \/ Req!LinkEvent
       PROVE Req!TypeOK'
  <2>1. CASE Req!DisableQueue \/ Req!CycleQueue
    BY <2>1, ZenonT(60) DEF Req!DisableQueue, Req!CycleQueue
  <2>2. CASE Req!LinkDown
    BY <2>2 DEF Req!LinkDown
  <2>3. CASE Req!LinkEvent
    BY ZenonT(60), <2>3 DEF Req!LinkEvent
  <2> QED BY ZenonT(60), <1>15, <2>1, <2>2, <2>3
<1>16. CASE Req!FwGrant
  BY ZenonT(60), <1>16 DEF Req!FwGrant
<1>17. CASE Req!FwRelease
  BY ZenonT(60), <1>17 DEF Req!FwRelease
<1>18. CASE Req!FwTake
  <2>0. front + 1 \in Nat /\ taken + 1 \in Nat /\ Ids \in Nat \ {0}
    OBVIOUS
  <2>1. (front + 1) % MaxCount \in 0 .. MaxCount - 1
    BY ZenonT(60), <2>0, ModRange
  <2>2. (taken + 1) % Ids \in 0 .. Ids - 1
    BY ZenonT(60), <2>0, ModRange
  <2> QED BY <1>18, <2>1, <2>2 DEF Req!FwTake
<1>19. CASE Req!FwEnable
  BY ZenonT(60), <1>19 DEF Req!FwEnable
<1>20. CASE UNCHANGED Req!vars
  BY <1>20 DEF Req!vars
<1> QED
  BY ZenonT(60), <1>1, <1>2, <1>3, <1>4, <1>5, <1>6, <1>7, <1>8, <1>9, <1>10, <1>11,
     <1>12, <1>13, <1>14, <1>15, <1>16, <1>17, <1>18, <1>19, <1>20
     DEF Req!Next, Req!SubmitterStep, Req!Firmware

\* The other invariants, one step per action; the mutex makes the submitter
\* that moves the only one that holds it.
LEMMA NextOthers ==
  QueueInv /\ [Req!Next]_(Req!vars) => (MutexInv /\ RoomInv /\ LockInv /\ ReleaseInv)'
<1> SUFFICES ASSUME QueueInv, [Req!Next]_(Req!vars)
             PROVE  (MutexInv /\ RoomInv /\ LockInv /\ ReleaseInv)'
  BY ZenonT(60)
<1> USE QueueAssumption
       DEF QueueInv, Req!TypeOK, Req!Flag, Req!Pcs, Req!ring, Req!handshake,
           Req!outside, MutexInv, RoomInv, LockInv, ReleaseInv, Req!Filling
<1> DEFINE Goal == (MutexInv /\ RoomInv /\ LockInv /\ ReleaseInv)'
<1>1. ASSUME NEW s \in Submitters, Req!Enter(s) PROVE Goal
  BY ZenonT(60), <1>1 DEF Req!Enter, Req!Step
<1>2. ASSUME NEW s \in Submitters, Req!TakeMutex(s) PROVE Goal
  BY ZenonT(60), <1>2 DEF Req!TakeMutex, Req!Step
<1>3. ASSUME NEW s \in Submitters, Req!Rejected(s) PROVE Goal
  BY ZenonT(60), <1>3 DEF Req!Rejected, Req!Full, Req!Leave, Req!Step
<1>4. ASSUME NEW s \in Submitters, Req!NotFull(s) PROVE Goal
  BY SMTT(60), Z3T(60), <1>4 DEF Req!NotFull, Req!Full, Req!Step
<1>5. ASSUME NEW s \in Submitters, Req!LockQueue(s) PROVE Goal
  BY ZenonT(60), <1>5 DEF Req!LockQueue, Req!Step, Req!Write
<1>6. ASSUME NEW s \in Submitters, Req!LockGranted(s) PROVE Goal
  BY ZenonT(60), <1>6 DEF Req!LockGranted, Req!Step
<1>7. ASSUME NEW s \in Submitters, Req!LockTimeout(s) PROVE Goal
  BY ZenonT(60), <1>7 DEF Req!LockTimeout, Req!Leave, Req!Step
<1>8. ASSUME NEW s \in Submitters, Req!Disabled(s) PROVE Goal
  BY ZenonT(60), <1>8 DEF Req!Disabled, Req!Step
<1>9. ASSUME NEW s \in Submitters, Req!Copy(s) PROVE Goal
  BY ZenonT(60), <1>9 DEF Req!Copy, Req!Step, Req!Write
<1>10. ASSUME NEW s \in Submitters, Req!ReadCount(s) PROVE Goal
  BY ZenonT(60), <1>10 DEF Req!ReadCount, Req!Step
<1>11. ASSUME NEW s \in Submitters, Req!StoreCount(s) PROVE Goal
  BY ZenonT(60), <1>11 DEF Req!StoreCount, Req!Step, Req!Write
<1>12. ASSUME NEW s \in Submitters, Req!Unlock(s) PROVE Goal
  BY ZenonT(60), <1>12 DEF Req!Unlock, Req!Step, Req!Write
<1>13. ASSUME NEW s \in Submitters, Req!Done(s) PROVE Goal
  BY SMTT(60), Z3T(60), <1>13 DEF Req!Done, Req!Leave, Req!Step
<1>14. ASSUME NEW s \in Submitters, Req!DoneTimeout(s) PROVE Goal
  BY SMTT(60), Z3T(60), <1>14 DEF Req!DoneTimeout, Req!Leave, Req!Step
<1>15. CASE Req!DisableQueue
  BY ZenonT(60), <1>15 DEF Req!DisableQueue
<1>16. CASE Req!CycleQueue
  BY ZenonT(60), <1>16 DEF Req!CycleQueue
<1>17. CASE Req!LinkDown
  BY SMTT(60), Z3T(60), <1>17 DEF Req!LinkDown
<1>18. CASE Req!LinkEvent
  BY ZenonT(60), <1>18 DEF Req!LinkEvent
<1>19. CASE Req!FwGrant
  BY ZenonT(60), <1>19 DEF Req!FwGrant
<1>20. CASE Req!FwRelease
  BY ZenonT(60), <1>20 DEF Req!FwRelease
<1>21. CASE Req!FwTake
  BY SMTT(60), Z3T(60), <1>21 DEF Req!FwTake
<1>22. CASE Req!FwEnable
  BY ZenonT(60), <1>22 DEF Req!FwEnable
<1>23. CASE UNCHANGED Req!vars
  BY <1>23 DEF Req!vars
<1> QED
  BY ZenonT(60), <1>1, <1>2, <1>3, <1>4, <1>5, <1>6, <1>7, <1>8, <1>9, <1>10, <1>11,
     <1>12, <1>13, <1>14, <1>15, <1>16, <1>17, <1>18, <1>19, <1>20, <1>21, <1>22, <1>23
     DEF Req!Next, Req!SubmitterStep, Req!Firmware

\* The queue's inductive invariant holds in every reachable state.
LEMMA QueueInvariant == Req!Spec => []QueueInv
<1>1. QueueInv /\ [Req!Next]_(Req!vars) => QueueInv'
  BY QueueTypeOK, NextOthers DEF QueueInv
<1> QED
  BY InitQueueInv, <1>1, PTL DEF Req!Spec

\* Every field keeps its range: count never exceeds max_count
\* (dxrt_enqueue, dxrt_is_queue_full).
THEOREM QueueTypes == Req!Spec => []Req!TypeOK
<1>1. QueueInv => Req!TypeOK
  BY DEF QueueInv
<1> QED
  BY QueueInvariant, <1>1, PTL

\* For any number of submitters, slots and lock timeouts the firmware keeps
\* away while a slot is filled, unless an unlock was not waited for
\* (dxrt_npu_run_requset_acc).
THEOREM FillingCorrect == Req!Spec => []FillingIsExclusive
<1>1. QueueInv => FillingIsExclusive
  BY DEF QueueInv, ReleaseInv, FillingIsExclusive, Filling, Req!Filling
<1> QED
  BY QueueInvariant, <1>1, PTL

\* For any number of submitters and slots a queue that a timed-out request
\* left locked is not full (dxrt_npu_run_requset_acc).
THEOREM LeftLockedCorrect == Req!Spec => []LeftLockedHasRoom
<1>1. QueueInv => LeftLockedHasRoom
  BY QueueAssumption DEF QueueInv, MutexInv, LockInv, LeftLockedHasRoom
<1> QED
  BY QueueInvariant, <1>1, PTL

-----------------------------------------------------------------------------
(* The order of the requests.                                              *)

\* An index of a ring of m slots, advanced by less than m.
Wrap(a, m) == IF a < m THEN a ELSE a - m

\* A request has been written and is not counted yet.
InFlight == IF \E s \in Submitters : pc[s] \in {"count", "store"} THEN 1 ELSE 0

\* The n slots from front to rear hold the requests that are to be taken.
Ring(n) ==
  /\ rear = Wrap(front + n, MaxCount)
  /\ sent = Wrap(taken + n, Ids)
  /\ \A i \in 0 .. n - 1 :
       buffer[Wrap(front + i, MaxCount)] = Wrap(taken + i, Ids)

\* Those that count covers and, last, the one in flight; count is stored as it
\* was read.
OrderInv ==
  disturbed = 0 =>
    /\ \A s \in Submitters : pc[s] = "store" => old_count[s] = count
    /\ Ring(count + InFlight)

\* The remainder of an index advanced once round the ring at most
\* (dxrt_enqueue).
LEMMA ModWrap ==
  ASSUME NEW a \in Nat, NEW m \in Nat \ {0}, a < 2 * m
  PROVE  a % m = Wrap(a, m)
<1>1. CASE a < m
  BY <1>1 DEF Wrap
<1>2. CASE ~(a < m)
  <2>1. a - m \in 0 .. m - 1
    BY <1>2
  <2> QED BY <1>2, <2>1 DEF Wrap
<1> QED BY <1>1, <1>2

\* An empty ring is in order (dxrt_init_queue).
LEMMA InitOrderInv == Req!Init => OrderInv
<1> SUFFICES ASSUME Req!Init PROVE OrderInv
  OBVIOUS
<1>1. InFlight = 0
  BY SMTT(60), Z3T(60) DEF Req!Init, InFlight
<1>2. Ring(0)
  BY QueueAssumption DEF Req!Init, Ring, Wrap
<1> QED BY <1>1, <1>2 DEF Req!Init, OrderInv

\* A step that leaves the ring alone, and no submitter's place in dxrt_enqueue
\* changed, keeps the order.
LEMMA RingUntouched ==
  ASSUME OrderInv, Req!ring' = Req!ring, sent' = sent, taken' = taken,
         old_count' = old_count, disturbed' = 0 => disturbed = 0,
         \A t \in Submitters :
           /\ pc'[t] = "store" <=> pc[t] = "store"
           /\ pc'[t] = "count" <=> pc[t] = "count"
  PROVE  OrderInv'
<1>1. InFlight' = InFlight
  BY ZenonT(60) DEF InFlight
<1>2. /\ front' = front /\ rear' = rear /\ count' = count
      /\ buffer' = buffer
  BY DEF Req!ring
<1> QED BY <1>1, <1>2, ZenonT(60) DEF OrderInv, Ring

\* At most one request is in flight: its submitter holds the mutex.
LEMMA OneInFlight ==
  ASSUME QueueInv, NEW s \in Submitters, mutex = s
  PROVE  InFlight = IF pc[s] \in {"count", "store"} THEN 1 ELSE 0
BY ZenonT(60) DEF QueueInv, MutexInv, InFlight

\* The element is written at rear, behind all others, and overwrites none
\* (dxrt_enqueue).
LEMMA CopyKeepsOrder ==
  ASSUME QueueInv, OrderInv, disturbed = 0, NEW s \in Submitters, Req!Copy(s)
  PROVE  OrderInv'
<1>1. /\ pc[s] = "copy" /\ pc' = [pc EXCEPT ![s] = "count"]
      /\ front' = front /\ count' = count /\ taken' = taken
      /\ mutex' = mutex /\ old_count' = old_count /\ disturbed' = disturbed
  BY ZenonT(60) DEF Req!Copy, Req!Step
<1>2. /\ mutex = s /\ mmio = "live" /\ count < MaxCount
      /\ pc \in [Submitters -> Req!Pcs]
  BY ZenonT(60), <1>1 DEF QueueInv, Req!TypeOK, MutexInv, ReleaseInv, RoomInv
<1>3. /\ front \in Req!Slots /\ rear \in Req!Slots /\ count \in 0 .. MaxCount
      /\ taken \in 0 .. Ids - 1 /\ sent \in 0 .. Ids - 1
      /\ buffer \in [Req!Slots -> 0 .. Ids - 1]
  BY SMTT(60), Z3T(60) DEF QueueInv, Req!TypeOK
<1>4. InFlight = 0
  BY SMTT(60), Z3T(60), <1>1, <1>2, OneInFlight
<1>5. InFlight' = 1
  BY ZenonT(60), <1>1, <1>2 DEF InFlight
<1>6. Ring(count)
  BY SMTT(60), Z3T(60), <1>3, <1>4 DEF OrderInv
<1>7. /\ buffer' = [buffer EXCEPT ![rear] = sent]
      /\ rear' = Wrap(rear + 1, MaxCount)
      /\ sent' = Wrap(sent + 1, Ids)
  <2>1. (rear + 1) % MaxCount = Wrap(rear + 1, MaxCount)
    BY SMTT(60), Z3T(60), <1>3, ModWrap, QueueAssumption DEF Req!Slots
  <2>2. (sent + 1) % Ids = Wrap(sent + 1, Ids)
    BY SMTT(60), Z3T(60), <1>3, ModWrap, QueueAssumption
  <2> QED BY SMTT(60), Z3T(60), <1>2, <2>1, <2>2 DEF Req!Copy, Req!Write
<1>8. rear' = Wrap(front + (count + 1), MaxCount)
  BY SMTT(60), Z3T(60), <1>2, <1>3, <1>6, <1>7, QueueAssumption
     DEF Ring, Wrap, Req!Slots
<1>9. sent' = Wrap(taken + (count + 1), Ids)
  BY SMTT(60), Z3T(60), <1>2, <1>3, <1>6, <1>7, QueueAssumption DEF Ring, Wrap
<1>10. ASSUME NEW i \in 0 .. count
       PROVE  buffer'[Wrap(front + i, MaxCount)] = Wrap(taken + i, Ids)
  <2>1. Wrap(front + i, MaxCount) \in Req!Slots
    BY SMTT(60), Z3T(60), <1>2, <1>3, QueueAssumption DEF Wrap, Req!Slots
  <2>2. CASE i = count
    BY SMTT(60), Z3T(60), <1>3, <1>6, <1>7, <2>2 DEF Ring
  <2>3. CASE i # count
    <3>1. Wrap(front + i, MaxCount) # rear
      BY <1>2, <1>3, <1>6, <2>3, QueueAssumption DEF Ring, Wrap, Req!Slots
    <3>2. i \in 0 .. count - 1
      BY SMTT(60), Z3T(60), <1>3, <2>3
    <3>3. buffer[Wrap(front + i, MaxCount)] = Wrap(taken + i, Ids)
      BY ZenonT(60), <1>6, <3>2 DEF Ring
    <3> QED BY ZenonT(60), <1>3, <1>7, <2>1, <3>1, <3>3
  <2> QED BY SMTT(60), Z3T(60), <2>2, <2>3
<1>11. Ring(count + 1)'
  BY <1>1, <1>3, <1>8, <1>9, <1>10 DEF Ring
<1>12. \A t \in Submitters : pc'[t] # "store"
  BY <1>1, <1>2 DEF QueueInv, MutexInv
<1> QED BY ZenonT(60), <1>1, <1>5, <1>11, <1>12 DEF OrderInv

\* What was read is what is stored, since nothing is taken in between
\* (dxrt_enqueue).
LEMMA CountKeepsOrder ==
  ASSUME QueueInv, OrderInv, disturbed = 0, NEW s \in Submitters,
         Req!ReadCount(s) \/ Req!StoreCount(s)
  PROVE  OrderInv'
<1>1. /\ front' = front /\ rear' = rear /\ buffer' = buffer
      /\ taken' = taken /\ sent' = sent
      /\ pc \in [Submitters -> Req!Pcs] /\ count \in 0 .. MaxCount
      /\ old_count \in [Submitters -> 0 .. MaxCount]
  BY ZenonT(60) DEF Req!ReadCount, Req!StoreCount, Req!ring, QueueInv, Req!TypeOK
<1>2. pc[s] \in {"count", "store"} /\ mutex = s /\ mmio = "live"
  BY SMTT(60), Z3T(60)
     DEF Req!ReadCount, Req!StoreCount, Req!Step, QueueInv, MutexInv, ReleaseInv
<1>3. InFlight = 1 /\ \A t \in Submitters : pc[t] = "store" => t = s
  BY <1>2, OneInFlight DEF QueueInv, MutexInv
<1>4. CASE Req!ReadCount(s)
  <2>1. /\ pc' = [pc EXCEPT ![s] = "store"] /\ count' = count
        /\ old_count' = [old_count EXCEPT ![s] = count]
    BY SMTT(60), Z3T(60), <1>4 DEF Req!ReadCount, Req!Step, Req!ring
  <2>2. InFlight' = 1
    BY ZenonT(60), <1>1, <2>1 DEF InFlight
  <2>3. \A t \in Submitters : pc'[t] = "store" => old_count'[t] = count'
    BY ZenonT(60), <1>1, <1>3, <2>1
  <2> QED BY <1>1, <1>3, <2>1, <2>2, <2>3, ZenonT(60) DEF OrderInv, Ring
<1>5. CASE Req!StoreCount(s)
  <2>1. pc[s] = "store" /\ pc' = [pc EXCEPT ![s] = "unlock"]
    BY ZenonT(60), <1>5 DEF Req!StoreCount, Req!Step
  <2>2. old_count[s] = count
    BY ZenonT(60), <2>1 DEF OrderInv
  <2>3. count' = count + 1
    BY ZenonT(60), <1>2, <1>5, <2>2 DEF Req!StoreCount, Req!Write
  <2>4. InFlight' = 0 /\ \A t \in Submitters : pc'[t] # "store"
    BY ZenonT(60), <1>1, <1>2, <2>1 DEF InFlight, QueueInv, MutexInv
  <2>5. count' + InFlight' = count + InFlight
    BY <1>1, <1>3, <2>3, <2>4
  <2>6. Ring(count + InFlight)' 
    BY <1>1, <2>5, ZenonT(60) DEF OrderInv, Ring
  <2> QED BY ZenonT(60), <2>4, <2>6 DEF OrderInv
<1> QED BY <1>4, <1>5

\* The firmware takes the request at front, and only while none is in flight.
LEMMA TakeKeepsOrder ==
  ASSUME QueueInv, OrderInv, disturbed = 0, Req!FwTake
  PROVE  OrderInv'
<1>1. /\ flag = 0 /\ count > 0 /\ count' = count - 1
      /\ pc' = pc /\ old_count' = old_count
      /\ rear' = rear /\ buffer' = buffer /\ sent' = sent
  BY SMTT(60), Z3T(60) DEF Req!FwTake
<1>2. /\ front \in Req!Slots /\ count \in 0 .. MaxCount /\ taken \in 0 .. Ids - 1
  BY DEF QueueInv, Req!TypeOK
<1>3. \A t \in Submitters : pc[t] \notin {"count", "store"}
  BY <1>1 DEF QueueInv, ReleaseInv, Req!Filling
<1>4. InFlight = 0 /\ InFlight' = 0
  BY SMTT(60), Z3T(60), <1>1, <1>3 DEF InFlight
<1>5. Ring(count)
  BY SMTT(60), Z3T(60), <1>2, <1>4 DEF OrderInv
<1>6. front' = Wrap(front + 1, MaxCount)
  BY SMTT(60), Z3T(60), <1>2, ModWrap, QueueAssumption DEF Req!FwTake, Req!Slots
<1>7. taken' = Wrap(taken + 1, Ids)
  BY SMTT(60), Z3T(60), <1>2, ModWrap, QueueAssumption DEF Req!FwTake
<1>8. ASSUME NEW i \in 0 .. count - 1
      PROVE  /\ Wrap(front' + i, MaxCount) = Wrap(front + (i + 1), MaxCount)
             /\ Wrap(taken' + i, Ids) = Wrap(taken + (i + 1), Ids)
  BY SMTT(60), Z3T(60), <1>2, <1>6, <1>7, QueueAssumption DEF Wrap, Req!Slots
<1>9. /\ rear' = Wrap(front' + count', MaxCount)
      /\ sent' = Wrap(taken' + count', Ids)
  <2>1. count - 1 \in 0 .. count - 1 /\ (count - 1) + 1 = count
    BY SMTT(60), Z3T(60), <1>1, <1>2
  <2> QED BY SMTT(60), Z3T(60), <1>1, <1>5, <1>8, <2>1 DEF Ring
<1>10. ASSUME NEW i \in 0 .. count' - 1
       PROVE  buffer'[Wrap(front' + i, MaxCount)] = Wrap(taken' + i, Ids)
  <2>1. i \in 0 .. count - 1 /\ i + 1 \in 0 .. count - 1
    BY SMTT(60), Z3T(60), <1>1, <1>2
  <2> QED BY SMTT(60), Z3T(60), <1>1, <1>5, <1>8, <2>1 DEF Ring
<1>11. Ring(count)'
  BY <1>9, <1>10 DEF Ring
<1>12. (count + InFlight)' = count'
  BY <1>1, <1>2, <1>4
<1> QED BY ZenonT(60), <1>1, <1>3, <1>11, <1>12 DEF OrderInv

\* Every step keeps the order.
LEMMA NextOrderInv == QueueInv /\ OrderInv /\ [Req!Next]_(Req!vars) => OrderInv'
<1> SUFFICES ASSUME QueueInv, OrderInv, [Req!Next]_(Req!vars) PROVE OrderInv'
  BY SMTT(60), Z3T(60)
<1>0. CASE disturbed # 0
  <2>1. disturbed \in Req!Flag
    BY ZenonT(60) DEF QueueInv, Req!TypeOK
  <2>2. disturbed' # 0
    BY ZenonT(60), <1>0, <2>1
       DEF Req!Next, Req!SubmitterStep, Req!Firmware, Req!vars, Req!Flag, Req!Enter,
           Req!TakeMutex, Req!Rejected, Req!NotFull, Req!LockQueue, Req!LockGranted,
           Req!LockTimeout, Req!Disabled, Req!Copy, Req!ReadCount, Req!StoreCount,
           Req!Unlock, Req!Done, Req!DoneTimeout, Req!DisableQueue, Req!CycleQueue,
           Req!LinkDown, Req!LinkEvent, Req!FwGrant, Req!FwRelease, Req!FwTake,
           Req!FwEnable
  <2> QED BY SMTT(60), Z3T(60), <2>2 DEF OrderInv
<1> SUFFICES ASSUME disturbed = 0 PROVE OrderInv'
  BY <1>0
<1>1. pc \in [Submitters -> Req!Pcs]
  BY ZenonT(60) DEF QueueInv, Req!TypeOK
<1>2. ASSUME NEW s \in Submitters,
             \/ Req!Enter(s) \/ Req!TakeMutex(s) \/ Req!Rejected(s) \/ Req!NotFull(s)
             \/ Req!LockQueue(s) \/ Req!LockGranted(s) \/ Req!LockTimeout(s)
             \/ Req!Disabled(s) \/ Req!Unlock(s) \/ Req!Done(s) \/ Req!DoneTimeout(s)
      PROVE  OrderInv'
  <2>1. /\ Req!ring' = Req!ring /\ sent' = sent /\ taken' = taken
        /\ old_count' = old_count
    BY <1>2, ZenonT(60)
       DEF Req!Enter, Req!TakeMutex, Req!Rejected, Req!NotFull, Req!LockQueue,
           Req!LockGranted, Req!LockTimeout, Req!Disabled, Req!Unlock, Req!Done,
           Req!DoneTimeout
  <2>2. \E to \in Req!Pcs \ {"count", "store"} :
          /\ pc[s] \notin {"count", "store"}
          /\ pc' = [pc EXCEPT ![s] = to]
    BY ZenonT(60), <1>2
       DEF Req!Enter, Req!TakeMutex, Req!Rejected, Req!NotFull, Req!LockQueue,
           Req!LockGranted, Req!LockTimeout, Req!Disabled, Req!Unlock, Req!Done,
           Req!DoneTimeout, Req!Leave, Req!Step, Req!Pcs
  <2>3. \A t \in Submitters :
          /\ pc'[t] = "store" <=> pc[t] = "store"
          /\ pc'[t] = "count" <=> pc[t] = "count"
    BY <1>1, <2>2
  <2> QED BY ZenonT(60), <2>1, <2>3, RingUntouched
<1>3. ASSUME NEW s \in Submitters, Req!Copy(s) PROVE OrderInv'
  BY <1>3, CopyKeepsOrder
<1>4. ASSUME NEW s \in Submitters, Req!ReadCount(s) \/ Req!StoreCount(s)
      PROVE  OrderInv'
  BY SMTT(60), Z3T(60), <1>4, CountKeepsOrder
<1>5. CASE \/ Req!DisableQueue \/ Req!CycleQueue \/ Req!LinkDown \/ Req!LinkEvent
           \/ Req!FwGrant \/ Req!FwRelease \/ Req!FwEnable \/ UNCHANGED Req!vars
  <2>1. /\ Req!ring' = Req!ring /\ sent' = sent /\ taken' = taken /\ pc' = pc
        /\ old_count' = old_count
    BY <1>5, ZenonT(60)
       DEF Req!DisableQueue, Req!CycleQueue, Req!LinkDown, Req!LinkEvent, Req!FwGrant,
           Req!FwRelease, Req!FwEnable, Req!vars
  <2> QED BY <2>1, RingUntouched
<1>6. CASE Req!FwTake
  BY <1>6, TakeKeepsOrder
<1> QED
  BY ZenonT(60), <1>2, <1>3, <1>4, <1>5, <1>6
     DEF Req!Next, Req!SubmitterStep, Req!Firmware

\* For any number of submitters and slots, and any interleaving of timeouts
\* and late grants, the slots that count covers hold the requests in the order
\* in which they were written (dxrt_enqueue).
THEOREM OrderCorrect == Req!Spec => []RequestsInOrder
<1>1. QueueInv /\ OrderInv => RequestsInOrder
  <2> SUFFICES ASSUME QueueInv, OrderInv, disturbed = 0,
                      NEW i \in 0 .. count - 1
               PROVE  buffer[(front + i) % MaxCount] = (taken + i) % Ids
    BY ZenonT(60) DEF RequestsInOrder
  <2>1. /\ front \in Req!Slots /\ count \in 0 .. MaxCount
        /\ taken \in 0 .. Ids - 1 /\ InFlight \in {0, 1}
    BY DEF QueueInv, Req!TypeOK, InFlight
  <2>2. i \in 0 .. (count + InFlight) - 1
    BY SMTT(60), Z3T(60), <2>1
  <2>3. buffer[Wrap(front + i, MaxCount)] = Wrap(taken + i, Ids)
    BY ZenonT(60), <2>2 DEF OrderInv, Ring
  <2>4. (front + i) % MaxCount = Wrap(front + i, MaxCount)
    BY SMTT(60), Z3T(60), <2>1, ModWrap, QueueAssumption DEF Req!Slots
  <2>5. (taken + i) % Ids = Wrap(taken + i, Ids)
    BY <2>1, ModWrap, QueueAssumption
  <2> QED BY SMTT(60), Z3T(60), <2>3, <2>4, <2>5
<1> QED
  BY InitOrderInv, NextOrderInv, QueueInvariant, <1>1, PTL DEF Req!Spec

=============================================================================
