-------------------------- MODULE DmaChannelProofs --------------------------
(***************************************************************************)
(* For every number of transfers and faults: a descriptor completes once   *)
(* and in order, and, with linked lists, a transfer that is reported       *)
(* complete has moved its data.                                            *)
(***************************************************************************)
EXTENDS DmaChannel, WellFoundedInduction, TLAPS

\* The thread has not handed its descriptor over
BeforeSubmit == tpc \in {"config", "epoch", "gate", "prep", "clear", "submit"}

\* The thread has a cookie and waits for it
AfterSubmit ==
    tpc \in {"issue", "wait", "guard", "signal", "drain", "late", "rewait", "flush",
             "grace", "stuck", "final", "complete", "incomplete"}

\* The thread has cleared the flags
AfterClear == tpc = "submit" \/ AfterSubmit

\* What CompletedIsMoved asks of a transfer
Undisturbed == IsLlm = 1 /\ ~EpochChanged /\ overtaken = 0

\* Cookies are given and completed in order.
OrderInv ==
    /\ cur \in Nat /\ cookie \in Nat /\ completed_cookie \in Nat
    /\ completed_cookie <= cur
    /\ desc_submitted \subseteq 1 .. cur /\ desc_issued \subseteq 1 .. cur
    /\ \A d \in desc_submitted \union desc_issued : completed_cookie < d
    /\ \A d \in desc_issued, e \in desc_submitted : d < e
    /\ BeforeSubmit =>
         completed_cookie < cur /\ cur \notin desc_submitted /\ cur \notin desc_issued
    /\ tpc = "config" => cookie = 0
    /\ AfterSubmit => cookie = cur
    /\ tpc = "complete" => cookie <= completed_cookie

\* Epochs only grow.
EpochInv == start_epoch \in Nat /\ recovery_epoch \in Nat /\ start_epoch <= recovery_epoch

\* The worker that is armed has found the channel stopped, and so has an Abort handler.
StopInv ==
    /\ lpc = "armed" => cs = "stop"
    /\ ipc \in {"abort", "unlocked"} /\ overtaken = 0 => cs # "run" /\ done_int = 0

\* A configured channel that was made idle while xfer_started is set has stopped, so
\* the Done interrupt of an earlier transfer does not meet the next descriptor.
IdleInv ==
    configured = 1 /\ status = "idle" /\ xfer_started = 1 /\ overtaken = 0
    => /\ cs # "run" /\ done_int = 0
       /\ AfterClear /\ Undisturbed => ipc # "done"

\* A transfer that started while the link was already known to be down meets no handler.
FlapInv ==
    AfterClear /\ Undisturbed /\ fpc \in {"flush", "down"}
    => ipc = "idle" /\ completed_cookie < cur

\* Where the data of the thread's transfer is, once its descriptor is the one that an
\* interrupt would complete.
MoveInv ==
    /\ AfterClear /\ Undisturbed /\ aborted = 0 /\ xfer_started = 1 /\ desc_issued = {cur}
       => /\ done_int = 1 \/ ipc = "done" => moved = 1
          /\ cs = "run" => hw_desc = cur
    /\ AfterClear /\ Undisturbed /\ ipc = "abort" => aborted = 1
    /\ AfterClear /\ Undisturbed /\ aborted = 0 /\ completed_cookie = cur => moved = 1
    /\ /\ tpc \in {"return", "idle"} /\ result = "ok" /\ cur # 0 /\ cookie = cur
       /\ Undisturbed
       => moved = 1

DataInv == EpochInv /\ StopInv /\ IdleInv /\ FlapInv /\ MoveInv

\* What OrderInv and DataInv read
tracked == <<tpc, cur, cookie, start_epoch, result, configured, status, xfer_started,
             aborted, desc_submitted, desc_issued, completed_cookie, lpc, cs, hw_desc,
             done_int, moved, recovery_epoch, fpc, ipc, overtaken>>

\* What OrderInv reads
ordered == <<tpc, cur, cookie, desc_submitted, desc_issued, completed_cookie>>

-----------------------------------------------------------------------------
\* The head of a list is its least descriptor (vchan_next_desc on desc_issued).
LEMMA FirstIsLeast ==
  ASSUME NEW S \in SUBSET Nat, S # {}
  PROVE  First(S) \in S /\ \A y \in S : First(S) <= y
<1>1. PICK x \in S : \A y \in S : ~ (<<y, x>> \in OpToRel(<, Nat))
  BY ZenonT(60), WFMin, NatLessThanWellFounded
<1>2. ASSUME NEW y \in S PROVE x <= y
  <2>1. ~ (<<y, x>> \in OpToRel(<, Nat))
    BY ZenonT(60), <1>1
  <2> QED BY <2>1 DEF OpToRel
<1> QED BY <1>2, ZenonT(60) DEF First

\* Steps that change nothing that is ordered keep the order.
LEMMA OrderUntouched ==
  ASSUME OrderInv, UNCHANGED ordered
  PROVE  OrderInv'
BY DEF OrderInv, ordered, BeforeSubmit, AfterSubmit

\* Steps that change nothing that is tracked keep both invariants.
LEMMA TrackedUntouched ==
  ASSUME OrderInv, DataInv, UNCHANGED tracked
  PROVE  OrderInv' /\ DataInv'
<1>1. OrderInv'
  BY OrderUntouched DEF ordered, tracked
<1>2. EpochInv' /\ StopInv'
  BY DEF DataInv, EpochInv, StopInv, tracked
<1>3. IdleInv' /\ FlapInv'
  BY
     DEF DataInv, IdleInv, FlapInv, AfterClear, AfterSubmit, Undisturbed,
         EpochChanged, tracked
<1>4. MoveInv'
  BY DEF DataInv, MoveInv, AfterClear, AfterSubmit, Undisturbed, EpochChanged, tracked
<1> QED BY <1>1, <1>2, <1>3, <1>4 DEF DataInv

-----------------------------------------------------------------------------
(* The transfer thread                                                     *)

\* What a step of the thread leaves alone once the descriptor is issued
kept == <<configured, status, xfer_started, desc_submitted, desc_issued,
          completed_cookie, lpc, cs, hw_desc, done_int, moved, recovery_epoch, fpc, ipc,
          overtaken>>

\* The thread goes on waiting
Waits ==
    /\ AfterSubmit /\ AfterSubmit'
    /\ tpc' = "complete" => cookie <= completed_cookie
    /\ UNCHANGED <<cur, cookie, start_epoch, aborted, kept>>

\* The thread gives up
GivesUp ==
    /\ tpc' = "return" /\ result' = "err" /\ cookie' = 0 /\ start_epoch' = 0
    /\ UNCHANGED <<cur, kept>>

\* A thread that goes on waiting keeps both invariants.
LEMMA WaitsKeeps ==
  ASSUME OrderInv, DataInv, Waits
  PROVE  OrderInv' /\ DataInv'
<1>1. OrderInv'
  BY DEF OrderInv, Waits, kept, BeforeSubmit, AfterSubmit
<1>2. EpochInv' /\ StopInv'
  BY DEF DataInv, EpochInv, StopInv, Waits, kept
<1>3. AfterClear /\ AfterClear'
  BY DEF AfterClear, Waits
<1>4. IdleInv' /\ FlapInv'
  BY <1>3 DEF DataInv, IdleInv, FlapInv, Undisturbed, EpochChanged, Waits, kept
<1>5. tpc' \notin {"return", "idle"}
  BY DEF Waits, AfterSubmit
<1>6. MoveInv'
  BY <1>3, <1>5 DEF DataInv, MoveInv, Undisturbed, EpochChanged, Waits, kept
<1> QED BY <1>1, <1>2, <1>4, <1>6 DEF DataInv

\* A thread that gives up keeps both invariants.
LEMMA GivesUpKeeps ==
  ASSUME OrderInv, DataInv, GivesUp
  PROVE  OrderInv' /\ DataInv'
<1>1. OrderInv'
  BY DEF OrderInv, GivesUp, kept, BeforeSubmit, AfterSubmit
<1>2. EpochInv' /\ StopInv'
  BY DEF DataInv, EpochInv, StopInv, GivesUp, kept
<1>3. ~AfterClear' /\ result' # "ok"
  BY DEF AfterClear, AfterSubmit, GivesUp
<1>4. IdleInv' /\ FlapInv'
  BY <1>3 DEF DataInv, IdleInv, FlapInv, GivesUp, kept
<1>5. MoveInv'
  BY <1>3 DEF MoveInv
<1> QED BY <1>1, <1>2, <1>4, <1>5 DEF DataInv

\* Every step between IssuePending and Conclude is one of the two.
LEMMA WaitingShape ==
  ASSUME OrderInv,
         \/ WaitEnds \/ Guard \/ SignalDrain \/ LateCallback \/ LateRewait \/ LateFlush
         \/ Grace \/ Stuck \/ Final
  PROVE  Waits \/ GivesUp
<1>. USE
        DEF Waits, GivesUp, kept, AfterSubmit, At, Goto, Proceed, Fail, FailQuietly,
            FailTerminating, Shared, chan, errs, lists, compl, hw, launch, device,
            others
<1>1. CASE WaitEnds
  BY <1>1, ZenonT(60) DEF WaitEnds
<1>2. CASE Guard
  BY <1>2, ZenonT(60) DEF Guard
<1>3. CASE SignalDrain
  BY <1>3, ZenonT(60) DEF SignalDrain
<1>4. CASE LateCallback
  BY <1>4, ZenonT(60) DEF LateCallback
<1>5. CASE LateRewait
  BY ZenonT(60), <1>5 DEF LateRewait
<1>6. CASE LateFlush
  BY <1>6, ZenonT(60) DEF LateFlush
<1>7. CASE Grace
  BY ZenonT(60), <1>7 DEF Grace
<1>8. CASE Stuck
  BY <1>8 DEF Stuck
<1>9. CASE Final
  BY <1>9, ZenonT(60) DEF Final, IsComplete
<1> QED BY <1>1, <1>2, <1>3, <1>4, <1>5, <1>6, <1>7, <1>8, <1>9, ZenonT(60)

\* The thread prepares its transfer
Prepares ==
    /\ BeforeSubmit /\ tpc' \in {"gate", "prep", "clear"}
    /\ start_epoch' \in {start_epoch, recovery_epoch}
    /\ UNCHANGED <<cur, cookie, kept>>

\* A thread that prepares its transfer keeps both invariants.
LEMMA PreparesKeeps ==
  ASSUME OrderInv, DataInv, Prepares
  PROVE  OrderInv' /\ DataInv'
<1>1. OrderInv'
  BY DEF OrderInv, Prepares, kept, BeforeSubmit, AfterSubmit
<1>2. EpochInv' /\ StopInv'
  BY DEF DataInv, EpochInv, StopInv, Prepares, kept
<1>3. ~AfterClear' /\ tpc' \notin {"return", "idle"}
  BY DEF AfterClear, AfterSubmit, Prepares
<1>4. IdleInv' /\ FlapInv'
  BY <1>3 DEF DataInv, IdleInv, FlapInv, Prepares, kept
<1>5. MoveInv'
  BY <1>3 DEF MoveInv
<1> QED BY <1>1, <1>2, <1>4, <1>5 DEF DataInv

\* The steps before the flags are cleared keep both invariants.
LEMMA PreparationKeeps ==
  ASSUME OrderInv, DataInv,
         RunTransfer \/ MapFailed \/ Configure \/ ReadEpoch \/ Gate \/ Prep
  PROVE  OrderInv' /\ DataInv'
<1>. USE
        DEF At, Goto, Fail, Shared, thread, chan, errs, lists, compl, hw, launch,
            device, others
<1>1. CASE RunTransfer
  <2>1. OrderInv'
    BY SMTT(60), Z3T(60), <1>1 DEF RunTransfer, OrderInv, BeforeSubmit, AfterSubmit
  <2>2. EpochInv'
    BY SMTT(60), Z3T(60), <1>1 DEF RunTransfer, DataInv, EpochInv
  <2>3. StopInv'
    BY ZenonT(60), <1>1 DEF RunTransfer, DataInv, StopInv, Quiet
  <2>4. ~AfterClear' /\ tpc' \notin {"return", "idle"}
    BY <1>1, ZenonT(60) DEF RunTransfer, AfterClear, AfterSubmit
  <2>5. IdleInv' /\ FlapInv'
    BY <1>1, <2>4 DEF RunTransfer, DataInv, IdleInv, FlapInv, Quiet
  <2>6. MoveInv'
    BY <2>4 DEF MoveInv
  <2> QED BY <2>1, <2>2, <2>3, <2>5, <2>6, ZenonT(60) DEF DataInv
<1>2. CASE MapFailed
  <2>1. tpc = "config" /\ tpc' = "return" /\ UNCHANGED <<cur, cookie, start_epoch, kept>>
    BY <1>2 DEF MapFailed, kept
  <2>2. OrderInv'
    BY <2>1 DEF OrderInv, kept, BeforeSubmit, AfterSubmit
  <2>3. EpochInv' /\ StopInv'
    BY <2>1 DEF DataInv, EpochInv, StopInv, kept
  <2>4. ~AfterClear' /\ (cur' = 0 \/ cookie' # cur')
    BY <2>1 DEF AfterClear, AfterSubmit, OrderInv
  <2>5. IdleInv' /\ FlapInv'
    BY <2>1, <2>4 DEF DataInv, IdleInv, FlapInv, kept
  <2>6. MoveInv'
    BY <2>4 DEF MoveInv
  <2> QED BY ZenonT(60), <2>2, <2>3, <2>5, <2>6 DEF DataInv
<1>3. CASE Configure
  <2>1. OrderInv'
    BY ZenonT(60), <1>3 DEF Configure, OrderInv, BeforeSubmit, AfterSubmit
  <2>2. EpochInv' /\ StopInv'
    BY SMTT(60), Z3T(60), <1>3 DEF Configure, DataInv, EpochInv, StopInv
  <2>3. ~AfterClear' /\ xfer_started' = 0 /\ tpc' \notin {"return", "idle"}
    BY <1>3 DEF Configure, AfterClear, AfterSubmit
  <2>4. IdleInv' /\ FlapInv' /\ MoveInv'
    BY <2>3 DEF IdleInv, FlapInv, MoveInv
  <2> QED BY <2>1, <2>2, <2>4, ZenonT(60) DEF DataInv
<1>4. CASE ReadEpoch \/ Gate \/ Prep
  <2>1. Prepares \/ GivesUp
    BY <1>4, ZenonT(60) DEF ReadEpoch, Gate, Prep, Prepares, GivesUp, kept, BeforeSubmit
  <2> QED BY SMTT(60), Z3T(60), <2>1, PreparesKeeps, GivesUpKeeps
<1> QED BY <1>1, <1>2, <1>3, <1>4

\* Clearing the flags keeps both invariants: a handler that runs then is overtaken.
LEMMA ClearFlagsKeeps ==
  ASSUME OrderInv, DataInv, ClearFlags
  PROVE  OrderInv' /\ DataInv'
<1>. USE DEF ClearFlags, At, chan, lists, compl, hw, launch, device
<1>1. OrderInv'
  BY SMTT(60), Z3T(60) DEF OrderInv, BeforeSubmit, AfterSubmit
<1>2. EpochInv' /\ StopInv'
  BY SMTT(60), Z3T(60) DEF DataInv, EpochInv, StopInv
<1>3. IdleInv'
  BY SMTT(60), Z3T(60) DEF DataInv, IdleInv, Undisturbed
<1>4. completed_cookie < cur /\ cur \notin desc_issued
  BY DEF OrderInv, BeforeSubmit
<1>5. FlapInv'
  BY SMTT(60), Z3T(60), <1>4 DEF FlapInv, Undisturbed
<1>6. completed_cookie # cur /\ desc_issued # {cur}
  BY SMTT(60), Z3T(60), <1>4 DEF OrderInv
<1>7. MoveInv'
  BY <1>6 DEF MoveInv, Undisturbed
<1> QED BY ZenonT(60), <1>1, <1>2, <1>3, <1>5, <1>7 DEF DataInv

\* Handing the descriptor over keeps both invariants.
LEMMA SubmitKeeps ==
  ASSUME OrderInv, DataInv, Submit
  PROVE  OrderInv' /\ DataInv'
<1>. USE DEF Submit, At, chan, errs, compl, hw, launch, device, others
<1>1. OrderInv'
  <2>1. completed_cookie < cur /\ cur \in 1 .. cur
    BY SMTT(60), Z3T(60) DEF OrderInv, BeforeSubmit
  <2>2. desc_submitted' \subseteq desc_submitted \union {cur}
    BY ZenonT(60)
  <2> QED BY SMTT(60), Z3T(60), <2>1, <2>2 DEF OrderInv, BeforeSubmit, AfterSubmit
<1>2. EpochInv' /\ StopInv'
  BY SMTT(60), Z3T(60) DEF DataInv, EpochInv, StopInv
<1>3. AfterClear /\ AfterClear'
  BY ZenonT(60) DEF AfterClear, AfterSubmit
<1>4. IdleInv' /\ FlapInv'
  BY <1>3, ZenonT(60) DEF DataInv, IdleInv, FlapInv, Undisturbed, EpochChanged
<1>5. MoveInv'
  BY SMTT(60), Z3T(60), <1>3 DEF DataInv, MoveInv, Undisturbed, EpochChanged
<1> QED BY <1>1, <1>2, <1>4, <1>5, ZenonT(60) DEF DataInv

\* Issuing it keeps both invariants: on an idle channel no Done status waits for it.
LEMMA IssuePendingKeeps ==
  ASSUME OrderInv, DataInv, IssuePending
  PROVE  OrderInv' /\ DataInv'
<1>. USE
        DEF IssuePending, At, Goto, dw_edma_start_transfer, errs, compl, hw, device,
            others
<1>1. desc_issued' \subseteq desc_issued \union desc_submitted
      /\ desc_submitted' \subseteq desc_submitted /\ desc_issued \subseteq desc_issued'
  BY ZenonT(60)
<1>2. OrderInv'
  BY SMTT(60), Z3T(60), <1>1 DEF OrderInv, BeforeSubmit, AfterSubmit
<1>3. EpochInv' /\ StopInv'
  BY SMTT(60), Z3T(60) DEF DataInv, EpochInv, StopInv
<1>4. AfterClear /\ AfterClear' /\ tpc' \notin {"return", "idle"}
  BY ZenonT(60) DEF AfterClear, AfterSubmit
<1>5. IdleInv' /\ FlapInv'
  BY ZenonT(60), <1>4 DEF DataInv, IdleInv, FlapInv, Undisturbed, EpochChanged
<1>6. ASSUME AfterClear, Undisturbed, aborted = 0, xfer_started = 1, desc_issued' = {cur}
      PROVE  /\ done_int = 1 \/ ipc = "done" => moved = 1
             /\ cs = "run" => hw_desc = cur
  <2>1. CASE desc_issued' = desc_issued
    BY <1>6, <2>1, ZenonT(60) DEF DataInv, MoveInv
  <2>2. CASE desc_issued' # desc_issued
    BY <1>6, <2>2, SMTT(60), Z3T(60) DEF DataInv, IdleInv, Undisturbed
  <2> QED BY ZenonT(60), <2>1, <2>2
<1>7. MoveInv'
  BY <1>4, <1>6 DEF DataInv, MoveInv, Undisturbed, EpochChanged
<1> QED BY SMTT(60), Z3T(60), <1>2, <1>3, <1>5, <1>7 DEF DataInv

\* The end of a transfer keeps both invariants: it is reported complete if its cookie
\* is and nothing was aborted, and then the data has arrived.
LEMMA ConclusionKeeps ==
  ASSUME OrderInv, DataInv, Conclude \/ Returned
  PROVE  OrderInv' /\ DataInv'
<1>. USE
        DEF At, Fail, Goto, Proceed, FailTerminating, Shared, chan, errs, lists,
            compl, hw, launch, device, others
<1>1. CASE Conclude /\ result' = "ok" /\ tpc' = "return"
  <2>1. /\ tpc = "complete" /\ aborted = 0
        /\ UNCHANGED <<cur, cookie, start_epoch, kept>>
    BY ZenonT(60), <1>1 DEF Conclude, kept
  <2>2. OrderInv'
    BY ZenonT(60), <1>1, <2>1 DEF OrderInv, kept, BeforeSubmit, AfterSubmit
  <2>3. EpochInv' /\ StopInv'
    BY SMTT(60), Z3T(60), <2>1 DEF DataInv, EpochInv, StopInv, kept
  <2>4. ~AfterClear' /\ AfterClear
    BY SMTT(60), Z3T(60), <1>1, <2>1 DEF AfterClear, AfterSubmit
  <2>5. IdleInv' /\ FlapInv'
    BY SMTT(60), Z3T(60), <2>1, <2>4 DEF DataInv, IdleInv, FlapInv, kept
  <2>6. completed_cookie = cur
    BY SMTT(60), Z3T(60), <2>1 DEF OrderInv, AfterSubmit
  <2>7. Undisturbed => moved = 1
    BY ZenonT(60), <2>1, <2>4, <2>6 DEF DataInv, MoveInv
  <2>8. MoveInv'
    BY <2>1, <2>4, <2>7 DEF MoveInv, Undisturbed, EpochChanged, kept
  <2> QED BY <2>2, <2>3, <2>5, <2>8, ZenonT(60) DEF DataInv
<1>2. CASE Conclude /\ ~ (result' = "ok" /\ tpc' = "return")
  <2>1. GivesUp
    BY <1>2, SMTT(60), Z3T(60) DEF Conclude, GivesUp, kept
  <2> QED BY ZenonT(60), <2>1, GivesUpKeeps
<1>3. CASE Returned
  <2>1. /\ tpc = "return" /\ tpc' = "idle"
        /\ UNCHANGED <<cur, cookie, start_epoch, result, kept>>
    BY ZenonT(60), <1>3 DEF Returned, kept
  <2>2. OrderInv'
    BY SMTT(60), Z3T(60), <2>1 DEF OrderInv, kept, BeforeSubmit, AfterSubmit
  <2>3. EpochInv' /\ StopInv'
    BY <2>1 DEF DataInv, EpochInv, StopInv, kept
  <2>4. ~AfterClear'
    BY ZenonT(60), <2>1 DEF AfterClear, AfterSubmit
  <2>5. IdleInv' /\ FlapInv'
    BY <2>1, <2>4, ZenonT(60) DEF DataInv, IdleInv, FlapInv, kept
  <2>6. MoveInv'
    BY <2>1, <2>4 DEF DataInv, MoveInv, Undisturbed, EpochChanged, kept
  <2> QED BY ZenonT(60), <2>2, <2>3, <2>5, <2>6 DEF DataInv
<1> QED BY <1>1, <1>2, <1>3

\* Every step of the transfer thread keeps both invariants.
LEMMA ThreadKeeps ==
  ASSUME OrderInv, DataInv, RunTransfer \/ Thread
  PROVE  OrderInv' /\ DataInv'
BY ZenonT(60), WaitingShape, WaitsKeeps, GivesUpKeeps, PreparationKeeps,
   ClearFlagsKeeps, SubmitKeeps, IssuePendingKeeps, ConclusionKeeps
   DEF Thread

-----------------------------------------------------------------------------
(* terminate_all, resets and what else stops the channel                   *)

\* A step that may stop the channel, unconfigure it, empty its lists or drop a Done
\* status, and starts nothing
Quells ==
    /\ desc_submitted' \in {desc_submitted, {}} /\ desc_issued' \in {desc_issued, {}}
    /\ UNCHANGED <<configured, status>> \/ configured' = 0
    /\ UNCHANGED <<cs, hw_desc>> \/ cs' = "stop"
    /\ done_int' \in {done_int, 0}
    /\ lpc' = "armed" => lpc = "armed" \/ cs = "stop"
    /\ fpc' \in {"flush", "down"} => fpc \in {"flush", "down"}
    /\ UNCHANGED <<tpc, cur, cookie, start_epoch, result, xfer_started, aborted,
                   completed_cookie, moved, recovery_epoch, ipc, overtaken>>

\* A step that only stops things keeps both invariants.
LEMMA QuellsKeeps ==
  ASSUME OrderInv, DataInv, Quells
  PROVE  OrderInv' /\ DataInv'
<1>1. OrderInv'
  <2>1. desc_submitted' \subseteq desc_submitted /\ desc_issued' \subseteq desc_issued
    BY SMTT(60), Z3T(60) DEF Quells
  <2> QED BY SMTT(60), Z3T(60), <2>1 DEF OrderInv, Quells, BeforeSubmit, AfterSubmit
<1>2. EpochInv' /\ StopInv'
  BY SMTT(60), Z3T(60) DEF DataInv, EpochInv, StopInv, Quells
<1>3. (AfterClear' <=> AfterClear) /\ (EpochChanged' <=> EpochChanged)
      /\ (Undisturbed' <=> Undisturbed)
  BY ZenonT(60) DEF AfterClear, AfterSubmit, EpochChanged, Undisturbed, Quells
<1>4. IdleInv' /\ FlapInv'
  BY <1>3, SMTT(60), Z3T(60) DEF DataInv, StopInv, IdleInv, FlapInv, Quells
<1>5. MoveInv'
  BY <1>3 DEF DataInv, MoveInv, Quells
<1> QED BY <1>1, <1>2, <1>4, <1>5 DEF DataInv

\* terminate_all only stops things.
LEMMA TerminateKeeps ==
  ASSUME OrderInv, DataInv, NEW p \in Callers, TerminateAll(p)
  PROVE  OrderInv' /\ DataInv'
<1>1. TermCancel(p) \/ TermSync(p) => UNCHANGED tracked
  BY ZenonT(60)
     DEF TermCancel, TermSync, tracked, thread, chan, errs, lists, compl, hw, launch,
         device, others
<1>2. TermDrain(p) => Quells
  BY
     DEF TermDrain, DrainLists, Quells, thread, chan, errs, compl, hw, launch, device,
         others
<1>3. TermLock(p) => Quells
  <2>. HAVE TermLock(p)
  <2>1. TermNotConfigured(p) => Quells
    BY ZenonT(60)
       DEF TermLock, TermNotConfigured, Quells, thread, chan, errs, lists, compl, hw,
           launch, device, others
  <2>2. TermIdle(p) => Quells
    BY ZenonT(60)
       DEF TermLock, TermIdle, SoftReset, Cycled, Quells, thread, chan, errs, lists,
           compl, hw, launch, device, others
  <2>3. TermStopped(p) => Quells
    BY ZenonT(60)
       DEF TermLock, TermStopped, Quells, thread, chan, errs, lists, compl, hw,
           launch, device, others
  <2>4. TermForce(p) => Quells
    BY ZenonT(60)
       DEF TermLock, TermForce, SoftReset, Cycled, Quells, thread, chan, errs, lists,
           compl, hw, launch, device, others
  <2>5. TermRequest(p) => Quells
    BY
       DEF TermLock, TermRequest, Quells, thread, chan, errs, lists, compl, hw,
           launch, device, others
  <2> QED BY ZenonT(60), <2>1, <2>2, <2>3, <2>4, <2>5 DEF TermLock
<1> QED BY ZenonT(60), <1>1, <1>2, <1>3, TrackedUntouched, QuellsKeeps DEF TerminateAll

\* A new epoch disturbs every transfer that has read the old one.
LEMMA EpochKeeps ==
  ASSUME OrderInv, DataInv, ResetStart \/ FlapEpoch
  PROVE  OrderInv' /\ DataInv'
<1>1. /\ recovery_epoch' = recovery_epoch + 1
      /\ UNCHANGED <<tpc, cur, cookie, start_epoch, result, configured, status, xfer_started,
                     aborted, desc_submitted, desc_issued, completed_cookie, lpc, cs, hw_desc,
                     done_int, moved, ipc, overtaken>>
  BY SMTT(60), Z3T(60)
     DEF ResetStart, FlapEpoch, thread, chan, errs, lists, compl, hw, launch
<1>2. EpochInv' /\ EpochChanged'
  BY SMTT(60), Z3T(60), <1>1 DEF DataInv, EpochInv, EpochChanged
<1>3. OrderInv'
  BY ZenonT(60), <1>1, OrderUntouched DEF ordered
<1>4. StopInv' /\ IdleInv'
  BY SMTT(60), Z3T(60), <1>1, <1>2 DEF DataInv, StopInv, IdleInv, Undisturbed
<1>5. FlapInv' /\ MoveInv'
  BY <1>2 DEF FlapInv, MoveInv, Undisturbed
<1> QED BY <1>2, <1>3, <1>4, <1>5, ZenonT(60) DEF DataInv

\* The reset of all channels, and another channel's engine cycle, keep both invariants.
LEMMA ResetKeeps ==
  ASSUME OrderInv, DataInv, ResetStart \/ Reset \/ PeerCycle \/ PeerNotify
  PROVE  OrderInv' /\ DataInv'
<1>1. ResetState \/ ResetHwErr \/ ResetSync \/ PeerNotify => UNCHANGED tracked
  BY ZenonT(60)
     DEF ResetState, ResetHwErr, ResetSync, PeerNotify, tracked, thread, chan, errs,
         lists, compl, hw, launch, device, others
<1>2. ResetDrain => Quells
  BY ZenonT(60)
     DEF ResetDrain, DrainLists, Quells, thread, chan, errs, compl, hw, launch,
         device, others
<1>3. ResetLive => Quells
  BY ZenonT(60)
     DEF ResetLive, Cycled, Quells, thread, chan, errs, lists, compl, hw, launch,
         device, others
<1>4. PeerCycle => Quells
  BY DEF PeerCycle, Quells, thread, chan, errs, lists, compl, hw, launch, device, others
<1> QED BY ZenonT(60), <1>1, <1>2, <1>3, <1>4, TrackedUntouched, QuellsKeeps, EpochKeeps
           DEF Reset

\* A link flap keeps both invariants.
LEMMA FlapKeeps ==
  ASSUME OrderInv, DataInv, FlapDead \/ Flap
  PROVE  OrderInv' /\ DataInv'
<1>1. FlapDead \/ FlapDown => Quells
  BY ZenonT(60)
     DEF FlapDead, FlapDown, Cycled, Quells, thread, chan, errs, lists, compl, hw,
         launch, device, others
<1>2. FlapHwErr \/ FlapLive => Quells
  BY
     DEF FlapHwErr, FlapLive, Quells, thread, chan, errs, lists, compl, hw, launch,
         device, others
<1>3. ASSUME FlapReinit PROVE OrderInv' /\ DataInv'
  <2>1. /\ fpc = "down" /\ fpc' = "up" /\ cs' = "stop" /\ done_int' = 0
        /\ aborted' = 0 /\ status' = "idle"
        /\ UNCHANGED <<tpc, cur, cookie, desc_submitted, desc_issued, completed_cookie,
                       start_epoch, result, configured, xfer_started, lpc, moved,
                       recovery_epoch, ipc, overtaken>>
    BY <1>3 DEF FlapReinit, Cycled, thread, lists, compl, launch
  <2>2. OrderInv'
    BY ZenonT(60), <2>1, OrderUntouched DEF ordered
  <2>3. EpochInv' /\ StopInv' /\ FlapInv'
    BY ZenonT(60), <2>1 DEF DataInv, EpochInv, StopInv, FlapInv
  <2>4. (AfterClear' <=> AfterClear) /\ (Undisturbed' <=> Undisturbed)
        /\ (EpochChanged' <=> EpochChanged)
    BY ZenonT(60), <2>1 DEF AfterClear, AfterSubmit, EpochChanged, Undisturbed
  <2>5. AfterClear /\ Undisturbed => ipc = "idle" /\ completed_cookie # cur
    BY SMTT(60), Z3T(60), <2>1 DEF DataInv, FlapInv, OrderInv
  <2>6. IdleInv'
    BY ZenonT(60), <2>1, <2>4, <2>5 DEF DataInv, IdleInv
  <2>7. MoveInv'
    BY <2>1, <2>4, <2>5 DEF DataInv, MoveInv
  <2> QED BY ZenonT(60), <2>2, <2>3, <2>6, <2>7 DEF DataInv
<1> QED BY ZenonT(60), <1>1, <1>2, <1>3, QuellsKeeps, EpochKeeps DEF Flap

-----------------------------------------------------------------------------
(* The worker, the hardware, its interrupts and the tasklet                *)

\* The worker keeps both invariants: it rings for the first descriptor only, on a
\* stopped channel, and drops the Done status of an earlier one.
LEMMA WorkerKeeps ==
  ASSUME OrderInv, DataInv, Worker
  PROVE  OrderInv' /\ DataInv'
<1>1. LaunchStart => Quells
  BY ZenonT(60)
     DEF LaunchStart, Quells, thread, chan, errs, lists, compl, hw, device, others
<1>2. LaunchPrepare => Quells
  BY ConstantsAssumption
     DEF LaunchPrepare, ChannelIdle, ClearDoneInt, Quells, thread, chan, lists, compl,
         device, others
<1>3. ASSUME LaunchDoorbell PROVE OrderInv' /\ DataInv'
  <2>1. /\ lpc = "armed" /\ lpc' = "idle" /\ ClearDoneInt
        /\ overtaken' = IF ipc = "idle" THEN overtaken ELSE 1
        /\ UNCHANGED <<tpc, cur, cookie, start_epoch, result, configured, status, aborted,
                       desc_submitted, desc_issued, completed_cookie, moved, recovery_epoch,
                       fpc, ipc>>
    BY <1>3 DEF LaunchDoorbell, thread, lists, compl, device
  <2>2. \/ UNCHANGED <<xfer_started, cs, hw_desc>>
        \/ /\ xfer_started' = 1 /\ status = "busy"
           /\ UNCHANGED <<cs, hw_desc>> \/ (cs' = "run" /\ hw_desc' = NextDesc)
    <3>1. CASE ~Cancelled /\ child = NextDesc /\ RingDoorbell
      BY <3>1 DEF RingDoorbell, Cancelled, LaunchAllowed
    <3> QED BY <1>3, <3>1, ZenonT(60) DEF LaunchDoorbell
  <2>3. OrderInv'
    BY ZenonT(60), <2>1, OrderUntouched DEF ordered
  <2>4. EpochInv' /\ StopInv'
    BY SMTT(60), Z3T(60), <2>1 DEF DataInv, EpochInv, StopInv
  <2>5. (AfterClear' <=> AfterClear) /\ (EpochChanged' <=> EpochChanged)
    BY SMTT(60), Z3T(60), <2>1 DEF AfterClear, AfterSubmit, EpochChanged
  <2>6. (overtaken' = 0 => overtaken = 0 /\ ipc = "idle") /\ (Undisturbed' => Undisturbed)
    BY SMTT(60), Z3T(60), <2>1, <2>5 DEF Undisturbed
  <2>7. IdleInv' /\ FlapInv'
    BY ZenonT(60), <2>1, <2>2, <2>5, <2>6 DEF DataInv, IdleInv, FlapInv, ClearDoneInt
  <2>8. ASSUME AfterClear', Undisturbed', aborted' = 0, xfer_started' = 1,
               desc_issued' = {cur'}
        PROVE  /\ done_int' # 1 /\ ipc' # "done"
               /\ cs' = "run" => hw_desc' = cur'
    <3>1. IsLlm = 1 /\ overtaken' = 0
      BY ZenonT(60), <2>8 DEF Undisturbed
    <3>2. done_int' = 0 /\ ipc' = "idle" /\ cs = "stop"
      BY ZenonT(60), <2>1, <2>6, <3>1 DEF ClearDoneInt, DataInv, StopInv
    <3>3. NextDesc = cur
      BY SMTT(60), Z3T(60), <2>1, <2>8 DEF NextDesc, First
    <3> QED BY SMTT(60), Z3T(60), <2>1, <2>2, <3>2, <3>3
  <2>9. MoveInv'
    BY ZenonT(60), <2>1, <2>5, <2>6, <2>8 DEF DataInv, MoveInv
  <2> QED BY ZenonT(60), <2>3, <2>4, <2>7, <2>9 DEF DataInv
<1> QED BY ZenonT(60), <1>1, <1>2, <1>3, QuellsKeeps DEF Worker

\* The end of a hardware transfer keeps both invariants.
LEMMA HardwareKeeps ==
  ASSUME OrderInv, DataInv, Hardware
  PROVE  OrderInv' /\ DataInv'
<1>1. /\ cs = "run" /\ cs' \in {"stop", "err"}
      /\ UNCHANGED <<tpc, cur, cookie, start_epoch, result, configured, status, xfer_started,
                     aborted, desc_submitted, desc_issued, completed_cookie, lpc,
                     recovery_epoch, fpc, ipc, overtaken>>
  BY ZenonT(60)
     DEF Hardware, HwDone, HwAbort, thread, chan, errs, lists, compl, launch, device,
         others
<1>2. \/ done_int' = 1 /\ moved' = IF hw_desc = cur THEN 1 ELSE moved
      \/ UNCHANGED <<done_int, moved>>
  BY DEF Hardware, HwDone, HwAbort
<1>3. OrderInv'
  BY ZenonT(60), <1>1, OrderUntouched DEF ordered
<1>4. EpochInv' /\ StopInv'
  BY ZenonT(60), <1>1, <1>2 DEF DataInv, EpochInv, StopInv
<1>5. (AfterClear' <=> AfterClear) /\ (EpochChanged' <=> EpochChanged)
      /\ (Undisturbed' <=> Undisturbed)
  BY ZenonT(60), <1>1 DEF AfterClear, AfterSubmit, EpochChanged, Undisturbed
<1>6. IdleInv' /\ FlapInv'
  BY ZenonT(60), <1>1, <1>5 DEF DataInv, IdleInv, FlapInv
<1>7. MoveInv'
  BY <1>1, <1>2, <1>5 DEF DataInv, MoveInv
<1> QED BY ZenonT(60), <1>3, <1>4, <1>6, <1>7 DEF DataInv

\* An interrupt that arrives keeps both invariants.
LEMMA InterruptsKeeps ==
  ASSUME OrderInv, DataInv, Interrupts
  PROVE  OrderInv' /\ DataInv'
<1>1. /\ ipc = "idle" /\ LinkAlive
      /\ UNCHANGED <<tpc, cur, cookie, start_epoch, result, configured, status, xfer_started,
                     desc_submitted, desc_issued, completed_cookie, lpc, cs, hw_desc, moved,
                     recovery_epoch, fpc>>
  BY ZenonT(60)
     DEF Interrupts, DoneInterrupt, AbortInterrupt, thread, chan, lists, compl,
         launch, device
<1>2. \/ /\ done_int = 1 /\ done_int' = 0 /\ ipc' = "done"
         /\ UNCHANGED <<aborted, overtaken>>
      \/ /\ done_int' \in {done_int, 0} /\ (cs = "err" => done_int' = 0)
         /\ aborted' = 1 /\ ipc' = "abort"
         /\ overtaken' = IF cs = "err" THEN overtaken ELSE 1
  BY DEF Interrupts, DoneInterrupt, AbortInterrupt, AcknowledgeAbort, errs
<1>3. OrderInv'
  BY ZenonT(60), <1>1, OrderUntouched DEF ordered
<1>4. EpochInv' /\ StopInv'
  BY SMTT(60), Z3T(60), <1>1, <1>2 DEF DataInv, EpochInv, StopInv
<1>5. (AfterClear' <=> AfterClear) /\ (EpochChanged' <=> EpochChanged)
  BY SMTT(60), Z3T(60), <1>1 DEF AfterClear, AfterSubmit, EpochChanged
<1>6. (overtaken' = 0 => overtaken = 0) /\ (Undisturbed' => Undisturbed)
  BY SMTT(60), Z3T(60), <1>2, <1>5 DEF Undisturbed
<1>7. IdleInv'
  BY SMTT(60), Z3T(60), <1>1, <1>2, <1>5, <1>6 DEF DataInv, IdleInv
<1>8. FlapInv'
  BY ZenonT(60), <1>1, <1>5, <1>6 DEF FlapInv, LinkAlive
<1>9. MoveInv'
  BY SMTT(60), Z3T(60), <1>1, <1>2, <1>5, <1>6 DEF DataInv, MoveInv
<1> QED BY ZenonT(60), <1>3, <1>4, <1>7, <1>8, <1>9 DEF DataInv

\* Completing the head of desc_issued: every descriptor left has a later cookie, and the
\* thread's own descriptor, the latest, is the head only when it is the only one.
LEMMA HeadCompletes ==
  ASSUME OrderInv, CompleteHead, desc_issued # {}
  PROVE  /\ completed_cookie' \in desc_issued /\ completed_cookie < completed_cookie'
         /\ desc_issued' = desc_issued \ {completed_cookie'}
         /\ desc_completed' = desc_completed \union {completed_cookie'}
         /\ completed_cookie' \in 1 .. cur
         /\ \A d \in desc_issued' : completed_cookie' < d
         /\ completed_cookie' = cur => desc_issued = {cur}
<1>1. desc_issued \in SUBSET Nat
  BY SMTT(60), Z3T(60) DEF OrderInv
<1>2. /\ completed_cookie' = First(desc_issued)
      /\ desc_issued' = desc_issued \ {completed_cookie'}
      /\ desc_completed' = desc_completed \union {completed_cookie'}
  BY DEF CompleteHead
<1>3. completed_cookie' \in desc_issued /\ \A y \in desc_issued : completed_cookie' <= y
  BY SMTT(60), Z3T(60), <1>1, <1>2, FirstIsLeast
<1>4. completed_cookie' \in 1 .. cur /\ completed_cookie < completed_cookie'
  BY <1>3 DEF OrderInv
<1>5. ASSUME NEW d \in desc_issued' PROVE completed_cookie' < d
  <2>1. d \in Nat /\ completed_cookie' \in Nat /\ completed_cookie' <= d /\ d # completed_cookie'
    BY <1>1, <1>2, <1>3, <1>4
  <2> QED BY <2>1
<1>6. ASSUME completed_cookie' = cur PROVE desc_issued = {cur}
  <2>1. ASSUME NEW y \in desc_issued PROVE y = cur
    <3>1. y \in 1 .. cur /\ cur <= y /\ cur \in Nat
      BY <1>3, <1>6, SMTT(60), Z3T(60) DEF OrderInv
    <3> QED BY SMTT(60), Z3T(60), <3>1
  <2> QED BY <1>3, <1>6, <2>1
<1> QED BY SMTT(60), Z3T(60), <1>2, <1>3, <1>4, <1>5, <1>6

\* A completion keeps the order.
LEMMA CompletionKeepsOrder ==
  ASSUME OrderInv, CompleteHead, desc_issued # {},
         UNCHANGED <<tpc, cur, cookie, desc_submitted>>
  PROVE  OrderInv'
<1>1. /\ completed_cookie' \in desc_issued /\ completed_cookie < completed_cookie'
      /\ desc_issued' = desc_issued \ {completed_cookie'}
      /\ completed_cookie' \in 1 .. cur
      /\ \A d \in desc_issued' : completed_cookie' < d
  BY ZenonT(60), HeadCompletes
<1>2. \A d \in desc_submitted : completed_cookie' < d
  BY SMTT(60), Z3T(60), <1>1 DEF OrderInv
<1>3. BeforeSubmit => completed_cookie' < cur
  BY <1>1 DEF OrderInv
<1>4. (BeforeSubmit' <=> BeforeSubmit) /\ (AfterSubmit' <=> AfterSubmit)
  BY SMTT(60), Z3T(60) DEF BeforeSubmit, AfterSubmit
<1>5. completed_cookie' \in Nat /\ completed_cookie' <= cur
  BY <1>1, SMTT(60), Z3T(60) DEF OrderInv
<1>6. tpc = "complete" => cookie <= completed_cookie'
  BY SMTT(60), Z3T(60), <1>1, <1>5 DEF OrderInv
<1>7. desc_issued' \subseteq desc_issued
  BY <1>1
<1> QED BY <1>1, <1>2, <1>3, <1>4, <1>5, <1>6, <1>7, ZenonT(60) DEF OrderInv

\* The handlers keep both invariants: a Done interrupt completes the thread's descriptor
\* only after the hardware has moved it, an Abort interrupt has marked the transfer.
LEMMA HandlerKeeps ==
  ASSUME OrderInv, DataInv, Handler
  PROVE  OrderInv' /\ DataInv'
<1>. USE DEF thread, errs, lists, hw, launch, device
<1>1. CASE DoneLocked
  <2>1. \/ xfer_started = 1 /\ desc_issued # {} /\ CompleteHead
        \/ UNCHANGED <<desc_issued, completed_cookie>>
    BY <1>1, ZenonT(60) DEF DoneLocked, CompleteDone, compl
  <2>2. /\ ipc = "done" /\ ipc' = "idle" /\ xfer_started' # 1
        /\ UNCHANGED <<tpc, cur, cookie, start_epoch, result, configured, aborted,
                       desc_submitted, lpc, cs, hw_desc, done_int, moved, recovery_epoch,
                       fpc, overtaken>>
    BY <1>1, SMTT(60), Z3T(60) DEF DoneLocked, CompleteDone
  <2>3. OrderInv'
    BY <2>1, <2>2, CompletionKeepsOrder, OrderUntouched, ZenonT(60) DEF ordered
  <2>4. EpochInv' /\ StopInv' /\ IdleInv'
    BY ZenonT(60), <2>2 DEF DataInv, EpochInv, StopInv, IdleInv
  <2>5. (AfterClear' <=> AfterClear) /\ (Undisturbed' <=> Undisturbed)
    BY ZenonT(60), <2>2 DEF AfterClear, AfterSubmit, EpochChanged, Undisturbed
  <2>6. FlapInv'
    BY <2>2, <2>5, ZenonT(60) DEF DataInv, FlapInv
  <2>7. ASSUME AfterClear, Undisturbed, aborted = 0, completed_cookie' = cur
        PROVE  moved = 1
    BY <2>1, <2>2, <2>7, HeadCompletes, ZenonT(60) DEF DataInv, MoveInv
  <2>8. MoveInv'
    BY <2>2, <2>5, <2>7, SMTT(60), Z3T(60) DEF DataInv, MoveInv
  <2> QED BY <2>3, <2>4, <2>6, <2>8, ZenonT(60) DEF DataInv
<1>2. CASE AbortLocked
  <2>1. \/ desc_issued # {} /\ CompleteHead
        \/ UNCHANGED <<desc_issued, completed_cookie>>
    BY <1>2, ZenonT(60) DEF AbortLocked, compl
  <2>2. /\ ipc = "abort" /\ ipc' = "unlocked"
        /\ UNCHANGED <<tpc, cur, cookie, start_epoch, result, configured, status,
                       xfer_started, aborted, desc_submitted, lpc, cs, hw_desc, done_int,
                       moved, recovery_epoch, fpc, overtaken>>
    BY <1>2, ZenonT(60) DEF AbortLocked, chan
  <2>3. OrderInv'
    BY <2>1, <2>2, CompletionKeepsOrder, OrderUntouched, ZenonT(60) DEF ordered
  <2>4. EpochInv' /\ StopInv' /\ IdleInv'
    BY <2>2, ZenonT(60) DEF DataInv, EpochInv, StopInv, IdleInv
  <2>5. (AfterClear' <=> AfterClear) /\ (Undisturbed' <=> Undisturbed)
    BY <2>2, ZenonT(60) DEF AfterClear, AfterSubmit, EpochChanged, Undisturbed
  <2>6. FlapInv'
    BY <2>2, <2>5, ZenonT(60) DEF DataInv, FlapInv
  <2>7. MoveInv'
    BY <2>2, <2>5, SMTT(60), Z3T(60) DEF DataInv, MoveInv
  <2> QED BY ZenonT(60), <2>3, <2>4, <2>6, <2>7 DEF DataInv
<1>3. CASE AbortIdle
  <2>1. /\ ipc = "unlocked" /\ ipc' = "idle"
        /\ UNCHANGED <<tpc, cur, cookie, start_epoch, result, configured, xfer_started,
                       aborted, desc_submitted, desc_issued, completed_cookie, lpc, cs,
                       hw_desc, done_int, moved, recovery_epoch, fpc, overtaken>>
    BY ZenonT(60), <1>3 DEF AbortIdle, compl
  <2>2. OrderInv'
    BY <2>1, OrderUntouched, ZenonT(60) DEF ordered
  <2>3. EpochInv' /\ StopInv' /\ IdleInv'
    BY <2>1, ZenonT(60) DEF DataInv, EpochInv, StopInv, IdleInv
  <2>4. (AfterClear' <=> AfterClear) /\ (Undisturbed' <=> Undisturbed)
    BY <2>1, ZenonT(60) DEF AfterClear, AfterSubmit, EpochChanged, Undisturbed
  <2>5. FlapInv'
    BY <2>1, <2>4, ZenonT(60) DEF DataInv, FlapInv
  <2>6. MoveInv'
    BY <2>1, <2>4 DEF DataInv, MoveInv
  <2> QED BY <2>2, <2>3, <2>5, <2>6 DEF DataInv
<1> QED BY <1>1, <1>2, <1>3 DEF Handler

\* The tasklet touches neither invariant.
LEMMA TaskletKeeps ==
  ASSUME OrderInv, DataInv, Tasklet
  PROVE  OrderInv' /\ DataInv'
<1>1. UNCHANGED tracked
  BY ZenonT(60)
     DEF Tasklet, TaskletStart, Callback, TaskletEnd, tracked, thread, chan, errs,
         lists, compl, launch, hw, device, others
<1> QED BY ZenonT(60), <1>1, TrackedUntouched

-----------------------------------------------------------------------------
\* Both invariants hold at the start and are kept by every step of Next.
LEMMA InvCorrect == Spec => [](OrderInv /\ DataInv)
<1>1. Init => OrderInv /\ DataInv
  BY
     DEF Init, OrderInv, DataInv, EpochInv, StopInv, IdleInv, FlapInv, MoveInv,
         BeforeSubmit, AfterSubmit, AfterClear
<1>2. OrderInv /\ DataInv /\ [Next]_vars => (OrderInv /\ DataInv)'
  <2>. SUFFICES ASSUME OrderInv, DataInv, [Next]_vars PROVE OrderInv' /\ DataInv'
    OBVIOUS
  <2>1. CASE UNCHANGED vars
    <3>1. UNCHANGED tracked
      BY <2>1
         DEF vars, tracked, thread, chan, errs, lists, compl, launch, hw, device, others
    <3> QED BY ZenonT(60), <3>1, TrackedUntouched
  <2>2. CASE Next
    BY ZenonT(60), <2>2, ThreadKeeps, TerminateKeeps, WorkerKeeps, TaskletKeeps,
       HardwareKeeps, InterruptsKeeps, HandlerKeeps, ResetKeeps, FlapKeeps, ZenonT(60)
       DEF Next
  <2> QED BY <2>1, <2>2
<1> QED BY <1>1, <1>2, PTL DEF Spec

\* A transfer over a linked list that is reported complete has moved its data, for every
\* number of transfers, resets, link flaps and engine cycles (dw_edma_sg_process).
THEOREM TransferCorrect == Spec => []CompletedIsMoved
<1>1. DataInv => CompletedIsMoved
  BY DEF DataInv, MoveInv, Undisturbed, CompletedIsMoved
<1> QED BY <1>1, InvCorrect, PTL

\* desc_completed grows by a completion only.
NothingNew == desc_completed' \in {desc_completed, {}}

\* Who adds to desc_completed: the two handlers, and nobody else.
LEMMA OnlyHandlersComplete ==
  ASSUME Next
  PROVE  NothingNew \/ (desc_issued # {} /\ CompleteHead)
<1>. USE DEF NothingNew, compl, Shared
<1>1. CASE RunTransfer \/ MapFailed \/ Configure \/ ReadEpoch \/ Gate \/ Prep
  BY <1>1, ZenonT(60) DEF RunTransfer, MapFailed, Configure, ReadEpoch, Gate, Prep
<1>2. CASE ClearFlags \/ Submit \/ IssuePending \/ Conclude \/ Returned
  BY <1>2, ZenonT(60) DEF ClearFlags, Submit, IssuePending, Conclude, Returned
<1>3. CASE WaitEnds \/ Guard \/ SignalDrain \/ LateCallback
  BY <1>3, ZenonT(60) DEF WaitEnds, Guard, SignalDrain, LateCallback
<1>4. CASE LateRewait \/ LateFlush \/ Grace \/ Stuck \/ Final
  BY <1>4, SMTT(60), Z3T(60) DEF LateRewait, LateFlush, Grace, Stuck, Final
<1>5. ASSUME NEW p \in Callers, TerminateAll(p) PROVE NothingNew
  <2>1. CASE TermCancel(p) \/ TermSync(p) \/ TermDrain(p)
    BY <2>1, ZenonT(60) DEF TermCancel, TermSync, TermDrain, DrainLists
  <2>2. CASE TermLock(p)
    BY <2>2, ZenonT(60)
       DEF TermLock, TermNotConfigured, TermIdle, TermStopped, TermForce, TermRequest
  <2> QED BY <1>5, <2>1, <2>2, ZenonT(60) DEF TerminateAll
<1>6. CASE Worker \/ Tasklet \/ Hardware \/ Interrupts
  BY <1>6, ZenonT(60)
     DEF Worker, LaunchStart, LaunchPrepare, LaunchDoorbell, Tasklet, TaskletStart,
         Callback, TaskletEnd, Hardware, HwDone, HwAbort, Interrupts, DoneInterrupt,
         AbortInterrupt
<1>7. CASE Handler
  BY <1>7, SMTT(60), Z3T(60)
     DEF Handler, DoneLocked, CompleteDone, AbortLocked, AbortIdle
<1>8. CASE ResetStart \/ Reset \/ PeerCycle \/ PeerNotify
  BY <1>8, ZenonT(60)
     DEF ResetStart, Reset, ResetState, ResetHwErr, ResetSync, ResetDrain, DrainLists,
         ResetLive, PeerCycle, PeerNotify
<1>9. CASE FlapDead \/ Flap
  BY <1>9, ZenonT(60)
     DEF FlapDead, Flap, FlapDown, FlapEpoch, FlapHwErr, FlapReinit, FlapLive
<1> QED BY <1>1, <1>2, <1>3, <1>4, <1>5, <1>6, <1>7, <1>8, <1>9, ZenonT(60)
           DEF Next, Thread

\* A descriptor completes once and in the order of the cookies, for every number of
\* transfers and faults (vchan_cookie_complete from the Done and Abort interrupts).
THEOREM CompletionCorrect == Spec => CompletedOnce
<1>1. OrderInv /\ [Next]_vars
      => [\A d \in desc_completed' \ desc_completed : d > completed_cookie]_vars
  <2>. SUFFICES ASSUME OrderInv, Next
                PROVE  \A d \in desc_completed' \ desc_completed : d > completed_cookie
    OBVIOUS
  <2>1. CASE NothingNew
    BY <2>1, ZenonT(60) DEF NothingNew
  <2>2. CASE desc_issued # {} /\ CompleteHead
    <3>1. /\ completed_cookie < completed_cookie'
          /\ desc_completed' = desc_completed \union {completed_cookie'}
          /\ completed_cookie' \in 1 .. cur
      BY <2>2, HeadCompletes
    <3> QED BY ZenonT(60), <3>1 DEF OrderInv
  <2> QED BY <2>1, <2>2, OnlyHandlersComplete
<1> QED BY <1>1, InvCorrect, PTL DEF Spec, CompletedOnce
=============================================================================
