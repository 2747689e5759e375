------------------------------ MODULE MCTables ------------------------------
(***************************************************************************)
(* Four small machines of the drivers that share nothing, in one model for *)
(* TLC: the window of failed recoveries, the window of link recoveries,    *)
(* the list of scheduler options and the ring of responses.  A behaviour   *)
(* follows one of them, chosen at the start.                               *)
(***************************************************************************)
EXTENDS PermFailWindow, TLC

CONSTANTS StormWindow, StormTime, MaxInWindow, Cooldown,
          Callers, Bounds, NoBound, NQueues, MaxRef, MaxFaults,
          Readers, PoolSize, MaxResponses, MaxRecoveries

ASSUME TablesAssumption ==
  /\ StormWindow \in Nat /\ MaxInWindow \in Nat
  /\ NQueues \in Nat
  /\ PoolSize \in Nat \ {0} /\ MaxResponses \in Nat

VARIABLES
  machine,
  recovery_window_start, recovery_count_in_window, rate_limit_cooldown_until,
  health, work, attempts,
  sched, enabled, fw_queue, pc, sub_cmd, bound, queue, faults,
  pool, responses, header, pending, sent, taken, rpc, recovery, recoveries

Rate  == INSTANCE RateWindow WITH Window <- StormWindow, MaxTime <- StormTime
Sched == INSTANCE Sched
Resp  == INSTANCE ResponseQueue

rateVars == <<recovery_window_start, recovery_count_in_window,
              rate_limit_cooldown_until, health, work, attempts>>
permVars == <<perm_fail_window_start, perm_fail_count_in_window, state, failures>>
schedVars == <<sched, enabled, fw_queue, pc, sub_cmd, bound, queue, faults>>
respVars == <<pool, responses, header, pending, sent, taken, rpc, recovery,
              recoveries>>
mcVars   == <<machine, jiffies, permVars, rateVars, schedVars, respVars>>

MCInit ==
  /\ machine \in {"perm_fail", "rate", "sched", "responses"}
  /\ Init /\ Rate!Init /\ Sched!Init /\ Resp!Init

PermFail == machine = "perm_fail" /\ Next /\ UNCHANGED <<machine, rateVars, schedVars, respVars>>

RateStep == machine = "rate" /\ Rate!Next /\ UNCHANGED <<machine, permVars, schedVars, respVars>>

SchedStep == machine = "sched" /\ Sched!Next /\ UNCHANGED <<machine, vars, rateVars, respVars>>

RespStep == machine = "responses" /\ Resp!Next /\ UNCHANGED <<machine, vars, rateVars, schedVars>>

\* The bound on jiffies ends a behaviour of a window.
ClockEnds ==
  /\ \/ machine = "perm_fail" /\ jiffies = MaxTime
     \/ machine = "rate" /\ jiffies = StormTime
  /\ UNCHANGED mcVars

MCNext == PermFail \/ RateStep \/ SchedStep \/ RespStep \/ ClockEnds

MCSpec == MCInit /\ [][MCNext]_mcVars

Symmetry == Permutations(Callers) \cup Permutations(Bounds)

-----------------------------------------------------------------------------
\* RateWindow: dx_dma_recovery_rate_ok limits a recovery storm.
StormLimited == Rate!StormLimited

\* Sched: an ADD is refused with -EBUSY only when every queue is taken.
BusyMeansFull == Sched!BusyMeansFull

\* ResponseQueue: pool, list and header implement a bounded FIFO.
ImplementsFifo == Resp!ImplementsFifo
=============================================================================
