--------------------------- MODULE PermFailWindow ---------------------------
(***************************************************************************)
(* When failed recoveries add up to PERM_FAIL: perm_fail_check of          *)
(* modules/rt/dxrt_drv_recovery.c against the clock.  Module Recovery      *)
(* leaves the expiry of the window open; here jiffies is a number.         *)
(***************************************************************************)
EXTENDS Naturals, Sequences

CONSTANTS Window,       \* dxrt_perm_fail_window_ms, in ticks
          MaxRetries,   \* dxrt_perm_fail_max_retries
          MaxTime,      \* bound on jiffies
          MaxFailures   \* bound on the failures

ASSUME ConstantsAssumption ==
  /\ Window \in Nat /\ MaxRetries \in Nat \ {0}
  /\ MaxTime \in Nat /\ MaxFailures \in Nat

VARIABLES
  jiffies,
  perm_fail_window_start,
  perm_fail_count_in_window,
  state,        \* dev_state: "PERM_FAIL", or "other"
  failures      \* the times of the failed recoveries, in order

vars == <<jiffies, perm_fail_window_start, perm_fail_count_in_window, state,
          failures>>

TypeOK ==
  /\ jiffies \in Nat
  /\ perm_fail_window_start \in Nat
  /\ perm_fail_count_in_window \in Nat
  /\ state \in {"PERM_FAIL", "other"}
  /\ failures \in Seq(Nat)

\* dxrt_recovery_state_init
Init ==
  /\ jiffies = 0 /\ perm_fail_window_start = 0
  /\ perm_fail_count_in_window = 0
  /\ state = "other" /\ failures = <<>>

Tick ==
  /\ jiffies < MaxTime /\ jiffies' = jiffies + 1
  /\ UNCHANGED <<perm_fail_window_start, perm_fail_count_in_window, state,
                 failures>>

Expired == jiffies > perm_fail_window_start + Window

\* Fault: an expired window does not reset the count.
perm_fail_check_accumulates ==
  /\ state # "PERM_FAIL"
  /\ Len(failures) < MaxFailures
  /\ failures' = Append(failures, jiffies)
  /\ perm_fail_window_start' =
       IF Expired THEN jiffies ELSE perm_fail_window_start
  /\ perm_fail_count_in_window' = perm_fail_count_in_window + 1
  /\ state' = IF perm_fail_count_in_window' >= MaxRetries
                THEN "PERM_FAIL" ELSE state
  /\ UNCHANGED jiffies

\* A failed recovery; the readiness worker does not run in PERM_FAIL.
perm_fail_check ==
  /\ state # "PERM_FAIL"
  /\ Len(failures) < MaxFailures
  /\ failures' = Append(failures, jiffies)
  /\ perm_fail_window_start' =
       IF Expired THEN jiffies ELSE perm_fail_window_start
  /\ perm_fail_count_in_window' =
       IF Expired THEN 1 ELSE perm_fail_count_in_window + 1
  /\ state' = IF perm_fail_count_in_window' >= MaxRetries
                THEN "PERM_FAIL" ELSE state
  /\ UNCHANGED jiffies

\* dxrt_recovery_device takes the device out; the window is left as it is.
Leave ==
  /\ state = "PERM_FAIL" /\ state' = "other"
  /\ UNCHANGED <<jiffies, perm_fail_window_start, perm_fail_count_in_window,
                 failures>>

Next == Tick \/ perm_fail_check \/ Leave

Spec == Init /\ [][Next]_vars

-----------------------------------------------------------------------------
(* Properties. *)

\* The last n failures, at the latest of which it is time t, all happened
\* within one window.
Burst(fs, n, t) ==
  /\ n <= Len(fs)
  /\ \A i \in 1 .. Len(fs) : i > Len(fs) - n => fs[i] + Window >= t

\* The device is given up only after MaxRetries failures within one window:
\* failures that are further apart never add up (perm_fail_check).
PermFailNeedsBurst ==
  [][state # "PERM_FAIL" /\ state' = "PERM_FAIL" =>
       Burst(failures', MaxRetries, jiffies)]_vars

=============================================================================
