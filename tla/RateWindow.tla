----------------------------- MODULE RateWindow -----------------------------
(***************************************************************************)
(* The rate limit on link recoveries: dx_dma_recovery_rate_ok and          *)
(* dx_dma_recovery_rate_record_attempt of modules/pci_deepx/               *)
(* dx_link_health.c, as dx_dma_recovery_work_fn and the health worker use  *)
(* them against the clock.                                                 *)
(***************************************************************************)
EXTENDS Naturals, Sequences

CONSTANTS Window,         \* DX_RECOVERY_WINDOW_SECS, in ticks
          MaxInWindow,    \* DX_RECOVERY_MAX_IN_WINDOW
          Cooldown,       \* DX_RECOVERY_COOLDOWN_SECS, in ticks
          MaxTime         \* bound on jiffies

VARIABLES
  jiffies,
  recovery_window_start,
  recovery_count_in_window,
  rate_limit_cooldown_until,
  health,       \* the health worker: "idle", or past its cooldown check
  work,         \* recovery_work: "idle" or "queued"
  attempts      \* the times of the attempts, in order

window == <<recovery_window_start, recovery_count_in_window>>
vars   == <<jiffies, window, rate_limit_cooldown_until, health, work, attempts>>

Init ==
  /\ jiffies = 0
  /\ recovery_window_start = 0 /\ recovery_count_in_window = 0
  /\ rate_limit_cooldown_until = 0
  /\ health = "idle" /\ work = "idle"
  /\ attempts = <<>>

Tick ==
  /\ jiffies < MaxTime /\ jiffies' = jiffies + 1
  /\ UNCHANGED <<window, rate_limit_cooldown_until, health, work, attempts>>

\* dx_link_health_work_fn sees the link restored: the cooldown check, and
\* then, unless recovery_work is busy, the enqueueing.
CooldownCheck ==
  /\ health = "idle" /\ health' = "checked"
  /\ jiffies >= rate_limit_cooldown_until
  /\ UNCHANGED <<jiffies, window, rate_limit_cooldown_until, work, attempts>>

Schedule ==
  /\ health = "checked" /\ health' = "idle"
  /\ work' = "queued"
  /\ UNCHANGED <<jiffies, window, rate_limit_cooldown_until, attempts>>

Run == work = "queued" /\ work' = "idle"

Expired == jiffies > recovery_window_start + Window
CountNow == IF Expired THEN 0 ELSE recovery_count_in_window

RestartWindow == recovery_window_start' = IF Expired THEN jiffies
                                          ELSE recovery_window_start

\* Fault: the window is restarted by every attempt.
AttemptRestarts ==
  /\ Run
  /\ CountNow < MaxInWindow
  /\ recovery_window_start' = jiffies
  /\ recovery_count_in_window' = 1
  /\ attempts' = Append(attempts, jiffies)
  /\ UNCHANGED <<jiffies, rate_limit_cooldown_until, health>>

\* recovery_work: dx_dma_recovery_rate_ok restarts an expired window and
\* allows the attempt, which is recorded before the reinit.
Attempt ==
  /\ Run
  /\ CountNow < MaxInWindow
  /\ RestartWindow
  /\ recovery_count_in_window' = CountNow + 1
  /\ attempts' = Append(attempts, jiffies)
  /\ UNCHANGED <<jiffies, rate_limit_cooldown_until, health>>

\* A reset owns recovery by then (the window may have been restarted), or the
\* link is down again.
Blocked ==
  /\ Run
  /\ \/ UNCHANGED window
     \/ /\ CountNow < MaxInWindow
        /\ RestartWindow /\ recovery_count_in_window' = CountNow
  /\ UNCHANGED <<jiffies, rate_limit_cooldown_until, health, attempts>>

\* Rate limited: cool down.
Limited ==
  /\ Run
  /\ CountNow >= MaxInWindow
  /\ rate_limit_cooldown_until' = jiffies + Cooldown
  /\ UNCHANGED <<jiffies, window, health, attempts>>

Next == \/ Tick \/ CooldownCheck \/ Schedule
        \/ Attempt \/ Blocked \/ Limited

Spec == Init /\ [][Next]_vars

-----------------------------------------------------------------------------
(* Properties. *)

\* No more than n attempts within any window of time.
AtMost(n) ==
  \A i, j \in DOMAIN attempts : j = i + n => attempts[j] > attempts[i] + Window

\* A recovery storm is limited: a window of time sees no more than twice
\* MaxInWindow attempts, whatever the attempts and cooldowns before it.
StormLimited == AtMost(2 * MaxInWindow)

=============================================================================
