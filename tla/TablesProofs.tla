---------------------------- MODULE TablesProofs ----------------------------
(***************************************************************************)
(* Theorems about the four small machines of MCTables, for every value of  *)
(* their constants.                                                        *)
(***************************************************************************)
EXTENDS MCTables, Integers, TLAPS, SequenceTheorems, WellFoundedInduction

-----------------------------------------------------------------------------
(* PermFailWindow *)

\* The failures that are counted are the last ones, and none of them is older
\* than the window.
CountInv ==
  /\ TypeOK
  /\ perm_fail_window_start <= jiffies
  /\ perm_fail_count_in_window <= Len(failures)
  /\ \A i \in 1 .. Len(failures) :
       i > Len(failures) - perm_fail_count_in_window =>
         failures[i] >= perm_fail_window_start

\* The counter of perm_fail_check counts the most recent failures.
LEMMA CountCorrect == Spec => []CountInv
<1>. USE ConstantsAssumption DEF CountInv, TypeOK
<1>1. Init => CountInv
  BY DEF Init
<1>2. CountInv /\ [Next]_vars => CountInv'
  <2>. SUFFICES ASSUME CountInv, [Next]_vars PROVE CountInv'
    OBVIOUS
  <2>1. CASE Tick
    BY <2>1 DEF Tick
  <2>2. CASE perm_fail_check
    <3>1. /\ failures' \in Seq(Nat) /\ Len(failures') = Len(failures) + 1
          /\ failures'[Len(failures) + 1] = jiffies
          /\ \A i \in 1 .. Len(failures) : failures'[i] = failures[i]
      BY <2>2 DEF perm_fail_check
    <3>2. TypeOK'
      BY SMTT(60), Z3T(60), <2>2, <3>1 DEF perm_fail_check
    <3>3. CASE Expired
      BY <2>2, <3>1, <3>2, <3>3, SMTT(60), Z3T(60) DEF perm_fail_check
    <3>4. CASE ~Expired
      BY <2>2, <3>1, <3>2, <3>4, SMTT(60), Z3T(60) DEF perm_fail_check
    <3>. QED
      BY ZenonT(60), <3>3, <3>4
  <2>3. CASE Leave
    BY <2>3 DEF Leave
  <2>4. CASE UNCHANGED vars
    BY <2>4 DEF vars
  <2>. QED
    BY ZenonT(60), <2>1, <2>2, <2>3, <2>4 DEF Next
<1>. QED
  BY <1>1, <1>2, PTL DEF Spec

\* perm_fail_check gives the device up only after MaxRetries failures within
\* one window of time.
THEOREM BurstCorrect == Spec => PermFailNeedsBurst
<1>. USE ConstantsAssumption
<1>1. CountInv /\ [Next]_vars =>
        [state # "PERM_FAIL" /\ state' = "PERM_FAIL" =>
           Burst(failures', MaxRetries, jiffies)]_vars
  <2>. SUFFICES ASSUME CountInv, perm_fail_check, state' = "PERM_FAIL"
                PROVE  Burst(failures', MaxRetries, jiffies)
    BY DEF Next, Tick, Leave, vars
  <2>. USE DEF CountInv, TypeOK, perm_fail_check
  <2>1. /\ Len(failures') = Len(failures) + 1
        /\ failures'[Len(failures) + 1] = jiffies
        /\ \A i \in 1 .. Len(failures) : failures'[i] = failures[i]
    OBVIOUS
  <2>2. perm_fail_count_in_window' >= MaxRetries
    OBVIOUS
  <2>3. CASE Expired
    BY <2>1, <2>2, <2>3, SMTT(60), Z3T(60) DEF Burst
  <2>4. CASE ~Expired
    <3>1. MaxRetries <= perm_fail_count_in_window + 1
      BY SMTT(60), Z3T(60), <2>2, <2>4
    <3>2. jiffies <= perm_fail_window_start + Window
      BY <2>4 DEF Expired
    <3>3. MaxRetries <= Len(failures')
      BY SMTT(60), Z3T(60), <2>1, <3>1
    <3>4. ASSUME NEW i \in 1 .. Len(failures'), i > Len(failures') - MaxRetries
          PROVE  failures'[i] + Window >= jiffies
      <4>1. CASE i = Len(failures) + 1
        BY SMTT(60), Z3T(60), <2>1, <4>1
      <4>2. CASE i \in 1 .. Len(failures)
        <5>1. i > Len(failures) - perm_fail_count_in_window
          BY SMTT(60), Z3T(60), <2>1, <3>1, <3>4
        <5>2. failures[i] >= perm_fail_window_start /\ failures[i] \in Nat
          BY SMTT(60), Z3T(60), <4>2, <5>1
        <5>. QED
          BY SMTT(60), Z3T(60), <2>1, <3>2, <4>2, <5>2
      <4>. QED
        BY SMTT(60), Z3T(60), <2>1, <4>1, <4>2
    <3>. QED
      BY SMTT(60), Z3T(60), <3>3, <3>4 DEF Burst
  <2>. QED
    BY SMTT(60), Z3T(60), <2>3, <2>4
<1>. QED
  BY <1>1, CountCorrect, PTL DEF Spec, PermFailNeedsBurst

-----------------------------------------------------------------------------
(* RateWindow *)

\* The attempts before the current window.
Uncounted == Len(attempts) - recovery_count_in_window

\* The counter and the window are in range.
WindowTypes ==
  /\ jiffies \in Nat /\ recovery_window_start \in Nat /\ attempts \in Seq(Nat)
  /\ recovery_count_in_window \in 0 .. MaxInWindow
  /\ recovery_window_start <= jiffies /\ Uncounted >= 0

\* The attempt i against the current window: a counted one is in it, one that is
\* not counted was made before it, and one that is MaxInWindow earlier still was
\* made before the window in front of it.
Placed(i) ==
  /\ attempts[i] <= recovery_window_start + StormWindow
  /\ i > Uncounted => attempts[i] >= recovery_window_start
  /\ i <= Uncounted => attempts[i] < recovery_window_start
  /\ i <= Uncounted - MaxInWindow => attempts[i] + StormWindow < recovery_window_start

WindowInv ==
  /\ WindowTypes
  /\ \A i \in 1 .. Len(attempts) : Placed(i)
  /\ StormLimited

\* A step of the clock, of the health worker or of the recovery work.
LEMMA WindowStep ==
  ASSUME WindowInv, [Rate!Next]_(Rate!vars)
  PROVE  WindowInv'
<1> USE TablesAssumption
<1>0. /\ Len(attempts) \in Nat /\ Len(attempts) - recovery_count_in_window >= 0
      /\ recovery_window_start \in Nat /\ recovery_count_in_window \in 0 .. MaxInWindow
      /\ jiffies \in Nat /\ recovery_window_start <= jiffies /\ attempts \in Seq(Nat)
  BY DEF WindowInv, WindowTypes, Uncounted
<1>1. ASSUME NEW i \in 1 .. Len(attempts) PROVE Placed(i) /\ attempts[i] \in Nat
  BY SMTT(60), Z3T(60), <1>0 DEF WindowInv
<1>2. CASE Rate!Tick \/ Rate!CooldownCheck \/ Rate!Schedule \/ Rate!Limited \/ UNCHANGED Rate!vars
  <2>1. UNCHANGED <<Rate!window, attempts>> /\ jiffies' \in Nat /\ jiffies' >= jiffies
    BY <1>0, <1>2, SMTT(60), Z3T(60)
       DEF Rate!Tick, Rate!CooldownCheck, Rate!Schedule, Rate!Limited, Rate!vars
  <2> QED
    BY SMTT(60), Z3T(60), <1>0, <2>1
       DEF WindowInv, WindowTypes, Uncounted, Rate!window, Placed, StormLimited,
           Rate!StormLimited, Rate!AtMost
<1>3. CASE Rate!Attempt
  <2>1. /\ attempts' \in Seq(Nat) /\ Len(attempts') = Len(attempts) + 1
        /\ attempts'[Len(attempts) + 1] = jiffies /\ jiffies' = jiffies
        /\ \A i \in 1 .. Len(attempts) : attempts'[i] = attempts[i]
    BY <1>0, <1>3, SMTT(60), Z3T(60) DEF Rate!Attempt
  <2>2. /\ Rate!CountNow \in Nat /\ Rate!CountNow < MaxInWindow
        /\ recovery_count_in_window' = Rate!CountNow + 1
        /\ recovery_window_start' = IF Rate!Expired THEN jiffies ELSE recovery_window_start
    BY SMTT(60), Z3T(60), <1>0, <1>3 DEF Rate!Attempt, Rate!CountNow, Rate!RestartWindow
  <2>3. WindowTypes'
    BY <1>0, <2>1, <2>2, SMTT(60), Z3T(60) DEF WindowTypes, Uncounted, Rate!CountNow
  <2>4. ASSUME NEW i \in 1 .. Len(attempts) PROVE Placed(i)'
    <3>1. Placed(i) /\ attempts'[i] = attempts[i] /\ attempts[i] \in Nat
      BY ZenonT(60), <1>1, <2>1
    <3>2. CASE Rate!Expired
      <4>1. recovery_window_start' = jiffies /\ Uncounted' = Len(attempts)
        BY <1>0, <2>1, <2>2, <3>2 DEF Uncounted, Rate!CountNow
      <4>2. /\ Uncounted \in Int /\ Uncounted >= Len(attempts) - MaxInWindow
            /\ jiffies > recovery_window_start + StormWindow
        BY SMTT(60), Z3T(60), <1>0, <3>2 DEF Uncounted, Rate!Expired
      <4> QED BY <1>0, <3>1, <4>1, <4>2, SMTT(60), Z3T(60) DEF Placed
    <3>3. CASE ~Rate!Expired
      <4>1. recovery_window_start' = recovery_window_start /\ Uncounted' = Uncounted
        BY <1>0, <2>1, <2>2, <3>3, SMTT(60), Z3T(60) DEF Uncounted, Rate!CountNow
      <4> QED BY ZenonT(60), <3>1, <4>1 DEF Placed
    <3> QED BY SMTT(60), Z3T(60), <3>2, <3>3
  <2>5. ASSUME NEW i, i = Len(attempts) + 1 PROVE Placed(i)'
    <3>1. /\ attempts'[i] = jiffies /\ jiffies >= recovery_window_start'
          /\ jiffies <= recovery_window_start' + StormWindow
      BY <1>0, <2>1, <2>2, <2>5, SMTT(60), Z3T(60) DEF Rate!Expired
    <3>2. ~(i <= Uncounted') /\ ~(i <= Uncounted' - MaxInWindow)
      BY <1>0, <2>1, <2>2, <2>5, SMTT(60), Z3T(60) DEF Uncounted
    <3> QED BY SMTT(60), Z3T(60), <3>1, <3>2 DEF Placed
  <2>6. ASSUME NEW i \in 1 .. Len(attempts) + 1, NEW j \in 1 .. Len(attempts) + 1,
               j = i + 2 * MaxInWindow
        PROVE  attempts'[j] > attempts'[i] + StormWindow
    <3>1. CASE j <= Len(attempts)
      <4>1. /\ i \in 1 .. Len(attempts) /\ j \in 1 .. Len(attempts)
            /\ DOMAIN attempts = 1 .. Len(attempts)
        BY SMTT(60), Z3T(60), <1>0, <2>6, <3>1
      <4>2. attempts[j] > attempts[i] + StormWindow
        BY ZenonT(60), <2>6, <4>1
           DEF WindowInv, StormLimited, Rate!StormLimited, Rate!AtMost
      <4> QED BY ZenonT(60), <2>1, <4>1, <4>2
    <3>2. CASE j = Len(attempts) + 1
      <4>1. i \in 1 .. Len(attempts) /\ i <= Uncounted' - MaxInWindow
        BY <1>0, <2>1, <2>2, <2>6, <3>2, SMTT(60), Z3T(60) DEF Uncounted
      <4>2. attempts'[i] + StormWindow < recovery_window_start'
        BY ZenonT(60), <2>4, <4>1 DEF Placed
      <4>3. recovery_window_start' <= jiffies /\ recovery_window_start' \in Nat
        BY SMTT(60), Z3T(60), <1>0, <2>2
      <4>4. attempts'[i] \in Nat /\ attempts'[j] = jiffies
        BY ZenonT(60), <1>1, <2>1, <3>2, <4>1
      <4> QED BY SMTT(60), Z3T(60), <1>0, <4>2, <4>3, <4>4
    <3> QED BY SMTT(60), Z3T(60), <1>0, <3>1, <3>2
  <2>7. StormLimited'
    BY <1>0, <2>1, <2>6, SMTT(60), Z3T(60)
       DEF StormLimited, Rate!StormLimited, Rate!AtMost
  <2>8. \A i \in 1 .. Len(attempts') : Placed(i)'
    BY SMTT(60), Z3T(60), <1>0, <2>1, <2>4, <2>5
  <2> QED BY <2>3, <2>7, <2>8, ZenonT(60) DEF WindowInv
<1>4. CASE Rate!Blocked
  <2>1. attempts' = attempts /\ jiffies' = jiffies
    BY SMTT(60), Z3T(60), <1>4 DEF Rate!Blocked
  <2>2. StormLimited'
    BY SMTT(60), Z3T(60), <2>1
       DEF WindowInv, StormLimited, Rate!StormLimited, Rate!AtMost
  <2>3. CASE UNCHANGED Rate!window
    BY ZenonT(60), <2>1, <2>2, <2>3
       DEF WindowInv, WindowTypes, Uncounted, Rate!window, Placed
  <2>4. CASE Rate!Expired /\ recovery_window_start' = jiffies /\ recovery_count_in_window' = 0
    <3>1. WindowTypes'
      BY <1>0, <2>1, <2>4, SMTT(60), Z3T(60) DEF WindowTypes, Uncounted
    <3>2. ASSUME NEW i \in 1 .. Len(attempts) PROVE Placed(i)'
      <4>1. Placed(i) /\ attempts[i] \in Nat
        BY <1>1
      <4>2. /\ Uncounted \in Int /\ Uncounted >= Len(attempts) - MaxInWindow
            /\ jiffies > recovery_window_start + StormWindow
        BY SMTT(60), Z3T(60), <1>0, <2>4 DEF Uncounted, Rate!Expired
      <4>3. Uncounted' = Len(attempts)
        BY SMTT(60), Z3T(60), <1>0, <2>1, <2>4 DEF Uncounted
      <4> QED BY <1>0, <2>1, <2>4, <4>1, <4>2, <4>3, SMTT(60), Z3T(60) DEF Placed
    <3> QED BY <2>1, <2>2, <3>1, <3>2, ZenonT(60) DEF WindowInv
  <2> QED BY <1>0, <1>4, <2>3, <2>4, ZenonT(60)
             DEF Rate!Blocked, Rate!CountNow, Rate!RestartWindow, Rate!window
<1> QED BY <1>2, <1>3, <1>4 DEF Rate!Next

\* dx_dma_recovery_rate_ok counts in windows that start with their first use, so
\* any window of time meets at most two of them: a recovery storm makes no more
\* than twice DX_RECOVERY_MAX_IN_WINDOW attempts in it.
THEOREM StormIsLimited == Rate!Spec => []StormLimited
<1> USE TablesAssumption
<1>1. Rate!Init => WindowInv
  BY
     DEF Rate!Init, WindowInv, WindowTypes, Uncounted, StormLimited,
         Rate!StormLimited, Rate!AtMost
<1>2. WindowInv /\ [Rate!Next]_(Rate!vars) => WindowInv'
  BY SMTT(60), Z3T(60), WindowStep
<1>3. WindowInv => StormLimited
  BY DEF WindowInv
<1> QED BY <1>1, <1>2, <1>3, PTL DEF Rate!Spec

-----------------------------------------------------------------------------
(* Sched *)

\* Mathematical induction, with the set of the numbers that have the property.
LEMMA Induction ==
  ASSUME NEW S, 0 \in S, \A n \in Nat : n \in S => n + 1 \in S
  PROVE  Nat \subseteq S
<1> SUFFICES ASSUME Nat \ S # {} PROVE FALSE
  OBVIOUS
<1>1. PICK x \in Nat \ S : \A y \in Nat \ S : ~ (<<y, x>> \in OpToRel(<, Nat))
  BY ZenonT(60), WFMin, NatLessThanWellFounded
<1>2. x - 1 \in Nat /\ (x - 1) + 1 = x /\ x - 1 < x
  OBVIOUS
<1>3. x - 1 \in S
  <2>1. SUFFICES ASSUME x - 1 \in Nat \ S PROVE FALSE
    BY <1>2
  <2>2. ~ (<<x - 1, x>> \in OpToRel(<, Nat))
    BY ZenonT(60), <1>1, <2>1
  <2>3. <<x - 1, x>> \in OpToRel(<, Nat)
    BY <1>2 DEF OpToRel
  <2> QED BY ZenonT(60), <2>2, <2>3
<1> QED BY SMTT(60), Z3T(60), <1>2, <1>3

\* What the list walk of add_queue_from_sched_op has counted after an entry.
Counted(m, i) == IF sched[i].queue = m[i - 1] THEN m[i - 1] + 1 ELSE m[i - 1]
Walk(m, n) == m[0] = 0 /\ \A i \in 1 .. n : m[i] = Counted(m, i)

\* The walk is well defined, however long the list.
LEMMA WalkExists == \A n \in Nat : \E m \in [0 .. n -> Nat] : Walk(m, n)
<1> DEFINE S == {n \in Nat : \E m \in [0 .. n -> Nat] : Walk(m, n)}
<1>1. 0 \in S
  <2> DEFINE m == [i \in 0 .. 0 |-> 0]
  <2>1. m \in [0 .. 0 -> Nat] /\ Walk(m, 0)
    BY DEF Walk
  <2> QED BY SMTT(60), Z3T(60), <2>1
<1>2. ASSUME NEW n \in Nat, n \in S PROVE n + 1 \in S
  <2>1. PICK m \in [0 .. n -> Nat] : Walk(m, n)
    BY SMTT(60), Z3T(60), <1>2
  <2> DEFINE w == [i \in 0 .. n + 1 |-> IF i = n + 1 THEN Counted(m, n + 1) ELSE m[i]]
  <2>2. Counted(m, n + 1) \in Nat
    BY DEF Counted
  <2>3. w \in [0 .. n + 1 -> Nat]
    BY SMTT(60), Z3T(60), <2>2
  <2>4. ASSUME NEW i \in 1 .. n + 1 PROVE w[i] = Counted(w, i)
    <3>1. w[i - 1] = m[i - 1]
      BY SMTT(60), Z3T(60)
    <3>2. Counted(w, i) = Counted(m, i)
      BY SMTT(60), Z3T(60), <3>1 DEF Counted
    <3>3. w[i] = Counted(m, i)
      BY SMTT(60), Z3T(60), <2>1 DEF Walk
    <3> QED BY ZenonT(60), <3>2, <3>3
  <2>5. Walk(w, n + 1)
    BY SMTT(60), Z3T(60), <2>1, <2>4 DEF Walk
  <2> QED BY SMTT(60), Z3T(60), <2>3, <2>5
<1> HIDE DEF S
<1>3. Nat \subseteq S
  BY ZenonT(60), <1>1, <1>2, Induction
<1> QED BY <1>3, ZenonT(60) DEF S

\* The counter at the end of the walk has passed only queues that are in use.
LEMMA WalkInUse ==
  ASSUME Len(sched) \in Nat
  PROVE  /\ Sched!MinAvailableQueue \in Nat
         /\ \A q \in Nat : q < Sched!MinAvailableQueue =>
              \E i \in 1 .. Len(sched) : sched[i].queue = q
<1> DEFINE L == Len(sched)
           F(m) == [i \in 0 .. L |->
                      IF i = 0 THEN 0
                      ELSE IF sched[i].queue = m[i - 1] THEN m[i - 1] + 1 ELSE m[i - 1]]
           w == CHOOSE m : m = F(m)
<1>1. Sched!MinAvailableQueue = w[L]
  BY SMTT(60), Z3T(60) DEF Sched!MinAvailableQueue
<1>2. w = F(w)
  <2>1. PICK g \in [0 .. L -> Nat] : Walk(g, L)
    BY SMTT(60), Z3T(60), WalkExists
  <2>2. \A i \in 0 .. L : g[i] = F(g)[i]
    BY SMTT(60), Z3T(60), <2>1 DEF Walk, Counted
  <2>3. g = F(g)
    BY ZenonT(60), <2>2
  <2> QED BY ZenonT(60), <2>3
<1> HIDE DEF w
<1>3. w[0] = 0 /\ \A i \in 1 .. L : w[i] = Counted(w, i)
  BY SMTT(60), Z3T(60), <1>2 DEF Counted
<1> DEFINE Taken(q) == \E i \in 1 .. L : sched[i].queue = q
           S == {n \in Nat : n <= L => /\ w[n] \in Nat
                                       /\ \A q \in Nat : q < w[n] => Taken(q)}
<1> HIDE DEF Taken
<1>4. 0 \in S
  BY SMTT(60), Z3T(60), <1>3
<1>5. ASSUME NEW n \in Nat, n \in S PROVE n + 1 \in S
  <2> SUFFICES ASSUME n + 1 <= L
               PROVE  w[n + 1] \in Nat /\ \A q \in Nat : q < w[n + 1] => Taken(q)
    OBVIOUS
  <2>1. w[n] \in Nat /\ \A q \in Nat : q < w[n] => Taken(q)
    BY SMTT(60), Z3T(60), <1>5
  <2>2. w[n + 1] = IF sched[n + 1].queue = w[n] THEN w[n] + 1 ELSE w[n]
    BY SMTT(60), Z3T(60), <1>3 DEF Counted
  <2>3. CASE sched[n + 1].queue = w[n]
    <3>1. Taken(w[n])
      BY SMTT(60), Z3T(60), <2>3 DEF Taken
    <3> QED BY SMTT(60), Z3T(60), <2>1, <2>2, <2>3, <3>1
  <2>4. CASE sched[n + 1].queue # w[n]
    BY ZenonT(60), <2>1, <2>2, <2>4
  <2> QED BY ZenonT(60), <2>3, <2>4
<1> HIDE DEF S
<1>6. L \in S
  BY ZenonT(60), <1>4, <1>5, Induction
<1> QED BY SMTT(60), Z3T(60), <1>1, <1>6 DEF S, Taken

\* The list is a list of entries, and their queues are request queues.
Entries == [bound : Bounds \cup {NoBound}, ref_cnt : Nat, queue : Sched!Queues]
SchedInv == sched \in Seq(Entries) /\ bound \in [Callers -> Bounds \cup {NoBound}]

\* A call of dxrt_schedule leaves a list of entries.
LEMMA ListStep ==
  ASSUME SchedInv, [Sched!Next]_(Sched!vars)
  PROVE  SchedInv'
<1> USE DEF SchedInv
<1>1. ASSUME NEW p \in Callers, Sched!AddNew(p) PROVE SchedInv'
  <2>1. Sched!MinAvailableQueue \in Sched!Queues
    <3>1. Sched!MinAvailableQueue \in Nat
      BY SMTT(60), Z3T(60), WalkInUse
    <3>2. Sched!MinAvailableQueue < NQueues
      BY ZenonT(60), <1>1 DEF Sched!AddNew
    <3> QED BY SMTT(60), Z3T(60), <3>1, <3>2, TablesAssumption DEF Sched!Queues
  <2>2. [bound |-> bound[p], ref_cnt |-> 1, queue |-> Sched!MinAvailableQueue] \in Entries
    BY SMTT(60), Z3T(60), <2>1 DEF Entries
  <2> QED BY SMTT(60), Z3T(60), <1>1, <2>2 DEF Sched!AddNew
<1>2. ASSUME NEW i \in DOMAIN sched, NEW n \in Nat,
             sched' = [sched EXCEPT ![i].ref_cnt = n]
      PROVE  sched' \in Seq(Entries)
  <2>1. i \in 1 .. Len(sched) /\ sched[i] \in Entries
    BY ElementOfSeq
  <2>2. [sched[i] EXCEPT !.ref_cnt = n] \in Entries
    BY <2>1, ZenonT(60) DEF Entries
  <2>3. sched' = [sched EXCEPT ![i] = [sched[i] EXCEPT !.ref_cnt = n]]
    BY ZenonT(60), <1>2
  <2> QED BY ZenonT(60), <2>1, <2>2, <2>3, ExceptSeq
<1>3. ASSUME NEW i \in DOMAIN sched, sched' = Sched!Unlink(i)
      PROVE  sched' \in Seq(Entries)
  <2>1. i \in 1 .. Len(sched) /\ Len(sched) \in Nat
    BY SMTT(60), Z3T(60)
  <2>2. SubSeq(sched, 1, i - 1) \in Seq(Entries) /\ SubSeq(sched, i + 1, Len(sched)) \in Seq(Entries)
    BY SMTT(60), Z3T(60), <2>1, SubSeqProperties
  <2> QED BY ZenonT(60), <1>3, <2>2, ConcatProperties DEF Sched!Unlink
<1>4. ASSUME NEW p \in Callers, Sched!AddExisting(p) \/ Sched!DeleteShared(p) PROVE SchedInv'
  <2>1. PICK i \in Sched!Matching(bound[p]), n \in Nat : sched' = [sched EXCEPT ![i].ref_cnt = n]
    <3>1. \A i \in Sched!Matching(bound[p]) : i \in DOMAIN sched /\ sched[i].ref_cnt \in Nat
      <4>1. \A i \in 1 .. Len(sched) : sched[i] \in Entries
        BY SMTT(60), Z3T(60), ElementOfSeq
      <4>2. \A e \in Entries : e.ref_cnt \in Nat
        BY DEF Entries
      <4> QED BY SMTT(60), Z3T(60), <4>1, <4>2 DEF Sched!Matching
    <3>2. CASE Sched!AddExisting(p)
      <4>1. PICK i \in Sched!Matching(bound[p]) : sched' = [sched EXCEPT ![i].ref_cnt = @ + 1]
        BY <3>2, ZenonT(60) DEF Sched!AddExisting
      <4>2. sched[i].ref_cnt + 1 \in Nat
        BY SMTT(60), Z3T(60), <3>1
      <4> QED BY ZenonT(60), <4>1, <4>2
    <3>3. CASE Sched!DeleteShared(p)
      <4>1. PICK i \in Sched!Matching(bound[p]) :
              sched[i].ref_cnt > 1 /\ sched' = [sched EXCEPT ![i].ref_cnt = @ - 1]
        BY <3>3, ZenonT(60) DEF Sched!DeleteShared
      <4>2. sched[i].ref_cnt - 1 \in Nat
        BY SMTT(60), Z3T(60), <3>1, <4>1
      <4> QED BY ZenonT(60), <4>1, <4>2
    <3> QED BY ZenonT(60), <1>4, <3>2, <3>3
  <2>2. sched' \in Seq(Entries)
    BY <1>2, <2>1, ZenonT(60) DEF Sched!Matching
  <2> QED BY ZenonT(60), <1>4, <2>2
             DEF Sched!AddExisting, Sched!DeleteShared, Sched!Return
<1>5. ASSUME NEW p \in Callers, Sched!DeleteLast(p) PROVE SchedInv'
  <2>1. PICK i \in Sched!Matching(bound[p]) : sched' = Sched!Unlink(i)
    BY ZenonT(60), <1>5 DEF Sched!DeleteLast
  <2> QED BY ZenonT(60), <1>3, <1>5, <2>1 DEF Sched!DeleteLast, Sched!Matching
<1>6. ASSUME NEW p \in Callers,
             \/ Sched!Enter(p) \/ Sched!AddBusy(p) \/ Sched!GetQueue(p) \/ Sched!GetFails(p)
             \/ Sched!DeleteFails(p) \/ Sched!DisableQueue(p) \/ Sched!SendAcked(p)
             \/ Sched!SendFails(p)
      PROVE  SchedInv'
  BY ZenonT(60), <1>6
     DEF Sched!Enter, Sched!AddBusy, Sched!GetQueue, Sched!GetFails,
         Sched!DeleteFails, Sched!DisableQueue, Sched!SendAcked, Sched!SendFails,
         Sched!Return, Sched!table
<1>7. CASE Sched!Clear
  BY SMTT(60), Z3T(60), <1>7 DEF Sched!Clear, Sched!call
<1>8. CASE UNCHANGED Sched!vars
  BY <1>8 DEF Sched!vars, Sched!table, Sched!call
<1> QED BY <1>1, <1>4, <1>5, <1>6, <1>7, <1>8, ZenonT(60) DEF Sched!Next

\* add_queue_from_sched_op answers -EBUSY only when every request queue is
\* taken, whatever the order of the list (dxrt_sched.c), for any number of
\* queues, bounds and callers.
THEOREM BusyIsFull == Sched!Spec => BusyMeansFull
<1>1. Sched!Init => SchedInv
  BY DEF Sched!Init, SchedInv
<1>2. SchedInv /\ [Sched!Next]_(Sched!vars) => SchedInv'
  BY ZenonT(60), ListStep
<1>3. SchedInv => (\A p \in Callers : Sched!AddBusy(p) => Sched!InUse = Sched!Queues)
  <2> SUFFICES ASSUME SchedInv, NEW p \in Callers, Sched!AddBusy(p)
               PROVE  Sched!InUse = Sched!Queues
    OBVIOUS
  <2>1. Len(sched) \in Nat /\ DOMAIN sched = 1 .. Len(sched)
    BY SMTT(60), Z3T(60) DEF SchedInv
  <2>2. ASSUME NEW i \in 1 .. Len(sched) PROVE sched[i].queue \in Sched!Queues
    <3>1. sched[i] \in Entries
      BY ZenonT(60), ElementOfSeq DEF SchedInv
    <3> QED BY ZenonT(60), <3>1 DEF Entries
  <2>3. ASSUME NEW q \in Sched!Queues PROVE \E i \in 1 .. Len(sched) : sched[i].queue = q
    <3>1. Sched!MinAvailableQueue >= NQueues
      BY DEF Sched!AddBusy
    <3>2. q \in Nat /\ q < NQueues
      BY SMTT(60), Z3T(60), TablesAssumption DEF Sched!Queues
    <3> QED BY SMTT(60), Z3T(60), <2>1, <3>1, <3>2, WalkInUse, TablesAssumption
  <2> QED BY <2>1, <2>2, <2>3, ZenonT(60) DEF Sched!InUse
<1> QED
  BY <1>1, <1>2, <1>3, PTL DEF Sched!Spec, BusyMeansFull, Sched!BusyMeansFull

-----------------------------------------------------------------------------
(* ResponseQueue *)

\* The slot of the i-th response of the list, counted back from the header.
SlotOf(i) ==
  LET k == header - Len(responses) + i - 1 IN IF k >= 0 THEN k ELSE k + PoolSize

\* The list holds the slots in front of the header, in pool order.
RespInv ==
  /\ pool \in [0 .. PoolSize - 1 -> Nat] /\ responses \in Seq(0 .. PoolSize - 1)
  /\ header \in 0 .. PoolSize /\ sent \in Nat /\ Len(responses) <= PoolSize
  /\ \A i \in 1 .. Len(responses) : responses[i] = SlotOf(i)

\* list_del_init of an entry that is not linked.
LEMMA UnlinkAbsent ==
  ASSUME NEW s, responses \in Seq(0 .. PoolSize - 1),
         \A i \in 1 .. Len(responses) : responses[i] # s
  PROVE  Resp!Unlink(s) = responses
<1>1. Resp!Links(s) = {}
  BY DEF Resp!Links
<1> QED BY SMTT(60), Z3T(60), <1>1 DEF Resp!Unlink

\* list_del_init of the first entry.
LEMMA UnlinkFirst ==
  ASSUME NEW s, responses \in Seq(0 .. PoolSize - 1), responses # <<>>, responses[1] = s,
         \A i \in 2 .. Len(responses) : responses[i] # s
  PROVE  Resp!Unlink(s) = Tail(responses)
<1>1. Resp!Links(s) = {1}
  BY DEF Resp!Links
<1>2. Resp!Unlink(s) = SubSeq(responses, 1, 0) \o SubSeq(responses, 2, Len(responses))
  BY <1>1, SMTT(60), Z3T(60) DEF Resp!Unlink
<1>3. /\ SubSeq(responses, 1, 0) = <<>>
      /\ SubSeq(responses, 2, Len(responses)) = Tail(responses)
  BY SubSeqEmpty, TailIsSubSeq
<1>4. Tail(responses) \in Seq(0 .. PoolSize - 1)
  OBVIOUS
<1> QED BY SMTT(60), Z3T(60), <1>2, <1>3, <1>4

\* What the reader sees is a sequence of responses.
LEMMA ResponsesAreSeq ==
  ASSUME RespInv
  PROVE  /\ Resp!Queue \in Seq(Nat) /\ Len(Resp!Queue) = Len(responses)
         /\ \A i \in 1 .. Len(responses) : Resp!Queue[i] = pool[responses[i]]
<1>1. Resp!Queue = [i \in 1 .. Len(responses) |-> pool[responses[i]]]
  BY SMTT(60), Z3T(60) DEF Resp!Queue, RespInv
<1>2. ASSUME NEW i \in 1 .. Len(responses) PROVE pool[responses[i]] \in Nat
  <2>1. responses[i] \in 0 .. PoolSize - 1
    BY ElementOfSeq, ZenonT(60) DEF RespInv
  <2> QED BY SMTT(60), Z3T(60), <2>1 DEF RespInv
<1> QED BY <1>1, <1>2, IsASeq, SMTT(60), Z3T(60) DEF RespInv

\* A slot is linked at most once, and the next one of the pool only when the list
\* is full, as its first entry.
LEMMA NextSlot ==
  ASSUME RespInv
  PROVE  LET s == header % PoolSize IN
           /\ s \in 0 .. PoolSize - 1
           /\ Len(responses) < PoolSize =>
                \A i \in 1 .. Len(responses) : responses[i] # s
           /\ Len(responses) = PoolSize =>
                /\ responses # <<>> /\ responses[1] = s
                /\ \A i \in 2 .. Len(responses) : responses[i] # s
<1>1. /\ PoolSize \in Nat \ {0} /\ header \in 0 .. PoolSize /\ Len(responses) \in Nat
      /\ Len(responses) <= PoolSize
      /\ \A i \in 1 .. Len(responses) : responses[i] = SlotOf(i)
  BY SMTT(60), Z3T(60), TablesAssumption DEF RespInv
<1>2. header % PoolSize = IF header = PoolSize THEN 0 ELSE header
  BY SMTT(60), Z3T(60), <1>1
<1>3. ASSUME NEW i \in 1 .. Len(responses), Len(responses) < PoolSize \/ i > 1
      PROVE  responses[i] # header % PoolSize
  BY <1>1, <1>2, <1>3, SMTT(60), Z3T(60) DEF SlotOf
<1>4. ASSUME Len(responses) = PoolSize
      PROVE  responses # <<>> /\ responses[1] = header % PoolSize
  BY <1>1, <1>2, <1>4, SMTT(60), Z3T(60) DEF SlotOf
<1> QED BY SMTT(60), Z3T(60), <1>1, <1>2, <1>3, <1>4

\* What a FIFO that drops its oldest entry when it is full keeps.
Kept == IF Len(responses) < PoolSize THEN responses ELSE Tail(responses)

\* That is what the list is after the next slot has been unlinked.
LEMMA UnlinkKeeps ==
  ASSUME RespInv
  PROVE  /\ Resp!Unlink(header % PoolSize) = Kept
         /\ Kept \in Seq(0 .. PoolSize - 1) /\ Len(Kept) < PoolSize
         /\ \A i \in 1 .. Len(Kept) : Kept[i] # header % PoolSize
<1>1. /\ responses \in Seq(0 .. PoolSize - 1) /\ Len(responses) \in Nat
      /\ PoolSize \in Nat \ {0} /\ Len(responses) <= PoolSize
  BY SMTT(60), Z3T(60), TablesAssumption DEF RespInv
<1>2. CASE Len(responses) < PoolSize
  <2>1. \A i \in 1 .. Len(responses) : responses[i] # header % PoolSize
    BY ZenonT(60), <1>2, NextSlot
  <2>2. Resp!Unlink(header % PoolSize) = responses
    BY ZenonT(60), <1>1, <2>1, UnlinkAbsent
  <2> QED BY <1>1, <1>2, <2>1, <2>2, ZenonT(60) DEF Kept
<1>3. CASE Len(responses) = PoolSize
  <2>1. /\ responses # <<>> /\ responses[1] = header % PoolSize
        /\ \A i \in 2 .. Len(responses) : responses[i] # header % PoolSize
    BY ZenonT(60), <1>3, NextSlot
  <2>2. Resp!Unlink(header % PoolSize) = Tail(responses)
    BY ZenonT(60), <1>1, <2>1, UnlinkFirst
  <2>3. /\ Tail(responses) \in Seq(0 .. PoolSize - 1)
        /\ Len(Tail(responses)) = Len(responses) - 1
        /\ \A i \in 1 .. Len(responses) - 1 : Tail(responses)[i] = responses[i + 1]
    BY SMTT(60), Z3T(60), <1>1, <2>1
  <2>4. Kept = Tail(responses)
    BY <1>1, <1>3, SMTT(60), Z3T(60) DEF Kept
  <2>5. ASSUME NEW i \in 1 .. Len(Kept) PROVE Kept[i] # header % PoolSize
    <3>1. i + 1 \in 2 .. Len(responses) /\ Kept[i] = responses[i + 1]
      BY SMTT(60), Z3T(60), <1>1, <2>3, <2>4
    <3> QED BY ZenonT(60), <2>1, <3>1
  <2> QED BY SMTT(60), Z3T(60), <1>1, <1>3, <2>2, <2>3, <2>4, <2>5
<1> QED BY SMTT(60), Z3T(60), <1>1, <1>2, <1>3

\* dx_pcie_enqueue_response puts the response at the end of the FIFO.
LEMMA EnqueueStep ==
  ASSUME RespInv, Resp!Enqueue
  PROVE  RespInv' /\ Resp!Fifo!Next
<1> DEFINE s == header % PoolSize
<1>1. /\ responses \in Seq(0 .. PoolSize - 1) /\ Len(responses) \in Nat
      /\ PoolSize \in Nat \ {0} /\ MaxResponses \in Nat /\ Len(responses) <= PoolSize
      /\ pool \in [0 .. PoolSize - 1 -> Nat] /\ sent \in Nat
      /\ header \in 0 .. PoolSize
      /\ \A i \in 1 .. Len(responses) : responses[i] = SlotOf(i)
  BY SMTT(60), Z3T(60), TablesAssumption DEF RespInv
<1>2. /\ Resp!Unlink(s) = Kept
      /\ Kept \in Seq(0 .. PoolSize - 1) /\ Len(Kept) < PoolSize
      /\ \A i \in 1 .. Len(Kept) : Kept[i] # s
  BY SMTT(60), Z3T(60), UnlinkKeeps
<1>3. s \in 0 .. PoolSize - 1 /\ s = IF header = PoolSize THEN 0 ELSE header
  <2>1. PoolSize \in Nat \ {0} /\ header \in 0 .. PoolSize
    BY ZenonT(60), <1>1
  <2> QED BY SMTT(60), Z3T(60), <2>1
<1> HIDE DEF s
<1>4. /\ sent < MaxResponses /\ sent' = sent + 1 /\ header' = s + 1
      /\ pool' = [pool EXCEPT ![s] = sent + 1] /\ responses' = Append(Kept, s)
  BY ZenonT(60), <1>2 DEF Resp!Enqueue, s
<1>5. /\ responses' \in Seq(0 .. PoolSize - 1) /\ Len(responses') = Len(Kept) + 1
      /\ \A i \in 1 .. Len(Kept) : responses'[i] = Kept[i]
      /\ responses'[Len(Kept) + 1] = s /\ Len(Kept) \in Nat
  BY SMTT(60), Z3T(60), <1>2, <1>3, <1>4
<1> DEFINE d == Len(responses) - Len(Kept)
<1>6. ASSUME NEW i \in 1 .. Len(Kept)
      PROVE  i + d \in 1 .. Len(responses) /\ Kept[i] = responses[i + d]
  <2>1. CASE Len(responses) < PoolSize
    BY <1>1, <2>1, SMTT(60), Z3T(60) DEF Kept
  <2>2. CASE ~(Len(responses) < PoolSize)
    <3>1. Kept = Tail(responses) /\ responses # <<>>
      BY SMTT(60), Z3T(60), <1>1, <2>2 DEF Kept
    <3>2. Len(Kept) = Len(responses) - 1 /\ Kept[i] = responses[i + 1]
      BY SMTT(60), Z3T(60), <1>1, <3>1
    <3>3. d = 1
      BY SMTT(60), Z3T(60), <1>1, <3>2
    <3> QED BY SMTT(60), Z3T(60), <1>1, <1>5, <3>2, <3>3
  <2> QED BY ZenonT(60), <2>1, <2>2
<1> HIDE DEF d
<1>7. ASSUME NEW i \in 1 .. Len(responses') PROVE responses'[i] = SlotOf(i)'
  <2>1. SlotOf(i)' = LET k == s - Len(Kept) + i - 1 IN
                       IF k >= 0 THEN k ELSE k + PoolSize
    <3>1. header' = s + 1 /\ Len(responses') = Len(Kept) + 1 /\ Len(Kept) \in Nat
      BY ZenonT(60), <1>4, <1>5
    <3>2. header' - Len(responses') + i - 1 = s - Len(Kept) + i - 1
      BY SMTT(60), Z3T(60), <1>3, <3>1
    <3> QED BY SMTT(60), Z3T(60), <3>2 DEF SlotOf
  <2>2. CASE i = Len(Kept) + 1
    BY <1>3, <1>5, <2>1, <2>2
  <2>3. CASE i \in 1 .. Len(Kept)
    <3>1. i + d \in 1 .. Len(responses) /\ responses'[i] = responses[i + d]
      BY ZenonT(60), <1>5, <1>6, <2>3
    <3>2. header - Len(responses) + (i + d) - 1 = header - Len(Kept) + i - 1
      BY <1>1, <1>5, <2>3, SMTT(60), Z3T(60) DEF d
    <3>3. responses'[i] = LET k == header - Len(Kept) + i - 1 IN
                            IF k >= 0 THEN k ELSE k + PoolSize
      BY <1>1, <3>1, <3>2, ZenonT(60) DEF SlotOf
    <3>4. /\ PoolSize \in Nat \ {0} /\ header \in 0 .. PoolSize
          /\ Len(Kept) \in Nat /\ Len(Kept) < PoolSize
      BY ZenonT(60), <1>1, <1>2, <1>5
    <3>5. (LET k == header - Len(Kept) + i - 1 IN IF k >= 0 THEN k ELSE k + PoolSize)
          = (LET k == s - Len(Kept) + i - 1 IN IF k >= 0 THEN k ELSE k + PoolSize)
      BY SMTT(60), Z3T(60), <1>3, <2>3, <3>4
    <3> QED BY SMTT(60), Z3T(60), <2>1, <3>3, <3>5
  <2> QED BY SMTT(60), Z3T(60), <1>5, <2>2, <2>3
<1>8. RespInv'
  BY <1>1, <1>2, <1>3, <1>4, <1>5, <1>7, SMTT(60), Z3T(60) DEF RespInv
<1>9. Resp!Fifo!Put(sent + 1)
  <2> DEFINE Q == Resp!Queue
             D == IF Len(Q) < PoolSize THEN Q ELSE Tail(Q)
  <2>1. /\ Q \in Seq(Nat) /\ Len(Q) = Len(responses)
        /\ \A i \in 1 .. Len(responses) : Q[i] = pool[responses[i]]
    BY ZenonT(60), ResponsesAreSeq
  <2>2. /\ D \in Seq(Nat) /\ Len(D) = Len(Kept)
        /\ \A i \in 1 .. Len(Kept) : D[i] = Q[i + d]
    <3>1. CASE Len(responses) < PoolSize
      BY <1>1, <2>1, <3>1, SMTT(60), Z3T(60) DEF Kept, d
    <3>2. CASE ~(Len(responses) < PoolSize)
      <4>1. responses # <<>> /\ Kept = Tail(responses) /\ D = Tail(Q) /\ Q # <<>>
        BY <1>1, <2>1, <3>2, SMTT(60), Z3T(60) DEF Kept
      <4>2. Len(Kept) = Len(responses) - 1 /\ d = 1
        BY SMTT(60), Z3T(60), <1>1, <4>1 DEF d
      <4> QED BY SMTT(60), Z3T(60), <1>1, <2>1, <4>1, <4>2
    <3> QED BY ZenonT(60), <3>1, <3>2
  <2>3. /\ Q' \in Seq(Nat) /\ Len(Q') = Len(Kept) + 1
        /\ \A i \in 1 .. Len(Kept) + 1 : Q'[i] = pool'[responses'[i]]
    <3>1. (/\ Q \in Seq(Nat) /\ Len(Q) = Len(responses)
           /\ \A i \in 1 .. Len(responses) : Q[i] = pool[responses[i]])'
      BY <1>8, ResponsesAreSeq, PTL
    <3> QED BY ZenonT(60), <1>5, <3>1
  <2> HIDE DEF Q, D
  <2>4. ASSUME NEW i \in 1 .. Len(Kept) PROVE Q'[i] = D[i]
    <3>1. D[i] = pool[Kept[i]]
      BY ZenonT(60), <1>6, <2>1, <2>2
    <3>2. i \in 1 .. Len(Kept) + 1 /\ responses'[i] = Kept[i]
      BY SMTT(60), Z3T(60), <1>5
    <3>3. Q'[i] = pool'[Kept[i]]
      BY ZenonT(60), <2>3, <3>2
    <3>4. Kept[i] # s /\ Kept[i] \in 0 .. PoolSize - 1
      BY ZenonT(60), <1>2, ElementOfSeq
    <3>5. pool'[Kept[i]] = pool[Kept[i]]
      BY ZenonT(60), <1>1, <1>4, <3>4
    <3> QED BY ZenonT(60), <3>1, <3>3, <3>5
  <2>5. Q'[Len(Kept) + 1] = sent + 1
    <3>1. Len(Kept) + 1 \in 1 .. Len(Kept) + 1
      BY SMTT(60), Z3T(60), <1>5
    <3>2. pool'[s] = sent + 1
      BY ZenonT(60), <1>1, <1>3, <1>4
    <3> QED BY ZenonT(60), <1>5, <2>3, <3>1, <3>2
  <2>6. Q' = Append(D, sent + 1)
    <3>1. /\ Append(D, sent + 1) \in Seq(Nat) /\ Len(Append(D, sent + 1)) = Len(Kept) + 1
          /\ \A i \in 1 .. Len(Kept) : Append(D, sent + 1)[i] = D[i]
          /\ Append(D, sent + 1)[Len(Kept) + 1] = sent + 1
      BY SMTT(60), Z3T(60), <1>1, <1>5, <2>2
    <3>2. \A i \in 1 .. Len(Q') : Q'[i] = Append(D, sent + 1)[i]
      BY SMTT(60), Z3T(60), <1>5, <2>3, <2>4, <2>5, <3>1
    <3> QED BY ZenonT(60), <2>3, <3>1, <3>2, SeqEqual
  <2> QED BY SMTT(60), Z3T(60), <2>6 DEF Resp!Fifo!Put, Q, D
<1>10. sent + 1 \in 1 .. MaxResponses
  BY SMTT(60), Z3T(60), <1>1, <1>4
<1> QED BY <1>8, <1>9, <1>10, ZenonT(60) DEF Resp!Fifo!Next

\* dx_pcie_dequeue_response takes the first response of the FIFO.
LEMMA DequeueStep ==
  ASSUME RespInv, responses # <<>>, responses' = Tail(responses),
         UNCHANGED <<pool, header, sent>>
  PROVE  RespInv' /\ Resp!Fifo!Next
<1>1. /\ responses \in Seq(0 .. PoolSize - 1) /\ Len(responses) \in Nat
      /\ Len(responses) > 0
      /\ \A i \in 1 .. Len(responses) : responses[i] = SlotOf(i)
  BY SMTT(60), Z3T(60) DEF RespInv
<1>2. /\ responses' \in Seq(0 .. PoolSize - 1) /\ Len(responses') = Len(responses) - 1
      /\ \A i \in 1 .. Len(responses) - 1 : responses'[i] = responses[i + 1]
  BY SMTT(60), Z3T(60), <1>1
<1>3. ASSUME NEW i \in 1 .. Len(responses') PROVE responses'[i] = SlotOf(i)'
  <2>1. responses'[i] = SlotOf(i + 1)
    BY SMTT(60), Z3T(60), <1>1, <1>2
  <2>2. header' - Len(responses') + i - 1 = header - Len(responses) + (i + 1) - 1
    <3>1. header \in Int /\ header' = header
      BY SMTT(60), Z3T(60) DEF RespInv
    <3> QED BY SMTT(60), Z3T(60), <1>1, <1>2, <3>1
  <2> QED BY <2>1, <2>2, ZenonT(60) DEF SlotOf
<1>4. RespInv'
  BY <1>1, <1>2, <1>3, TablesAssumption, SMTT(60), Z3T(60) DEF RespInv
<1> DEFINE Q == Resp!Queue
<1>5. /\ Q \in Seq(Nat) /\ Len(Q) = Len(responses)
      /\ \A i \in 1 .. Len(responses) : Q[i] = pool[responses[i]]
  BY ZenonT(60), ResponsesAreSeq
<1>6. (/\ Q \in Seq(Nat) /\ Len(Q) = Len(responses)
       /\ \A i \in 1 .. Len(responses) : Q[i] = pool[responses[i]])'
  BY <1>4, ResponsesAreSeq, PTL
<1> HIDE DEF Q
<1>7. /\ Q # <<>> /\ Tail(Q) \in Seq(Nat) /\ Len(Tail(Q)) = Len(responses) - 1
      /\ \A i \in 1 .. Len(responses) - 1 : Tail(Q)[i] = Q[i + 1]
  BY SMTT(60), Z3T(60), <1>1, <1>5
<1>8. ASSUME NEW i \in 1 .. Len(responses) - 1 PROVE Q'[i] = Tail(Q)[i]
  <2>1. Q'[i] = pool[responses[i + 1]]
    BY ZenonT(60), <1>1, <1>2, <1>6
  <2>2. i + 1 \in 1 .. Len(responses)
    BY SMTT(60), Z3T(60), <1>1
  <2> QED BY ZenonT(60), <1>5, <1>7, <2>1, <2>2
<1>9. Q' = Tail(Q)
  BY ZenonT(60), <1>2, <1>6, <1>7, <1>8, SeqEqual
<1> QED BY <1>4, <1>7, <1>9, ZenonT(60) DEF Resp!Fifo!Next, Resp!Fifo!Take, Q

\* dx_pcie_clear_response_queue empties the FIFO.
LEMMA ClearStep ==
  ASSUME RespInv, responses' = <<>>, header' = 0, UNCHANGED <<pool, sent>>
  PROVE  RespInv' /\ Resp!Fifo!Next
<1>1. RespInv'
  BY SMTT(60), Z3T(60), TablesAssumption DEF RespInv
<1>2. Resp!Queue' = <<>>
  BY SMTT(60), Z3T(60) DEF Resp!Queue
<1> QED BY ZenonT(60), <1>1, <1>2 DEF Resp!Fifo!Next, Resp!Fifo!Clear

\* A step of the driver is a step of the FIFO, or leaves it alone.
LEMMA ResponseStep ==
  ASSUME RespInv, [Resp!Next]_(Resp!vars)
  PROVE  RespInv' /\ [Resp!Fifo!Next]_(Resp!Queue)
<1>1. CASE Resp!Enqueue
  BY ZenonT(60), <1>1, EnqueueStep
<1>2. ASSUME NEW r \in Readers, Resp!Dequeue(r)
      PROVE  RespInv' /\ [Resp!Fifo!Next]_(Resp!Queue)
  BY ZenonT(60), <1>2, DequeueStep DEF Resp!Dequeue
<1>3. CASE Resp!ClearQueue
  BY ZenonT(60), <1>3, ClearStep DEF Resp!ClearQueue
<1>4. CASE UNCHANGED Resp!list
  BY ZenonT(60), <1>4 DEF Resp!list, Resp!Queue, RespInv, SlotOf
<1>5. ASSUME NEW r \in Readers,
             \/ Resp!Enter(r) \/ Resp!Woken(r) \/ Resp!GiveUp(r)
             \/ Resp!DequeueEmpty(r) \/ Resp!Credit(r) \/ Resp!CreditRetry(r)
      PROVE  UNCHANGED Resp!list
  BY ZenonT(60), <1>5
     DEF Resp!Enter, Resp!Woken, Resp!GiveUp, Resp!DequeueEmpty, Resp!Credit,
         Resp!CreditRetry
<1>6. CASE Resp!RecoveryStart \/ Resp!ClearPending \/ Resp!RecoveryDone
  BY ZenonT(60), <1>4, <1>6 DEF Resp!RecoveryStart, Resp!ClearPending, Resp!RecoveryDone
<1>7. CASE UNCHANGED Resp!vars
  BY ZenonT(60), <1>4, <1>7 DEF Resp!vars
<1> QED BY ZenonT(60), <1>1, <1>2, <1>3, <1>4, <1>5, <1>6, <1>7 DEF Resp!Next

\* The pool, the list and the header of dx_message.c implement the bounded FIFO
\* that drops its oldest response when it is full, for any RES_POOL_SIZE.
THEOREM ResponsesAreFifo == Resp!Spec => ImplementsFifo
<1>1. Resp!Init => RespInv /\ Resp!Fifo!Init
  BY SMTT(60), Z3T(60), TablesAssumption
     DEF Resp!Init, Resp!Slots, RespInv, Resp!Fifo!Init, Resp!Queue
<1>2. RespInv /\ [Resp!Next]_(Resp!vars) => RespInv' /\ [Resp!Fifo!Next]_(Resp!Queue)
  BY ResponseStep
<1> QED
  BY <1>1, <1>2, PTL DEF Resp!Spec, ImplementsFifo, Resp!ImplementsFifo, Resp!Fifo!Spec

=============================================================================
