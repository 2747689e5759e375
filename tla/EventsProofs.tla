---------------------------- MODULE EventsProofs -----------------------------
(***************************************************************************)
(* For any number of readers and producers and any size of the buffer: the *)
(* circular buffer is a FIFO, no wakeup of event_wq is lost, a record the  *)
(* device announced is fetched, and no event waits while all readers sleep *)
(* in dx_pcie_interrupt_event.                                             *)
(***************************************************************************)
EXTENDS Events, SequenceTheorems, TLAPS

\* Somebody is about to wake event_wq.
EventWaking ==
  \/ ipc = "notify"
  \/ \E p \in Producers : ppc[p] # "idle"
  \/ vpc \in {"clear", "wake", "wake_end"}
  \/ \E r \in Readers : fpc[r] = "wake"

\* Without such a wakeup the sleepers of event_wq have nothing to wake up for.
SleepInv ==
  EventWaking \/ \A r \in Readers :
    /\ rpc[r] = "rec_sleep" => recovering = 1 /\ ~Terminating(r)
    /\ rpc[r] = "ev_sleep"  => count = 0 /\ recovering = 0 /\ ~Terminating(r)

\* Where the announcement of a record is on its way to the handler.
RecordInv ==
  record # 0 => \/ fw = "raise" \/ ipc = "fetch"
                \/ msi = 1 /\ (single = 1 => set_off = 1)
                \/ late = 1 \/ dropped = 1

\* The indices of the buffer.
RingInv == tail = IF head + count < QueueSize THEN head + count ELSE head + count - QueueSize

EventsInv == TypeOK /\ SleepInv /\ RecordInv /\ RingInv

\* The slot after s.
NextSlot(s) == IF s + 1 < QueueSize THEN s + 1 ELSE 0

\* ... which is how the indices move.
LEMMA NextSlotIs ==
  ASSUME NEW s \in Slots
  PROVE  (s + 1) % QueueSize = NextSlot(s) /\ NextSlot(s) \in Slots
<1> QED BY EventsAssumption, Z3T(30) DEF Slots, NextSlot

\* The slot of the i-th event from the head h.
At(h, i) == IF h + i - 1 < QueueSize THEN h + i - 1 ELSE h + i - 1 - QueueSize

\* ... which is where the readers look.
LEMMA SlotAt ==
  ASSUME NEW h \in Slots, NEW i \in 1 .. QueueSize
  PROVE  (h + i - 1) % QueueSize = At(h, i) /\ At(h, i) \in Slots
<1>1. (h + i - 1) % QueueSize = At(h, i)
  BY EventsAssumption, Z3T(30) DEF Slots, At
<1> QED BY <1>1, EventsAssumption DEF Slots, At

\* The slots of the events are distinct, and distinct from the one after them.
LEMMA SlotsApart ==
  ASSUME NEW h \in Slots, NEW n, n < QueueSize, n \in 0 .. QueueSize, NEW i \in 1 .. n
  PROVE  At(h, i) # At(h, n + 1)
BY EventsAssumption DEF Slots, At

\* The next event goes to the slot after the last one.
LEMMA TailSlot ==
  ASSUME head \in Slots, count \in 0 .. QueueSize, RingInv
  PROVE  tail = At(head, count + 1)
BY EventsAssumption DEF RingInv, Slots, At

\* The queue is a sequence of events.
QueueSeq ==
  /\ Queue \in Seq(0 .. MaxInputs) /\ Len(Queue) = count
  /\ \A i \in 1 .. count : Queue[i] = entries[At(head, i)]

\* Its i-th event is in the i-th slot from the head.
LEMMA QueueIsSeq == TypeOK => QueueSeq
<1> SUFFICES ASSUME TypeOK PROVE QueueSeq
  OBVIOUS
<1>1. \A i \in 1 .. count : /\ (head + i - 1) % QueueSize = At(head, i)
                            /\ entries[At(head, i)] \in 0 .. MaxInputs
  BY SlotAt, EventsAssumption, SMTT(60), Z3T(60) DEF TypeOK
<1>2. Queue \in [1 .. count -> 0 .. MaxInputs] /\ count \in Nat
  BY <1>1, SMTT(60), Z3T(60) DEF Queue, TypeOK
<1>3. Queue \in Seq(0 .. MaxInputs)
  BY ZenonT(60), <1>2, SeqDef
<1>4. Len(Queue) = count
  BY <1>2, <1>3, LenProperties
<1> QED BY <1>1, <1>3, <1>4, ZenonT(60) DEF Queue, QueueSeq

\* Storing an event appends it.
LEMMA PutAppends ==
  ASSUME TypeOK, TypeOK', RingInv, NEW m \in 0 .. MaxInputs, Put(m), count < QueueSize
  PROVE  Queue' = Append(Queue, m)
<1>1. /\ Queue \in Seq(0 .. MaxInputs) /\ Len(Queue) = count
      /\ \A i \in 1 .. count : Queue[i] = entries[At(head, i)]
  BY QueueIsSeq DEF QueueSeq
<1>2. /\ Queue' \in Seq(0 .. MaxInputs) /\ Len(Queue') = count'
      /\ \A i \in 1 .. count' : Queue'[i] = entries'[At(head', i)]
  <2>1. QueueSeq'
    BY QueueIsSeq, PTL
  <2> QED BY <2>1 DEF QueueSeq, At
<1>3. /\ Append(Queue, m) \in Seq(0 .. MaxInputs) /\ Len(Append(Queue, m)) = count + 1
      /\ \A i \in 1 .. count : Append(Queue, m)[i] = Queue[i]
      /\ Append(Queue, m)[count + 1] = m
  BY <1>1, AppendProperties
<1>4. count' = count + 1 /\ head' = head /\ entries' = [entries EXCEPT ![tail] = m]
  BY DEF Put
<1>5. ASSUME NEW i \in 1 .. count + 1 PROVE Queue'[i] = Append(Queue, m)[i]
  <2>1. CASE i = count + 1
    <3>1. At(head, i) = tail
      BY <2>1 DEF At, RingInv, TypeOK
    <3> QED BY <1>2, <1>3, <1>4, <2>1, <3>1, SMTT(60), Z3T(60) DEF TypeOK
  <2>2. CASE i # count + 1
    <3>1. i \in 1 .. count /\ At(head, i) # tail
      <4>1. count \in 0 .. QueueSize /\ head \in Slots
        BY ZenonT(60) DEF TypeOK
      <4>2. i \in 1 .. count
        BY <2>2, <4>1
      <4>3. tail = At(head, count + 1)
        BY <4>1, TailSlot, ZenonT(60)
      <4> QED BY <4>1, <4>2, <4>3, SlotsApart, ZenonT(60)
    <3>2. At(head, i) \in Slots
      BY <3>1, SlotAt, EventsAssumption DEF TypeOK
    <3> QED BY <1>1, <1>2, <1>3, <1>4, <3>1, <3>2 DEF TypeOK
  <2> QED BY ZenonT(60), <2>1, <2>2
<1> QED BY <1>2, <1>3, <1>4, <1>5, SeqEqual

\* Taking an event leaves the tail of the queue.
LEMMA TakeIsTail ==
  ASSUME TypeOK, TypeOK', Take
  PROVE  Queue # <<>> /\ Queue' = Tail(Queue)
<1>1. /\ Queue \in Seq(0 .. MaxInputs) /\ Len(Queue) = count
      /\ \A i \in 1 .. count : Queue[i] = entries[At(head, i)]
  BY QueueIsSeq DEF QueueSeq
<1>2. /\ Queue' \in Seq(0 .. MaxInputs) /\ Len(Queue') = count'
      /\ \A i \in 1 .. count' : Queue'[i] = entries'[At(head', i)]
  <2>1. QueueSeq'
    BY QueueIsSeq, PTL
  <2> QED BY <2>1 DEF QueueSeq, At
<1>3. Queue # <<>>
  BY <1>1, EmptySeq DEF Take
<1>4. /\ Tail(Queue) \in Seq(0 .. MaxInputs) /\ Len(Tail(Queue)) = count - 1
      /\ \A i \in 1 .. count - 1 : Tail(Queue)[i] = Queue[i + 1]
  BY <1>1, <1>3, HeadTailProperties
<1>5. count' = count - 1 /\ entries' = entries /\ head' = At(head, 2)
  <2>1. head' = NextSlot(head)
    BY NextSlotIs DEF Take, TypeOK
  <2>2. NextSlot(head) = At(head, 2)
    BY EventsAssumption DEF At, NextSlot, TypeOK, Slots
  <2> QED BY <2>1, <2>2 DEF Take
<1>6. \A i \in 1 .. count - 1 : At(head', i) = At(head, i + 1)
  BY <1>5, EventsAssumption DEF At, TypeOK, Slots
<1>7. \A i \in 1 .. count' : Queue'[i] = Tail(Queue)[i]
  BY <1>1, <1>2, <1>4, <1>5, <1>6
<1> QED BY <1>2, <1>3, <1>4, <1>5, <1>7, SeqEqual

\* The driver starts with an empty buffer and nobody asleep.
LEMMA InitEventsInv == Init => EventsInv
  BY EventsAssumption
     DEF Init, EventsInv, TypeOK, Flag, Slots, ReaderPc, SleepInv, EventWaking,
         RecordInv, RingInv, Terminating

\* Storing and taking keep the indices in the buffer.
LEMMA PutTypes ==
  ASSUME TypeOK, RingInv, NEW m \in 0 .. MaxInputs, Put(m)
  PROVE  /\ entries' \in [Slots -> 0 .. MaxInputs]
         /\ head' \in Slots /\ tail' \in Slots /\ count' \in 0 .. QueueSize /\ RingInv'
<1>1. (tail + 1) % QueueSize = NextSlot(tail) /\ NextSlot(tail) \in Slots
  BY NextSlotIs DEF TypeOK
<1>2. /\ entries' \in [Slots -> 0 .. MaxInputs]
      /\ head' \in Slots /\ count' \in 0 .. QueueSize
      /\ tail' = IF count < QueueSize THEN NextSlot(tail) ELSE tail
  BY <1>1, EventsAssumption DEF TypeOK, Put
<1>3. head' = head /\ count' = IF count < QueueSize THEN count + 1 ELSE count
  BY DEF Put
<1> QED BY <1>1, <1>2, <1>3, EventsAssumption DEF RingInv, NextSlot, TypeOK, Slots

\* ... and so does taking.
LEMMA TakeTypes ==
  ASSUME TypeOK, RingInv, Take
  PROVE  head' \in Slots /\ count' \in 0 .. QueueSize /\ RingInv'
<1>1. (head + 1) % QueueSize = NextSlot(head) /\ NextSlot(head) \in Slots
  BY NextSlotIs DEF TypeOK
<1>2. head' = NextSlot(head) /\ count > 0 /\ count' = count - 1 /\ tail' = tail
  BY <1>1, SMTT(60), Z3T(60) DEF Take
<1> QED BY <1>1, <1>2, EventsAssumption, SMTT(60), Z3T(60)
           DEF RingInv, NextSlot, TypeOK, Slots

\* Every step keeps the types and the indices.
LEMMA NextTypeOK == TypeOK /\ RingInv /\ [Next]_vars => TypeOK' /\ RingInv'
<1> SUFFICES ASSUME TypeOK, RingInv, [Next]_vars PROVE TypeOK' /\ RingInv'
  OBVIOUS
<1> USE DEF TypeOK, RingInv, Flag, ReaderPc, device, buffer, waiters, recovery
<1>1. CASE FwRecord
  <2>1. inputs' \in 0 .. MaxInputs /\ record' \in 0 .. MaxInputs
    BY <1>1, EventsAssumption DEF FwRecord, Input
  <2> QED BY <1>1, <2>1 DEF FwRecord
<1>2. CASE FwRaise
  BY <1>2 DEF FwRaise
<1>3. CASE IsrStart
  BY <1>3 DEF IsrStart
<1>4. CASE IsrFetch
  <2>1. Put(record) /\ record \in 0 .. MaxInputs
    BY <1>4, EventsAssumption DEF IsrFetch
  <2>2. /\ entries' \in [Slots -> 0 .. MaxInputs]
        /\ head' \in Slots /\ tail' \in Slots /\ count' \in 0 .. QueueSize /\ RingInv'
    BY <2>1, PutTypes
  <2>3. inputs' \in 0 .. MaxInputs /\ record' \in 0 .. MaxInputs
    BY <1>4, EventsAssumption, SMTT(60), Z3T(60) DEF IsrFetch
  <2> QED BY <1>4, <2>2, <2>3 DEF IsrFetch
<1>5. CASE IsrNotify
  BY <1>5, SMTT(60), Z3T(60) DEF IsrNotify, WakeEvents, Becomes
<1>6. CASE IsrIrq
  BY <1>6 DEF IsrIrq, Raise, Becomes
<1>7. CASE IsrClear
  BY <1>7 DEF IsrClear
<1>8. ASSUME NEW p \in Producers, Report(p) PROVE TypeOK' /\ RingInv'
  <2>1. Put(inputs + 1) /\ inputs + 1 \in 0 .. MaxInputs
    BY <1>8, EventsAssumption DEF Report, Input
  <2>2. /\ entries' \in [Slots -> 0 .. MaxInputs]
        /\ head' \in Slots /\ tail' \in Slots /\ count' \in 0 .. QueueSize /\ RingInv'
    BY <2>1, PutTypes
  <2>3. inputs' \in 0 .. MaxInputs /\ record' \in 0 .. MaxInputs
    BY <1>8, EventsAssumption, SMTT(60), Z3T(60) DEF Report, Input
  <2> QED BY <1>8, <2>2, <2>3 DEF Report, ProducerStep
<1>9. ASSUME NEW p \in Producers, ReportIrq(p) PROVE TypeOK' /\ RingInv'
  BY <1>9, SMTT(60), Z3T(60) DEF ReportIrq, ProducerStep, Raise, Becomes
<1>10. ASSUME NEW p \in Producers, ReportNotify(p) PROVE TypeOK' /\ RingInv'
  BY <1>10, SMTT(60), Z3T(60) DEF ReportNotify, ProducerStep, WakeEvents, Becomes
<1>11. CASE RecoveryStart
  <2>1. inputs' \in 0 .. MaxInputs /\ record' \in 0 .. MaxInputs
    BY <1>11, EventsAssumption, SMTT(60), Z3T(60) DEF RecoveryStart, RecoveryStep, Input
  <2> QED BY <1>11, <2>1 DEF RecoveryStart, RecoveryStep
<1>12. CASE ClearEvents
  <2>1. RingInv'
    BY <1>12, EventsAssumption, SMTT(60), Z3T(60) DEF ClearEvents
  <2> QED BY <1>12, <2>1, EventsAssumption, SMTT(60), Z3T(60)
             DEF ClearEvents, RecoveryStep, Slots
<1>13. CASE RecoveryWakes
  BY <1>13, SMTT(60), Z3T(60) DEF RecoveryWakes, RecoveryStep, WakeEvents, Becomes
<1>14. CASE RecoveryEnd
  BY <1>14, SMTT(60), Z3T(60) DEF RecoveryEnd, RecoveryStep
<1>15. CASE TerminateEvent
  <2>1. inputs' \in 0 .. MaxInputs /\ record' \in 0 .. MaxInputs
    BY <1>15, EventsAssumption, SMTT(60), Z3T(60) DEF TerminateEvent, Input
  <2> QED BY <1>15, <2>1, SMTT(60), Z3T(60) DEF TerminateEvent, Raise, Becomes
<1>16. ASSUME NEW r \in Readers, Enter(r) PROVE TypeOK' /\ RingInv'
  BY <1>16, SMTT(60), Z3T(60) DEF Enter, ReaderStep
<1>17. ASSUME NEW r \in Readers, RecoveryWait(r) \/ EventWait(r) \/ Recheck(r) PROVE
       TypeOK' /\ RingInv'
  BY <1>17, SMTT(60), Z3T(60) DEF RecoveryWait, EventWait, Recheck, ReaderStep
<1>18. ASSUME NEW r \in Readers, Dequeue(r) PROVE TypeOK' /\ RingInv'
  <2>1. CASE Take
    BY <1>18, <2>1, TakeTypes, SMTT(60), Z3T(60) DEF Dequeue, ReaderStep, Take
  <2>2. CASE ~Take
    BY <1>18, <2>2, SMTT(60), Z3T(60) DEF Dequeue, ReaderStep
  <2> QED BY SMTT(60), Z3T(60), <2>1, <2>2
<1>19. ASSUME NEW r \in Readers, IrqWait(r) \/ IrqClear(r) PROVE TypeOK' /\ RingInv'
  BY <1>19, SMTT(60), Z3T(60) DEF IrqWait, IrqClear, ReaderStep
<1>20. ASSUME NEW r \in Readers, DequeueAgain(r) PROVE TypeOK' /\ RingInv'
  <2>1. CASE Take
    BY <1>20, <2>1, TakeTypes, SMTT(60), Z3T(60) DEF DequeueAgain, ReaderStep, Take
  <2>2. CASE ~Take
    BY <1>20, <2>2, SMTT(60), Z3T(60) DEF DequeueAgain, ReaderStep
  <2> QED BY <2>1, <2>2
<1>21. ASSUME NEW r \in Readers, Signal(r) PROVE TypeOK' /\ RingInv'
  <2>1. inputs' \in 0 .. MaxInputs /\ record' \in 0 .. MaxInputs
    BY <1>21, EventsAssumption, SMTT(60), Z3T(60) DEF Signal, ReaderStep, Input
  <2> QED BY <1>21, <2>1, SMTT(60), Z3T(60) DEF Signal, ReaderStep
<1>22. ASSUME NEW r \in Readers, Flush(r) PROVE TypeOK' /\ RingInv'
  <2>1. inputs' \in 0 .. MaxInputs /\ record' \in 0 .. MaxInputs
    BY <1>22, EventsAssumption, SMTT(60), Z3T(60) DEF Flush, FileStep, Input
  <2> QED BY <1>22, <2>1, SMTT(60), Z3T(60)
             DEF Flush, FileStep, WakeEvents, Raise, Becomes
<1>23. CASE UNCHANGED vars
  BY <1>23, SMTT(60), Z3T(60) DEF vars
<1> QED
  BY ZenonT(60), <1>1, <1>2, <1>3, <1>4, <1>5, <1>6, <1>7, <1>8, <1>9, <1>10, <1>11,
     <1>12, <1>13, <1>14, <1>15, <1>16, <1>17, <1>18, <1>19, <1>20, <1>21, <1>22, <1>23
     DEF Next, Isr, Produce, Recover, ReaderRuns

\* Nobody changes what the sleepers of event_wq wait for without waking them.
LEMMA NextSleepInv == TypeOK /\ SleepInv /\ [Next]_vars => SleepInv'
<1> SUFFICES ASSUME TypeOK, SleepInv, [Next]_vars PROVE SleepInv'
  OBVIOUS
<1> USE
       DEF TypeOK, SleepInv, EventWaking, Terminating, device, buffer, waiters, recovery
<1>1. CASE FwRecord
  BY SMTT(60), Z3T(60), <1>1 DEF FwRecord, Input
<1>2. CASE FwRaise
  BY <1>2 DEF FwRaise
<1>3. CASE IsrStart
  BY SMTT(60), Z3T(60), <1>3 DEF IsrStart
<1>4. CASE IsrFetch
  BY <1>4 DEF IsrFetch
<1>5. CASE IsrNotify
  BY <1>5, SMTT(60), Z3T(60) DEF IsrNotify, WakeEvents, Becomes
<1>6. CASE IsrIrq
  BY SMTT(60), Z3T(60), <1>6 DEF IsrIrq, Raise, Becomes
<1>7. CASE IsrClear
  BY SMTT(60), Z3T(60), <1>7 DEF IsrClear
<1>8. ASSUME NEW p \in Producers, Report(p) PROVE SleepInv'
  BY SMTT(60), Z3T(60), <1>8 DEF Report, ProducerStep, Input
<1>9. ASSUME NEW p \in Producers, ReportIrq(p) PROVE SleepInv'
  BY <1>9, SMTT(60), Z3T(60) DEF ReportIrq, ProducerStep, Raise, Becomes
<1>10. ASSUME NEW p \in Producers, ReportNotify(p) PROVE SleepInv'
  BY SMTT(60), Z3T(60), <1>10 DEF ReportNotify, ProducerStep, WakeEvents, Becomes
<1>11. CASE RecoveryStart
  BY <1>11, SMTT(60), Z3T(60) DEF RecoveryStart, RecoveryStep, Input
<1>12. CASE ClearEvents
  BY <1>12, SMTT(60), Z3T(60) DEF ClearEvents, RecoveryStep
<1>13. CASE RecoveryWakes
  BY <1>13, SMTT(60), Z3T(60) DEF RecoveryWakes, RecoveryStep, WakeEvents, Becomes
<1>14. CASE RecoveryEnd
  BY <1>14, SMTT(60), Z3T(60) DEF RecoveryEnd, RecoveryStep
<1>15. CASE TerminateEvent
  BY <1>15, SMTT(60), Z3T(60) DEF TerminateEvent, Input, Raise, Becomes
<1>16. ASSUME NEW r \in Readers, Enter(r) PROVE SleepInv'
  BY <1>16, SMTT(60), Z3T(60) DEF Enter, ReaderStep
<1>17. ASSUME NEW r \in Readers, RecoveryWait(r) \/ EventWait(r) \/ Recheck(r) PROVE
       SleepInv'
  <2>1. CASE RecoveryWait(r)
    BY <1>17, <2>1, SMTT(60), Z3T(60) DEF RecoveryWait, ReaderStep, Flag
  <2>2. CASE EventWait(r)
    BY <1>17, <2>2, SMTT(60), Z3T(60) DEF EventWait, ReaderStep, Flag
  <2>3. CASE Recheck(r)
    BY <1>17, <2>3, SMTT(60), Z3T(60) DEF Recheck, ReaderStep
  <2> QED BY SMTT(60), Z3T(60), <1>17, <2>1, <2>2, <2>3
<1>18. ASSUME NEW r \in Readers, Dequeue(r) PROVE SleepInv'
  BY <1>18, SMTT(60), Z3T(60) DEF Dequeue, ReaderStep, Take
<1>19. ASSUME NEW r \in Readers, IrqWait(r) \/ IrqClear(r) PROVE SleepInv'
  BY <1>19, SMTT(60), Z3T(60) DEF IrqWait, IrqClear, ReaderStep
<1>20. ASSUME NEW r \in Readers, DequeueAgain(r) PROVE SleepInv'
  BY <1>20, SMTT(60), Z3T(60) DEF DequeueAgain, ReaderStep, Take
<1>21. ASSUME NEW r \in Readers, Signal(r) PROVE SleepInv'
  BY <1>21, SMTT(60), Z3T(60) DEF Signal, ReaderStep, Input
<1>22. ASSUME NEW r \in Readers, Flush(r) PROVE SleepInv'
  <2>1. CASE FileStep(r, "open", "wake")
    BY <2>1, ZenonT(60) DEF FileStep
  <2>2. CASE FileStep(r, "wake", IF single = 1 THEN "channels" ELSE "event") /\ WakeEvents
    BY <2>2, SMTT(60), Z3T(60) DEF FileStep, WakeEvents, Becomes
  <2>3. CASE (FileStep(r, "channels", "event") \/ FileStep(r, "event", "closed")) /\ Raise(2)
    <3>1. UNCHANGED <<ipc, ppc, vpc, recovering, count>>
      BY <2>3, ZenonT(60) DEF FileStep
    <3>2. fpc \in [Readers -> {"open", "wake", "channels", "event", "closed"}]
      BY ZenonT(60)
    <3> HIDE DEF TypeOK, SleepInv
    <3>3. \A q \in Readers : /\ fpc'[q] = "open" <=> fpc[q] = "open"
                             /\ fpc'[q] = "wake" <=> fpc[q] = "wake"
      BY <2>3, <3>2, ZenonT(60) DEF FileStep
    <3>4. \A q \in Readers : /\ rpc'[q] = "rec_sleep" => rpc[q] = "rec_sleep"
                             /\ rpc'[q] = "ev_sleep" => rpc[q] = "ev_sleep"
      BY <2>3, ZenonT(60) DEF Raise, Becomes
    <3> QED BY <3>1, <3>3, <3>4, ZenonT(60) DEF SleepInv
  <2> QED BY <1>22, <2>1, <2>2, <2>3, ZenonT(60) DEF Flush
<1>23. CASE UNCHANGED vars
  BY <1>23, SMTT(60), Z3T(60) DEF vars
<1> QED
  BY ZenonT(60), <1>1, <1>2, <1>3, <1>4, <1>5, <1>6, <1>7, <1>8, <1>9, <1>10, <1>11,
     <1>12, <1>13, <1>14, <1>15, <1>16, <1>17, <1>18, <1>19, <1>20, <1>21, <1>22, <1>23
     DEF Next, Isr, Produce, Recover, ReaderRuns

\* The announcement of a record is not lost, unless late or dropped records it.
LEMMA NextRecordInv == TypeOK /\ RecordInv /\ [Next]_vars => RecordInv'
<1> SUFFICES ASSUME TypeOK, RecordInv, [Next]_vars PROVE RecordInv'
  OBVIOUS
<1> USE DEF TypeOK, RecordInv, Flag, device, buffer, waiters, recovery
<1>1. CASE FwRecord
  BY <1>1 DEF FwRecord, Input
<1>2. CASE FwRaise
  BY <1>2, SMTT(60), Z3T(60) DEF FwRaise
<1>3. CASE IsrStart
  BY <1>3 DEF IsrStart
<1>4. CASE IsrFetch
  BY <1>4 DEF IsrFetch
<1>5. CASE IsrNotify
  BY <1>5, SMTT(60), Z3T(60) DEF IsrNotify, WakeEvents, Becomes
<1>6. CASE IsrIrq
  BY <1>6 DEF IsrIrq, Raise, Becomes
<1>7. CASE IsrClear
  BY <1>7 DEF IsrClear
<1>8. ASSUME NEW p \in Producers, Report(p) PROVE RecordInv'
  BY <1>8, SMTT(60), Z3T(60) DEF Report, ProducerStep, Input
<1>9. ASSUME NEW p \in Producers, ReportIrq(p) PROVE RecordInv'
  BY <1>9 DEF ReportIrq, ProducerStep, Raise, Becomes
<1>10. ASSUME NEW p \in Producers, ReportNotify(p) PROVE RecordInv'
  BY <1>10 DEF ReportNotify, ProducerStep, WakeEvents, Becomes
<1>11. CASE RecoveryStart
  BY <1>11 DEF RecoveryStart, RecoveryStep, Input
<1>12. CASE ClearEvents
  BY <1>12, SMTT(60), Z3T(60) DEF ClearEvents, RecoveryStep
<1>13. CASE RecoveryWakes
  BY <1>13 DEF RecoveryWakes, RecoveryStep, WakeEvents, Becomes
<1>14. CASE RecoveryEnd
  BY <1>14, SMTT(60), Z3T(60) DEF RecoveryEnd, RecoveryStep
<1>15. CASE TerminateEvent
  BY <1>15, SMTT(60), Z3T(60) DEF TerminateEvent, Input, Raise, Becomes
<1>16. ASSUME NEW r \in Readers, Enter(r) PROVE RecordInv'
  BY <1>16, SMTT(60), Z3T(60) DEF Enter, ReaderStep
<1>17. ASSUME NEW r \in Readers, RecoveryWait(r) \/ EventWait(r) \/ Recheck(r) PROVE
       RecordInv'
  BY <1>17, SMTT(60), Z3T(60) DEF RecoveryWait, EventWait, Recheck, ReaderStep
<1>18. ASSUME NEW r \in Readers, Dequeue(r) PROVE RecordInv'
  BY <1>18, SMTT(60), Z3T(60) DEF Dequeue, ReaderStep, Take
<1>19. ASSUME NEW r \in Readers, IrqWait(r) \/ IrqClear(r) PROVE RecordInv'
  BY <1>19, SMTT(60), Z3T(60) DEF IrqWait, IrqClear, ReaderStep
<1>20. ASSUME NEW r \in Readers, DequeueAgain(r) PROVE RecordInv'
  BY <1>20, SMTT(60), Z3T(60) DEF DequeueAgain, ReaderStep, Take
<1>21. ASSUME NEW r \in Readers, Signal(r) PROVE RecordInv'
  BY <1>21, SMTT(60), Z3T(60) DEF Signal, ReaderStep, Input
<1>22. ASSUME NEW r \in Readers, Flush(r) PROVE RecordInv'
  BY <1>22, ZenonT(60) DEF Flush, FileStep
<1>23. CASE UNCHANGED vars
  BY <1>23, ZenonT(60) DEF vars
<1> QED
  BY ZenonT(60), <1>1, <1>2, <1>3, <1>4, <1>5, <1>6, <1>7, <1>8, <1>9, <1>10, <1>11,
     <1>12, <1>13, <1>14, <1>15, <1>16, <1>17, <1>18, <1>19, <1>20, <1>21, <1>22, <1>23
     DEF Next, Isr, Produce, Recover, ReaderRuns

\* The three parts of the invariant together hold in every reachable state.
THEOREM EventsInvariant == Spec => []EventsInv
<1>1. EventsInv /\ [Next]_vars => EventsInv'
  BY NextTypeOK, NextSleepInv, NextRecordInv DEF EventsInv
<1> QED BY InitEventsInv, <1>1, PTL DEF Spec

\* The indices stay in the buffer, the counter within its size
\* (dx_message.c) and every thread at one of its steps.
THEOREM TypeCorrect == Spec => []TypeOK
<1>1. EventsInv => TypeOK
  BY DEF EventsInv
<1> QED BY EventsInvariant, <1>1, PTL

\* No wakeup of event_wq is lost (dxrt_event_notify, dxrt_wakeup_waiters and
\* the recovery against dxrt_handle_event_v2), for any number of readers.
THEOREM NoLostWakeup == Spec => []QuietSleep
<1>1. EventsInv => QuietSleep
  BY DEF EventsInv, SleepInv, EventWaking, QuietSleep, Waking
<1> QED BY EventsInvariant, <1>1, PTL

\* The interrupt handler leaves no announced record behind, but for the two
\* cases RecordFetched names (dx_sw_irq_handler, user_irq_events).
THEOREM AnnouncedIsFetched == Spec => []RecordFetched
<1>1. EventsInv => RecordFetched
  BY SMTT(60), Z3T(60) DEF EventsInv, RecordInv, RecordFetched
<1> QED BY EventsInvariant, <1>1, PTL

\* What a step does to the buffer: it stores, takes, clears, or does nothing.
LEMMA BufferStep ==
  ASSUME TypeOK, [Next]_vars
  PROVE  \/ \E m \in 0 .. MaxInputs : Put(m)
         \/ Take
         \/ count' = 0
         \/ UNCHANGED <<entries, head, count>>
<1> USE DEF TypeOK, buffer
<1>1. CASE IsrFetch
  BY <1>1 DEF IsrFetch
<1>2. ASSUME NEW p \in Producers, Report(p)
      PROVE  \E m \in 0 .. MaxInputs : Put(m)
  <2>1. inputs + 1 \in 0 .. MaxInputs
    BY <1>2, EventsAssumption, SMTT(60), Z3T(60) DEF Report, Input
  <2> QED BY <1>2, <2>1 DEF Report
<1>3. CASE ClearEvents
  BY <1>3 DEF ClearEvents
<1>4. ASSUME NEW r \in Readers, Dequeue(r) \/ DequeueAgain(r)
      PROVE  Take \/ UNCHANGED <<entries, head, count>>
  BY <1>4, SMTT(60), Z3T(60) DEF Dequeue, DequeueAgain
<1>5. CASE FwRecord \/ FwRaise \/ IsrStart \/ IsrNotify \/ IsrIrq \/ IsrClear
  BY <1>5, ZenonT(60) DEF FwRecord, FwRaise, IsrStart, IsrNotify, IsrIrq, IsrClear
<1>6. ASSUME NEW p \in Producers, ReportIrq(p) \/ ReportNotify(p)
      PROVE  UNCHANGED <<entries, head, count>>
  BY <1>6, ZenonT(60) DEF ReportIrq, ReportNotify
<1>7. CASE RecoveryStart \/ RecoveryWakes \/ RecoveryEnd \/ TerminateEvent
  BY <1>7, ZenonT(60) DEF RecoveryStart, RecoveryWakes, RecoveryEnd, TerminateEvent
<1>8. ASSUME NEW r \in Readers,
             \/ Enter(r) \/ RecoveryWait(r) \/ EventWait(r) \/ Recheck(r)
             \/ IrqWait(r) \/ IrqClear(r) \/ Signal(r) \/ Flush(r)
      PROVE  UNCHANGED <<entries, head, count>>
  BY <1>8, ZenonT(60)
     DEF Enter, RecoveryWait, EventWait, Recheck, IrqWait, IrqClear, Signal, Flush,
         FileStep
<1>9. CASE UNCHANGED vars
  BY <1>9, ZenonT(60) DEF vars
<1> QED
  BY ZenonT(60), <1>1, <1>2, <1>3, <1>4, <1>5, <1>6, <1>7, <1>8, <1>9
     DEF Next, Isr, Produce, Recover, ReaderRuns

\* A queue of no events is the empty one.
LEMMA EmptyQueue == TypeOK /\ count = 0 => Queue = <<>>
<1> SUFFICES ASSUME TypeOK, count = 0 PROVE Queue = <<>>
  OBVIOUS
<1>1. Queue \in Seq(0 .. MaxInputs) /\ Len(Queue) = 0
  BY QueueIsSeq DEF QueueSeq
<1> QED BY <1>1, EmptySeq

\* A step of the driver is a step of the FIFO, or leaves it alone.
LEMMA FifoStep ==
  ASSUME TypeOK, TypeOK', RingInv, [Next]_vars
  PROVE  [Fifo!Next]_Queue
<1>1. ASSUME NEW m \in 0 .. MaxInputs, Put(m) PROVE [Fifo!Next]_Queue
  <2>1. Len(Queue) = count
    BY QueueIsSeq DEF QueueSeq
  <2>2. CASE count < QueueSize
    <3>1. Queue' = Append(Queue, m)
      BY <1>1, <2>2, PutAppends
    <3>2. Fifo!Put(m)
      BY <2>1, <2>2, <3>1 DEF Fifo!Put
    <3> QED BY <3>2 DEF Fifo!Next
  <2>3. CASE ~(count < QueueSize)
    BY <1>1, <2>3 DEF Put, Queue
  <2> QED BY <2>2, <2>3
<1>2. CASE Take
  <2>1. Queue # <<>> /\ Queue' = Tail(Queue)
    BY <1>2, TakeIsTail
  <2> QED BY <2>1 DEF Fifo!Next, Fifo!Take
<1>3. CASE count' = 0
  <2>1. (Queue = <<>>)'
    <3>1. (TypeOK /\ count = 0)'
      BY <1>3
    <3> QED BY <3>1, EmptyQueue, PTL
  <2> QED BY <2>1 DEF Fifo!Next, Fifo!Clear
<1>4. CASE UNCHANGED <<entries, head, count>>
  BY <1>4 DEF Queue
<1> QED BY <1>1, <1>2, <1>3, <1>4, BufferStep

\* The circular buffer of dx_message.c, with its two indices and its counter,
\* implements the bounded FIFO that refuses an event when it is full, for any
\* DX_EVENT_QUEUE_SIZE.
THEOREM BufferIsFifo == Spec => ImplementsFifo
<1>1. Init => Fifo!Init
  <2> SUFFICES ASSUME Init PROVE Queue = <<>>
    BY DEF Fifo!Init
  <2>1. TypeOK /\ count = 0
    BY InitEventsInv DEF EventsInv, Init
  <2> QED BY <2>1, EmptyQueue
<1>2. EventsInv /\ EventsInv' /\ [Next]_vars => [Fifo!Next]_Queue
  BY FifoStep DEF EventsInv
<1> QED BY <1>1, <1>2, EventsInvariant, PTL DEF Spec, ImplementsFifo, Fifo!Spec

-----------------------------------------------------------------------------
(* The waits on events_wq.                                                 *)

\* Somebody has changed the buffer and is about to raise events_irq.
IrqWaking == ipc \in {"notify", "irq"} \/ \E p \in Producers : ppc[p] = "irq"

AtIrq == {"irq_wait", "irq_sleep"}

\* Nobody sleeps through a raised events_irq; events_irq is raised, or about to
\* be, for every event that was queued behind the back of a reader, and for its
\* closed file, or another reader has seen it in its place; and there is always
\* a reader that has seen it.
WakeInv ==
  /\ \A r \in Readers :
       /\ rpc[r] = "irq_sleep" => events_irq = 0
       /\ rpc[r] \in AtIrq /\ count > 0
            => IrqWaking \/ events_irq # 0 \/ overtaken[r] = 1
       /\ rpc[r] \in AtIrq \cup {"dequeue"} /\ fpc[r] = "closed"
            => events_irq # 0 \/ overtaken[r] = 1
  /\ count > 0 => \/ IrqWaking \/ events_irq # 0
                  \/ \E r \in Readers : rpc[r] \notin AtIrq

\* A step that neither raises nor takes down events_irq, queues nothing and
\* sends no reader to events_wq.
LEMMA IrqUntouched ==
  ASSUME WakeInv, events_irq' = events_irq, overtaken' = overtaken,
         count' > 0 => count > 0, IrqWaking => IrqWaking',
         \A r \in Readers :
           /\ rpc'[r] = "irq_wait" => rpc[r] = "irq_wait"
           /\ rpc'[r] = "irq_sleep" => rpc[r] = "irq_sleep"
           /\ rpc'[r] = "dequeue" /\ fpc'[r] = "closed"
                => rpc[r] = "dequeue" /\ fpc[r] = "closed"
           /\ rpc'[r] \in AtIrq /\ fpc'[r] = "closed" => fpc[r] = "closed"
  PROVE  WakeInv'
<1>1. ASSUME NEW r \in Readers
      PROVE  /\ rpc'[r] = "irq_sleep" => events_irq' = 0
             /\ rpc'[r] \in AtIrq /\ count' > 0
                  => IrqWaking' \/ events_irq' # 0 \/ overtaken'[r] = 1
             /\ rpc'[r] \in AtIrq \cup {"dequeue"} /\ fpc'[r] = "closed"
                  => events_irq' # 0 \/ overtaken'[r] = 1
  BY SMTT(60), Z3T(60) DEF WakeInv, AtIrq
<1>2. count' > 0 => \/ IrqWaking' \/ events_irq' # 0
                    \/ \E r \in Readers : rpc'[r] \notin AtIrq
  BY DEF WakeInv, AtIrq
<1> QED BY <1>1, <1>2, ZenonT(60) DEF WakeInv

\* Raising events_irq leaves nobody asleep on events_wq.
LEMMA RaiseWakes ==
  ASSUME TypeOK, WakeInv, Raise(1) \/ Raise(2)
  PROVE  WakeInv'
<1>1. events_irq' # 0
  BY DEF Raise
<1>2. \A r \in Readers : rpc'[r] # "irq_sleep"
  <2>1. CASE events_irq = 0
    BY SMTT(60), Z3T(60), <2>1 DEF Raise, Becomes
  <2>2. CASE events_irq # 0
    BY <2>2 DEF Raise, WakeInv
  <2> QED BY <2>1, <2>2
<1> QED BY <1>1, <1>2, ZenonT(60) DEF WakeInv

\* A counter that stays or is cleared was not zero if it is not.
LEMMA NoneAdded ==
  ASSUME NEW before, NEW after, after = before \/ after = 0, after > 0
  PROVE  before > 0
OBVIOUS

\* The device, its interrupt handler, the producers and the recovery.
LEMMA DriverKeepsWake ==
  ASSUME TypeOK, WakeInv,
         \/ FwRecord \/ FwRaise \/ Isr \/ Recover \/ TerminateEvent
         \/ \E p \in Producers : Produce(p)
  PROVE  WakeInv'
<1>1. /\ rpc \in [Readers -> ReaderPc] /\ ppc \in [Producers -> {"idle", "irq", "notify"}]
      /\ count \in 0 .. QueueSize
  BY DEF TypeOK
<1>2. CASE IsrIrq \/ TerminateEvent \/ \E p \in Producers : ReportIrq(p)
  BY <1>2, RaiseWakes DEF IsrIrq, TerminateEvent, ReportIrq
<1>3. CASE IsrFetch \/ \E p \in Producers : Report(p)
  <2>1. IrqWaking'
    BY <1>1, <1>3 DEF IsrFetch, Report, ProducerStep, IrqWaking
  <2>2. UNCHANGED <<waiters, fpc>>
    BY <1>3, ZenonT(60) DEF IsrFetch, Report
  <2> QED BY <2>1, <2>2, ZenonT(60) DEF WakeInv, waiters
<1>4. CASE FwRecord \/ FwRaise \/ IsrStart \/ IsrClear \/ RecoveryStart \/ RecoveryEnd \/ ClearEvents
  <2>1. UNCHANGED <<rpc, events_irq, overtaken, fpc, ppc>>
    BY <1>4, ZenonT(60)
       DEF FwRecord, FwRaise, IsrStart, IsrClear, RecoveryStart, RecoveryEnd,
           ClearEvents, waiters
  <2>2. count' = count \/ count' = 0
    BY <1>4, ZenonT(60)
       DEF FwRecord, FwRaise, IsrStart, IsrClear, RecoveryStart, RecoveryEnd,
           ClearEvents, buffer
  <2>3. ipc \in {"notify", "irq"} => ipc' = ipc
    BY <1>4
       DEF FwRecord, FwRaise, IsrStart, IsrClear, RecoveryStart, RecoveryEnd,
           ClearEvents, device
  <2>4. IrqWaking => IrqWaking'
    BY <2>1, <2>3 DEF IrqWaking
  <2>5. count' > 0 => count > 0
    BY <2>2, NoneAdded, ZenonT(60)
  <2>6. events_irq' = events_irq /\ overtaken' = overtaken /\ rpc' = rpc /\ fpc' = fpc
    BY <2>1, ZenonT(60)
  <2> QED BY <2>4, <2>5, <2>6, IrqUntouched, ZenonT(60)
<1>5. CASE IsrNotify \/ RecoveryWakes \/ \E p \in Producers : ReportNotify(p)
  <2>1. WakeEvents /\ UNCHANGED <<buffer, fpc>>
    BY SMTT(60), Z3T(60), <1>5 DEF IsrNotify, RecoveryWakes, ReportNotify
  <2>2. IrqWaking => IrqWaking'
    BY <1>1, <1>5
       DEF IsrNotify, RecoveryWakes, ReportNotify, ProducerStep, IrqWaking, device
  <2>3. /\ events_irq' = events_irq /\ overtaken' = overtaken /\ count' = count
        /\ \A r \in Readers : rpc'[r] = rpc[r] \/ rpc'[r] \in {"rec_wait", "ev_wait"}
    BY <2>1 DEF WakeEvents, Becomes, buffer
  <2>4. /\ count' > 0 => count > 0
        /\ \A r \in Readers : rpc'[r] \notin {"rec_wait", "ev_wait"} => rpc'[r] = rpc[r]
        /\ fpc' = fpc
    BY <2>1, <2>3, ZenonT(60)
  <2>5. \A r \in Readers : rpc'[r] \in AtIrq \cup {"dequeue"}
                             => rpc'[r] \notin {"rec_wait", "ev_wait"}
    BY ZenonT(60) DEF AtIrq
  <2>6. \A r \in Readers :
          /\ rpc'[r] = "irq_wait" => rpc[r] = "irq_wait"
          /\ rpc'[r] = "irq_sleep" => rpc[r] = "irq_sleep"
          /\ rpc'[r] = "dequeue" /\ fpc'[r] = "closed"
               => rpc[r] = "dequeue" /\ fpc[r] = "closed"
          /\ rpc'[r] \in AtIrq /\ fpc'[r] = "closed" => fpc[r] = "closed"
    BY <2>4, <2>5, ZenonT(60) DEF AtIrq
  <2> QED BY <2>2, <2>3, <2>4, <2>6, IrqUntouched, ZenonT(60)
<1> QED BY <1>2, <1>3, <1>4, <1>5, ZenonT(60) DEF Isr, Recover, Produce

\* What a step of a reader does to the readers.
LEMMA StepOfReader ==
  ASSUME TypeOK, NEW r \in Readers, NEW from, NEW to, ReaderStep(r, from, to)
  PROVE  /\ rpc[r] = from /\ rpc'[r] = to
         /\ \A q \in Readers : q # r => rpc'[q] = rpc[q]
         /\ UNCHANGED <<ipc, ppc, fpc>>
<1>1. rpc \in [Readers -> ReaderPc]
  BY ZenonT(60) DEF TypeOK
<1> QED BY <1>1, ZenonT(60) DEF ReaderStep, device

\* A reader that goes anywhere but to events_wq disturbs no wait on it, if it
\* leaves events_irq alone, queues nothing and is sent to the buffer only with
\* its file open.
LEMMA ReaderElsewhere ==
  ASSUME TypeOK, WakeInv, NEW r \in Readers, NEW from, NEW to, ReaderStep(r, from, to),
         to # "irq_wait", to # "irq_sleep", to = "dequeue" => fpc[r] = "open",
         events_irq' = events_irq, count' > 0 => count > 0,
         \A q \in Readers : q # r => overtaken'[q] = overtaken[q]
  PROVE  WakeInv'
<1>1. /\ rpc'[r] = to /\ \A q \in Readers : q # r => rpc'[q] = rpc[q]
      /\ UNCHANGED <<ipc, ppc, fpc>>
  BY StepOfReader, ZenonT(60)
<1>2. IrqWaking' = IrqWaking
  BY <1>1, ZenonT(60) DEF IrqWaking
<1>3. rpc'[r] \notin AtIrq
  BY <1>1, ZenonT(60) DEF AtIrq
<1>4. rpc'[r] = "dequeue" => fpc'[r] # "closed"
  BY <1>1, ZenonT(60)
<1>5. ASSUME NEW q \in Readers
      PROVE  rpc'[q] = "irq_sleep" => events_irq' = 0
  BY <1>1, ZenonT(60) DEF WakeInv
<1>6. ASSUME NEW q \in Readers, rpc'[q] \in AtIrq, count' > 0
      PROVE  IrqWaking' \/ events_irq' # 0 \/ overtaken'[q] = 1
  BY <1>1, <1>2, <1>3, <1>6, ZenonT(60) DEF WakeInv
<1>7. ASSUME NEW q \in Readers, rpc'[q] \in AtIrq \cup {"dequeue"}, fpc'[q] = "closed"
      PROVE  events_irq' # 0 \/ overtaken'[q] = 1
  BY <1>1, <1>3, <1>4, <1>7, ZenonT(60) DEF WakeInv
<1> QED BY <1>3, <1>5, <1>6, <1>7, ZenonT(60) DEF WakeInv

\* The readers: one goes to events_wq only when the buffer is empty, sleeps only
\* while events_irq is down, and takes it down for the others knowingly.
LEMMA ReaderKeepsWake ==
  ASSUME TypeOK, WakeInv, NEW r \in Readers, Enter(r) \/ ReaderRuns(r) \/ Signal(r)
  PROVE  WakeInv'
<1>1. overtaken \in [Readers -> Flag] /\ count \in 0 .. QueueSize
  BY ZenonT(60) DEF TypeOK
<1>2. ASSUME NEW from, NEW to \in {"idle", "rec_wait", "rec_sleep", "ev_wait", "ev_sleep",
                                   "recheck", "irq_clear"},
             ReaderStep(r, from, to), events_irq' = events_irq, overtaken' = overtaken,
             count' > 0 => count > 0
      PROVE  WakeInv'
  <2>1. to # "irq_wait" /\ to # "irq_sleep" /\ to # "dequeue"
    BY <1>2, ZenonT(60)
  <2> QED BY <1>2, <2>1, ReaderElsewhere, ZenonT(60)
<1>3. CASE Enter(r)
  <2>1. /\ fpc[r] = "open"
        /\ \E to \in {"dequeue", "rec_wait"} : ReaderStep(r, "idle", to)
        /\ events_irq' = events_irq /\ count' = count
        /\ \A q \in Readers : q # r => overtaken'[q] = overtaken[q]
    BY <1>1, <1>3, ZenonT(60) DEF Enter, Terminating, buffer
  <2>2. PICK to \in {"dequeue", "rec_wait"} : ReaderStep(r, "idle", to)
    BY <2>1, ZenonT(60)
  <2>3. to # "irq_wait" /\ to # "irq_sleep"
    BY ZenonT(60)
  <2> QED BY <2>1, <2>2, <2>3, ReaderElsewhere, ZenonT(60)
<1>4. CASE RecoveryWait(r)
  <2>1. /\ \E to \in {"idle", "ev_wait", "rec_sleep"} : ReaderStep(r, "rec_wait", to)
        /\ events_irq' = events_irq /\ overtaken' = overtaken /\ count' = count
    BY <1>4, ZenonT(60) DEF RecoveryWait, buffer
  <2> QED BY <1>2, <2>1, ZenonT(60)
<1>5. CASE EventWait(r)
  <2>1. /\ \E to \in {"recheck", "ev_sleep"} : ReaderStep(r, "ev_wait", to)
        /\ events_irq' = events_irq /\ overtaken' = overtaken /\ count' = count
    BY <1>5, ZenonT(60) DEF EventWait, buffer
  <2> QED BY <1>2, <2>1, ZenonT(60)
<1>6. CASE Recheck(r)
  <2>1. /\ \/ \E to \in {"idle", "rec_wait"} : ReaderStep(r, "recheck", to)
           \/ ReaderStep(r, "recheck", "dequeue") /\ fpc[r] = "open"
        /\ events_irq' = events_irq /\ overtaken' = overtaken /\ count' = count
    BY <1>6, ZenonT(60) DEF Recheck, Terminating, buffer
  <2>2. CASE ReaderStep(r, "recheck", "dequeue") /\ fpc[r] = "open"
    BY <2>1, <2>2, ReaderElsewhere, ZenonT(60)
  <2> QED BY <1>2, <2>1, <2>2, ZenonT(60)
<1>7. CASE Dequeue(r) /\ Take
  <2>1. /\ \E from \in ReaderPc, to \in {"idle", "irq_wait"} : ReaderStep(r, from, to)
        /\ events_irq' = events_irq /\ overtaken' = overtaken
    BY <1>7, ZenonT(60) DEF Dequeue, ReaderPc
  <2>2. count > 0
    BY <1>7, ZenonT(60) DEF Take
  <2>3. ReaderStep(r, "dequeue", "idle")
    <3>1. ~(count > 0 /\ count = 0)
      BY <1>1
    <3> QED BY <1>7, <2>2, <3>1, ZenonT(60) DEF Dequeue
  <2> QED BY <1>2, <2>1, <2>2, <2>3, ZenonT(60)
<1>8. CASE Dequeue(r) /\ ~Take
  <2>1. /\ ReaderStep(r, "dequeue", "irq_wait") /\ count' = 0
        /\ events_irq' = events_irq /\ overtaken' = overtaken
    BY <1>8, ZenonT(60) DEF Dequeue, buffer
  <2>2. /\ rpc[r] = "dequeue" /\ rpc'[r] = "irq_wait"
        /\ \A q \in Readers : q # r => rpc'[q] = rpc[q]
        /\ UNCHANGED fpc
    BY <2>1, StepOfReader, ZenonT(60)
  <2>3. ~(count' > 0)
    BY <2>1
  <2>4. ASSUME NEW q \in Readers
        PROVE  rpc'[q] = "irq_sleep" => events_irq' = 0
    BY <2>1, <2>2, ZenonT(60) DEF WakeInv
  <2>5. ASSUME NEW q \in Readers, rpc'[q] \in AtIrq \cup {"dequeue"}, fpc'[q] = "closed"
        PROVE  events_irq' # 0 \/ overtaken'[q] = 1
    <3>1. rpc[q] \in AtIrq \cup {"dequeue"} /\ fpc[q] = "closed"
      BY <2>2, <2>5, ZenonT(60)
    <3> QED BY <2>1, <3>1, ZenonT(60) DEF WakeInv
  <2> QED BY <2>3, <2>4, <2>5, ZenonT(60) DEF WakeInv
<1>9. CASE IrqWait(r)
  <2>1. /\ \E to \in {"irq_clear", "irq_sleep"} :
             /\ ReaderStep(r, "irq_wait", to)
             /\ to = "irq_sleep" => events_irq = 0
        /\ events_irq' = events_irq /\ overtaken' = overtaken /\ count' = count
    BY <1>9, ZenonT(60) DEF IrqWait, buffer
  <2>2. PICK to \in {"irq_clear", "irq_sleep"} :
          ReaderStep(r, "irq_wait", to) /\ (to = "irq_sleep" => events_irq = 0)
    BY <2>1, ZenonT(60)
  <2>3. CASE to = "irq_clear"
    BY <1>2, <2>1, <2>2, <2>3, ZenonT(60)
  <2>4. CASE to = "irq_sleep"
    <3>1. /\ rpc[r] = "irq_wait" /\ rpc'[r] = "irq_sleep"
          /\ \A q \in Readers : q # r => rpc'[q] = rpc[q]
          /\ UNCHANGED <<ipc, ppc, fpc>>
      BY <2>2, <2>4, StepOfReader, ZenonT(60)
    <3>2. IrqWaking' = IrqWaking
      BY <3>1, ZenonT(60) DEF IrqWaking
    <3>3. \A q \in Readers : rpc'[q] \in AtIrq <=> rpc[q] \in AtIrq
      BY <3>1, ZenonT(60) DEF AtIrq
    <3>4. \A q \in Readers : rpc'[q] \in AtIrq \cup {"dequeue"}
                               => rpc[q] \in AtIrq \cup {"dequeue"}
      BY <3>1, <3>3, ZenonT(60)
    <3>5. \A q \in Readers : rpc'[q] = "irq_sleep" => events_irq' = 0
      BY <2>1, <2>2, <2>4, ZenonT(60)
    <3>6. ASSUME NEW q \in Readers, rpc'[q] \in AtIrq, count' > 0
          PROVE  IrqWaking' \/ events_irq' # 0 \/ overtaken'[q] = 1
      BY <2>1, <3>2, <3>3, <3>6, ZenonT(60) DEF WakeInv
    <3>7. ASSUME NEW q \in Readers, rpc'[q] \in AtIrq \cup {"dequeue"}, fpc'[q] = "closed"
          PROVE  events_irq' # 0 \/ overtaken'[q] = 1
      BY <2>1, <3>1, <3>4, <3>7, ZenonT(60) DEF WakeInv
    <3>8. count' > 0 => \/ IrqWaking' \/ events_irq' # 0
                        \/ \E q \in Readers : rpc'[q] \notin AtIrq
      BY <2>1, <3>2, <3>3, ZenonT(60) DEF WakeInv
    <3> QED BY <3>5, <3>6, <3>7, <3>8, ZenonT(60) DEF WakeInv
  <2> QED BY <2>3, <2>4, ZenonT(60)
<1>10. CASE IrqClear(r)
  <2>1. /\ ReaderStep(r, "irq_clear", "dequeue_again") /\ events_irq' = 0
        /\ \A q \in Readers : q # r /\ rpc[q] \in {"dequeue", "irq_wait", "irq_sleep"}
             => overtaken'[q] = 1
    BY <1>10, ZenonT(60) DEF IrqClear
  <2>2. rpc'[r] = "dequeue_again" /\ \A q \in Readers : q # r => rpc'[q] = rpc[q]
    BY <2>1, StepOfReader, ZenonT(60)
  <2>3. rpc'[r] \notin AtIrq \cup {"dequeue"}
    BY <2>2, ZenonT(60) DEF AtIrq
  <2>4. \A q \in Readers : rpc'[q] \in AtIrq \cup {"dequeue"} => overtaken'[q] = 1
    BY <2>1, <2>2, <2>3, ZenonT(60) DEF AtIrq
  <2> QED BY <2>1, <2>3, <2>4, ZenonT(60) DEF WakeInv
<1>11. CASE DequeueAgain(r)
  <2>1. /\ ReaderStep(r, "dequeue_again", "idle")
        /\ events_irq' = events_irq /\ overtaken' = overtaken
        /\ count' > 0 => count > 0
    BY <1>11, ZenonT(60) DEF DequeueAgain, Take, buffer
  <2> QED BY <1>2, <2>1, ZenonT(60)
<1>12. CASE Signal(r)
  <2>1. /\ \E from \in ReaderPc, to \in {"idle", "irq_clear"} : ReaderStep(r, from, to)
        /\ events_irq' = events_irq /\ overtaken' = overtaken /\ count' = count
    BY <1>12, ZenonT(60) DEF Signal, buffer, ReaderPc
  <2> QED BY <1>2, <2>1, ZenonT(60)
<1> QED BY <1>3, <1>4, <1>5, <1>6, <1>7, <1>8, <1>9, <1>10, <1>11, <1>12, ZenonT(60)
           DEF ReaderRuns

\* A file is closed after its last wakeup.
LEMMA FlushKeepsWake ==
  ASSUME TypeOK, WakeInv, NEW r \in Readers, Flush(r)
  PROVE  WakeInv'
<1>1. /\ fpc \in [Readers -> {"open", "wake", "channels", "event", "closed"}]
      /\ UNCHANGED <<ipc, ppc, count>>
  BY ZenonT(60) DEF TypeOK, Flush, FileStep, device, buffer
<1>2. IrqWaking' = IrqWaking
  BY <1>1 DEF IrqWaking
<1>3. CASE Raise(2)
  BY ZenonT(60), Z3T(60), <1>3, RaiseWakes
<1>4. CASE ~Raise(2)
  <2>1. \A q \in Readers : fpc'[q] = "closed" => fpc[q] = "closed"
    BY <1>1, <1>4 DEF Flush, FileStep
  <2>2. /\ events_irq' = events_irq /\ overtaken' = overtaken
        /\ \A q \in Readers : rpc'[q] = rpc[q] \/ rpc'[q] \in {"rec_wait", "ev_wait"}
    BY <1>4 DEF Flush, WakeEvents, Becomes, waiters
  <2> QED BY SMTT(60), Z3T(60), <1>1, <1>2, <2>1, <2>2, IrqUntouched
<1> QED BY <1>3, <1>4

\* For any number of readers no event, and no close of a file, is slept through
\* on events_wq, but for a reader that was overtaken, and some reader is always
\* awake for a queued event (dx_pcie_interrupt_event, dx_pcie_interrupt_wakeup,
\* dx_pcie_dequeue_event_response).
THEOREM EventsAreSeen == Spec => []EventWakes
<1>1. Init => WakeInv
  BY DEF Init, WakeInv, AtIrq
<1>2. EventsInv /\ WakeInv /\ [Next]_vars => WakeInv'
  <2> SUFFICES ASSUME EventsInv, WakeInv, [Next]_vars PROVE WakeInv'
    OBVIOUS
  <2>1. TypeOK
    BY DEF EventsInv
  <2>2. CASE \/ FwRecord \/ FwRaise \/ Isr \/ Recover \/ TerminateEvent
             \/ \E p \in Producers : Produce(p)
    BY <2>1, <2>2, DriverKeepsWake
  <2>3. CASE \E r \in Readers : Enter(r) \/ ReaderRuns(r) \/ Signal(r)
    BY <2>1, <2>3, ReaderKeepsWake
  <2>4. CASE \E r \in Readers : Flush(r)
    BY <2>1, <2>4, FlushKeepsWake
  <2>5. CASE UNCHANGED vars
    BY <2>5, ZenonT(60) DEF vars, device, buffer, waiters, WakeInv, IrqWaking
  <2> QED BY <2>2, <2>3, <2>4, <2>5, ZenonT(60) DEF Next
<1>3. EventsInv /\ WakeInv => EventWakes
  <2> SUFFICES ASSUME EventsInv, WakeInv PROVE EventWakes
    BY SMTT(60), Z3T(60)
  <2>1. ASSUME count > 0, ~Waking, NEW r \in Readers, rpc[r] = "irq_sleep"
        PROVE  overtaken[r] = 1
    BY <2>1 DEF WakeInv, Waking, IrqWaking, AtIrq
  <2>2. ASSUME count > 0, ~Waking
        PROVE  \E r \in Readers : rpc[r] \notin {"ev_sleep", "irq_sleep"}
    <3>1. \A r \in Readers : rpc[r] # "ev_sleep"
      BY SMTT(60), Z3T(60), <2>2 DEF EventsInv, SleepInv, EventWaking, Waking
    <3>2. events_irq # 0 \/ \E r \in Readers : rpc[r] \notin AtIrq
      BY SMTT(60), Z3T(60), <2>2 DEF WakeInv, Waking, IrqWaking
    <3>3. \E r \in Readers : rpc[r] # "irq_sleep"
      BY SMTT(60), Z3T(60), <3>2, EventsAssumption DEF WakeInv, AtIrq
    <3> QED BY SMTT(60), Z3T(60), <3>1, <3>3
  <2>3. \A r \in Readers : fpc[r] = "closed" /\ rpc[r] = "irq_sleep" => overtaken[r] = 1
    BY DEF WakeInv, AtIrq
  <2> QED BY <2>1, <2>2, <2>3, ZenonT(60) DEF EventWakes
<1> QED BY <1>1, <1>2, <1>3, EventsInvariant, PTL DEF Spec

=============================================================================
