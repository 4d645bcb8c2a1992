--------------------------- MODULE MainLoopProofs ---------------------------
(***************************************************************************)
(* Theorems about the main loop and its event queue, for every ring size,  *)
(* however many messages arrive and whenever the user drags the window: the*)
(* ring's state is well formed, its counters stay within one ring of each  *)
(* other, and the ring is a lossy FIFO; and the loop gives out input in the*)
(* order in which it came and counts exactly what it loses.                *)
(***************************************************************************)
EXTENDS MainLoop, SequenceTheorems, TLAPS

(***************************************************************************)
(* Positions in the ring.  Two counters less than a ring apart never share *)
(* a slot, so writing at the head leaves the other waiting events alone.   *)
(***************************************************************************)

LEMMA SlotInRange ==
  ASSUME NEW x \in Nat
  PROVE  Slot(x) \in Slots
BY MaxQuedAssumption, SMT DEF Slot, Slots

LEMMA SlotDistinct ==
  ASSUME NEW x \in Nat, NEW y \in Nat, x < y, y < x + MaxQued
  PROVE  Slot(x) # Slot(y)
<1>1. PICK p \in Nat, q \in Nat : x = MaxQued * p + Slot(x) /\ y = MaxQued * q + Slot(y)
  <2>1. x = MaxQued * (x \div MaxQued) + (x % MaxQued)
    BY MaxQuedAssumption, SMT
  <2>2. y = MaxQued * (y \div MaxQued) + (y % MaxQued)
    BY MaxQuedAssumption, SMT
  <2>3. x \div MaxQued \in Nat /\ y \div MaxQued \in Nat
    BY MaxQuedAssumption, SMT
  <2>4. QED BY <2>1, <2>2, <2>3 DEF Slot
<1>2. SUFFICES ASSUME Slot(x) = Slot(y) PROVE FALSE
  OBVIOUS
<1>3. y - x = MaxQued * (q - p)
  BY <1>1, <1>2, SlotInRange, MaxQuedAssumption, SMT DEF Slots
<1>4. CASE q <= p
  <2>1. MaxQued * (q - p) <= 0
    BY <1>4, MaxQuedAssumption, SMT
  <2>2. QED BY <2>1, <1>3, SMT
<1>5. CASE q > p
  <2>1. q - p - 1 \in Nat
    BY <1>5, SMT
  <2>2. MaxQued * (q - p - 1) >= 0
    BY <2>1, MaxQuedAssumption, SMT
  <2>3. MaxQued * (q - p) = MaxQued + MaxQued * (q - p - 1)
    BY MaxQuedAssumption, SMT
  <2>4. QED BY <2>2, <2>3, <1>3, MaxQuedAssumption, SMT
<1>6. QED BY <1>4, <1>5

(***************************************************************************)
(* The inductive invariant.                                                *)
(***************************************************************************)

IInv == TypeOK /\ QueueWindow /\ WaitingSlotsFilled

LEMMA WindowShrinks ==
  ASSUME NEW h \in Nat, NEW t \in Nat, NEW t2 \in Nat,
         t <= t2, h - t <= MaxQued
  PROVE  h - t2 <= MaxQued
BY MaxQuedAssumption, SMT

LEMMA InitIInv == Init => IInv
BY MaxQuedAssumption, SMT
   DEF Init, IInv, TypeOK, QueueWindow, WaitingSlotsFilled

\* Queueing an event keeps the invariant: the slot written is the head's, which
\* no other waiting event has once the oldest is dropped on overflow.
LEMMA QueEventIInv ==
  ASSUME IInv, NEW e \in Events, Sys_QueEvent(e)
  PROVE  /\ eventQue' \in [Slots -> Events \cup {NoEvent}]
         /\ eventHead' \in Nat
         /\ eventTail' \in Nat
         /\ QueueWindow'
         /\ WaitingSlotsFilled'
         /\ eventQue'[Slot(eventHead)] = e
         /\ \A i \in eventTail' .. eventHead - 1 :
              eventQue'[Slot(i)] = eventQue[Slot(i)]
<1> USE DEF IInv, TypeOK, QueueWindow, Sys_QueEvent, Overflow
<1>1. /\ eventQue' \in [Slots -> Events \cup {NoEvent}]
      /\ eventQue'[Slot(eventHead)] = e
  BY SlotInRange
<1>2. /\ eventHead' \in Nat
      /\ eventTail' \in Nat
      /\ QueueWindow'
  BY MaxQuedAssumption, SMT
<1>3. \A i \in eventTail' .. eventHead - 1 : eventQue'[Slot(i)] = eventQue[Slot(i)]
  <2>1. TAKE i \in eventTail' .. eventHead - 1
  <2>2. i \in Nat /\ i < eventHead /\ eventHead < i + MaxQued
    BY <1>2, MaxQuedAssumption, SMT
  <2>3. Slot(i) # Slot(eventHead) /\ Slot(i) \in Slots
    BY <2>2, SlotDistinct, SlotInRange
  <2>4. QED BY <2>3
<1>4. WaitingSlotsFilled'
  <2>1. SUFFICES ASSUME NEW i \in eventTail' .. eventHead' - 1
                 PROVE  eventQue'[Slot(i)] \in Events
    BY DEF WaitingSlotsFilled, Slot
  <2>2. CASE i = eventHead
    BY <2>2, <1>1
  <2>3. CASE i # eventHead
    <3>1. i \in eventTail' .. eventHead - 1 /\ i \in eventTail .. eventHead - 1
      BY <2>3, <1>2, SMT
    <3>2. QED BY <3>1, <1>3 DEF WaitingSlotsFilled
  <2>4. QED BY <2>2, <2>3
<1>5. QED BY <1>1, <1>2, <1>3, <1>4

LEMMA StepIInv == IInv /\ [Next]_vars => IInv'
<1> SUFFICES ASSUME IInv, [Next]_vars PROVE IInv'
  OBVIOUS
<1>1. CASE QueEvent
  <2>1. PICK e \in Events : Sys_QueEvent(e)
    BY <1>1 DEF QueEvent
  <2>2. ev' \in Events \cup {NoEvent}
    BY <1>1 DEF QueEvent, IInv, TypeOK
  <2>3. QED BY <2>1, <2>2, QueEventIInv DEF IInv, TypeOK
<1>2. CASE Sys_GetEvent
  <2>1. eventHead' = eventHead /\ eventQue' = eventQue
    BY <1>2 DEF Sys_GetEvent
  <2>2. eventTail' \in Nat /\ eventTail <= eventTail' /\ eventTail' <= eventHead
    BY <1>2, SMT DEF Sys_GetEvent, IInv, TypeOK, QueueWindow
  <2>3. ev' \in Events \cup {NoEvent}
    BY <1>2, SlotInRange DEF Sys_GetEvent, IInv, TypeOK
  <2>4. QueueWindow'
    <3>1. eventHead \in Nat /\ eventTail \in Nat /\ eventHead - eventTail <= MaxQued
      BY DEF IInv, TypeOK, QueueWindow
    <3>2. QED BY <2>1, <2>2, <3>1, WindowShrinks DEF QueueWindow
  <2>5. WaitingSlotsFilled'
    <3>1. \A i \in eventTail' .. eventHead - 1 : i \in eventTail .. eventHead - 1
      BY <2>2, SMT DEF IInv, TypeOK
    <3>2. QED BY <2>1, <3>1 DEF WaitingSlotsFilled, IInv, Slot
  <2>6. QED BY <2>1, <2>2, <2>3, <2>4, <2>5 DEF IInv, TypeOK
<1>3. CASE Sys_ClearEvents
  BY <1>3, MaxQuedAssumption, SMT
     DEF Sys_ClearEvents, IInv, TypeOK, QueueWindow, WaitingSlotsFilled
<1>4. CASE UNCHANGED vars
  BY <1>4 DEF vars, IInv, TypeOK, QueueWindow, WaitingSlotsFilled, Slot
<1>5. QED BY <1>1, <1>2, <1>3, <1>4 DEF Next

\* The state of the queue is well formed, its counters are never more than one
\* ring apart, and every waiting slot holds an event: for every ring size.
THEOREM QueueInvariant == Spec => [](TypeOK /\ QueueWindow /\ WaitingSlotsFilled)
<1>1. Spec => []IInv
  BY InitIInv, StepIInv, PTL DEF Spec
<1>2. QED BY <1>1 DEF IInv

(***************************************************************************)
(* The ring implements the lossy FIFO.                                     *)
(***************************************************************************)

PendingFacts ==
  /\ Pending \in Seq(Events)
  /\ Len(Pending) = eventHead - eventTail
  /\ \A i \in 1 .. eventHead - eventTail :
       Pending[i] = eventQue[Slot(eventTail + i - 1)]

\* The waiting events are a sequence as long as the counters are apart.
LEMMA PendingSeq == IInv => PendingFacts
<1> SUFFICES ASSUME IInv PROVE PendingFacts
  OBVIOUS
<1>1. eventHead - eventTail \in Nat
  BY SMT DEF IInv, TypeOK, QueueWindow
<1>2. \A i \in 1 .. eventHead - eventTail :
        eventTail + i - 1 \in eventTail .. eventHead - 1
  BY <1>1, SMT DEF IInv, TypeOK
<1>3. Pending \in [1 .. eventHead - eventTail -> Events]
  BY <1>2 DEF Pending, IInv, WaitingSlotsFilled
<1>4. Pending \in Seq(Events)
  BY <1>1, <1>3, SeqDef
<1>5. DOMAIN Pending = 1 .. eventHead - eventTail
  BY DEF Pending
<1>6. Len(Pending) \in Nat /\ DOMAIN Pending = 1 .. Len(Pending)
  BY <1>4, LenProperties
<1>7. Len(Pending) = eventHead - eventTail
  BY <1>1, <1>5, <1>6, SMT
<1>8. QED BY <1>4, <1>7 DEF Pending, PendingFacts

\* A sequence that repeats another one without its first d elements, followed by
\* one more element.
LEMMA AppendedTo ==
  ASSUME NEW q \in Seq(Events), NEW r \in Seq(Events), NEW e \in Events,
         Len(r) = Len(q) + 1,
         \A i \in 1 .. Len(q) : r[i] = q[i],
         r[Len(r)] = e
  PROVE  r = Append(q, e)
<1>1. /\ Append(q, e) \in Seq(Events)
      /\ Len(Append(q, e)) = Len(q) + 1
      /\ \A i \in 1 .. Len(q) : Append(q, e)[i] = q[i]
      /\ Append(q, e)[Len(q) + 1] = e
  BY AppendProperties
<1>2. Len(q) \in Nat /\ Len(r) \in Nat
  BY LenProperties
<1>3. ASSUME NEW i \in 1 .. Len(r) PROVE r[i] = Append(q, e)[i]
  <2>1. i \in 1 .. Len(q) \/ i = Len(q) + 1
    BY <1>2, SMT
  <2>2. QED BY <2>1, <1>1
<1>4. QED BY <1>1, <1>3, SeqEqual

LEMMA AppendedToTail ==
  ASSUME NEW q \in Seq(Events), NEW r \in Seq(Events), NEW e \in Events,
         Len(q) >= 1, Len(r) = Len(q),
         \A i \in 1 .. Len(q) - 1 : r[i] = q[i + 1],
         r[Len(r)] = e
  PROVE  r = Append(Tail(q), e)
<1>1. q # <<>>
  BY EmptySeq, SMT
<1>2. /\ Tail(q) \in Seq(Events)
      /\ Len(Tail(q)) = Len(q) - 1
      /\ \A i \in 1 .. Len(Tail(q)) : Tail(q)[i] = q[i + 1]
  BY <1>1, HeadTailProperties
<1>3. Len(r) = Len(Tail(q)) + 1
  BY <1>2, LenProperties, SMT
<1>4. \A i \in 1 .. Len(Tail(q)) : r[i] = Tail(q)[i]
  BY <1>2
<1>5. QED BY <1>2, <1>3, <1>4, AppendedTo

\* Sys_QueEvent is Put: without overflow the window grows by the new event, on
\* overflow it moves on by one.
LEMMA QueEventPuts ==
  ASSUME IInv, IInv', NEW e \in Events, Sys_QueEvent(e), UNCHANGED ev
  PROVE  Fifo!Put(e)
<1>1. PendingFacts
  BY PendingSeq
<1>2. PendingFacts'
  BY PendingSeq, PTL
<1>3. PICK h \in Nat, t \in Nat : h = eventHead /\ t = eventTail
  BY DEF IInv, TypeOK
<1>4. t <= h /\ h - t <= MaxQued /\ MaxQued \in Nat \ {0}
  BY <1>3, MaxQuedAssumption DEF IInv, QueueWindow
<1>5. eventHead' = h + 1
  BY <1>3 DEF Sys_QueEvent
<1>6. Pending \in Seq(Events) /\ Pending' \in Seq(Events) /\ Len(Pending) = h - t
  BY <1>1, <1>2, <1>3 DEF PendingFacts
<1>7. \A i \in 1 .. h - t : Pending[i] = eventQue[Slot(t + i - 1)]
  BY <1>1, <1>3 DEF PendingFacts
<1>8. \A j \in eventTail' .. h - 1 : eventQue'[Slot(j)] = eventQue[Slot(j)]
  BY <1>3, QueEventIInv
<1>9. eventQue'[Slot(h)] = e
  BY <1>3, QueEventIInv
<1>10. CASE ~Overflow
  <2>1. h - t < MaxQued /\ eventTail' = t
    BY <1>3, <1>4, <1>10, SMT DEF Overflow, Sys_QueEvent
  <2>2. Len(Pending') = h + 1 - t
    BY <1>2, <1>5, <2>1 DEF PendingFacts
  <2>3. \A i \in 1 .. h + 1 - t : Pending'[i] = eventQue'[Slot(t + i - 1)]
    BY <1>2, <1>5, <2>1 DEF PendingFacts, Slot
  <2>4. Len(Pending') = Len(Pending) + 1
    BY <2>2, <1>6, SMT
  <2>5. ASSUME NEW i \in 1 .. Len(Pending) PROVE Pending'[i] = Pending[i]
    <3>1. i \in 1 .. h + 1 - t /\ i \in 1 .. h - t /\ t + i - 1 \in t .. h - 1
      BY <1>4, <1>6, SMT
    <3>2. QED BY <3>1, <2>1, <2>3, <1>7, <1>8
  <2>6. Pending'[Len(Pending')] = e
    <3>1. h + 1 - t \in 1 .. h + 1 - t /\ t + (h + 1 - t) - 1 = h
      BY <1>4, SMT
    <3>2. QED BY <3>1, <2>2, <2>3, <1>9
  <2>7. Pending' = Append(Pending, e)
    BY <1>6, <2>4, <2>5, <2>6, AppendedTo
  <2>8. ~(Len(Pending) >= MaxQued)
    BY <1>4, <1>6, <2>1, SMT
  <2>9. QED BY <2>7, <2>8 DEF Fifo!Put
<1>11. CASE Overflow
  <2>1. h - t = MaxQued /\ eventTail' = t + 1
    BY <1>3, <1>4, <1>11, SMT DEF Overflow, Sys_QueEvent
  <2>2. Len(Pending') = (h + 1) - (t + 1)
    BY <1>2, <1>5, <2>1 DEF PendingFacts
  <2>3. \A i \in 1 .. (h + 1) - (t + 1) : Pending'[i] = eventQue'[Slot((t + 1) + i - 1)]
    BY <1>2, <1>5, <2>1 DEF PendingFacts, Slot
  <2>4. Len(Pending') = Len(Pending) /\ Len(Pending) >= 1
    BY <2>1, <2>2, <1>4, <1>6, SMT
  <2>5. ASSUME NEW i \in 1 .. Len(Pending) - 1 PROVE Pending'[i] = Pending[i + 1]
    <3>1. /\ i \in 1 .. (h + 1) - (t + 1) /\ i + 1 \in 1 .. h - t
          /\ (t + 1) + i - 1 \in (t + 1) .. h - 1
          /\ (t + 1) + i - 1 = t + (i + 1) - 1
      BY <1>4, <1>6, SMT
    <3>2. QED BY <3>1, <2>1, <2>3, <1>7, <1>8
  <2>6. Pending'[Len(Pending')] = e
    <3>1. /\ (h + 1) - (t + 1) \in 1 .. (h + 1) - (t + 1)
          /\ (t + 1) + ((h + 1) - (t + 1)) - 1 = h
      BY <1>4, <2>1, SMT
    <3>2. QED BY <3>1, <2>2, <2>3, <1>9
  <2>7. Pending' = Append(Tail(Pending), e)
    BY <1>6, <2>4, <2>5, <2>6, AppendedToTail
  <2>8. Len(Pending) >= MaxQued
    BY <1>4, <1>6, <2>1, SMT
  <2>9. QED BY <2>7, <2>8 DEF Fifo!Put
<1>12. QED BY <1>10, <1>11

\* Sys_GetEvent takes the oldest waiting event, or nothing when none waits.
LEMMA GetEventGets ==
  ASSUME IInv, IInv', Sys_GetEvent
  PROVE  Fifo!GetOldest \/ Fifo!GetNothing
<1>1. PendingFacts
  BY PendingSeq
<1>2. PendingFacts'
  BY PendingSeq, PTL
<1>3. PICK h \in Nat, t \in Nat : h = eventHead /\ t = eventTail
  BY DEF IInv, TypeOK
<1>4. t <= h
  BY <1>3 DEF IInv, QueueWindow
<1>5. Pending \in Seq(Events) /\ Pending' \in Seq(Events) /\ Len(Pending) = h - t
  BY <1>1, <1>2, <1>3 DEF PendingFacts
<1>6. \A i \in 1 .. h - t : Pending[i] = eventQue[Slot(t + i - 1)]
  BY <1>1, <1>3 DEF PendingFacts
<1>7. eventHead' = h /\ eventQue' = eventQue
  BY <1>3 DEF Sys_GetEvent
<1>8. CASE h > t
  <2>1. eventTail' = t + 1 /\ ev' = eventQue[Slot(t)]
    BY <1>3, <1>8 DEF Sys_GetEvent
  <2>2. Len(Pending') = h - (t + 1)
    BY <1>2, <1>7, <2>1 DEF PendingFacts
  <2>3. \A i \in 1 .. h - (t + 1) : Pending'[i] = eventQue[Slot((t + 1) + i - 1)]
    BY <1>2, <1>7, <2>1 DEF PendingFacts, Slot
  <2>4. Pending # <<>>
    BY <1>5, <1>8, EmptySeq, SMT
  <2>5. /\ Tail(Pending) \in Seq(Events)
        /\ Len(Tail(Pending)) = Len(Pending) - 1
        /\ \A i \in 1 .. Len(Tail(Pending)) : Tail(Pending)[i] = Pending[i + 1]
    BY <1>5, <2>4, HeadTailProperties
  <2>6. Len(Pending') = Len(Tail(Pending))
    BY <1>5, <2>2, <2>5, SMT
  <2>7. ASSUME NEW i \in 1 .. Len(Pending') PROVE Pending'[i] = Tail(Pending)[i]
    <3>1. /\ i \in 1 .. h - (t + 1) /\ i + 1 \in 1 .. h - t
          /\ (t + 1) + i - 1 = t + (i + 1) - 1
      BY <1>4, <2>2, SMT
    <3>2. i \in 1 .. Len(Tail(Pending))
      BY <2>6
    <3>3. QED BY <3>1, <3>2, <2>3, <2>5, <1>6
  <2>8. Pending' = Tail(Pending)
    BY <1>5, <2>5, <2>6, <2>7, SeqEqual
  <2>9. ev' = Head(Pending)
    <3>1. 1 \in 1 .. h - t /\ t + 1 - 1 = t
      BY <1>8, SMT
    <3>2. Head(Pending) = Pending[1]
      BY <1>5, <2>4
    <3>3. QED BY <3>1, <3>2, <2>1, <1>6
  <2>10. QED BY <2>4, <2>8, <2>9 DEF Fifo!GetOldest
<1>9. CASE ~(h > t)
  <2>1. eventTail' = t /\ ev' = NoEvent
    BY <1>3, <1>9 DEF Sys_GetEvent
  <2>2. Pending' = Pending
    BY <1>3, <1>7, <2>1 DEF Pending, Slot
  <2>3. Len(Pending) = 0
    BY <1>4, <1>5, <1>9, SMT
  <2>4. Pending = <<>>
    BY <1>5, <2>3, EmptySeq, SMT
  <2>5. QED BY <2>1, <2>2, <2>4 DEF Fifo!GetNothing
<1>10. QED BY <1>8, <1>9

LEMMA InitFifo == Init => Fifo!FifoInit
<1> SUFFICES ASSUME Init PROVE Fifo!FifoInit
  OBVIOUS
<1>1. PendingFacts
  BY InitIInv, PendingSeq
<1>2. Len(Pending) = 0 /\ Pending \in Seq(Events)
  BY <1>1, SMT DEF PendingFacts, Init
<1>3. Pending = <<>>
  BY <1>2, EmptySeq, SMT
<1>4. QED BY <1>3 DEF Init, Fifo!FifoInit

LEMMA StepFifo ==
  ASSUME IInv, IInv', [Next]_vars
  PROVE  [Fifo!FifoNext]_(Fifo!fifoVars)
<1>1. CASE QueEvent
  <2>1. PICK e \in Events : Sys_QueEvent(e) /\ UNCHANGED ev
    BY <1>1 DEF QueEvent
  <2>2. Fifo!Put(e)
    BY <2>1, QueEventPuts
  <2>3. QED BY <2>2 DEF Fifo!FifoNext
<1>2. CASE Sys_GetEvent
  BY <1>2, GetEventGets DEF Fifo!FifoNext
<1>3. CASE Sys_ClearEvents
  <2>1. PendingFacts'
    BY PendingSeq, PTL
  <2>2. Len(Pending') = 0 /\ Pending' \in Seq(Events)
    BY <1>3, <2>1, SMT DEF PendingFacts, Sys_ClearEvents
  <2>3. Pending' = <<>>
    BY <2>2, EmptySeq, SMT
  <2>4. QED BY <1>3, <2>3 DEF Sys_ClearEvents, Fifo!Clear, Fifo!FifoNext
<1>4. CASE UNCHANGED vars
  BY <1>4 DEF vars, Pending, Slot, Fifo!fifoVars
<1>5. QED BY <1>1, <1>2, <1>3, <1>4 DEF Next

\* The event queue of the code implements the lossy FIFO: events come out in the
\* order they went in, at most once, and only the oldest of MAX_QUED_EVENTS waiting
\* events is ever lost.
THEOREM QueueIsFifo == Spec => ImplementsFifo
<1>1. IInv /\ IInv' /\ [Next]_vars => [Fifo!FifoNext]_(Fifo!fifoVars)
  BY StepFifo
<1>2. QED
  BY <1>1, InitFifo, InitIInv, StepIInv, PTL DEF Spec, ImplementsFifo, Fifo!FifoSpec

\* The inductive invariant.  While a frame drains, LossIsExact says nothing; what
\* has to be kept then is that a frame only stops with an empty ring, since no event
\* in the ring is NoEvent.
LInv ==
  /\ IInv
  /\ LoopTypeOK
  /\ pc = "drain" /\ ev = NoEvent => eventTail = eventHead
  /\ rendered <= eventHead
  /\ LossIsExact

LEMMA LoopInitHolds == LoopInit => LInv
<1> SUFFICES ASSUME LoopInit PROVE LInv
  OBVIOUS
<1>1. IInv
  BY InitIInv DEF LoopInit
<1>2. LoopTypeOK
  <2>1. TypeOK
    BY <1>1 DEF IInv
  <2>2. osQueue \in Seq(Messages) /\ handled \in Seq(Events) /\ queuedBy \in Seq(1 .. MaxPosted)
    BY DEF LoopInit
  <2>3. posted \in 0 .. MaxPosted /\ rendered \in Nat
    BY MainLoopAssumption, SMT DEF LoopInit
  <2>4. /\ quitPosted \in BOOLEAN /\ movingWindow \in BOOLEAN
        /\ pc \in {"pump", "modal", "drain", "exit"}
    BY DEF LoopInit
  <2>. QED BY <2>1, <2>2, <2>3, <2>4 DEF LoopTypeOK
<1>3. eventHead = 0 /\ eventTail = 0 /\ rendered = 0 /\ pc = "pump"
  BY DEF LoopInit, Init
<1>4. LossIsExact
  BY <1>3, MaxQuedAssumption, SMT DEF LossIsExact
<1>. QED BY <1>1, <1>2, <1>3, <1>4 DEF LInv

\* What a call of Sys_GetEvent does: an event, or an empty ring.
LEMMA GetEventFacts ==
  ASSUME IInv, Sys_GetEvent
  PROVE  /\ IInv'
         /\ eventHead' = eventHead
         /\ ev' = NoEvent => eventTail' = eventHead'
<1>1. IInv'
  BY StepIInv DEF Next
<1>2. eventHead' = eventHead
  BY DEF Sys_GetEvent
<1>3. CASE eventHead > eventTail
  <2>1. eventTail \in eventTail .. eventHead - 1
    BY <1>3, SMT DEF IInv, TypeOK
  <2>2. ev' \in Events
    BY <1>3, <2>1 DEF Sys_GetEvent, IInv, WaitingSlotsFilled
  <2>. QED BY <1>1, <1>2, <2>2, NoEventAssumption
<1>4. CASE ~(eventHead > eventTail)
  <2>1. eventTail = eventHead
    BY <1>4, SMT DEF IInv, TypeOK, QueueWindow
  <2>. QED BY <1>1, <1>2, <1>4, <2>1 DEF Sys_GetEvent
<1>. QED BY <1>3, <1>4

\* One message handed to MainWndProc, in the pump or in the drag.  An event that is
\* queued moves the tail exactly when the ring holds MaxQued events already.
LEMMA WndProcKeeps ==
  ASSUME LInv, NEW m \in Messages, NEW here \in {"pump", "modal"}, pc = here,
         MainWndProc(m, here), rendered' = rendered
  PROVE  /\ IInv'
         /\ pc' \in {"pump", "modal", "exit"}
         /\ movingWindow' \in BOOLEAN
         /\ handled' \in Seq(Events)
         /\ queuedBy' \in Seq(1 .. MaxPosted)
         /\ rendered' <= eventHead'
         /\ LossIsExact'
<1>1. CASE m.kind \in InputKinds /\ Sys_QueEvent(EventOf(m))
           /\ queuedBy' = Append(queuedBy, m.num) /\ pc' = here
           /\ UNCHANGED <<ev, movingWindow, handled>>
  <2>1. EventOf(m) \in Events
    BY MainEventsAssumption
  <2>2. IInv'
    <3>1. /\ eventQue' \in [Slots -> Events \cup {NoEvent}]
          /\ eventHead' \in Nat /\ eventTail' \in Nat
          /\ QueueWindow' /\ WaitingSlotsFilled'
      BY <1>1, <2>1, QueEventIInv DEF LInv
    <3>2. ev' \in Events \cup {NoEvent}
      BY <1>1 DEF LInv, IInv, TypeOK
    <3>. QED BY <3>1, <3>2 DEF IInv, TypeOK
  <2>3. m.num \in 1 .. MaxPosted
    BY DEF Messages
  <2>4. queuedBy' \in Seq(1 .. MaxPosted)
    BY <1>1, <2>3 DEF LInv, LoopTypeOK
  <2>5. /\ eventHead \in Nat /\ eventTail \in Nat /\ rendered \in Nat
        /\ rendered <= eventHead
        /\ eventTail = IF eventHead - rendered > MaxQued THEN eventHead - MaxQued
                       ELSE rendered
    BY DEF LInv, IInv, TypeOK, LoopTypeOK, LossIsExact
  <2>6. /\ eventHead' = eventHead + 1
        /\ eventTail' = IF eventHead - eventTail >= MaxQued THEN eventTail + 1
                        ELSE eventTail
    BY <1>1 DEF Sys_QueEvent, Overflow
  <2>7. eventTail' = IF eventHead' - rendered > MaxQued THEN eventHead' - MaxQued
                     ELSE rendered
    BY <2>5, <2>6, MaxQuedAssumption, SMT
  <2>8. rendered' <= eventHead'
    BY <2>5, <2>6, SMT
  <2>. QED BY <1>1, <2>2, <2>4, <2>7, <2>8 DEF LInv, LoopTypeOK, LossIsExact
<1>2. CASE pc' \in {"pump", "modal", "exit"} /\ movingWindow' \in BOOLEAN
           /\ UNCHANGED <<vars, handled, queuedBy>>
  <2>1. IInv'
    BY <1>2, StepIInv DEF LInv
  <2>2. eventHead' = eventHead /\ eventTail' = eventTail
    BY <1>2 DEF vars
  <2>. QED BY <1>2, <2>1, <2>2 DEF LInv, LoopTypeOK, LossIsExact
<1>. QED BY <1>1, <1>2 DEF MainWndProc, LInv, LoopTypeOK

LEMMA LoopStepKeeps == LInv /\ [LoopNext]_allVars => LInv'
<1> SUFFICES ASSUME LInv, [LoopNext]_allVars PROVE LInv'
  OBVIOUS
<1>1. CASE Post
  <2>1. PICK k \in InputKinds \cup OtherKinds :
          osQueue' = Append(osQueue, [kind |-> k, num |-> posted + 1])
    BY <1>1 DEF Post
  <2>2. posted \in Nat /\ posted + 1 \in 1 .. MaxPosted /\ posted' \in 0 .. MaxPosted
    BY <1>1, MainLoopAssumption, SMT DEF Post, LInv, LoopTypeOK
  <2>3. osQueue' \in Seq(Messages)
    BY <2>1, <2>2 DEF LInv, LoopTypeOK, Messages
  <2>4. UNCHANGED <<vars, quitPosted, pc, movingWindow, handled, queuedBy, rendered>>
    BY <1>1 DEF Post
  <2>5. IInv'
    BY <2>4, StepIInv DEF LInv
  <2>. QED BY <2>2, <2>3, <2>4, <2>5 DEF LInv, LoopTypeOK, LossIsExact, IInv, vars
<1>2. CASE PostQuit
  <2>1. IInv'
    BY <1>2, StepIInv DEF PostQuit, LInv
  <2>. QED BY <1>2, <2>1 DEF PostQuit, LInv, LoopTypeOK, LossIsExact, IInv, vars
<1>3. CASE PumpMessage \/ ModalMessage
  <2>1. PICK here \in {"pump", "modal"} :
          /\ pc = here /\ osQueue # <<>>
          /\ osQueue' = Tail(osQueue)
          /\ MainWndProc(Head(osQueue), here)
          /\ UNCHANGED <<quitPosted, posted, rendered>>
    BY <1>3 DEF PumpMessage, ModalMessage
  <2>2. osQueue \in Seq(Messages)
    BY DEF LInv, LoopTypeOK
  <2>3. Head(osQueue) \in Messages /\ Tail(osQueue) \in Seq(Messages)
    BY <2>1, <2>2
  <2>4. /\ IInv'
        /\ pc' \in {"pump", "modal", "exit"}
        /\ movingWindow' \in BOOLEAN
        /\ handled' \in Seq(Events)
        /\ queuedBy' \in Seq(1 .. MaxPosted)
        /\ rendered' <= eventHead'
        /\ LossIsExact'
    BY <2>1, <2>3, WndProcKeeps
  <2>. QED BY <2>1, <2>3, <2>4 DEF LInv, LoopTypeOK, IInv
<1>4. CASE PumpQuit
  <2>1. IInv'
    BY <1>4, StepIInv DEF PumpQuit, LInv
  <2>. QED BY <1>4, <2>1 DEF PumpQuit, LInv, LoopTypeOK, LossIsExact, IInv, vars
<1>5. CASE PumpDone
  <2>1. /\ IInv' /\ eventHead' = eventHead
        /\ ev' = NoEvent => eventTail' = eventHead'
    BY <1>5, GetEventFacts DEF PumpDone, LInv
  <2>2. /\ pc' = "drain"
        /\ UNCHANGED <<osQueue, quitPosted, posted, movingWindow, handled, queuedBy,
                       rendered>>
    BY <1>5 DEF PumpDone
  <2>. QED BY <2>1, <2>2 DEF LInv, LoopTypeOK, LossIsExact, IInv
<1>6. CASE ModalEnd
  <2>1. IInv'
    BY <1>6, StepIInv DEF ModalEnd, LInv
  <2>. QED BY <1>6, <2>1 DEF ModalEnd, LInv, LoopTypeOK, LossIsExact, IInv, vars
<1>7. CASE FrameEvent
  <2>1. /\ IInv' /\ eventHead' = eventHead
        /\ ev' = NoEvent => eventTail' = eventHead'
    BY <1>7, GetEventFacts DEF FrameEvent, LInv
  <2>2. /\ pc = "drain" /\ pc' = pc
        /\ handled' = Append(handled, ev)
        /\ UNCHANGED <<osQueue, quitPosted, posted, movingWindow, queuedBy, rendered>>
    BY <1>7 DEF FrameEvent
  <2>3. ev \in Events
    BY <1>7 DEF FrameEvent, LInv, IInv, TypeOK
  <2>4. handled' \in Seq(Events)
    BY <2>2, <2>3 DEF LInv, LoopTypeOK
  <2>. QED BY <2>1, <2>2, <2>4 DEF LInv, LoopTypeOK, LossIsExact, IInv
<1>8. CASE FrameUpdate
  <2>1. IInv'
    BY <1>8, StepIInv DEF FrameUpdate, LInv
  <2>2. /\ pc' = "pump"
        /\ eventTail' = eventHead' /\ rendered' = eventHead' /\ eventHead' \in Nat
    BY <1>8 DEF FrameUpdate, LInv, IInv, TypeOK, vars
  <2>3. ~(eventHead' - rendered' > MaxQued) /\ rendered' <= eventHead'
    <3>1. \A h \in Nat : ~(h - h > MaxQued) /\ h <= h
      BY MaxQuedAssumption, SMT
    <3>. QED BY <2>2, <3>1
  <2>4. LossIsExact'
    BY <2>2, <2>3 DEF LossIsExact
  <2>. QED BY <1>8, <2>1, <2>2, <2>3, <2>4 DEF FrameUpdate, LInv, LoopTypeOK, IInv
<1>9. CASE UNCHANGED allVars
  <2>1. IInv'
    BY <1>9, StepIInv DEF allVars, vars, LInv
  <2>2. LoopTypeOK'
    <3>1. /\ osQueue' = osQueue /\ quitPosted' = quitPosted /\ posted' = posted
          /\ pc' = pc /\ movingWindow' = movingWindow /\ handled' = handled
          /\ queuedBy' = queuedBy /\ rendered' = rendered
      BY <1>9 DEF allVars
    <3>. QED BY <2>1, <3>1 DEF LInv, LoopTypeOK, IInv
  <2>3. /\ pc' = pc /\ eventTail' = eventTail /\ eventHead' = eventHead
        /\ rendered' = rendered /\ ev' = ev
    BY <1>9 DEF allVars
  <2>. QED BY <2>1, <2>2, <2>3 DEF LInv, LossIsExact
<1>. QED
  BY <1>1, <1>2, <1>3, <1>4, <1>5, <1>6, <1>7, <1>8, <1>9 DEF LoopNext, Thread, Exited

\* A render leaves nothing behind, and between two renders exactly the events that
\* exceed the ring are lost, the oldest ones (MainWndProc, Sys_QueEvent, Sys_GetEvent
\* and Frame together).
THEOREM LossExact == LoopSpec => [](LoopTypeOK /\ LossIsExact)
<1>1. LoopSpec => []LInv
  BY LoopInitHolds, LoopStepKeeps, PTL DEF LoopSpec
<1>2. LInv => LoopTypeOK /\ LossIsExact
  BY DEF LInv
<1>. QED BY <1>1, <1>2, PTL

(***************************************************************************)
(* What is handled, and in which order.                                    *)
(***************************************************************************)

Increasing(s) == \A i, j \in DOMAIN s : i < j => s[i] < s[j]
Holding == pc = "drain" /\ ev # NoEvent

\* The messages are taken in the order of their numbers, and so their events queued.
MessagesInOrder ==
  /\ Increasing(Nums(osQueue)) /\ Increasing(queuedBy)
  /\ \A i \in DOMAIN osQueue :
       /\ osQueue[i].num <= posted
       /\ \A n \in DOMAIN queuedBy : queuedBy[n] < osQueue[i].num
  /\ \A n \in DOMAIN queuedBy : queuedBy[n] <= posted

\* The counters of the ring are positions in queuedBy.
RingIsQueued ==
  /\ Len(queuedBy) = eventHead
  /\ \A i \in eventTail .. eventHead - 1 : eventQue[Slot(i)].num = queuedBy[i + 1]
  /\ Holding => eventTail >= 1 /\ ev.num = queuedBy[eventTail]

\* What was handled is from in front of the tail, and of the event in Frame's hands.
HandledIsPast ==
  /\ Increasing(Nums(handled))
  /\ \A i \in DOMAIN handled :
       \E n \in 1 .. eventTail : handled[i].num = queuedBy[n] /\ (Holding => n < eventTail)

OInv == LInv /\ MessagesInOrder /\ RingIsQueued /\ HandledIsPast

\* A number put behind greater ones only.
LEMMA IncreasingAppend ==
  ASSUME NEW s \in Seq(Int), Increasing(s), NEW x \in Int, \A i \in DOMAIN s : s[i] < x
  PROVE  Increasing(Append(s, x))
<1>1. /\ DOMAIN s = 1 .. Len(s) /\ Len(s) \in Nat
      /\ DOMAIN Append(s, x) = 1 .. Len(s) + 1
      /\ \A i \in 1 .. Len(s) : Append(s, x)[i] = s[i]
      /\ Append(s, x)[Len(s) + 1] = x
  BY LenProperties, AppendProperties
<1>2. ASSUME NEW i \in DOMAIN Append(s, x), NEW j \in DOMAIN Append(s, x), i < j
      PROVE  Append(s, x)[i] < Append(s, x)[j]
  <2>1. i \in 1 .. Len(s) /\ (j \in 1 .. Len(s) \/ j = Len(s) + 1)
    BY <1>1, <1>2, SMT
  <2>2. CASE j \in 1 .. Len(s)
    BY <1>1, <1>2, <2>1, <2>2 DEF Increasing
  <2>3. CASE j = Len(s) + 1
    BY <1>1, <2>1, <2>3
  <2>. QED BY <2>1, <2>2, <2>3
<1>. QED BY <1>2 DEF Increasing

LEMMA IncreasingTail ==
  ASSUME NEW S, NEW s \in Seq(S), s # <<>>, Increasing(Nums(s))
  PROVE  /\ Increasing(Nums(Tail(s)))
         /\ \A i \in DOMAIN Tail(s) : i + 1 \in DOMAIN s /\ Tail(s)[i] = s[i + 1]
         /\ \A i \in DOMAIN Tail(s) : Head(s).num < Tail(s)[i].num
<1>1. /\ Tail(s) \in Seq(S) /\ Len(Tail(s)) = Len(s) - 1 /\ Head(s) = s[1]
      /\ \A i \in 1 .. Len(Tail(s)) : Tail(s)[i] = s[i + 1]
      /\ Len(s) \in Nat /\ DOMAIN s = 1 .. Len(s) /\ DOMAIN Tail(s) = 1 .. Len(Tail(s))
  BY HeadTailProperties, LenProperties
<1>2. \A i \in DOMAIN Tail(s) : i + 1 \in DOMAIN s /\ Tail(s)[i] = s[i + 1] /\ 1 \in DOMAIN s
  BY <1>1, SMT
<1>3. DOMAIN Nums(s) = DOMAIN s /\ DOMAIN Nums(Tail(s)) = DOMAIN Tail(s)
  BY DEF Nums
<1>4. \A i \in DOMAIN Tail(s) : Head(s).num < Tail(s)[i].num
  <2>1. TAKE i \in DOMAIN Tail(s)
  <2>2. 1 < i + 1
    BY <1>1, SMT
  <2>. QED BY <2>2, <1>1, <1>2, <1>3 DEF Increasing, Nums
<1>5. ASSUME NEW i \in DOMAIN Tail(s), NEW j \in DOMAIN Tail(s), i < j
      PROVE  Tail(s)[i].num < Tail(s)[j].num
  <2>1. i + 1 < j + 1
    BY <1>1, <1>5, SMT
  <2>. QED BY <2>1, <1>2, <1>3 DEF Increasing, Nums
<1>6. Increasing(Nums(Tail(s)))
  BY <1>3, <1>5 DEF Increasing, Nums
<1>. QED BY <1>2, <1>4, <1>6

LEMMA LoopInitOrders == LoopInit => OInv
<1> SUFFICES ASSUME LoopInit PROVE OInv
  OBVIOUS
<1>1. LInv
  BY LoopInitHolds
<1>2. /\ osQueue = <<>> /\ queuedBy = <<>> /\ handled = <<>> /\ pc = "pump"
      /\ eventHead = 0 /\ eventTail = 0 /\ Len(queuedBy) = 0
  BY DEF LoopInit, Init
<1>3. DOMAIN osQueue = {} /\ DOMAIN queuedBy = {} /\ DOMAIN handled = {}
  BY <1>2
<1>4. MessagesInOrder
  BY <1>3 DEF MessagesInOrder, Increasing, Nums
<1>5. RingIsQueued
  <2>1. \A i \in eventTail .. eventHead - 1 : FALSE
    BY <1>2, SMT
  <2>. QED BY <1>2, <2>1 DEF RingIsQueued, Holding
<1>6. HandledIsPast
  BY <1>3 DEF HandledIsPast, Increasing, Nums
<1>. QED BY <1>1, <1>4, <1>5, <1>6 DEF OInv

\* A message gets the next number.
LEMMA PostOrders ==
  ASSUME LInv, MessagesInOrder, Post
  PROVE  MessagesInOrder'
<1>1. PICK m \in [kind : InputKinds \cup OtherKinds, num : Int] :
        m.num = posted + 1 /\ osQueue' = Append(osQueue, m)
  BY SMT DEF Post, LInv, LoopTypeOK
<1>2. posted' = posted + 1 /\ queuedBy' = queuedBy /\ posted \in Int
  BY DEF Post, LInv, LoopTypeOK
<1>3. osQueue \in Seq([kind : InputKinds \cup OtherKinds, num : Int])
  <2>1. osQueue \in Seq(Messages)
    BY DEF LInv, LoopTypeOK
  <2>2. Messages \subseteq [kind : InputKinds \cup OtherKinds, num : Int]
    BY SMT DEF Messages
  <2>3. osQueue \in [1 .. Len(osQueue) -> Messages] /\ Len(osQueue) \in Nat
    BY <2>1, LenProperties
  <2> DEFINE M == [kind : InputKinds \cup OtherKinds, num : Int]
  <2>4. osQueue \in [1 .. Len(osQueue) -> M]
    BY <2>2, <2>3
  <2>5. M = [kind : InputKinds \cup OtherKinds, num : Int]
    OBVIOUS
  <2> HIDE DEF M
  <2>6. osQueue \in Seq(M)
    BY <2>3, <2>4, SeqDef
  <2>. QED BY <2>5, <2>6
<1>4. /\ DOMAIN osQueue = 1 .. Len(osQueue) /\ Len(osQueue) \in Nat
      /\ DOMAIN osQueue' = 1 .. Len(osQueue) + 1
      /\ \A i \in 1 .. Len(osQueue) : osQueue'[i] = osQueue[i]
      /\ osQueue'[Len(osQueue) + 1] = m
  BY <1>1, <1>3, LenProperties, AppendProperties
<1>5. \A i \in DOMAIN osQueue' : i \in DOMAIN osQueue \/ i = Len(osQueue) + 1
  BY <1>4, SMT
<1>6. \A n \in DOMAIN queuedBy : queuedBy[n] \in Int /\ queuedBy[n] <= posted
  <2>1. queuedBy \in Seq(1 .. MaxPosted) /\ DOMAIN queuedBy = 1 .. Len(queuedBy)
    BY LenProperties DEF LInv, LoopTypeOK
  <2>2. TAKE n \in DOMAIN queuedBy
  <2>3. queuedBy[n] \in 1 .. MaxPosted
    BY <2>1, ElementOfSeq
  <2>. QED BY <2>3, SMT DEF MessagesInOrder
<1>7. \A i \in DOMAIN osQueue : osQueue[i].num \in Int /\ osQueue[i].num <= posted
  <2>1. TAKE i \in DOMAIN osQueue
  <2>2. osQueue[i] \in [kind : InputKinds \cup OtherKinds, num : Int]
    BY <1>3, ElementOfSeq, <1>4
  <2>. QED BY <2>2 DEF MessagesInOrder
<1>8. Increasing(Nums(osQueue)')
  <2>1. Nums(osQueue) \in Seq(Int) /\ Len(Nums(osQueue)) = Len(osQueue)
    <3>1. Nums(osQueue) \in [1 .. Len(osQueue) -> Int]
      BY <1>4, <1>7 DEF Nums
    <3>. QED BY <3>1, <1>4, SeqDef, LenProperties
  <2>2. Nums(osQueue)' = Append(Nums(osQueue), m.num)
    <3>1. /\ DOMAIN Append(Nums(osQueue), m.num) = 1 .. Len(osQueue) + 1
          /\ \A i \in 1 .. Len(osQueue) : Append(Nums(osQueue), m.num)[i] = osQueue[i].num
          /\ Append(Nums(osQueue), m.num)[Len(osQueue) + 1] = m.num
      <4>1. m.num \in Int
        BY <1>1, <1>2, SMT
      <4>. QED BY <2>1, <4>1, <1>4, AppendProperties DEF Nums
    <3>2. Nums(osQueue)' = [i \in 1 .. Len(osQueue) + 1 |-> osQueue'[i].num]
      BY <1>4 DEF Nums
    <3>3. Append(Nums(osQueue), m.num) = [i \in 1 .. Len(osQueue) + 1 |-> osQueue'[i].num]
      <4>1. m.num \in Int /\ Append(Nums(osQueue), m.num) \in Seq(Int)
        BY <1>1, <1>2, <2>1, AppendProperties
      <4>2. \A i \in 1 .. Len(osQueue) + 1 : Append(Nums(osQueue), m.num)[i] = osQueue'[i].num
        BY <3>1, <1>4, <1>5
      <4>. QED BY <3>1, <4>1, <4>2
    <3>. QED BY <3>2, <3>3
  <2>3. \A i \in DOMAIN Nums(osQueue) : Nums(osQueue)[i] < m.num
    BY <1>1, <1>2, <1>7 DEF Nums
  <2>4. m.num \in Int
    BY <1>1, <1>2
  <2>5. Increasing(Nums(osQueue))
    BY DEF MessagesInOrder
  <2>6. Increasing(Append(Nums(osQueue), m.num))
    BY <2>1, <2>3, <2>4, <2>5, IncreasingAppend
  <2>. QED BY <2>2, <2>6
<1>9. ASSUME NEW i \in DOMAIN osQueue'
      PROVE  /\ osQueue'[i].num <= posted'
             /\ \A n \in DOMAIN queuedBy : queuedBy[n] < osQueue'[i].num
  BY <1>1, <1>2, <1>4, <1>5, <1>6, <1>7, <1>9 DEF MessagesInOrder
<1>10. \A n \in DOMAIN queuedBy : queuedBy[n] <= posted'
  BY <1>2, <1>6, SMT
<1>. QED BY <1>2, <1>8, <1>9, <1>10 DEF MessagesInOrder, Increasing, Nums

\* The pump and the drag take the oldest message, and queue its event or none.
LEMMA WndProcOrders ==
  ASSUME OInv, osQueue # <<>>, osQueue' = Tail(osQueue), posted' = posted,
         NEW here \in {"pump", "modal"}, pc = here, MainWndProc(Head(osQueue), here)
  PROVE  MessagesInOrder' /\ RingIsQueued' /\ HandledIsPast'
<1> DEFINE m == Head(osQueue)
<1>1. osQueue \in Seq(Messages) /\ posted \in Int /\ queuedBy \in Seq(1 .. MaxPosted)
  BY DEF OInv, LInv, LoopTypeOK
<1>2. m \in Messages /\ m = osQueue[1] /\ 1 \in DOMAIN osQueue
  BY <1>1
<1>3. /\ Increasing(Nums(Tail(osQueue)))
      /\ \A i \in DOMAIN osQueue' : i + 1 \in DOMAIN osQueue /\ osQueue'[i] = osQueue[i + 1]
      /\ \A i \in DOMAIN osQueue' : m.num < osQueue'[i].num
  BY <1>1, IncreasingTail DEF OInv, MessagesInOrder
<1>4. Increasing(Nums(osQueue)')
  BY <1>3 DEF Nums
<1>5. \A i \in DOMAIN osQueue' :
        osQueue'[i].num <= posted /\ \A n \in DOMAIN queuedBy : queuedBy[n] < osQueue'[i].num
  BY <1>3 DEF OInv, MessagesInOrder
<1>6. m.num <= posted /\ m.num \in 1 .. MaxPosted /\ \A n \in DOMAIN queuedBy : queuedBy[n] < m.num
  BY <1>2 DEF OInv, MessagesInOrder, Messages
<1>7. ~Holding /\ ~Holding'
  BY DEF Holding, MainWndProc
<1>8. handled' = handled
  BY DEF MainWndProc
<1>9. CASE /\ Sys_QueEvent(EventOf(m)) /\ queuedBy' = Append(queuedBy, m.num)
  <2>1. queuedBy \in Seq(Int) /\ m.num \in Int
    <3>1. 1 .. MaxPosted \subseteq Int
      OBVIOUS
    <3>2. queuedBy \in [1 .. Len(queuedBy) -> Int] /\ Len(queuedBy) \in Nat
      BY <1>1, <3>1, LenProperties
    <3>. QED BY <3>1, <3>2, <1>6, SeqDef
  <2>2. /\ DOMAIN queuedBy = 1 .. Len(queuedBy) /\ Len(queuedBy) \in Nat
        /\ DOMAIN queuedBy' = 1 .. Len(queuedBy) + 1 /\ Len(queuedBy') = Len(queuedBy) + 1
        /\ \A n \in 1 .. Len(queuedBy) : queuedBy'[n] = queuedBy[n]
        /\ queuedBy'[Len(queuedBy) + 1] = m.num
    BY <1>9, <2>1, LenProperties, AppendProperties
  <2>3. \A n \in DOMAIN queuedBy' : n \in DOMAIN queuedBy \/ n = Len(queuedBy) + 1
    BY <2>2, SMT
  <2>4. MessagesInOrder'
    <3>1. Increasing(queuedBy')
      BY <1>6, <1>9, <2>1, IncreasingAppend DEF OInv, MessagesInOrder
    <3>2. \A n \in DOMAIN queuedBy' :
            queuedBy'[n] <= posted /\ \A i \in DOMAIN osQueue' : queuedBy'[n] < osQueue'[i].num
      BY <1>3, <1>5, <1>6, <2>2, <2>3 DEF OInv, MessagesInOrder
    <3>. QED BY <1>4, <1>5, <3>1, <3>2 DEF MessagesInOrder, Increasing
  <2>5. EventOf(m) \in Events /\ EventOf(m).num = m.num
    BY <1>2, MainEventsAssumption DEF EventOf
  <2>6. /\ eventHead \in Nat /\ eventTail \in Nat /\ eventTail' \in Nat /\ eventTail <= eventTail'
        /\ eventHead' = eventHead + 1
        /\ eventQue'[Slot(eventHead)] = EventOf(m)
        /\ \A i \in eventTail' .. eventHead - 1 : eventQue'[Slot(i)] = eventQue[Slot(i)]
    <3>1. IInv
      BY DEF OInv, LInv
    <3>2. eventHead' = eventHead + 1 /\ eventTail <= eventTail' /\ eventTail \in Nat /\ eventHead \in Nat
      BY <1>9, <3>1, SMT DEF Sys_QueEvent, IInv, TypeOK
    <3>. QED BY <1>9, <2>5, <3>1, <3>2, QueEventIInv
  <2>7. Len(queuedBy) = eventHead
    BY DEF OInv, RingIsQueued
  <2>8. RingIsQueued'
    <3>1. ASSUME NEW i \in eventTail' .. eventHead' - 1
          PROVE  eventQue'[Slot(i)].num = queuedBy'[i + 1]
      <4>1. i = eventHead \/ (i \in eventTail' .. eventHead - 1 /\ i \in eventTail .. eventHead - 1
                               /\ i + 1 \in 1 .. eventHead)
        BY <2>6, SMT
      <4>2. CASE i = eventHead
        BY <4>2, <2>2, <2>5, <2>6, <2>7
      <4>3. CASE i # eventHead
        BY <4>1, <4>3, <2>2, <2>6, <2>7 DEF OInv, RingIsQueued
      <4>. QED BY <4>2, <4>3
    <3>2. Len(queuedBy') = eventHead'
      BY <2>2, <2>6, <2>7
    <3>. QED BY <1>7, <3>1, <3>2 DEF RingIsQueued, Slot
  <2>9. HandledIsPast'
    <3>1. ASSUME NEW i \in DOMAIN handled
          PROVE  \E n \in 1 .. eventTail' : handled[i].num = queuedBy'[n]
      <4>1. PICK n \in 1 .. eventTail : handled[i].num = queuedBy[n]
        BY DEF OInv, HandledIsPast
      <4>2. eventTail <= eventHead
        BY DEF OInv, LInv, IInv, QueueWindow
      <4>3. n \in 1 .. eventTail' /\ n \in 1 .. Len(queuedBy)
        BY <4>1, <4>2, <2>6, <2>7, SMT
      <4>. QED BY <4>1, <4>3, <2>2
    <3>. QED BY <1>7, <1>8, <3>1 DEF OInv, HandledIsPast, Increasing, Nums
  <2>. QED BY <2>4, <2>8, <2>9
<1>10. CASE UNCHANGED <<vars, queuedBy>>
  <2>1. MessagesInOrder'
    BY <1>4, <1>5, <1>10 DEF OInv, MessagesInOrder, Increasing
  <2>2. RingIsQueued'
    BY <1>7, <1>10 DEF OInv, RingIsQueued, vars, Slot
  <2>3. HandledIsPast'
    BY <1>7, <1>8, <1>10 DEF OInv, HandledIsPast, Increasing, Nums, vars
  <2>. QED BY <2>1, <2>2, <2>3
<1>. QED BY <1>9, <1>10 DEF MainWndProc

\* Frame asks for the next event, having handled the one in its hands if it has one.
LEMMA GetEventOrders ==
  ASSUME OInv, Sys_GetEvent, UNCHANGED <<osQueue, queuedBy, posted>>, pc' = "drain",
         \/ ~Holding /\ handled' = handled
         \/ Holding /\ handled' = Append(handled, ev)
  PROVE  MessagesInOrder' /\ RingIsQueued' /\ HandledIsPast'
<1>1. /\ eventHead \in Nat /\ eventTail \in Nat /\ eventTail <= eventHead
      /\ handled \in Seq(Events) /\ queuedBy \in Seq(1 .. MaxPosted) /\ Len(queuedBy) = eventHead
      /\ DOMAIN queuedBy = 1 .. eventHead
  BY LenProperties DEF OInv, LInv, LoopTypeOK, IInv, TypeOK, QueueWindow, RingIsQueued
<1>2. MessagesInOrder'
  BY DEF OInv, MessagesInOrder, Increasing, Nums
<1>3. eventHead' = eventHead /\ eventQue' = eventQue
  BY DEF Sys_GetEvent
<1>4. /\ eventTail' \in Nat /\ eventTail <= eventTail'
      /\ ev' # NoEvent => /\ eventTail' = eventTail + 1
                          /\ eventTail \in eventTail .. eventHead - 1
                          /\ ev' = eventQue[Slot(eventTail)]
  BY <1>1, SMT DEF Sys_GetEvent
<1>5. RingIsQueued'
  <2>1. \A i \in eventTail' .. eventHead - 1 : i \in eventTail .. eventHead - 1
    BY <1>1, <1>4, SMT
  <2>2. \A i \in eventTail' .. eventHead' - 1 : eventQue'[Slot(i)].num = queuedBy'[i + 1]
    BY <1>3, <2>1 DEF OInv, RingIsQueued
  <2>3. ev' # NoEvent => eventTail' >= 1 /\ ev'.num = queuedBy[eventTail']
    BY <1>1, <1>4 DEF OInv, RingIsQueued
  <2>. QED BY <1>1, <1>3, <2>2, <2>3 DEF RingIsQueued, Holding, Slot
<1>6. CASE ~Holding /\ handled' = handled
  <2>1. ASSUME NEW i \in DOMAIN handled
        PROVE  \E n \in 1 .. eventTail' : handled[i].num = queuedBy[n] /\ (Holding' => n < eventTail')
    <3>1. PICK n \in 1 .. eventTail : handled[i].num = queuedBy[n]
      BY DEF OInv, HandledIsPast
    <3>2. n \in 1 .. eventTail' /\ (Holding' => n < eventTail')
      BY <1>1, <1>4, SMT DEF Holding
    <3>. QED BY <3>1, <3>2
  <2>2. HandledIsPast'
    BY <1>6, <2>1 DEF OInv, HandledIsPast, Increasing, Nums
  <2>. QED BY <1>2, <1>5, <2>2
<1>7. CASE Holding /\ handled' = Append(handled, ev)
  <2>1. /\ ev.num = queuedBy[eventTail] /\ eventTail \in 1 .. eventTail
        /\ eventTail \in 1 .. eventHead /\ ev \in Events
    BY <1>1, <1>7, SMT DEF OInv, RingIsQueued, Holding, LInv, IInv, TypeOK
  <2>2. /\ DOMAIN handled = 1 .. Len(handled) /\ Len(handled) \in Nat
        /\ DOMAIN handled' = 1 .. Len(handled) + 1
        /\ \A i \in 1 .. Len(handled) : handled'[i] = handled[i]
        /\ handled'[Len(handled) + 1] = ev
    BY <1>1, <1>7, <2>1, LenProperties, AppendProperties
  <2>3. \A i \in DOMAIN handled' : i \in DOMAIN handled \/ i = Len(handled) + 1
    BY <2>2, SMT
  <2>4. ASSUME NEW i \in DOMAIN handled
        PROVE  \E n \in 1 .. eventTail : handled[i].num = queuedBy[n] /\ n < eventTail
    BY <1>7 DEF OInv, HandledIsPast
  <2>5. ASSUME NEW i \in DOMAIN handled PROVE handled[i].num < ev.num
    <3>1. PICK n \in 1 .. eventTail : handled[i].num = queuedBy[n] /\ n < eventTail
      BY <2>4
    <3>2. n \in DOMAIN queuedBy /\ eventTail \in DOMAIN queuedBy
      BY <1>1, <2>1, SMT
    <3>. QED BY <2>1, <3>1, <3>2 DEF OInv, MessagesInOrder, Increasing
  <2>6. Increasing(Nums(handled)')
    <3>1. \A i, j \in DOMAIN handled : i < j => handled[i].num < handled[j].num
      BY DEF OInv, HandledIsPast, Increasing, Nums
    <3>2. ASSUME NEW i \in DOMAIN handled', NEW j \in DOMAIN handled', i < j
          PROVE  handled'[i].num < handled'[j].num
      <4>1. i \in DOMAIN handled
        BY <2>2, <3>2, SMT
      <4>2. CASE j \in DOMAIN handled
        BY <2>2, <3>1, <3>2, <4>1, <4>2
      <4>3. CASE j = Len(handled) + 1
        BY <2>2, <2>5, <4>1, <4>3
      <4>. QED BY <2>3, <4>2, <4>3
    <3>. QED BY <3>2 DEF Increasing, Nums
  <2>7. ASSUME NEW i \in DOMAIN handled'
        PROVE  \E n \in 1 .. eventTail' : handled'[i].num = queuedBy[n] /\ (Holding' => n < eventTail')
    <3>1. PICK n \in 1 .. eventTail : handled'[i].num = queuedBy[n]
      BY <2>1, <2>2, <2>3, <2>4
    <3>2. n \in 1 .. eventTail' /\ (Holding' => n < eventTail')
      BY <1>1, <1>4, SMT DEF Holding
    <3>. QED BY <3>1, <3>2
  <2>8. HandledIsPast'
    BY <2>6, <2>7 DEF HandledIsPast, Increasing, Nums
  <2>. QED BY <1>2, <1>5, <2>8
<1>. QED BY <1>6, <1>7

LEMMA LoopStepOrders == OInv /\ [LoopNext]_allVars => OInv'
<1> SUFFICES ASSUME OInv, [LoopNext]_allVars PROVE OInv'
  OBVIOUS
<1>1. LInv'
  BY LoopStepKeeps DEF OInv
<1>2. CASE Post
  <2>1. MessagesInOrder'
    BY <1>2, PostOrders DEF OInv
  <2>2. UNCHANGED <<eventQue, eventHead, eventTail, ev, pc, handled, queuedBy>>
    BY <1>2 DEF Post, vars
  <2>3. RingIsQueued' /\ HandledIsPast'
    BY <2>2 DEF OInv, RingIsQueued, HandledIsPast, Holding, Increasing, Nums, Slot
  <2>. QED BY <1>1, <2>1, <2>3 DEF OInv
<1>3. CASE PumpMessage \/ ModalMessage
  <2>1. PICK here \in {"pump", "modal"} :
          /\ pc = here /\ osQueue # <<>> /\ osQueue' = Tail(osQueue)
          /\ MainWndProc(Head(osQueue), here) /\ posted' = posted
    BY <1>3 DEF PumpMessage, ModalMessage
  <2>. QED BY <1>1, <2>1, WndProcOrders DEF OInv
<1>4. CASE PumpDone \/ FrameEvent
  <2>1. /\ Sys_GetEvent /\ UNCHANGED <<osQueue, queuedBy, posted>> /\ pc' = "drain"
        /\ \/ ~Holding /\ handled' = handled
           \/ Holding /\ handled' = Append(handled, ev)
    BY <1>4 DEF PumpDone, FrameEvent, Holding
  <2>. QED BY <1>1, <2>1, GetEventOrders DEF OInv
<1>5. CASE PostQuit \/ PumpQuit \/ ModalEnd \/ FrameUpdate \/ UNCHANGED allVars
  <2>1. UNCHANGED <<eventQue, eventHead, eventTail, ev, osQueue, posted, handled, queuedBy>>
    BY <1>5 DEF PostQuit, PumpQuit, ModalEnd, FrameUpdate, vars, allVars
  <2>2. Holding' => Holding
    BY <1>5 DEF PostQuit, PumpQuit, ModalEnd, FrameUpdate, vars, allVars, Holding
  <2>3. MessagesInOrder'
    BY <2>1 DEF OInv, MessagesInOrder, Increasing, Nums
  <2>4. RingIsQueued'
    BY <2>1, <2>2 DEF OInv, RingIsQueued, Slot
  <2>5. HandledIsPast'
    BY <2>1, <2>2 DEF OInv, HandledIsPast, Increasing, Nums
  <2>. QED BY <1>1, <2>3, <2>4, <2>5 DEF OInv
<1>. QED BY <1>2, <1>3, <1>4, <1>5 DEF LoopNext, Thread, Exited

LEMMA OrderedInput == OInv => InputInOrder
<1> SUFFICES ASSUME OInv PROVE InputInOrder
  OBVIOUS
<1> DEFINE held == IF ev = NoEvent \/ pc # "drain" THEN <<>> ELSE <<ev.num>>
           seen == Nums(handled) \o held
<1>1. /\ eventHead \in Nat /\ eventTail \in Nat /\ eventTail <= eventHead
      /\ handled \in Seq(Events) /\ queuedBy \in Seq(1 .. MaxPosted) /\ Len(queuedBy) = eventHead
      /\ DOMAIN queuedBy = 1 .. eventHead
      /\ DOMAIN handled = 1 .. Len(handled) /\ Len(handled) \in Nat
  BY LenProperties DEF OInv, LInv, LoopTypeOK, IInv, TypeOK, QueueWindow, RingIsQueued
<1>2. Nums(Pending) = SubSeq(queuedBy, eventTail + 1, eventHead)
  <2>1. Nums(Pending) = [i \in 1 .. eventHead - eventTail |-> eventQue[Slot(eventTail + i - 1)].num]
    BY DEF Nums, Pending
  <2>2. SubSeq(queuedBy, eventTail + 1, eventHead)
          = [i \in 1 .. eventHead - eventTail |-> queuedBy[eventTail + i]]
    <3>1. SubSeq(queuedBy, eventTail + 1, eventHead)
            = [i \in 1 .. 1 + eventHead - (eventTail + 1) |-> queuedBy[i + (eventTail + 1) - 1]]
      BY <1>1
    <3>2. 1 + eventHead - (eventTail + 1) = eventHead - eventTail
      BY <1>1, SMT
    <3>3. \A i \in 1 .. eventHead - eventTail : i + (eventTail + 1) - 1 = eventTail + i
      BY <1>1, SMT
    <3>. QED BY <3>1, <3>2, <3>3
  <2>3. ASSUME NEW i \in 1 .. eventHead - eventTail
        PROVE  eventQue[Slot(eventTail + i - 1)].num = queuedBy[eventTail + i]
    <3>1. eventTail + i - 1 \in eventTail .. eventHead - 1 /\ (eventTail + i - 1) + 1 = eventTail + i
      BY <1>1, SMT
    <3>. QED BY <3>1 DEF OInv, RingIsQueued
  <2>. QED BY <2>1, <2>2, <2>3
<1>3. \A i \in 1 .. Len(handled) :
        handled[i].num \in Int /\ \E n \in 1 .. eventTail : queuedBy[n] = handled[i].num
                                                        /\ (Holding => n < eventTail)
  <2>1. TAKE i \in 1 .. Len(handled)
  <2>2. PICK n \in 1 .. eventTail : handled[i].num = queuedBy[n] /\ (Holding => n < eventTail)
    BY <1>1 DEF OInv, HandledIsPast
  <2>3. n \in 1 .. Len(queuedBy)
    BY <1>1, SMT
  <2>4. queuedBy[n] \in 1 .. MaxPosted
    BY <1>1, <2>3, ElementOfSeq
  <2>. QED BY <2>2, <2>4
<1>4. Nums(handled) \in Seq(Int) /\ Len(Nums(handled)) = Len(handled)
  <2>1. Nums(handled) \in [1 .. Len(handled) -> Int]
    BY <1>1, <1>3 DEF Nums
  <2>. QED BY <2>1, <1>1, SeqDef, LenProperties
<1>5. Increasing(Nums(handled)) /\ Increasing(queuedBy)
  BY DEF OInv, HandledIsPast, MessagesInOrder
<1>6. CASE ~Holding
  <2>1. seen = Nums(handled)
    BY <1>4, <1>6 DEF Holding
  <2>2. \A i \in DOMAIN seen : \E n \in 1 .. eventTail : queuedBy[n] = seen[i]
    <3>1. DOMAIN seen = 1 .. Len(handled)
      BY <1>1, <2>1 DEF Nums
    <3>2. \A i \in 1 .. Len(handled) : seen[i] = handled[i].num
      BY <1>1, <2>1 DEF Nums
    <3>. QED BY <1>3, <3>1, <3>2
  <2>. QED BY <1>2, <1>5, <2>1, <2>2 DEF InputInOrder, Increasing
<1>7. CASE Holding
  <2>1. ev.num = queuedBy[eventTail] /\ eventTail \in 1 .. eventTail /\ eventTail \in DOMAIN queuedBy
    BY <1>1, <1>7, SMT DEF OInv, RingIsQueued
  <2>2. ev.num \in Int
    <3>1. queuedBy[eventTail] \in 1 .. MaxPosted
      BY <1>1, <2>1, ElementOfSeq
    <3>. QED BY <2>1, <3>1
  <2>3. seen = Append(Nums(handled), ev.num)
    BY <1>4, <1>7, <2>2 DEF Holding
  <2>4. /\ DOMAIN seen = 1 .. Len(handled) + 1
        /\ \A i \in 1 .. Len(handled) : seen[i] = handled[i].num
        /\ seen[Len(handled) + 1] = ev.num
    BY <1>1, <1>4, <2>2, <2>3, AppendProperties DEF Nums
  <2>5. \A i \in DOMAIN seen : i \in 1 .. Len(handled) \/ i = Len(handled) + 1
    BY <1>1, <2>4, SMT
  <2>6. \A i \in DOMAIN Nums(handled) : Nums(handled)[i] < ev.num
    <3>1. TAKE i \in DOMAIN Nums(handled)
    <3>2. i \in 1 .. Len(handled) /\ Nums(handled)[i] = handled[i].num
      BY <1>1 DEF Nums
    <3>3. PICK n \in 1 .. eventTail : queuedBy[n] = handled[i].num /\ n < eventTail
      BY <1>3, <1>7, <3>2
    <3>4. n \in DOMAIN queuedBy
      BY <1>1, SMT
    <3>. QED BY <1>5, <2>1, <3>2, <3>3, <3>4 DEF Increasing
  <2>7. Increasing(seen)
    BY <1>4, <1>5, <2>2, <2>3, <2>6, IncreasingAppend
  <2>8. \A i \in DOMAIN seen : \E n \in 1 .. eventTail : queuedBy[n] = seen[i]
    BY <1>3, <2>1, <2>4, <2>5
  <2>. QED BY <1>2, <2>7, <2>8 DEF InputInOrder, Increasing
<1>. QED BY <1>6, <1>7

\* Every input that was ever queued is handled, in the hands of Frame, waiting, or was
\* dropped as the oldest by an overflow, and what Frame is given is in the order of the
\* messages (MainWndProc, Sys_QueEvent, Sys_GetEvent and the loop of Frame together).
THEOREM InputInOrderAlways == LoopSpec => []InputInOrder
<1>1. LoopSpec => []OInv
  BY LoopInitOrders, LoopStepOrders, PTL DEF LoopSpec
<1>. QED BY <1>1, OrderedInput, PTL
==============================================================================
