------------------------------ MODULE EventQueue -----------------------------
(***************************************************************************)
(* The input event queue of sys/win32/win_shared.cpp: a fixed ring of      *)
(* MAX_QUED_EVENTS slots and two counters that only the queue's own        *)
(* functions touch.  The counters are never reduced modulo the ring; a     *)
(* slot is addressed by counter & MASK_QUED_EVENTS, which for the          *)
(* power-of-two ring of the code is the remainder used here.               *)
(*                                                                         *)
(* Sys_QueEvent is called by the window procedure, Sys_GetEvent by the     *)
(* frame of the game and Sys_ClearEvents by whoever wants the queue empty. *)
(***************************************************************************)
EXTENDS Integers, Sequences

CONSTANTS
  MaxQued,   \* MAX_QUED_EVENTS
  Events,    \* the sysEvent_t values that are queued
  NoEvent,   \* the zeroed sysEvent_t (SE_NONE)
  MaxHead    \* eventHead is an int that is never reset by the game: the
             \* model stops queueing where the int would overflow

ASSUME MaxQuedAssumption == MaxQued \in Nat \ {0}
ASSUME MaxHeadAssumption == MaxHead \in Nat
ASSUME NoEventAssumption == NoEvent \notin Events

VARIABLES
  eventQue,   \* the slots
  eventHead,  \* number of events ever queued
  eventTail,  \* number of events ever taken or dropped
  ev          \* the event the last Sys_GetEvent returned

vars == <<eventQue, eventHead, eventTail, ev>>

Slots == 0 .. MaxQued - 1

\* x & MASK_QUED_EVENTS
Slot(x) == x % MaxQued

Init ==
  /\ eventQue = [s \in Slots |-> NoEvent]
  /\ eventHead = 0
  /\ eventTail = 0
  /\ ev = NoEvent

\* A slip to test the properties with: the ring is let grow one event too full.
OverflowTooLate == eventHead - eventTail > MaxQued

Overflow == eventHead - eventTail >= MaxQued

\* The slot at the head is taken before the overflow is noticed: on overflow it
\* is the slot of the oldest event, which the tail steps over.
Sys_QueEvent(e) ==
  /\ eventTail' = IF Overflow THEN eventTail + 1 ELSE eventTail
  /\ eventHead' = eventHead + 1
  /\ eventQue' = [eventQue EXCEPT ![Slot(eventHead)] = e]

\* A slip: the tail is moved before its slot is read.
GetEventTailFirst ==
  /\ IF eventHead > eventTail
       THEN /\ eventTail' = eventTail + 1
            /\ ev' = eventQue[Slot(eventTail + 1)]
       ELSE /\ ev' = NoEvent
            /\ UNCHANGED eventTail
  /\ UNCHANGED <<eventQue, eventHead>>

Sys_GetEvent ==
  /\ IF eventHead > eventTail
       THEN /\ eventTail' = eventTail + 1
            /\ ev' = eventQue[Slot(eventTail)]
       ELSE /\ ev' = NoEvent
            /\ UNCHANGED eventTail
  /\ UNCHANGED <<eventQue, eventHead>>

Sys_ClearEvents ==
  /\ eventHead' = 0
  /\ eventTail' = 0
  /\ UNCHANGED <<eventQue, ev>>

QueEvent ==
  /\ eventHead < MaxHead
  /\ \E e \in Events : Sys_QueEvent(e)
  /\ UNCHANGED ev

Next == QueEvent \/ Sys_GetEvent \/ Sys_ClearEvents

Spec == Init /\ [][Next]_vars

------------------------------------------------------------------------------

\* The shape of the queue's state.
TypeOK ==
  /\ eventQue \in [Slots -> Events \cup {NoEvent}]
  /\ eventHead \in Nat
  /\ eventTail \in Nat
  /\ ev \in Events \cup {NoEvent}

\* The tail never passes the head and never falls a whole ring behind it, so
\* that no slot stands for two waiting events (win_shared.cpp, Sys_QueEvent and
\* Sys_GetEvent: each moves a counter without looking at the other's moves).
QueueWindow ==
  /\ eventTail <= eventHead
  /\ eventHead - eventTail <= MaxQued

\* The slots that hold waiting events hold events, never the empty event the
\* ring starts with: a frame that drains until SE_NONE does not stop early.
WaitingSlotsFilled ==
  \A i \in eventTail .. eventHead - 1 : eventQue[Slot(i)] \in Events

\* The events that wait, oldest first: the refinement mapping.
Pending ==
  [i \in 1 .. eventHead - eventTail |-> eventQue[Slot(eventTail + i - 1)]]

Fifo == INSTANCE LossyFifo
          WITH Capacity <- MaxQued, queue <- Pending, got <- ev

\* The ring with its two counters is a FIFO that loses only the oldest event,
\* and only when MAX_QUED_EVENTS wait (Sys_QueEvent, Sys_GetEvent,
\* Sys_ClearEvents together).
ImplementsFifo == Fifo!FifoSpec
==============================================================================
