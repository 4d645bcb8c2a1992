------------------------------ MODULE LossyFifo ------------------------------
(***************************************************************************)
(* What the input event queue promises its two users, the window procedure *)
(* that puts events in and the frame that takes them out: events come out  *)
(* in the order they went in, each at most once, and the only event that   *)
(* is ever lost is the oldest one, when Capacity events are waiting and    *)
(* one more arrives.                                                       *)
(***************************************************************************)
EXTENDS Naturals, Sequences

CONSTANTS
  Capacity,  \* how many events can wait
  Events,    \* the events that can be put
  NoEvent    \* what a get from an empty queue returns

VARIABLES
  queue,     \* the waiting events, oldest first
  got        \* what the last get returned

fifoVars == <<queue, got>>

FifoInit ==
  /\ queue = <<>>
  /\ got = NoEvent

Put(e) ==
  /\ queue' = Append(IF Len(queue) >= Capacity THEN Tail(queue) ELSE queue, e)
  /\ UNCHANGED got

GetOldest ==
  /\ queue # <<>>
  /\ got' = Head(queue)
  /\ queue' = Tail(queue)

GetNothing ==
  /\ queue = <<>>
  /\ got' = NoEvent
  /\ UNCHANGED queue

Clear ==
  /\ queue' = <<>>
  /\ UNCHANGED got

FifoNext ==
  \/ \E e \in Events : Put(e)
  \/ GetOldest
  \/ GetNothing
  \/ Clear

FifoSpec == FifoInit /\ [][FifoNext]_fifoVars
==============================================================================
