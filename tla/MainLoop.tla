------------------------------- MODULE MainLoop ------------------------------
(***************************************************************************)
(* The main loop of the engine: win_main.cpp alternates Sys_PumpEvents and *)
(* Frame; the pump takes the thread's window messages one by one and hands *)
(* them to MainWndProc, which queues input events; the frame drains the    *)
(* event queue and renders.  Input arrives from outside at any moment.     *)
(*                                                                         *)
(* Two things outside the source are modelled from how the code uses them: *)
(* the message queue of the thread (osQueue, PeekMessage/GetMessage), and  *)
(* DefWindowProc, which runs a message loop of its own while the user      *)
(* drags the title bar: MainWndProc then keeps queueing events although    *)
(* neither Sys_PumpEvents nor Frame gets a turn.                           *)
(***************************************************************************)
EXTENDS EventQueue

CONSTANTS
  MaxOsQueue,  \* how many messages wait in the thread's message queue
  MaxPosted    \* how many messages are ever posted

ASSUME MainLoopAssumption == MaxOsQueue \in Nat /\ MaxPosted \in Nat

VARIABLES
  osQueue,     \* the thread's message queue, oldest first
  quitPosted,  \* PostQuitMessage was called (the console window closed)
  posted,      \* number of messages posted so far
  pc,          \* where the one thread is
  movingWindow,\* win32.movingWindow
  handled,     \* the input events ProcessEvent was given, in order
  queuedBy,    \* history: for each event ever queued, its message number
  rendered     \* history: eventHead when the last frame was rendered

allVars == <<eventQue, eventHead, eventTail, ev, osQueue, quitPosted, posted,
             pc, movingWindow, handled, queuedBy, rendered>>

\* Which messages become an event in MainWndProc: the key and button messages.
\* The left button's release has no case, and every other message has no event.
InputKinds == {"KEYDOWN", "KEYUP", "BUTTON"}
OtherKinds == {"LBUTTONUP", "NCLBUTTONDOWN", "CLOSE"}

Messages == [kind : InputKinds \cup OtherKinds, num : 1 .. MaxPosted]

\* The event an input message is turned into (MainWndProc).  The number is the
\* message's own and stands for the key code or the cursor position.
EventOf(m) ==
  [evType |-> IF m.kind = "BUTTON" THEN "SE_MOUSE" ELSE "SE_KEY",
   down   |-> m.kind = "KEYDOWN",
   num    |-> m.num]

ASSUME MainEventsAssumption == \A m \in Messages : EventOf(m) \in Events

LoopInit ==
  /\ Init
  /\ osQueue = <<>>
  /\ quitPosted = FALSE
  /\ posted = 0
  /\ pc = "pump"
  /\ movingWindow = FALSE
  /\ handled = <<>>
  /\ queuedBy = <<>>
  /\ rendered = 0

------------------------------------------------------------------------------
\* The user and the system post a message.
Post ==
  /\ pc # "exit"
  /\ posted < MaxPosted
  /\ Len(osQueue) < MaxOsQueue
  /\ \E k \in InputKinds \cup OtherKinds :
       osQueue' = Append(osQueue, [kind |-> k, num |-> posted + 1])
  /\ posted' = posted + 1
  /\ UNCHANGED <<vars, quitPosted, pc, movingWindow, handled, queuedBy, rendered>>

\* The console window is closed: PostQuitMessage (ConWndProc).
PostQuit ==
  /\ pc # "exit"
  /\ quitPosted' = TRUE
  /\ UNCHANGED <<vars, osQueue, posted, pc, movingWindow, handled, queuedBy, rendered>>

\* MainWndProc on one message: an input message queues its event, WM_CLOSE ends
\* the process in Sys_Quit, and a press on the title bar makes DefWindowProc
\* enter its own loop after WM_ENTERSIZEMOVE.
MainWndProc(m, here) ==
  \/ /\ m.kind \in InputKinds
     /\ Sys_QueEvent(EventOf(m))
     /\ queuedBy' = Append(queuedBy, m.num)
     /\ pc' = here
     /\ UNCHANGED <<ev, movingWindow, handled>>
  \/ /\ m.kind = "LBUTTONUP"
     /\ pc' = here
     /\ UNCHANGED <<vars, movingWindow, handled, queuedBy>>
  \/ /\ m.kind = "NCLBUTTONDOWN"
     /\ pc' = "modal"
     /\ movingWindow' = TRUE
     /\ UNCHANGED <<vars, handled, queuedBy>>
  \/ /\ m.kind = "CLOSE"
     /\ pc' = "exit"
     /\ UNCHANGED <<vars, movingWindow, handled, queuedBy, rendered>>

\* One round of Sys_PumpEvents: PeekMessage, GetMessage, DispatchMessage.
PumpMessage ==
  /\ pc = "pump"
  /\ osQueue # <<>>
  /\ osQueue' = Tail(osQueue)
  /\ MainWndProc(Head(osQueue), "pump")
  /\ UNCHANGED <<quitPosted, posted, rendered>>

\* GetMessage returns 0: the system hands out WM_QUIT when nothing else waits.
PumpQuit ==
  /\ pc = "pump"
  /\ osQueue = <<>>
  /\ quitPosted
  /\ pc' = "exit"
  /\ UNCHANGED <<vars, osQueue, quitPosted, posted, movingWindow, handled, queuedBy, rendered>>

\* A slip: the pump waits until there is an event for the frame.
PumpDoneWaits ==
  /\ pc = "pump"
  /\ osQueue = <<>>
  /\ ~quitPosted
  /\ eventHead > eventTail
  /\ Sys_GetEvent
  /\ pc' = "drain"
  /\ UNCHANGED <<osQueue, quitPosted, posted, movingWindow, handled, queuedBy, rendered>>

\* PeekMessage finds nothing: Sys_PumpEvents returns and Frame starts with its
\* first Sys_GetEvent.
PumpDone ==
  /\ pc = "pump"
  /\ osQueue = <<>>
  /\ ~quitPosted
  /\ Sys_GetEvent
  /\ pc' = "drain"
  /\ UNCHANGED <<osQueue, quitPosted, posted, movingWindow, handled, queuedBy, rendered>>

\* The loop of DefWindowProc dispatches a message while the window is moved.
ModalMessage ==
  /\ pc = "modal"
  /\ osQueue # <<>>
  /\ osQueue' = Tail(osQueue)
  /\ MainWndProc(Head(osQueue), "modal")
  /\ UNCHANGED <<quitPosted, posted, rendered>>

\* The drag ends: WM_EXITSIZEMOVE, and DispatchMessage returns to the pump.
ModalEnd ==
  /\ pc = "modal"
  /\ movingWindow' = FALSE
  /\ pc' = "pump"
  /\ UNCHANGED <<vars, osQueue, quitPosted, posted, handled, queuedBy, rendered>>

\* A slip: a frame handles one event and renders.
FrameOneEvent ==
  /\ pc = "drain"
  /\ ev # NoEvent
  /\ handled' = Append(handled, ev)
  /\ rendered' = eventHead
  /\ pc' = "pump"
  /\ UNCHANGED <<vars, osQueue, quitPosted, posted, movingWindow, queuedBy>>

\* The body of Frame's loop: ProcessEvent, then the next Sys_GetEvent.
FrameEvent ==
  /\ pc = "drain"
  /\ ev # NoEvent
  /\ handled' = Append(handled, ev)
  /\ Sys_GetEvent
  /\ UNCHANGED <<osQueue, quitPosted, posted, pc, movingWindow, queuedBy, rendered>>

\* SE_NONE: the loop of Frame ends, FrameUpdate renders, Frame returns.
FrameUpdate ==
  /\ pc = "drain"
  /\ ev = NoEvent
  /\ pc' = "pump"
  /\ rendered' = eventHead
  /\ UNCHANGED <<vars, osQueue, quitPosted, posted, movingWindow, handled, queuedBy>>

\* ExitProcess: nothing runs any more.
Exited ==
  /\ pc = "exit"
  /\ UNCHANGED allVars

Thread ==
  \/ PumpMessage \/ PumpQuit \/ PumpDone
  \/ ModalMessage \/ ModalEnd
  \/ FrameEvent \/ FrameUpdate

LoopNext == Post \/ PostQuit \/ Thread \/ Exited

\* The thread keeps running (the loop of main has no wait in it) and the user
\* lets go of the window eventually.  Nothing is assumed of the arrival of input.
LoopSpec ==
  /\ LoopInit
  /\ [][LoopNext]_allVars
  /\ WF_allVars(Thread)
  /\ SF_allVars(ModalEnd)

------------------------------------------------------------------------------

\* The shape of the main loop's state.
LoopTypeOK ==
  /\ TypeOK
  /\ osQueue \in Seq(Messages)
  /\ quitPosted \in BOOLEAN
  /\ posted \in 0 .. MaxPosted
  /\ pc \in {"pump", "modal", "drain", "exit"}
  /\ movingWindow \in BOOLEAN
  /\ handled \in Seq(Events)
  /\ queuedBy \in Seq(1 .. MaxPosted)
  /\ rendered \in Nat

Nums(s) == [i \in DOMAIN s |-> s[i].num]

\* Every input that was ever queued is exactly one of: handled, in the hands of
\* Frame, waiting, or dropped as the oldest by an overflow.  What Frame was given
\* is in the order of the messages, and what waits is what was queued last
\* (MainWndProc, Sys_QueEvent, Sys_GetEvent and the loop of Frame together).
InputInOrder ==
  LET held == IF ev = NoEvent \/ pc # "drain" THEN <<>> ELSE <<ev.num>>
      seen == Nums(handled) \o held
  IN  /\ Nums(Pending) = SubSeq(queuedBy, eventTail + 1, eventHead)
      /\ \A i, j \in DOMAIN seen : i < j => seen[i] < seen[j]
      /\ \A i \in DOMAIN seen : \E n \in 1 .. eventTail : queuedBy[n] = seen[i]

\* How much input is lost, exactly: while messages are being taken, what waits is
\* everything queued since the last frame rendered, or the last MAX_QUED_EVENTS of
\* it if there was more.  So a loop that gets to Frame often enough loses nothing,
\* and no event is carried over a render (Frame drains until SE_NONE, and only the
\* overflow branch of Sys_QueEvent moves the tail behind the frame's back).
LossIsExact ==
  pc \in {"pump", "modal"} =>
    eventTail = IF eventHead - rendered > MaxQued THEN eventHead - MaxQued ELSE rendered

\* The pump and the drain starve neither each other nor an event: frames go on as
\* long as the process lives, and every queued event is handled, dropped by an overflow,
\* or lost with the process (Sys_PumpEvents' and Frame's loops, win_main.cpp).
LoopGoesOn ==
  /\ []<><<FrameUpdate>>_allVars \/ <>(pc = "exit")
  /\ \A n \in 1 .. MaxPosted :
       (eventHead >= n) ~> (eventTail >= n \/ pc = "exit")

------------------------------------------------------------------------------
(* The input TLC takes: with a ring of two slots and five messages, a drag *)
(* or a pump can overflow the ring, and input is left for the next frame.  *)

InputEvents == [evType : {"SE_KEY", "SE_MOUSE"}, down : BOOLEAN, num : 1 .. MaxPosted]
NoInput == [evType |-> "SE_NONE", down |-> FALSE, num |-> 0]
==============================================================================
