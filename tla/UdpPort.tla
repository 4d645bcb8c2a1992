------------------------------ MODULE UdpPort ------------------------------
(***************************************************************************)
(* The datagram ports of win_net.cpp: idPort over a winsock socket, with   *)
(* the latency and the packet loss that net_forceLatency and net_forceDrop *)
(* put on top of it.  One thread makes the calls; packets arrive and time  *)
(* passes between their steps.                                             *)
(*                                                                         *)
(* A packet is the number of its arrival (or of its SendPacket); the time  *)
(* stamp of a delayed one is its age, which stops growing at MaxLatency    *)
(* because only msg->time <= now - net_forceLatency is ever asked of it.   *)
(***************************************************************************)
EXTENDS Integers, Sequences, FiniteSets, Functions

CONSTANTS Ports,         \* the idPort objects
          Sockets,       \* what winsock can hand out at a time
          NoSocket,      \* netSocket = 0
          Interfaces,    \* values of net_ip
          Numbers,       \* port numbers; 0 is that of a closed port
          MaxLatency,    \* bound of net_forceLatency
          MaxPackets,    \* bound of arrivals
          MaxSends,      \* bound of SendPacket calls
          MaxInits,      \* bound of InitForPort calls
          MaxEvents,     \* bound of the three together
          None           \* NULL, and no interface

ASSUME PortAssumption == /\ NoSocket \notin Sockets
                         /\ Numbers \subseteq Nat \ {0}
                         /\ {MaxLatency, MaxPackets, MaxSends, MaxInits, MaxEvents} \subseteq Nat

\* An open socket, and the delayed packets of a port.
Opened == [iface : Interfaces \cup {None}, number : Numbers \cup {0}, inbox : Seq(1..MaxPackets)]
Delayed(ids, whence) == [id : ids, from : whence, age : 0..MaxLatency]
Lags == [send : Seq(Delayed(1..MaxSends, Ports)), recieve : Seq(Delayed(1..MaxPackets, Sockets))]

ASSUME NoneAssumption == None \notin Opened /\ None \notin Lags

VARIABLES sockets,     \* of the system: None, or interface, number and what arrived
          netSocket, boundTo,          \* of each idPort
          udpPorts,    \* the delayed packets of each number, or None
          latency,     \* net_forceLatency
          call,        \* the call under way
          \* history
          arrived, fate,               \* packets that arrived, and what became of each
          last,        \* of each socket: the last of its packets that was handed out
          sends, lastOut,              \* packets sent, and the last that left, of each port
          inits, shared,               \* InitForPort calls; two sockets had one number
          waitedAtOff, crashed

portVars == <<sockets, netSocket, boundTo, udpPorts>>
inHistory == <<arrived, fate, last, waitedAtOff>>
outHistory == <<sends, lastOut>>
vars == <<portVars, latency, call, inHistory, outHistory, inits, shared, crashed>>

Fates == {"none", "waiting", "got", "dropped", "oversize", "closed", "overwritten"}
Lag == [send |-> <<>>, recieve |-> <<>>]
Idle == [op |-> "none", port |-> None, cur |-> 0]
\* The handle that socket() returns; which of the free ones does not matter.
Free == {s \in Sockets : sockets[s] = None}
NewSocket == CHOOSE s \in Free : TRUE
Goes == arrived + sends + inits < MaxEvents

Init == /\ sockets = [s \in Sockets |-> None]
        /\ netSocket = [p \in Ports |-> NoSocket]
        /\ boundTo = [p \in Ports |-> 0]
        /\ udpPorts = [n \in Numbers \cup {0} |-> None]
        /\ latency = 0
        /\ call = Idle
        /\ arrived = 0 /\ fate = [i \in 1..MaxPackets |-> "none"]
        /\ last = [s \in Sockets |-> 0] /\ waitedAtOff = {}
        /\ sends = 0 /\ lastOut = [p \in Ports |-> 0]
        /\ inits = 0 /\ shared = FALSE /\ crashed = FALSE

-----------------------------------------------------------------------------
(* What is outside: packets, time, and the variable of the console. *)

WithFate(f, ids, what) == [i \in DOMAIN f |-> IF i \in ids THEN what ELSE f[i]]

Arrive(s) ==
  /\ sockets[s] # None /\ sockets[s].number # 0 /\ arrived < MaxPackets /\ Goes
  /\ arrived' = arrived + 1
  /\ sockets' = [sockets EXCEPT ![s].inbox = Append(@, arrived + 1)]
  /\ fate' = [fate EXCEPT ![arrived + 1] = "waiting"]
  /\ UNCHANGED <<netSocket, boundTo, udpPorts, latency, call, last, waitedAtOff, outHistory,
                 inits, shared, crashed>>

Older(q) == [i \in DOMAIN q |-> [q[i] EXCEPT !.age = IF @ < MaxLatency THEN @ + 1 ELSE @]]

\* A millisecond passes.
Tick ==
  /\ udpPorts' = [n \in DOMAIN udpPorts |->
                    IF udpPorts[n] = None THEN None
                    ELSE [send |-> Older(udpPorts[n].send), recieve |-> Older(udpPorts[n].recieve)]]
  /\ udpPorts' # udpPorts
  /\ UNCHANGED <<sockets, netSocket, boundTo, latency, call, inHistory, outHistory, inits, shared,
                 crashed>>

Waiting == {i \in 1..MaxPackets :
              \E n \in Numbers : /\ udpPorts[n] # None
                                 /\ \E j \in DOMAIN udpPorts[n].recieve :
                                      udpPorts[n].recieve[j].id = i}

SetLatency ==
  /\ call = Idle /\ ~crashed
  /\ latency' \in 0..MaxLatency
  /\ waitedAtOff' = IF latency > 0 /\ latency' = 0 THEN waitedAtOff \cup Waiting
                    ELSE waitedAtOff
  /\ UNCHANGED <<portVars, call, arrived, fate, last, outHistory, inits, shared, crashed>>

-----------------------------------------------------------------------------
(* Opening and closing. *)

\* NET_IPSocket returns 0.  socket() and bind() leave nothing behind; when
\* ioctlsocket() or setsockopt() fails the socket stays open.  What the object
\* held before is forgotten either way.
InitFails(p) ==
  /\ call = Idle /\ ~crashed /\ inits < MaxInits /\ Goes
  /\ inits' = inits + 1
  /\ \/ UNCHANGED <<sockets, last>>
     \/ /\ Free # {}
        /\ sockets' = [sockets EXCEPT ![NewSocket] = [iface |-> None, number |-> 0, inbox |-> <<>>]]
        /\ last' = [last EXCEPT ![NewSocket] = 0]
  /\ netSocket' = [netSocket EXCEPT ![p] = NoSocket]
  /\ boundTo' = [boundTo EXCEPT ![p] = 0]
  /\ UNCHANGED <<udpPorts, latency, call, arrived, fate, waitedAtOff, outHistory, shared, crashed>>

IdsOf(q) == {q[i].id : i \in DOMAIN q}

\* new idUDPLag over whatever udpPorts[number] held.
InitForPort(p) ==
  /\ call = Idle /\ ~crashed /\ inits < MaxInits /\ Goes
  /\ inits' = inits + 1
  /\ Free # {}
  /\ \E i \in Interfaces, n \in Numbers :
       LET s == NewSocket
           same == {t \in Sockets : sockets[t] # None /\ sockets[t].number = n}
           lost == IF udpPorts[n] = None THEN {} ELSE IdsOf(udpPorts[n].recieve)
       IN /\ \A t \in same : sockets[t].iface # i
          /\ sockets' = [sockets EXCEPT ![s] = [iface |-> i, number |-> n, inbox |-> <<>>]]
          /\ last' = [last EXCEPT ![s] = 0]
          /\ netSocket' = [netSocket EXCEPT ![p] = s]
          /\ boundTo' = [boundTo EXCEPT ![p] = n]
          /\ udpPorts' = [udpPorts EXCEPT ![n] = Lag]
          /\ fate' = WithFate(fate, lost, "closed")
          /\ shared' = (shared \/ same # {})
  /\ UNCHANGED <<latency, call, arrived, waitedAtOff, outHistory, crashed>>

Close(p) ==
  /\ call = Idle /\ ~crashed /\ netSocket[p] # NoSocket
  /\ LET n == boundTo[p]
         s == netSocket[p]
     IN /\ udpPorts' = [udpPorts EXCEPT ![n] = None]
        /\ sockets' = [sockets EXCEPT ![s] = None]
        /\ fate' = WithFate(fate, Range(sockets[s].inbox)
                             \cup IF udpPorts[n] = None THEN {} ELSE IdsOf(udpPorts[n].recieve),
                            "closed")
  /\ netSocket' = [netSocket EXCEPT ![p] = NoSocket]
  /\ boundTo' = [boundTo EXCEPT ![p] = 0]
  /\ UNCHANGED <<latency, call, arrived, last, waitedAtOff, outHistory, inits, shared, crashed>>

-----------------------------------------------------------------------------
(* GetPacket.  Each turn of its loop takes one packet from the socket. *)

GetBegin(p) ==
  /\ call = Idle /\ ~crashed
  /\ \E op \in {"wait", "get"} : call' = [op |-> op, port |-> p, cur |-> 0]
  /\ UNCHANGED <<portVars, latency, inHistory, outHistory, inits, shared, crashed>>

\* Net_WaitForUDPPacket: there is something to read, or the time is over.
WaitEnds ==
  /\ call.op = "wait"
  /\ call' = [call EXCEPT !.op = "get"]
  /\ UNCHANGED <<portVars, latency, inHistory, outHistory, inits, shared, crashed>>

Hand(cur) == call' = [call EXCEPT !.op = "hand", !.cur = cur]

\* A slip: the loop goes on when there is nothing.
ReadNothingAgain == call.op = "get" /\ UNCHANGED vars

\* recvfrom has nothing (there is no socket, nothing arrived, or an earlier
\* send was refused).
ReadNothing ==
  /\ call.op = "get" /\ Hand(0)
  /\ UNCHANGED <<portVars, latency, inHistory, outHistory, inits, shared, crashed>>

HeadOf(s) == Head(sockets[s].inbox)
Reading == /\ call.op = "get" /\ netSocket[call.port] # NoSocket
           /\ sockets[netSocket[call.port]].inbox # <<>>
           /\ sockets' = [sockets EXCEPT ![netSocket[call.port]].inbox = Tail(@)]

\* It fills the caller's buffer, so that a part of it may be missing.
ReadOversize ==
  /\ Reading
  /\ fate' = [fate EXCEPT ![HeadOf(netSocket[call.port])] = "oversize"]
  /\ Hand(0)
  /\ UNCHANGED <<netSocket, boundTo, udpPorts, latency, arrived, last, waitedAtOff, outHistory,
                 inits, shared, crashed>>

\* net_forceDrop makes rand() drop any of them.
ReadDropped ==
  /\ Reading
  /\ fate' = [fate EXCEPT ![HeadOf(netSocket[call.port])] = "dropped"]
  /\ UNCHANGED <<netSocket, boundTo, udpPorts, latency, call, arrived, last, waitedAtOff,
                 outHistory, inits, shared, crashed>>

ReadDirect ==
  /\ Reading /\ latency = 0
  /\ Hand(HeadOf(netSocket[call.port]))
  /\ UNCHANGED <<netSocket, boundTo, udpPorts, latency, inHistory, outHistory, inits, shared, crashed>>

ReadDelayed ==
  /\ Reading /\ latency > 0
  /\ udpPorts[boundTo[call.port]] # None
  /\ LET s == netSocket[call.port]
     IN udpPorts' = [udpPorts EXCEPT ![boundTo[call.port]].recieve =
                       Append(@, [id |-> HeadOf(s), from |-> s, age |-> 0])]
  /\ UNCHANGED <<netSocket, boundTo, latency, call, inHistory, outHistory, inits, shared, crashed>>

\* The delayed packets of this port went with another port of its number.
ReadCrashes ==
  /\ Reading /\ latency > 0
  /\ udpPorts[boundTo[call.port]] = None
  /\ crashed' = TRUE /\ call' = Idle
  /\ fate' = [fate EXCEPT ![HeadOf(netSocket[call.port])] = "closed"]
  /\ UNCHANGED <<netSocket, boundTo, udpPorts, latency, arrived, last, waitedAtOff, outHistory,
                 inits, shared>>

Queue(which) == LET lag == udpPorts[boundTo[call.port]] IN IF lag = None THEN <<>> ELSE lag[which]
Ripe(q) == q # <<>> /\ Head(q).age >= latency

\* A slip: delayed packets are asked for only while there is a latency.
HandDirectFirst ==
  /\ call.op = "hand" /\ latency = 0
  /\ call' = Idle
  /\ IF call.cur = 0 THEN UNCHANGED <<fate, last>>
     ELSE /\ fate' = [fate EXCEPT ![call.cur] = "got"]
          /\ last' = [last EXCEPT ![netSocket[call.port]] = call.cur]
  /\ UNCHANGED <<portVars, latency, arrived, waitedAtOff, outHistory, inits, shared, crashed>>

HandDirect ==
  /\ call.op = "hand" /\ latency = 0 /\ Queue("recieve") = <<>>
  /\ call' = Idle
  /\ IF call.cur = 0 THEN UNCHANGED <<fate, last>>
     ELSE /\ fate' = [fate EXCEPT ![call.cur] = "got"]
          /\ last' = [last EXCEPT ![netSocket[call.port]] = call.cur]
  /\ UNCHANGED <<portVars, latency, arrived, waitedAtOff, outHistory, inits, shared, crashed>>

\* A slip: recieveFirst is not moved on.
HandDelayedKeeps ==
  /\ call.op = "hand" /\ Ripe(Queue("recieve"))
  /\ call' = Idle
  /\ LET msg == Head(Queue("recieve"))
     IN /\ fate' = [WithFate(fate, {call.cur}, "overwritten") EXCEPT ![msg.id] = "got"]
        /\ last' = [last EXCEPT ![msg.from] = msg.id]
  /\ UNCHANGED <<portVars, latency, arrived, waitedAtOff, outHistory, inits, shared, crashed>>

\* The delayed packet is copied over the one that was just read.
HandDelayed ==
  /\ call.op = "hand" /\ Ripe(Queue("recieve"))
  /\ call' = Idle
  /\ LET msg == Head(Queue("recieve"))
     IN /\ fate' = [WithFate(fate, {call.cur}, "overwritten") EXCEPT ![msg.id] = "got"]
        /\ last' = [last EXCEPT ![msg.from] = msg.id]
        /\ udpPorts' = [udpPorts EXCEPT ![boundTo[call.port]].recieve = Tail(@)]
  /\ UNCHANGED <<sockets, netSocket, boundTo, latency, arrived, waitedAtOff, outHistory, inits,
                 shared, crashed>>

HandNotYet ==
  /\ call.op = "hand" /\ latency > 0 /\ udpPorts[boundTo[call.port]] # None
  /\ ~Ripe(Queue("recieve"))
  /\ call' = Idle
  /\ UNCHANGED <<portVars, latency, inHistory, outHistory, inits, shared, crashed>>

HandCrashes ==
  /\ call.op = "hand" /\ latency > 0 /\ udpPorts[boundTo[call.port]] = None
  /\ crashed' = TRUE /\ call' = Idle
  /\ UNCHANGED <<portVars, latency, inHistory, outHistory, inits, shared>>

GetPacket == WaitEnds \/ ReadNothing \/ ReadOversize \/ ReadDropped \/ ReadDirect \/ ReadDelayed
             \/ ReadCrashes \/ HandDirect \/ HandDelayed \/ HandNotYet \/ HandCrashes

-----------------------------------------------------------------------------
(* SendPacket. *)

SendDropped(p) ==
  /\ call = Idle /\ ~crashed /\ sends < MaxSends /\ Goes
  /\ sends' = sends + 1
  /\ UNCHANGED <<portVars, latency, call, inHistory, lastOut, inits, shared, crashed>>

\* A slip: a port with delayed packets sends past them once the latency is off.
DelaysNow(p) == latency > 0

Delays(p) == latency > 0 \/ (udpPorts[boundTo[p]] # None /\ udpPorts[boundTo[p]].send # <<>>)

\* A port without a socket sends nothing; one with a socket may be refused.
SendDirect(p) ==
  /\ call = Idle /\ ~crashed /\ sends < MaxSends /\ Goes /\ ~Delays(p)
  /\ sends' = sends + 1
  /\ \/ UNCHANGED lastOut
     \/ netSocket[p] # NoSocket /\ lastOut' = [lastOut EXCEPT ![p] = sends + 1]
  /\ UNCHANGED <<portVars, latency, call, inHistory, inits, shared, crashed>>

SendDelayed(p) ==
  /\ call = Idle /\ ~crashed /\ sends < MaxSends /\ Goes /\ Delays(p) /\ udpPorts[boundTo[p]] # None
  /\ sends' = sends + 1
  /\ udpPorts' = [udpPorts EXCEPT ![boundTo[p]].send =
                    Append(@, [id |-> sends + 1, from |-> p, age |-> 0])]
  /\ call' = [op |-> "send", port |-> p, cur |-> 0]
  /\ UNCHANGED <<sockets, netSocket, boundTo, latency, inHistory, lastOut, inits, shared, crashed>>

SendCrashes(p) ==
  /\ call = Idle /\ ~crashed /\ sends < MaxSends /\ Goes /\ Delays(p) /\ udpPorts[boundTo[p]] = None
  /\ sends' = sends + 1 /\ crashed' = TRUE
  /\ UNCHANGED <<portVars, latency, call, inHistory, lastOut, inits, shared>>

\* One turn of the loop over the delayed packets that are due.
SendDue ==
  /\ call.op = "send" /\ Ripe(Queue("send"))
  /\ udpPorts' = [udpPorts EXCEPT ![boundTo[call.port]].send = Tail(@)]
  /\ LET msg == Head(Queue("send"))
     IN \/ UNCHANGED lastOut
        \/ lastOut' = [lastOut EXCEPT ![msg.from] = msg.id]
  /\ UNCHANGED <<sockets, netSocket, boundTo, latency, call, inHistory, sends, inits, shared, crashed>>

SendEnds ==
  /\ call.op = "send" /\ ~Ripe(Queue("send"))
  /\ call' = Idle
  /\ UNCHANGED <<portVars, latency, inHistory, outHistory, inits, shared, crashed>>

SendPacket == SendDue \/ SendEnds

-----------------------------------------------------------------------------
Calls(p) == \/ InitFails(p) \/ InitForPort(p) \/ Close(p) \/ GetBegin(p)
            \/ SendDropped(p) \/ SendDirect(p) \/ SendDelayed(p) \/ SendCrashes(p)

Next == \/ Tick \/ SetLatency \/ GetPacket \/ SendPacket
        \/ \E p \in Ports : Calls(p)
        \/ \E s \in Sockets : Arrive(s)

\* A call that was begun is carried on, and time passes.
Fairness == WF_vars(GetPacket) /\ WF_vars(SendPacket) /\ WF_vars(Tick)
Spec == Init /\ [][Next]_vars /\ Fairness
-----------------------------------------------------------------------------
(* Properties. *)

PortTypes ==
  /\ sockets \in [Sockets -> Opened \cup {None}]
  /\ netSocket \in [Ports -> Sockets \cup {NoSocket}]
  /\ boundTo \in [Ports -> Numbers \cup {0}]
  /\ udpPorts \in [Numbers \cup {0} -> Lags \cup {None}] /\ udpPorts[0] = None

CallStates == [op : {"none", "wait", "get", "hand", "send"}, port : Ports \cup {None}, cur : 0..MaxPackets]
CallTypes ==
  /\ latency \in 0..MaxLatency /\ call \in CallStates
  /\ IF call.op = "none" THEN call = Idle ELSE call.port \in Ports
  /\ call.cur # 0 => call.op = "hand" /\ latency = 0 /\ netSocket[call.port] # NoSocket

HistoryTypes ==
  /\ arrived \in 0..MaxPackets /\ fate \in [1..MaxPackets -> Fates]
  /\ last \in [Sockets -> 0..MaxPackets]
  /\ sends \in 0..MaxSends /\ lastOut \in [Ports -> 0..MaxSends]

\* The variables hold what the code can store in them: in particular a call is
\* carried out on one port, and only a packet under way is in its hands.
TypeOK == PortTypes /\ CallTypes /\ HistoryTypes

\* Packets of a socket are handed out in the order in which they arrived, and
\* none twice, whatever net_forceLatency is set to between the calls: what was
\* handed out last is older than what is delayed, that is older than the packet
\* in GetPacket's hands, and that older than what the system still has
\* (win_net.cpp, idPort::GetPacket).
ReceivedInOrder ==
  \A s \in Sockets : sockets[s] # None =>
    LET inbox == sockets[s].inbox
        mine == call.cur # 0 /\ netSocket[call.port] = s
    IN /\ \A i, j \in DOMAIN inbox : i < j => inbox[i] < inbox[j]
       /\ \A i \in DOMAIN inbox : last[s] < inbox[i]
       /\ mine => last[s] < call.cur /\ \A i \in DOMAIN inbox : call.cur < inbox[i]
       /\ \A n \in Numbers : udpPorts[n] # None =>
            LET q == udpPorts[n].recieve
            IN /\ \A i \in DOMAIN q : q[i].from = s =>
                     /\ last[s] < q[i].id
                     /\ mine => q[i].id < call.cur
                     /\ \A j \in DOMAIN inbox : q[i].id < inbox[j]
               /\ \A i, j \in DOMAIN q :
                     i < j /\ q[i].from = s /\ q[j].from = s => q[i].id < q[j].id

\* Where a packet is: still with its socket, among the delayed ones, or in GetPacket's
\* hands.
Places(i) ==
  (UNION {{<<"socket", s, k>> : k \in {k \in DOMAIN sockets[s].inbox : sockets[s].inbox[k] = i}} :
            s \in {s \in Sockets : sockets[s] # None}})
  \cup
  (UNION {{<<"delayed", n, k>> :
             k \in {k \in DOMAIN udpPorts[n].recieve : udpPorts[n].recieve[k].id = i}} :
            n \in {n \in Numbers : udpPorts[n] # None}})
  \cup
  (IF call.cur = i THEN {<<"hands">>} ELSE {})

\* A packet that was neither handed out nor lost for one of the known reasons
\* is in exactly one place, and one that was is in none: nothing is lost or
\* doubled between the socket, the delayed packets and the caller.  Switching
\* net_forceLatency off costs packets, as the one just read is copied over by a
\* delayed one: at most one for each that was delayed at that moment, and none as
\* long as the latency is never switched off (win_net.cpp, idPort::GetPacket).
NothingVanishes ==
  /\ \A i \in 1..MaxPackets : Cardinality(Places(i)) = IF fate[i] = "waiting" THEN 1 ELSE 0
  /\ Cardinality({i \in 1..MaxPackets : fate[i] = "overwritten"}) <= Cardinality(waitedAtOff)

\* A port that is open has a socket of its own, on the number that GetPort
\* tells; and as long as no two sockets had one number, the delayed packets that
\* GetPacket and SendPacket follow without asking are there.
OpenPortIsWhole ==
  \A p \in Ports : netSocket[p] # NoSocket =>
    /\ sockets[netSocket[p]] # None /\ sockets[netSocket[p]].number = boundTo[p]
    /\ \A r \in Ports \ {p} : netSocket[r] # netSocket[p]
    /\ shared \/ udpPorts[boundTo[p]] # None

\* Delayed packets leave in the order of the SendPacket calls, none twice.  As long as
\* no two sockets had one number, those that wait under the number of a port are its
\* own, and what it sent last is older than they are: nothing overtakes them, whatever
\* net_forceLatency is set to in between (win_net.cpp, idPort::SendPacket).
SentInOrder ==
  \A n \in Numbers : udpPorts[n] # None =>
    LET q == udpPorts[n].send
    IN /\ \A i \in DOMAIN q : q[i].id <= sends
       /\ \A i, j \in DOMAIN q : i < j => q[i].id < q[j].id
       /\ shared \/ \A p \in Ports, i \in DOMAIN q :
                      boundTo[p] = n => q[i].from = p /\ lastOut[p] < q[i].id

\* Once packets stop arriving, every call comes back: GetPacket's loop, which
\* goes on as long as there is one to drop or to delay, and SendPacket's, which
\* reads the clock again for each packet that is due.
CallsReturn == (call # Idle) ~> (call = Idle)
=============================================================================
