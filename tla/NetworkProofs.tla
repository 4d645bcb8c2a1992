---------------------------- MODULE NetworkProofs ---------------------------
(***************************************************************************)
(* What the sockets of win_net.cpp keep to, for all sets of ports, of      *)
(* sockets and of networks, all latencies, and however many calls are made.*)
(* Of the datagram ports: packets come out in the order in which they came *)
(* in (ReceivedInOrder), go out in the order in which they were sent       *)
(* (SentInOrder), and none vanishes or is doubled on the way               *)
(* (NothingVanishes).  Of idTCP, the addresses and the SOCKS relay: behind *)
(* those.                                                                  *)
(***************************************************************************)
EXTENDS UdpPort, TcpSocket, NetAddress, SocksRelay, FiniteSetTheorems, SequenceTheorems, TLAPS

-----------------------------------------------------------------------------
(* idPort, with its queues of delayed packets.                             *)

\* What ReceivedInOrder says of one socket and the delayed packets of one number: of what
\* the system still has of the socket, of what was handed out last of it, of what is in
\* GetPacket's hands of it (0 when nothing is), and of what is delayed of it.
InOrder(inbox, latest, cur, q, s) ==
  /\ \A i, j \in DOMAIN inbox : i < j => inbox[i] < inbox[j]
  /\ \A i \in DOMAIN inbox : latest < inbox[i]
  /\ cur # 0 => latest < cur /\ \A i \in DOMAIN inbox : cur < inbox[i]
  /\ \A i \in DOMAIN q : q[i].from = s =>
       /\ latest < q[i].id
       /\ cur # 0 => q[i].id < cur
       /\ \A j \in DOMAIN inbox : q[i].id < inbox[j]
  /\ \A i, j \in DOMAIN q : i < j /\ q[i].from = s /\ q[j].from = s => q[i].id < q[j].id

Ids == 1 .. MaxPackets
Entries == Delayed(Ids, Sockets)
Sendings == Delayed(1 .. MaxSends, Ports)
HasNone(q, s) == \A i \in DOMAIN q : q[i].from # s

-----------------------------------------------------------------------------
(* Sequences, and what the steps do to the order of one socket. *)

LEMMA AppendFacts ==
  ASSUME NEW S, NEW q \in Seq(S), NEW e \in S
  PROVE  /\ Append(q, e) \in Seq(S)
         /\ DOMAIN Append(q, e) = DOMAIN q \cup {Len(q) + 1}
         /\ \A i \in DOMAIN q : Append(q, e)[i] = q[i] /\ i \in Nat /\ i < Len(q) + 1
         /\ Append(q, e)[Len(q) + 1] = e
         /\ Len(q) + 1 \in Nat /\ Len(q) + 1 \notin DOMAIN q
OBVIOUS

LEMMA TailFacts ==
  ASSUME NEW S, NEW q \in Seq(S), q # <<>>
  PROVE  /\ Tail(q) \in Seq(S) /\ Head(q) \in S /\ Head(q) = q[1] /\ 1 \in DOMAIN q
         /\ \A i \in DOMAIN Tail(q) :
              /\ i + 1 \in DOMAIN q /\ Tail(q)[i] = q[i + 1]
              /\ i \in Nat /\ 1 < i + 1
<1>1. PICK n \in Nat : n = Len(q)
  BY LenProperties
<1>2. /\ Tail(q) \in Seq(S) /\ Head(q) \in S /\ Len(Tail(q)) = Len(q) - 1
      /\ \A i \in 1 .. Len(Tail(q)) : Tail(q)[i] = q[i + 1]
  BY HeadTailProperties
<1>3. DOMAIN q = 1 .. n /\ DOMAIN Tail(q) = 1 .. n - 1
  BY <1>1, <1>2, LenProperties
<1>4. n # 0
  BY <1>1, EmptySeq
<1>. QED BY <1>1, <1>2, <1>3, <1>4

LEMMA ArriveKeepsOrder ==
  ASSUME NEW inbox \in Seq(Ids), NEW latest \in Nat, NEW cur \in Nat, NEW q \in Seq(Entries), NEW s,
         InOrder(inbox, latest, cur, q, s), NEW x \in Ids,
         \A i \in DOMAIN inbox : inbox[i] < x, latest < x, cur < x,
         \A i \in DOMAIN q : q[i].id < x
  PROVE  InOrder(Append(inbox, x), latest, cur, q, s)
BY AppendFacts DEF InOrder

LEMMA LostKeepsOrder ==
  ASSUME NEW inbox \in Seq(Ids), NEW latest \in Nat, NEW cur \in Nat, NEW q \in Seq(Entries), NEW s,
         InOrder(inbox, latest, cur, q, s), inbox # <<>>
  PROVE  InOrder(Tail(inbox), latest, cur, q, s)
BY TailFacts DEF InOrder

LEMMA ReadKeepsOrder ==
  ASSUME NEW inbox \in Seq(Ids), NEW latest \in Nat, NEW q \in Seq(Entries), NEW s,
         InOrder(inbox, latest, 0, q, s), inbox # <<>>
  PROVE  InOrder(Tail(inbox), latest, Head(inbox), q, s)
BY TailFacts DEF InOrder, Ids

LEMMA DelayKeepsOrder ==
  ASSUME NEW inbox \in Seq(Ids), NEW latest \in Nat, NEW q \in Seq(Entries), NEW s,
         InOrder(inbox, latest, 0, q, s), inbox # <<>>,
         NEW e \in Entries, e.id = Head(inbox), e.from = s
  PROVE  InOrder(Tail(inbox), latest, 0, Append(q, e), s)
<1>. DEFINE rest == Tail(inbox)
            r == Append(q, e)
            m == Len(q) + 1
<1>1. /\ \A i \in DOMAIN rest : i + 1 \in DOMAIN inbox /\ rest[i] = inbox[i + 1] /\ i \in Nat /\ 1 < i + 1
      /\ 1 \in DOMAIN inbox /\ e.id = inbox[1]
  BY TailFacts
<1>2. /\ DOMAIN r = DOMAIN q \cup {m} /\ r[m] = e /\ m \in Nat
      /\ \A i \in DOMAIN q : r[i] = q[i] /\ i \in Nat /\ i < m
  BY AppendFacts
<1>. HIDE DEF rest, r, m
<1>3. /\ \A i, j \in DOMAIN rest : i < j => rest[i] < rest[j]
      /\ \A i \in DOMAIN rest : latest < rest[i] /\ e.id < rest[i]
  BY <1>1 DEF InOrder
<1>4. ASSUME NEW i \in DOMAIN r, r[i].from = s
      PROVE  latest < r[i].id /\ \A j \in DOMAIN rest : r[i].id < rest[j]
  BY <1>1, <1>2, <1>3, <1>4 DEF InOrder
<1>5. ASSUME NEW i \in DOMAIN r, NEW j \in DOMAIN r, i < j, r[i].from = s, r[j].from = s
      PROVE  r[i].id < r[j].id
  <2>1. i \in DOMAIN q
    BY <1>2, <1>5
  <2>. QED BY <1>1, <1>2, <1>5, <2>1 DEF InOrder
<1>6. InOrder(rest, latest, 0, r, s)
  BY <1>3, <1>4, <1>5 DEF InOrder
<1>. QED BY <1>6 DEF rest, r

LEMMA OthersDelayKeepsOrder ==
  ASSUME NEW inbox \in Seq(Ids), NEW latest \in Nat, NEW cur \in Nat, NEW q \in Seq(Entries), NEW s,
         InOrder(inbox, latest, cur, q, s), NEW e \in Entries, e.from # s
  PROVE  InOrder(inbox, latest, cur, Append(q, e), s)
BY AppendFacts DEF InOrder

LEMMA HandKeepsOrder ==
  ASSUME NEW inbox \in Seq(Ids), NEW latest \in Nat, NEW cur \in Ids, NEW q \in Seq(Entries), NEW s,
         InOrder(inbox, latest, cur, q, s), HasNone(q, s)
  PROVE  InOrder(inbox, cur, 0, q, s)
BY DEF InOrder, HasNone, Ids

LEMMA HandDelayedKeepsOrder ==
  ASSUME NEW inbox \in Seq(Ids), NEW latest \in Nat, NEW cur \in Nat, NEW q \in Seq(Entries), NEW s,
         InOrder(inbox, latest, cur, q, s), q # <<>>, Head(q).from = s
  PROVE  InOrder(inbox, Head(q).id, 0, Tail(q), s)
BY TailFacts DEF InOrder, Entries, Delayed

LEMMA OthersHandKeepsOrder ==
  ASSUME NEW inbox \in Seq(Ids), NEW latest \in Nat, NEW cur \in Nat, NEW q \in Seq(Entries), NEW s,
         InOrder(inbox, latest, cur, q, s), q # <<>>
  PROVE  InOrder(inbox, latest, 0, Tail(q), s)
<1>. DEFINE rest == Tail(q)
<1>1. \A i \in DOMAIN rest : i + 1 \in DOMAIN q /\ rest[i] = q[i + 1] /\ i \in Nat
  BY TailFacts
<1>. HIDE DEF rest
<1>2. ASSUME NEW i \in DOMAIN rest, rest[i].from = s
      PROVE  latest < rest[i].id /\ \A j \in DOMAIN inbox : rest[i].id < inbox[j]
  BY <1>1, <1>2 DEF InOrder
<1>3. ASSUME NEW i \in DOMAIN rest, NEW j \in DOMAIN rest, i < j, rest[i].from = s, rest[j].from = s
      PROVE  rest[i].id < rest[j].id
  <2>1. i + 1 < j + 1
    BY <1>1, <1>3
  <2>. QED BY <1>1, <1>3, <2>1 DEF InOrder
<1>4. InOrder(inbox, latest, 0, rest, s)
  BY <1>2, <1>3 DEF InOrder
<1>. QED BY <1>4 DEF rest

LEMMA ForgetKeepsOrder ==
  ASSUME NEW inbox, NEW latest, NEW cur, NEW q, NEW s, InOrder(inbox, latest, cur, q, s)
  PROVE  InOrder(inbox, latest, 0, q, s)
BY DEF InOrder

\* Where nothing of a socket is delayed, the order is that of the others alone.
LEMMA OrderWithoutDelayed ==
  ASSUME NEW inbox, NEW latest, NEW cur, NEW q, NEW r, NEW s,
         InOrder(inbox, latest, cur, q, s), HasNone(r, s)
  PROVE  InOrder(inbox, latest, cur, r, s)
BY DEF InOrder, HasNone

LEMMA NewSocketInOrder ==
  ASSUME NEW q, NEW s, HasNone(q, s)
  PROVE  InOrder(<<>>, 0, 0, q, s)
BY DEF InOrder, HasNone

LEMMA OlderFacts ==
  ASSUME NEW W, NEW whence, NEW q \in Seq(Delayed(W, whence))
  PROVE  /\ Older(q) \in Seq(Delayed(W, whence))
         /\ DOMAIN Older(q) = DOMAIN q
         /\ \A i \in DOMAIN q : Older(q)[i].id = q[i].id /\ Older(q)[i].from = q[i].from
<1>. USE PortAssumption
<1>1. PICK n \in Nat : q \in [1 .. n -> Delayed(W, whence)] /\ DOMAIN q = 1 .. n
  BY LenProperties
<1>2. \A e \in Delayed(W, whence) :
        LET f == [e EXCEPT !.age = IF @ < MaxLatency THEN @ + 1 ELSE @]
        IN f \in Delayed(W, whence) /\ f.id = e.id /\ f.from = e.from
  BY DEF Delayed
<1>3. Older(q) = [i \in 1 .. n |-> [q[i] EXCEPT !.age = IF @ < MaxLatency THEN @ + 1 ELSE @]]
  BY <1>1 DEF Older
<1>4. Older(q) \in [1 .. n -> Delayed(W, whence)]
  BY <1>1, <1>2, <1>3
<1>5. Older(q) \in Seq(Delayed(W, whence))
  BY <1>4
<1>6. DOMAIN Older(q) = DOMAIN q
  BY <1>1, <1>3
<1>7. ASSUME NEW i \in DOMAIN q PROVE Older(q)[i].id = q[i].id /\ Older(q)[i].from = q[i].from
  BY <1>1, <1>2, <1>3
<1>. QED BY <1>5, <1>6, <1>7

-----------------------------------------------------------------------------
(* The inductive invariant. *)

\* The delayed packets of a number, and the packet of a socket that GetPacket has in hands.
Recieve(n) == IF udpPorts[n] = None THEN <<>> ELSE udpPorts[n].recieve
Mine(s) == IF call.cur # 0 /\ netSocket[call.port] = s THEN call.cur ELSE 0

\* An idPort has a socket that is open, on its number, and no other idPort has it.
Owned ==
  \A p \in Ports : netSocket[p] # NoSocket =>
    /\ sockets[netSocket[p]] # None /\ sockets[netSocket[p]].number = boundTo[p]
    /\ \A r \in Ports \ {p} : netSocket[r] # netSocket[p]

\* What is delayed came from a socket that is open still, and waits under its number: a
\* socket that is opened anew finds nothing of the one before it.
AtHome ==
  \A n \in Numbers : \A i \in DOMAIN Recieve(n) :
    LET s == Recieve(n)[i].from IN sockets[s] # None /\ sockets[s].number = n

\* No packet is newer than the newest.
Arrived ==
  /\ \A s \in Sockets : sockets[s] # None =>
       \A i \in DOMAIN sockets[s].inbox : sockets[s].inbox[i] <= arrived
  /\ \A s \in Sockets : last[s] <= arrived
  /\ call.cur <= arrived
  /\ \A n \in Numbers : \A i \in DOMAIN Recieve(n) : Recieve(n)[i].id <= arrived

Ordered ==
  \A s \in Sockets, n \in Numbers \cup {0} :
    sockets[s] # None => InOrder(sockets[s].inbox, last[s], Mine(s), Recieve(n), s)

PInv == TypeOK /\ Owned /\ AtHome /\ Arrived /\ Ordered

LEMMA PInvImplies == PInv => ReceivedInOrder
<1>. SUFFICES ASSUME PInv, NEW s \in Sockets, sockets[s] # None PROVE
       LET inbox == sockets[s].inbox
           mine == call.cur # 0 /\ netSocket[call.port] = s
       IN /\ \A i, j \in DOMAIN inbox : i < j => inbox[i] < inbox[j]
          /\ \A i \in DOMAIN inbox : last[s] < inbox[i]
          /\ mine => last[s] < call.cur /\ \A i \in DOMAIN inbox : call.cur < inbox[i]
          /\ \A n \in Numbers : udpPorts[n] # None =>
               LET q == udpPorts[n].recieve
               IN /\ \A i \in DOMAIN q : q[i].from = s =>
                        /\ last[s] < q[i].id
                        /\ mine => q[i].id < call.cur
                        /\ \A j \in DOMAIN inbox : q[i].id < inbox[j]
                  /\ \A i, j \in DOMAIN q :
                        i < j /\ q[i].from = s /\ q[j].from = s => q[i].id < q[j].id
  BY DEF ReceivedInOrder
<1>1. \A n \in Numbers \cup {0} : InOrder(sockets[s].inbox, last[s], Mine(s), Recieve(n), s)
  BY DEF PInv, Ordered
<1>. QED BY <1>1 DEF InOrder, Mine, Recieve

LEMMA CallFacts ==
  /\ Idle \in CallStates /\ Idle.op = "none" /\ Idle.cur = 0
  /\ \A c \in CallStates :
       /\ c.op \in {"none", "wait", "get", "hand", "send"} /\ c.cur \in 0 .. MaxPackets
       /\ LET d == [c EXCEPT !.op = "get"]
          IN d \in CallStates /\ d.op = "get" /\ d.port = c.port /\ d.cur = c.cur
<1>. USE DEF CallStates
<1>1. Idle \in CallStates /\ Idle.op = "none" /\ Idle.cur = 0
  BY PortAssumption DEF Idle
<1>2. ASSUME NEW c \in CallStates
      PROVE  /\ c.op \in {"none", "wait", "get", "hand", "send"} /\ c.cur \in 0 .. MaxPackets
             /\ LET d == [c EXCEPT !.op = "get"]
                IN d \in CallStates /\ d.op = "get" /\ d.port = c.port /\ d.cur = c.cur
  OBVIOUS
<1>. HIDE DEF CallStates
<1>. QED BY <1>1, <1>2

LEMMA BeginFacts ==
  ASSUME NEW op \in {"wait", "get", "send"}, NEW p \in Ports
  PROVE  LET c == [op |-> op, port |-> p, cur |-> 0]
         IN c \in CallStates /\ c.op = op /\ c.port = p /\ c.cur = 0
<1>1. 0 \in 0 .. MaxPackets
  BY PortAssumption
<1>. QED BY <1>1 DEF CallStates

LEMMA HandFacts ==
  ASSUME NEW c \in CallStates, NEW n \in 0 .. MaxPackets
  PROVE  LET d == [c EXCEPT !.op = "hand", !.cur = n]
         IN d \in CallStates /\ d.op = "hand" /\ d.port = c.port /\ d.cur = n
BY DEF CallStates

LEMMA InitHolds == Init => PInv
<1>. SUFFICES ASSUME Init PROVE PInv
  OBVIOUS
<1>. USE PortAssumption DEF Init
<1>1. TypeOK
  <2>1. PortTypes
    BY DEF PortTypes
  <2>2. CallTypes
    <3>1. call = Idle /\ latency \in 0 .. MaxLatency
      OBVIOUS
    <3>. HIDE DEF Init
    <3>. QED BY <3>1, CallFacts DEF CallTypes
  <2>3. HistoryTypes
    BY DEF HistoryTypes, Fates
  <2>. QED BY <2>1, <2>2, <2>3 DEF TypeOK
<1>2. \A n \in Numbers \cup {0} : Recieve(n) = <<>>
  BY DEF Recieve
<1>. QED BY <1>1, <1>2 DEF PInv, Owned, AtHome, Arrived, Ordered, Idle

\* A step that touches no socket, nothing delayed and nothing that is in a call's hands.
LEMMA Untouched ==
  ASSUME PInv, TypeOK', UNCHANGED <<sockets, netSocket, boundTo, arrived, last>>,
         call'.cur = call.cur, call.cur # 0 => call'.port = call.port,
         \A n \in Numbers \cup {0} : Recieve(n)' = Recieve(n)
  PROVE  PInv'
<1>1. \A s \in Sockets : Mine(s)' = Mine(s)
  BY DEF Mine
<1>. QED BY <1>1 DEF PInv, Owned, AtHome, Arrived, Ordered

\* A packet of the call is forgotten.
LEMMA Forgotten ==
  ASSUME PInv, TypeOK', UNCHANGED <<sockets, netSocket, boundTo, arrived, last, udpPorts>>,
         call'.cur = 0
  PROVE  PInv'
<1>. USE DEF PInv
<1>1. \A s \in Sockets : Mine(s)' = 0
  BY DEF Mine
<1>2. \A n \in Numbers \cup {0} : Recieve(n)' = Recieve(n)
  BY DEF Recieve
<1>3. Ordered'
  BY <1>1, <1>2, ForgetKeepsOrder DEF Ordered
<1>. QED BY <1>2, <1>3 DEF TypeOK, HistoryTypes, Owned, AtHome, Arrived

-----------------------------------------------------------------------------
(* Type correctness. *)

LEMMA LagFacts ==
  ASSUME NEW lag \in Lags
  PROVE  /\ lag.recieve \in Seq(Entries) /\ lag.send \in Seq(Sendings)
         /\ \A q \in Seq(Entries) :
              /\ [lag EXCEPT !.recieve = q] \in Lags
              /\ [lag EXCEPT !.recieve = q].recieve = q
         /\ \A q \in Seq(Sendings) :
              /\ [lag EXCEPT !.send = q] \in Lags
              /\ [lag EXCEPT !.send = q].recieve = lag.recieve
BY DEF Lags, Entries, Sendings, Ids

LEMMA DelayedFacts ==
  /\ \A e \in Entries : e.id \in Ids /\ e.from \in Sockets
  /\ \A e \in Sendings : e.id \in 1 .. MaxSends /\ e.from \in Ports
  /\ \A i \in Ids, s \in Sockets : [id |-> i, from |-> s, age |-> 0] \in Entries
  /\ \A i \in 1 .. MaxSends, p \in Ports : [id |-> i, from |-> p, age |-> 0] \in Sendings
BY PortAssumption DEF Entries, Sendings, Delayed, Ids

LEMMA TypeFacts ==
  ASSUME TypeOK
  PROVE  /\ \A s \in Sockets : sockets[s] # None =>
              sockets[s] \in Opened /\ sockets[s].inbox \in Seq(Ids)
         /\ \A s \in Sockets : last[s] \in Nat /\ Mine(s) \in Nat
         /\ \A n \in Numbers \cup {0} :
              /\ Recieve(n) \in Seq(Entries)
              /\ udpPorts[n] # None => udpPorts[n] \in Lags
         /\ Recieve(0) = <<>>
<1>. USE PortAssumption DEF TypeOK, PortTypes, CallTypes, HistoryTypes
<1>1. \A s \in Sockets : sockets[s] # None =>
        sockets[s] \in Opened /\ sockets[s].inbox \in Seq(Ids)
  BY DEF Opened, Ids
<1>2. \A s \in Sockets : last[s] \in Nat /\ Mine(s) \in Nat
  <2>1. call.cur \in 0 .. MaxPackets
    BY CallFacts
  <2>. QED BY <2>1 DEF Mine
<1>3. \A n \in Numbers \cup {0} :
        /\ Recieve(n) \in Seq(Entries)
        /\ udpPorts[n] # None => udpPorts[n] \in Lags
  <2>1. ASSUME NEW n \in Numbers \cup {0}, udpPorts[n] # None PROVE udpPorts[n] \in Lags
    BY <2>1
  <2>. QED BY <2>1, LagFacts, EmptySeq DEF Recieve
<1>. QED BY <1>1, <1>2, <1>3 DEF Recieve

LEMMA CurFact == TypeOK => call.cur \in Nat /\ call.cur \in 0 .. MaxPackets
<1>1. TypeOK => call.cur \in 0 .. MaxPackets
  BY CallFacts DEF TypeOK, CallTypes
<1>. QED BY <1>1, PortAssumption

LEMMA FateTyped ==
  ASSUME NEW f \in [1 .. MaxPackets -> Fates], NEW what \in Fates, NEW ids
  PROVE  WithFate(f, ids, what) \in [1 .. MaxPackets -> Fates]
BY DEF WithFate

\* What a step of GetPacket reads: the oldest that the system has of its socket.
LEMMA ReadingFacts ==
  ASSUME TypeOK, Owned, Reading
  PROVE  LET s == netSocket[call.port] IN
         /\ call.op = "get" /\ call.port \in Ports /\ call.cur = 0
         /\ s \in Sockets /\ sockets[s] # None /\ sockets[s].number = boundTo[call.port]
         /\ sockets[s].inbox # <<>> /\ HeadOf(s) = Head(sockets[s].inbox) /\ HeadOf(s) \in Ids
         /\ sockets' = [sockets EXCEPT ![s] = [sockets[s] EXCEPT !.inbox = Tail(@)]]
         /\ sockets'[s] \in Opened /\ sockets'[s] # None
         /\ sockets'[s].inbox = Tail(sockets[s].inbox) /\ sockets'[s].number = sockets[s].number
         /\ sockets' \in [Sockets -> Opened \cup {None}]
<1>. DEFINE s == netSocket[call.port]
<1>1. /\ call.op = "get" /\ call.port \in Ports /\ call.cur = 0
      /\ s \in Sockets /\ sockets[s] # None /\ sockets[s].number = boundTo[call.port]
      /\ sockets[s].inbox # <<>>
      /\ sockets' = [sockets EXCEPT ![s] = [sockets[s] EXCEPT !.inbox = Tail(@)]]
  <2>1. call.op = "get" /\ s # NoSocket /\ sockets[s].inbox # <<>>
        /\ sockets' = [sockets EXCEPT ![s] = [sockets[s] EXCEPT !.inbox = Tail(@)]]
    BY DEF Reading
  <2>2. call.port \in Ports /\ call.cur \in 0 .. MaxPackets /\ ~(call.cur # 0)
    BY <2>1, CallFacts DEF TypeOK, CallTypes
  <2>3. s \in Sockets /\ sockets[s] # None /\ sockets[s].number = boundTo[call.port]
    BY <2>1, <2>2 DEF TypeOK, PortTypes, Owned
  <2>. QED BY <2>1, <2>2, <2>3
<1>2. sockets[s] \in Opened /\ sockets[s].inbox \in Seq(Ids)
  BY <1>1, TypeFacts
<1>3. Tail(sockets[s].inbox) \in Seq(Ids) /\ Head(sockets[s].inbox) \in Ids
  BY <1>1, <1>2, TailFacts
<1>4. [sockets[s] EXCEPT !.inbox = Tail(@)] \in Opened
  BY <1>2, <1>3 DEF Opened, Ids
<1>5. sockets'[s] = [sockets[s] EXCEPT !.inbox = Tail(@)]
  BY <1>1 DEF TypeOK, PortTypes
<1>6. sockets'[s] \in Opened /\ sockets'[s] # None
      /\ sockets'[s].inbox = Tail(sockets[s].inbox) /\ sockets'[s].number = sockets[s].number
  BY <1>2, <1>4, <1>5, NoneAssumption DEF Opened
<1>. QED BY <1>1, <1>3, <1>4, <1>6 DEF HeadOf, TypeOK, PortTypes

LEMMA PortTypesStep == TypeOK /\ Owned /\ [Next]_vars => PortTypes'
<1>. SUFFICES ASSUME TypeOK, Owned, [Next]_vars PROVE PortTypes'
  OBVIOUS
<1>. USE PortAssumption DEF PortTypes, portVars
<1>0. PortTypes /\ CallTypes
  BY DEF TypeOK
<1>1. ASSUME NEW s \in Sockets, Arrive(s) PROVE PortTypes'
  <2>1. arrived + 1 \in Ids
    BY <1>1 DEF Arrive, Ids, TypeOK, HistoryTypes
  <2>2. sockets[s] \in Opened /\ sockets[s].inbox \in Seq(Ids)
    BY <1>1, TypeFacts DEF Arrive
  <2>3. Append(sockets[s].inbox, arrived + 1) \in Seq(Ids)
    BY <2>1, <2>2, AppendFacts
  <2>4. [sockets[s] EXCEPT !.inbox = Append(@, arrived + 1)] \in Opened
    BY <2>2, <2>3 DEF Opened, Ids
  <2>. QED BY <1>0, <1>1, <2>4 DEF Arrive
<1>2. CASE Tick
  <2>1. ASSUME NEW n \in Numbers \cup {0}, udpPorts[n] # None
        PROVE  [send |-> Older(udpPorts[n].send), recieve |-> Older(udpPorts[n].recieve)] \in Lags
    <3>1. udpPorts[n] \in Lags
      BY <1>0, <2>1
    <3>2. udpPorts[n].send \in Seq(Sendings) /\ udpPorts[n].recieve \in Seq(Entries)
      BY <3>1, LagFacts
    <3>3. Older(udpPorts[n].send) \in Seq(Sendings) /\ Older(udpPorts[n].recieve) \in Seq(Entries)
      BY <3>2, OlderFacts DEF Sendings, Entries
    <3>. QED BY <3>3 DEF Lags, Sendings, Entries, Ids
  <2>2. udpPorts' \in [Numbers \cup {0} -> Lags \cup {None}] /\ udpPorts'[0] = None
    BY <1>0, <1>2, <2>1 DEF Tick
  <2>. QED BY <1>0, <1>2, <2>2 DEF Tick
<1>3. CASE SetLatency
  BY <1>0, <1>3 DEF SetLatency
<1>4. ASSUME NEW p \in Ports, InitFails(p) PROVE PortTypes'
  <2>1. [iface |-> None, number |-> 0, inbox |-> <<>>] \in Opened
    BY EmptySeq DEF Opened
  <2>. QED BY <1>0, <1>4, <2>1 DEF InitFails
<1>5. ASSUME NEW p \in Ports, InitForPort(p) PROVE PortTypes'
  <2>1. NewSocket \in Sockets
    BY <1>5 DEF InitForPort, NewSocket, Free
  <2>2. PICK i \in Interfaces, n \in Numbers :
          /\ sockets' = [sockets EXCEPT ![NewSocket] = [iface |-> i, number |-> n, inbox |-> <<>>]]
          /\ netSocket' = [netSocket EXCEPT ![p] = NewSocket]
          /\ boundTo' = [boundTo EXCEPT ![p] = n]
          /\ udpPorts' = [udpPorts EXCEPT ![n] = Lag]
    BY <1>5 DEF InitForPort
  <2>3. [iface |-> i, number |-> n, inbox |-> <<>>] \in Opened
    BY EmptySeq DEF Opened
  <2>4. Lag \in Lags /\ n # 0
    BY EmptySeq DEF Lag, Lags
  <2>. QED BY <1>0, <2>1, <2>2, <2>3, <2>4
<1>6. ASSUME NEW p \in Ports, Close(p) PROVE PortTypes'
  BY <1>0, <1>6 DEF Close
<1>7. ASSUME Reading, UNCHANGED <<netSocket, boundTo>>,
             udpPorts' \in [Numbers \cup {0} -> Lags \cup {None}], udpPorts'[0] = None
      PROVE  PortTypes'
  BY <1>0, <1>7, ReadingFacts
<1>8. CASE ReadOversize \/ ReadDropped \/ ReadDirect \/ ReadCrashes
  <2>1. Reading /\ UNCHANGED <<netSocket, boundTo, udpPorts>>
    BY <1>8 DEF ReadOversize, ReadDropped, ReadDirect, ReadCrashes, Reading
  <2>. QED BY <1>0, <1>7, <2>1
<1>9. CASE ReadDelayed
  <2>. DEFINE s == netSocket[call.port]
              n == boundTo[call.port]
              e == [id |-> HeadOf(s), from |-> s, age |-> 0]
  <2>1. Reading /\ UNCHANGED <<netSocket, boundTo>>
    BY <1>9 DEF ReadDelayed, Reading
  <2>2. /\ udpPorts' = [udpPorts EXCEPT ![n] = [udpPorts[n] EXCEPT !.recieve = Append(@, e)]]
        /\ udpPorts[n] # None
    BY <1>9 DEF ReadDelayed
  <2>3. e \in Entries
    BY <2>1, ReadingFacts, DelayedFacts
  <2>4. n \in Numbers \cup {0} /\ n # 0 /\ udpPorts[n] \in Lags
    BY <1>0, <2>1, <2>2, ReadingFacts
  <2>5. [udpPorts[n] EXCEPT !.recieve = Append(@, e)] \in Lags
    BY <2>3, <2>4, LagFacts, AppendFacts
  <2>6. udpPorts' \in [Numbers \cup {0} -> Lags \cup {None}] /\ udpPorts'[0] = None
    BY <1>0, <2>2, <2>4, <2>5
  <2>. QED BY <1>7, <2>1, <2>6
<1>10. CASE HandDelayed
  <2>. DEFINE n == boundTo[call.port]
              q == udpPorts[n].recieve
  <2>1. call.port \in Ports
    BY <1>0, <1>10 DEF HandDelayed, CallTypes
  <2>2. /\ udpPorts[n] # None /\ q # <<>>
        /\ udpPorts' = [udpPorts EXCEPT ![n] = [udpPorts[n] EXCEPT !.recieve = Tail(@)]]
        /\ UNCHANGED <<sockets, netSocket, boundTo>>
    BY <1>10 DEF HandDelayed, Queue, Ripe
  <2>3. n \in Numbers \cup {0} /\ n # 0 /\ udpPorts[n] \in Lags
    BY <1>0, <2>1, <2>2
  <2>4. [udpPorts[n] EXCEPT !.recieve = Tail(@)] \in Lags
    BY <2>2, <2>3, LagFacts, TailFacts
  <2>. QED BY <1>0, <2>2, <2>3, <2>4
<1>11. ASSUME NEW p \in Ports, SendDelayed(p) PROVE PortTypes'
  <2>. DEFINE n == boundTo[p]
              e == [id |-> sends + 1, from |-> p, age |-> 0]
  <2>1. /\ udpPorts' = [udpPorts EXCEPT ![n] = [udpPorts[n] EXCEPT !.send = Append(@, e)]]
        /\ udpPorts[n] # None /\ sends + 1 \in 1 .. MaxSends
        /\ UNCHANGED <<sockets, netSocket, boundTo>>
    BY <1>11 DEF SendDelayed, TypeOK, HistoryTypes
  <2>2. n \in Numbers \cup {0} /\ n # 0 /\ udpPorts[n] \in Lags
    BY <1>0, <2>1
  <2>3. e \in Sendings
    BY <2>1, DelayedFacts
  <2>4. [udpPorts[n] EXCEPT !.send = Append(@, e)] \in Lags
    BY <2>2, <2>3, LagFacts, AppendFacts
  <2>. QED BY <1>0, <2>1, <2>2, <2>4
<1>12. CASE SendDue
  <2>. DEFINE n == boundTo[call.port]
              q == udpPorts[n].send
  <2>1. call.port \in Ports
    BY <1>0, <1>12 DEF SendDue, CallTypes
  <2>2. /\ udpPorts[n] # None /\ q # <<>>
        /\ udpPorts' = [udpPorts EXCEPT ![n] = [udpPorts[n] EXCEPT !.send = Tail(@)]]
        /\ UNCHANGED <<sockets, netSocket, boundTo>>
    BY <1>12 DEF SendDue, Queue, Ripe
  <2>3. n \in Numbers \cup {0} /\ n # 0 /\ udpPorts[n] \in Lags
    BY <1>0, <2>1, <2>2
  <2>4. [udpPorts[n] EXCEPT !.send = Tail(@)] \in Lags
    BY <2>2, <2>3, LagFacts, TailFacts
  <2>. QED BY <1>0, <2>2, <2>3, <2>4
<1>13. ASSUME UNCHANGED portVars PROVE PortTypes'
  BY <1>0, <1>13
<1>14. CASE WaitEnds \/ ReadNothing \/ HandDirect \/ HandNotYet \/ HandCrashes \/ SendEnds
  BY <1>13, <1>14 DEF WaitEnds, ReadNothing, HandDirect, HandNotYet, HandCrashes, SendEnds
<1>15. ASSUME NEW p \in Ports, GetBegin(p) \/ SendDropped(p) \/ SendDirect(p) \/ SendCrashes(p)
       PROVE  PortTypes'
  BY <1>13, <1>15 DEF GetBegin, SendDropped, SendDirect, SendCrashes
<1>16. CASE UNCHANGED vars
  BY <1>13, <1>16 DEF vars
<1>. QED BY <1>1, <1>2, <1>3, <1>4, <1>5, <1>6, <1>8, <1>9, <1>10, <1>11, <1>12, <1>14, <1>15, <1>16
         DEF Next, GetPacket, SendPacket, Calls

LEMMA CallTypesStep == TypeOK /\ Owned /\ [Next]_vars => CallTypes'
<1>. SUFFICES ASSUME TypeOK, Owned, [Next]_vars PROVE CallTypes'
  OBVIOUS
<1>. USE DEF CallTypes
<1>0. /\ PortTypes /\ CallTypes
      /\ call.op \in {"none", "wait", "get", "hand", "send"} /\ call.cur \in 0 .. MaxPackets
  BY CallFacts DEF TypeOK
<1>1. ASSUME call' = Idle, latency' = latency PROVE CallTypes'
  BY <1>0, <1>1, CallFacts
<1>2. ASSUME call = Idle, call' = call, latency' \in 0 .. MaxLatency PROVE CallTypes'
  BY <1>0, <1>2, CallFacts
<1>3. ASSUME UNCHANGED <<call, latency, netSocket>> PROVE CallTypes'
  BY <1>0, <1>3
<1>4. ASSUME NEW p \in Ports, NEW op \in {"wait", "get", "send"},
             call' = [op |-> op, port |-> p, cur |-> 0], latency' = latency
      PROVE  CallTypes'
  <2>1. call' \in CallStates /\ call'.op = op /\ call'.port = p /\ call'.cur = 0
    BY <1>4, BeginFacts
  <2>. QED BY <1>0, <1>4, <2>1
<1>5. ASSUME NEW n \in 0 .. MaxPackets, Hand(n), call.op = "get", latency' = latency,
             n # 0 => latency = 0 /\ netSocket'[call.port] # NoSocket
      PROVE  CallTypes'
  <2>1. /\ call' \in CallStates /\ call'.op = "hand" /\ call'.port = call.port /\ call'.cur = n
    BY <1>0, <1>5, HandFacts DEF Hand
  <2>. QED BY <1>0, <1>5, <2>1
<1>6. CASE WaitEnds
  <2>1. call' \in CallStates /\ call'.op = "get" /\ call'.port = call.port /\ call'.cur = call.cur
    BY <1>0, <1>6, CallFacts DEF WaitEnds
  <2>. QED BY <1>0, <1>6, <2>1 DEF WaitEnds
<1>7. CASE ReadNothing \/ ReadOversize
  BY <1>5, <1>7, PortAssumption DEF ReadNothing, ReadOversize, Reading
<1>8. CASE ReadDirect
  <2>1. Reading /\ UNCHANGED <<latency, netSocket>> /\ latency = 0
    BY <1>8 DEF ReadDirect, Reading, portVars
  <2>. QED BY <1>5, <1>8, <2>1, ReadingFacts, PortAssumption DEF ReadDirect, Ids
<1>9. CASE ReadDropped \/ ReadDelayed \/ SendDue
  BY <1>3, <1>9 DEF ReadDropped, ReadDelayed, SendDue
<1>10. CASE ReadCrashes \/ HandDirect \/ HandDelayed \/ HandNotYet \/ HandCrashes \/ SendEnds
  BY <1>1, <1>10 DEF ReadCrashes, HandDirect, HandDelayed, HandNotYet, HandCrashes, SendEnds
<1>11. CASE SetLatency
  BY <1>2, <1>11 DEF SetLatency
<1>12. CASE Tick \/ UNCHANGED vars
  BY <1>3, <1>12 DEF Tick, vars, portVars
<1>13. ASSUME NEW s \in Sockets, Arrive(s) PROVE CallTypes'
  BY <1>3, <1>13 DEF Arrive
<1>14. ASSUME NEW p \in Ports,
              InitFails(p) \/ InitForPort(p) \/ Close(p) \/ SendDropped(p) \/ SendDirect(p)
       PROVE  CallTypes'
  BY <1>0, <1>2, <1>14 DEF InitFails, InitForPort, Close, SendDropped, SendDirect
<1>15. ASSUME NEW p \in Ports, SendCrashes(p) PROVE CallTypes'
  BY <1>1, <1>15 DEF SendCrashes
<1>16. ASSUME NEW p \in Ports, GetBegin(p) \/ SendDelayed(p) PROVE CallTypes'
  BY <1>4, <1>16 DEF GetBegin, SendDelayed
<1>. QED BY <1>6, <1>7, <1>8, <1>9, <1>10, <1>11, <1>12, <1>13, <1>14, <1>15, <1>16
         DEF Next, GetPacket, SendPacket, Calls

LEMMA HistoryTypesStep == TypeOK /\ Owned /\ [Next]_vars => HistoryTypes'
<1>. SUFFICES ASSUME TypeOK, Owned, [Next]_vars PROVE HistoryTypes'
  OBVIOUS
<1>. USE PortAssumption DEF HistoryTypes, inHistory, outHistory
<1>0. PortTypes /\ CallTypes /\ HistoryTypes
  BY DEF TypeOK
<1>1. \A f \in [1 .. MaxPackets -> Fates], i, what \in Fates :
        [f EXCEPT ![i] = what] \in [1 .. MaxPackets -> Fates]
  OBVIOUS
<1>2. {"got", "dropped", "oversize", "closed", "overwritten", "waiting"} \subseteq Fates
  BY DEF Fates
<1>3. ASSUME NEW s \in Sockets, Arrive(s) PROVE HistoryTypes'
  BY <1>0, <1>1, <1>2, <1>3 DEF Arrive
<1>4. ASSUME UNCHANGED <<arrived, fate, last, sends, lastOut>> PROVE HistoryTypes'
  BY <1>0, <1>4
<1>5. CASE Tick \/ SetLatency \/ WaitEnds \/ ReadNothing \/ HandNotYet \/ HandCrashes \/ SendEnds
  BY <1>4, <1>5 DEF Tick, SetLatency, WaitEnds, ReadNothing, HandNotYet, HandCrashes, SendEnds
<1>6. ASSUME NEW p \in Ports, InitFails(p) PROVE HistoryTypes'
  <2>1. last' = last \/ last' = [last EXCEPT ![NewSocket] = 0]
    BY <1>6 DEF InitFails
  <2>2. 0 \in 0 .. MaxPackets /\ last \in [Sockets -> 0 .. MaxPackets]
    BY <1>0
  <2>3. last' \in [Sockets -> 0 .. MaxPackets]
    BY <2>1, <2>2
  <2>4. UNCHANGED <<arrived, fate, sends, lastOut>>
    BY <1>6 DEF InitFails
  <2>. QED BY <1>0, <2>3, <2>4
<1>7. ASSUME NEW p \in Ports, InitForPort(p) PROVE HistoryTypes'
  <2>1. PICK i \in Interfaces, n \in Numbers :
          /\ last' = [last EXCEPT ![NewSocket] = 0]
          /\ fate' = WithFate(fate, IF udpPorts[n] = None THEN {} ELSE IdsOf(udpPorts[n].recieve),
                             "closed")
    BY <1>7 DEF InitForPort
  <2>2. fate' \in [1 .. MaxPackets -> Fates]
    BY <1>0, <1>2, <2>1, FateTyped
  <2>3. UNCHANGED <<arrived, sends, lastOut>>
    BY <1>7 DEF InitForPort
  <2>4. 0 \in 0 .. MaxPackets
    OBVIOUS
  <2>5. last \in [Sockets -> 0 .. MaxPackets]
    BY <1>0
  <2>. HIDE DEF HistoryTypes
  <2>6. last' \in [Sockets -> 0 .. MaxPackets]
    BY <2>1, <2>4, <2>5
  <2>7. /\ arrived \in 0 .. MaxPackets /\ sends \in 0 .. MaxSends
        /\ lastOut \in [Ports -> 0 .. MaxSends]
    BY <1>0 DEF HistoryTypes
  <2>. QED BY <2>2, <2>3, <2>6, <2>7 DEF HistoryTypes
<1>8. ASSUME NEW p \in Ports, Close(p) PROVE HistoryTypes'
  <2>1. fate' \in [1 .. MaxPackets -> Fates]
    BY <1>0, <1>2, <1>8, FateTyped DEF Close
  <2>. QED BY <1>0, <1>8, <2>1 DEF Close
<1>9. CASE ReadOversize \/ ReadDropped \/ ReadCrashes
  <2>1. fate' \in [1 .. MaxPackets -> Fates]
    BY <1>0, <1>1, <1>2, <1>9 DEF ReadOversize, ReadDropped, ReadCrashes
  <2>. QED BY <1>0, <1>9, <2>1 DEF ReadOversize, ReadDropped, ReadCrashes
<1>10. CASE ReadDirect \/ ReadDelayed
  BY <1>4, <1>10 DEF ReadDirect, ReadDelayed
<1>11. CASE HandDirect
  <2>1. fate' \in [1 .. MaxPackets -> Fates]
    BY <1>0, <1>1, <1>2, <1>11 DEF HandDirect
  <2>2. call.cur \in 0 .. MaxPackets
    BY <1>0, CallFacts DEF CallTypes
  <2>3. last' \in [Sockets -> 0 .. MaxPackets]
    BY <1>0, <1>11, <2>2 DEF HandDirect
  <2>. QED BY <1>0, <1>11, <2>1, <2>3 DEF HandDirect
<1>12. CASE HandDelayed
  <2>. DEFINE n == boundTo[call.port]
              q == udpPorts[n].recieve
  <2>1. call.port \in Ports
    BY <1>0, <1>12 DEF HandDelayed, CallTypes
  <2>2. /\ udpPorts[n] # None /\ q # <<>>
        /\ fate' = [WithFate(fate, {call.cur}, "overwritten") EXCEPT ![Head(q).id] = "got"]
        /\ last' = [last EXCEPT ![Head(q).from] = Head(q).id]
    BY <1>12 DEF HandDelayed, Queue, Ripe
  <2>3. udpPorts[n] \in Lags
    BY <1>0, <2>1, <2>2 DEF PortTypes
  <2>4. Head(q).id \in Ids
    BY <2>2, <2>3, LagFacts, TailFacts, DelayedFacts
  <2>5. fate' \in [1 .. MaxPackets -> Fates]
    <3>1. WithFate(fate, {call.cur}, "overwritten") \in [1 .. MaxPackets -> Fates]
      BY <1>0, <1>2, FateTyped
    <3>. QED BY <1>1, <1>2, <2>2, <3>1
  <2>6. Head(q).id \in 0 .. MaxPackets
    BY <2>4 DEF Ids
  <2>. HIDE DEF q, n
  <2>7. last' \in [Sockets -> 0 .. MaxPackets]
    BY <1>0, <2>2, <2>6
  <2>. QED BY <1>0, <1>12, <2>5, <2>7 DEF HandDelayed
<1>13. ASSUME NEW p \in Ports,
              SendDropped(p) \/ SendDirect(p) \/ SendDelayed(p) \/ SendCrashes(p)
       PROVE  HistoryTypes'
  <2>1. sends + 1 \in 0 .. MaxSends /\ sends' = sends + 1 /\ UNCHANGED <<arrived, fate, last>>
    BY <1>0, <1>13 DEF SendDropped, SendDirect, SendDelayed, SendCrashes
  <2>2. lastOut' \in [Ports -> 0 .. MaxSends]
    BY <1>0, <1>13, <2>1 DEF SendDropped, SendDirect, SendDelayed, SendCrashes
  <2>. QED BY <1>0, <2>1, <2>2
<1>14. CASE SendDue
  <2>. DEFINE n == boundTo[call.port]
              q == udpPorts[n].send
  <2>1. call.port \in Ports
    BY <1>0, <1>14 DEF SendDue, CallTypes
  <2>2. /\ udpPorts[n] # None /\ q # <<>>
        /\ lastOut' = lastOut \/ lastOut' = [lastOut EXCEPT ![Head(q).from] = Head(q).id]
    BY <1>14 DEF SendDue, Queue, Ripe
  <2>3. udpPorts[n] \in Lags
    BY <1>0, <2>1, <2>2 DEF PortTypes
  <2>4. Head(q).id \in 1 .. MaxSends
    BY <2>2, <2>3, LagFacts, TailFacts, DelayedFacts
  <2>5. Head(q).id \in 0 .. MaxSends
    BY <2>4
  <2>. HIDE DEF q, n
  <2>6. lastOut' \in [Ports -> 0 .. MaxSends]
    BY <1>0, <2>2, <2>5
  <2>. QED BY <1>0, <1>14, <2>6 DEF SendDue
<1>15. ASSUME NEW p \in Ports, GetBegin(p) PROVE HistoryTypes'
  BY <1>4, <1>15 DEF GetBegin
<1>16. CASE UNCHANGED vars
  BY <1>4, <1>16 DEF vars
<1>. QED BY <1>3, <1>5, <1>6, <1>7, <1>8, <1>9, <1>10, <1>11, <1>12, <1>13, <1>14, <1>15, <1>16
         DEF Next, GetPacket, SendPacket, Calls

LEMMA TypeStep == TypeOK /\ Owned /\ [Next]_vars => TypeOK'
BY PortTypesStep, CallTypesStep, HistoryTypesStep DEF TypeOK

-----------------------------------------------------------------------------
(* The steps that touch the order. *)

\* Every socket is open as before, on the number it had.
SocketsStay ==
  /\ \A s \in Sockets : (sockets'[s] # None) <=> (sockets[s] # None)
  /\ \A s \in Sockets : sockets[s] # None => sockets'[s].number = sockets[s].number

LEMMA StayOwned ==
  ASSUME TypeOK, Owned, SocketsStay, UNCHANGED <<netSocket, boundTo>>
  PROVE  Owned'
BY DEF Owned, SocketsStay, TypeOK, PortTypes

LEMMA StayAtHome ==
  ASSUME TypeOK, AtHome, SocketsStay, \A n \in Numbers : Recieve(n)' = Recieve(n)
  PROVE  AtHome'
<1>. SUFFICES ASSUME NEW n \in Numbers, NEW i \in DOMAIN Recieve(n)
     PROVE  LET s == Recieve(n)[i].from IN sockets'[s] # None /\ sockets'[s].number = n
  BY DEF AtHome
<1>1. Recieve(n)[i].from \in Sockets
  BY TypeFacts, DelayedFacts
<1>. QED BY <1>1 DEF AtHome, SocketsStay

LEMMA ArriveStep ==
  ASSUME PInv, TypeOK', NEW s \in Sockets, Arrive(s)
  PROVE  PInv'
<1>. USE DEF PInv
<1>. DEFINE x == arrived + 1
<1>1. x \in Ids /\ arrived' = x /\ arrived \in Nat /\ UNCHANGED <<netSocket, boundTo, udpPorts, call, last>>
  BY PortAssumption DEF Arrive, TypeOK, HistoryTypes, Ids
<1>2. sockets[s] # None /\ sockets[s] \in Opened /\ sockets[s].inbox \in Seq(Ids)
  BY TypeFacts DEF Arrive
<1>3. /\ \A t \in Sockets \ {s} : sockets'[t] = sockets[t]
      /\ sockets'[s] = [sockets[s] EXCEPT !.inbox = Append(@, x)]
  BY DEF Arrive, TypeOK, PortTypes
<1>4. /\ sockets'[s].inbox = Append(sockets[s].inbox, x) /\ sockets'[s].number = sockets[s].number
      /\ sockets'[s] # None
  <2>1. Append(sockets[s].inbox, x) \in Seq(Ids)
    BY <1>1, <1>2, AppendFacts
  <2>2. sockets'[s] \in Opened
    BY <1>2, <1>3, <2>1 DEF Opened, Ids
  <2>. QED BY <1>2, <1>3, <2>2, NoneAssumption DEF Opened
<1>. HIDE DEF x
<1>5. SocketsStay
  BY <1>2, <1>3, <1>4 DEF SocketsStay
<1>6. /\ \A n \in Numbers \cup {0} : Recieve(n)' = Recieve(n)
      /\ \A t \in Sockets : Mine(t)' = Mine(t) /\ Mine(t) \in Nat /\ last[t] \in Nat
  BY <1>1, TypeFacts DEF Recieve, Mine
<1>7. \A i \in DOMAIN sockets[s].inbox : sockets[s].inbox[i] \in Ids /\ sockets[s].inbox[i] < x
  <2>1. \A box \in Seq(Ids) : \A i \in DOMAIN box : box[i] \in Ids
    OBVIOUS
  <2>2. \A i \in DOMAIN sockets[s].inbox : sockets[s].inbox[i] <= arrived
    BY <1>2 DEF Arrived
  <2>. QED BY <1>1, <1>2, <2>1, <2>2 DEF x, Ids
<1>8. \A n \in Numbers \cup {0} : \A i \in DOMAIN Recieve(n) : Recieve(n)[i].id < x
  <2>1. \A n \in Numbers \cup {0} : \A i \in DOMAIN Recieve(n) :
          Recieve(n)[i].id \in Nat /\ n # 0
    BY TypeFacts, DelayedFacts DEF Ids
  <2>. QED BY <1>1, <2>1 DEF Arrived, x
<1>9. last[s] < x /\ Mine(s) < x
  <2>1. call.cur \in Nat
    BY CurFact
  <2>. QED BY <1>1, <1>6, <2>1 DEF Arrived, x, Mine
<1>10. Owned' /\ AtHome'
  BY <1>1, <1>5, <1>6, StayOwned, StayAtHome
<1>11. Arrived'
  <2>1. ASSUME NEW t \in Sockets, sockets'[t] # None, NEW i \in DOMAIN sockets'[t].inbox
        PROVE  sockets'[t].inbox[i] <= x
    <3>1. CASE t = s
      <4>1. PICK box \in Seq(Ids) : box = sockets[s].inbox
        BY <1>2
      <4>2. i \in DOMAIN box \cup {Len(box) + 1} /\ sockets'[t].inbox = Append(box, x)
        BY <1>1, <1>4, <2>1, <3>1, <4>1, AppendFacts
      <4>. QED BY <1>1, <1>7, <4>1, <4>2, AppendFacts DEF Ids
    <3>2. CASE t # s
      <4>1. sockets[t].inbox[i] \in Ids
        BY <1>3, <2>1, <3>2, TypeFacts
      <4>. QED BY <1>1, <1>3, <2>1, <3>2, <4>1 DEF Arrived, x, Ids
    <3>. QED BY <3>1, <3>2
  <2>2. /\ \A t \in Sockets : last'[t] <= x
        /\ call'.cur <= x
        /\ \A n \in Numbers : \A i \in DOMAIN Recieve(n)' : Recieve(n)'[i].id <= x
    <3>1. call.cur \in Nat
      BY CurFact
    <3>2. \A n \in Numbers : \A i \in DOMAIN Recieve(n) : Recieve(n)[i].id \in Nat
      BY TypeFacts, DelayedFacts DEF Ids
    <3>. QED BY <1>1, <1>6, <1>8, <3>1, <3>2 DEF Arrived, x, Ids
  <2>. QED BY <1>1, <2>1, <2>2 DEF Arrived
<1>12. Ordered'
  <2>1. ASSUME NEW t \in Sockets, NEW n \in Numbers \cup {0}, sockets'[t] # None
        PROVE  InOrder(sockets'[t].inbox, last'[t], Mine(t)', Recieve(n)', t)
    <3>1. sockets[t] # None /\ InOrder(sockets[t].inbox, last[t], Mine(t), Recieve(n), t)
      BY <1>2, <1>3, <2>1 DEF Ordered
    <3>2. CASE t # s
      BY <1>1, <1>3, <1>6, <3>1, <3>2
    <3>3. CASE t = s
      <4>1. Recieve(n) \in Seq(Entries)
        BY TypeFacts
      <4>2. InOrder(Append(sockets[s].inbox, x), last[s], Mine(s), Recieve(n), s)
        BY <1>1, <1>2, <1>6, <1>7, <1>8, <1>9, <3>1, <3>3, <4>1, ArriveKeepsOrder
      <4>. QED BY <1>1, <1>4, <1>6, <3>3, <4>2
    <3>. QED BY <3>2, <3>3
  <2>. QED BY <2>1 DEF Ordered
<1>. QED BY <1>10, <1>11, <1>12

\* What every turn of GetPacket's loop does to the sockets.
LEMMA ReadStays ==
  ASSUME PInv, Reading, UNCHANGED <<netSocket, boundTo>>
  PROVE  /\ SocketsStay
         /\ \A t \in Sockets \ {netSocket[call.port]} : sockets'[t] = sockets[t]
         /\ Owned'
<1>. USE DEF PInv
<1>1. SocketsStay /\ \A t \in Sockets \ {netSocket[call.port]} : sockets'[t] = sockets[t]
  BY ReadingFacts DEF SocketsStay, TypeOK, PortTypes
<1>. QED BY <1>1, StayOwned

LEMMA ReadArrived ==
  ASSUME PInv, Reading, NEW t \in Sockets, sockets'[t] # None, NEW i \in DOMAIN sockets'[t].inbox
  PROVE  sockets'[t].inbox[i] <= arrived
<1>. USE DEF PInv
<1>1. CASE t = netSocket[call.port]
  <2>1. /\ sockets[t].inbox \in Seq(Ids) /\ sockets[t].inbox # <<>> /\ sockets[t] # None
        /\ sockets'[t].inbox = Tail(sockets[t].inbox)
    BY <1>1, ReadingFacts, TypeFacts
  <2>. QED BY <2>1, TailFacts DEF Arrived
<1>2. CASE t # netSocket[call.port]
  BY <1>2, ReadingFacts DEF TypeOK, PortTypes, Arrived
<1>. QED BY <1>1, <1>2

\* A packet that is read and lost.
LEMMA LostStep ==
  ASSUME PInv, TypeOK', Reading, UNCHANGED <<netSocket, boundTo, udpPorts, arrived, last>>,
         call'.cur = 0
  PROVE  PInv'
<1>. USE DEF PInv
<1>. DEFINE s == netSocket[call.port]
<1>1. /\ s \in Sockets /\ call.cur = 0 /\ sockets[s] # None /\ sockets[s].inbox # <<>>
      /\ sockets[s].inbox \in Seq(Ids) /\ sockets'[s].inbox = Tail(sockets[s].inbox)
  BY ReadingFacts, TypeFacts
<1>2. /\ \A n \in Numbers \cup {0} : Recieve(n)' = Recieve(n) /\ Recieve(n) \in Seq(Entries)
      /\ \A t \in Sockets : Mine(t)' = 0 /\ Mine(t) = 0 /\ last[t] \in Nat
  BY <1>1, TypeFacts DEF Recieve, Mine
<1>3. Owned' /\ AtHome'
  BY <1>2, ReadStays, StayAtHome
<1>4. Arrived'
  <2>1. arrived \in Nat
    BY PortAssumption DEF TypeOK, HistoryTypes
  <2>. QED BY <1>1, <1>2, <2>1, ReadArrived DEF Arrived
<1>5. ASSUME NEW t \in Sockets, NEW n \in Numbers \cup {0}, sockets'[t] # None
      PROVE  InOrder(sockets'[t].inbox, last'[t], Mine(t)', Recieve(n)', t)
  <2>1. sockets[t] # None /\ InOrder(sockets[t].inbox, last[t], 0, Recieve(n), t)
    BY <1>1, <1>2, <1>5, ReadStays DEF Ordered
  <2>2. CASE t # s
    BY <1>2, <1>5, <2>1, <2>2, ReadStays
  <2>3. CASE t = s
    BY <1>1, <1>2, <2>1, <2>3, LostKeepsOrder
  <2>. QED BY <2>2, <2>3
<1>. QED BY <1>3, <1>4, <1>5 DEF Ordered

LEMMA ReadDirectStep ==
  ASSUME PInv, TypeOK', ReadDirect
  PROVE  PInv'
<1>. USE DEF PInv
<1>a. PICK s : s = netSocket[call.port]
  OBVIOUS
<1>b. PICK x : x = Head(sockets[s].inbox)
  OBVIOUS
<1>1. Reading /\ UNCHANGED <<netSocket, boundTo, udpPorts, arrived, last>>
  BY DEF ReadDirect, Reading, inHistory
<1>2. /\ s \in Sockets /\ call.cur = 0 /\ sockets[s] # None /\ sockets[s].inbox # <<>>
      /\ sockets[s].inbox \in Seq(Ids) /\ sockets'[s].inbox = Tail(sockets[s].inbox)
      /\ x \in Ids /\ x = sockets[s].inbox[1] /\ 1 \in DOMAIN sockets[s].inbox
  BY <1>a, <1>b, <1>1, ReadingFacts, TypeFacts, TailFacts
<1>3. call'.port = call.port /\ call'.cur = x
  <2>1. x \in 0 .. MaxPackets /\ call \in CallStates
    BY <1>2 DEF Ids, TypeOK, CallTypes
  <2>2. Hand(x)
    BY <1>a, <1>b, <1>1, <1>2, ReadingFacts DEF ReadDirect, HeadOf
  <2>. QED BY <2>1, <2>2, HandFacts DEF Hand
<1>4. /\ \A n \in Numbers \cup {0} : Recieve(n)' = Recieve(n) /\ Recieve(n) \in Seq(Entries)
      /\ \A t \in Sockets : Mine(t) = 0 /\ last[t] \in Nat
      /\ \A t \in Sockets \ {s} : Mine(t)' = 0
  BY <1>a, <1>1, <1>2, <1>3, TypeFacts DEF Recieve, Mine
<1>5. Mine(s)' = x
  BY <1>a, <1>1, <1>2, <1>3 DEF Mine, Ids
<1>6. Owned' /\ AtHome'
  BY <1>1, <1>4, ReadStays, StayAtHome
<1>7. Arrived'
  <2>1. x <= arrived
    BY <1>2 DEF Arrived
  <2>. QED BY <1>1, <1>3, <1>4, <2>1, ReadArrived DEF Arrived
<1>8. ASSUME NEW t \in Sockets, NEW n \in Numbers \cup {0}, sockets'[t] # None
      PROVE  InOrder(sockets'[t].inbox, last'[t], Mine(t)', Recieve(n)', t)
  <2>1. sockets[t] # None /\ InOrder(sockets[t].inbox, last[t], 0, Recieve(n), t)
    BY <1>a, <1>1, <1>2, <1>4, <1>8, ReadStays DEF Ordered
  <2>2. CASE t # s
    BY <1>a, <1>1, <1>4, <1>8, <2>1, <2>2, ReadStays
  <2>3. CASE t = s
    BY <1>1, <1>2, <1>4, <1>5, <2>1, <2>3, <1>b, ReadKeepsOrder
  <2>. QED BY <2>2, <2>3
<1>. QED BY <1>6, <1>7, <1>8 DEF Ordered

LEMMA ReadDelayedStep ==
  ASSUME PInv, TypeOK', ReadDelayed
  PROVE  PInv'
<1>. USE DEF PInv
<1>a. PICK s, x, n, e :
        /\ s = netSocket[call.port] /\ x = Head(sockets[s].inbox) /\ n = boundTo[call.port]
        /\ e = [id |-> x, from |-> s, age |-> 0]
  OBVIOUS
<1>1. Reading /\ UNCHANGED <<netSocket, boundTo, arrived, last, call>>
  BY DEF ReadDelayed, Reading, inHistory
<1>2. /\ s \in Sockets /\ call.cur = 0 /\ sockets[s] # None /\ sockets[s].inbox # <<>>
      /\ sockets[s].number = n
      /\ sockets[s].inbox \in Seq(Ids) /\ sockets'[s].inbox = Tail(sockets[s].inbox)
      /\ x \in Ids /\ x = sockets[s].inbox[1] /\ 1 \in DOMAIN sockets[s].inbox
  BY <1>a, <1>1, ReadingFacts, TypeFacts, TailFacts
<1>3. e \in Entries /\ e.id = x /\ e.from = s
  BY <1>a, <1>2, DelayedFacts
<1>4. /\ udpPorts' = [udpPorts EXCEPT ![n] = [udpPorts[n] EXCEPT !.recieve = Append(@, e)]]
      /\ udpPorts[n] # None /\ n \in Numbers
  <2>1. n \in Numbers \cup {0} /\ udpPorts[0] = None
    BY <1>a, <1>1, ReadingFacts DEF TypeOK, PortTypes
  <2>. QED BY <1>a, <1>1, <2>1, ReadingFacts DEF ReadDelayed
<1>5. \A m \in Numbers \cup {0} : Recieve(m) \in Seq(Entries)
  BY TypeFacts
<1>6. Recieve(n)' = Append(Recieve(n), e)
  <2>1. udpPorts[n] \in Lags /\ Recieve(n) = udpPorts[n].recieve
    BY <1>4, TypeFacts DEF Recieve
  <2>2. Append(udpPorts[n].recieve, e) \in Seq(Entries)
    BY <1>3, <2>1, LagFacts, AppendFacts
  <2>3. /\ [udpPorts[n] EXCEPT !.recieve = Append(@, e)] \in Lags
        /\ [udpPorts[n] EXCEPT !.recieve = Append(@, e)].recieve = Append(Recieve(n), e)
    BY <2>1, <2>2, LagFacts
  <2>4. udpPorts'[n] = [udpPorts[n] EXCEPT !.recieve = Append(@, e)]
    BY <1>4 DEF TypeOK, PortTypes
  <2>. QED BY <2>3, <2>4, NoneAssumption DEF Recieve
<1>7. \A m \in (Numbers \cup {0}) \ {n} : Recieve(m)' = Recieve(m)
  BY <1>4 DEF TypeOK, PortTypes, Recieve
<1>8. \A t \in Sockets : Mine(t)' = 0 /\ Mine(t) = 0 /\ last[t] \in Nat
  BY <1>1, <1>2, TypeFacts DEF Mine
<1>9. Owned' /\ SocketsStay
  BY <1>1, ReadStays
<1>10. \A i \in DOMAIN Recieve(n)' :
         \/ i \in DOMAIN Recieve(n) /\ Recieve(n)'[i] = Recieve(n)[i]
         \/ Recieve(n)'[i] = e
  BY <1>3, <1>4, <1>5, <1>6, AppendFacts
<1>11. AtHome'
  <2>1. ASSUME NEW m \in Numbers, NEW i \in DOMAIN Recieve(m)'
        PROVE  LET t == Recieve(m)'[i].from IN sockets'[t] # None /\ sockets'[t].number = m
    <3>1. CASE i \in DOMAIN Recieve(m) /\ Recieve(m)'[i] = Recieve(m)[i]
      <4>1. Recieve(m)[i].from \in Sockets
        BY <1>5, <3>1, DelayedFacts
      <4>. QED BY <1>9, <3>1, <4>1 DEF AtHome, SocketsStay
    <3>2. CASE m = n /\ Recieve(m)'[i] = e
      BY <1>2, <1>3, <1>9, <3>2 DEF SocketsStay
    <3>. QED BY <1>7, <1>10, <2>1, <3>1, <3>2
  <2>. QED BY <2>1 DEF AtHome
<1>12. Arrived'
  <2>1. x <= arrived
    BY <1>2 DEF Arrived
  <2>2. \A m \in Numbers : \A i \in DOMAIN Recieve(m)' : Recieve(m)'[i].id <= arrived
    BY <1>3, <1>7, <1>10, <2>1 DEF Arrived
  <2>. QED BY <1>1, <2>2, ReadArrived DEF Arrived
<1>13. ASSUME NEW t \in Sockets, NEW m \in Numbers \cup {0}, sockets'[t] # None
       PROVE  InOrder(sockets'[t].inbox, last'[t], Mine(t)', Recieve(m)', t)
  <2>1. sockets[t] # None /\ InOrder(sockets[t].inbox, last[t], 0, Recieve(m), t)
    BY <1>a, <1>1, <1>2, <1>8, <1>13, ReadStays DEF Ordered
  <2>2. CASE t # s
    <3>1. sockets'[t] = sockets[t] /\ sockets[t].inbox \in Seq(Ids)
      BY <1>a, <1>1, <2>1, <2>2, ReadStays, TypeFacts
    <3>2. CASE m = n
      <4>1. InOrder(sockets[t].inbox, last[t], 0, Append(Recieve(m), e), t)
        BY <1>3, <1>5, <1>8, <2>1, <2>2, <3>1, OthersDelayKeepsOrder
      <4>. QED BY <1>1, <1>6, <1>8, <3>1, <3>2, <4>1
    <3>3. CASE m # n
      BY <1>1, <1>7, <1>8, <2>1, <3>1, <3>3
    <3>. QED BY <3>2, <3>3
  <2>3. CASE t = s
    <3>1. CASE m = n
      <4>1. InOrder(Tail(sockets[t].inbox), last[t], 0, Append(Recieve(m), e), t)
        BY <1>a, <1>2, <1>3, <1>5, <1>8, <2>1, <2>3, <3>1, DelayKeepsOrder
      <4>. QED BY <1>1, <1>2, <1>6, <1>8, <2>3, <3>1, <4>1
    <3>2. CASE m # n
      <4>1. InOrder(Tail(sockets[t].inbox), last[t], 0, Recieve(m), t)
        BY <1>2, <1>5, <1>8, <2>1, <2>3, LostKeepsOrder
      <4>. QED BY <1>1, <1>2, <1>7, <1>8, <2>3, <3>2, <4>1
    <3>. QED BY <3>1, <3>2
  <2>. QED BY <2>2, <2>3
<1>. QED BY <1>9, <1>11, <1>12, <1>13 DEF Ordered

\* The packet that GetPacket has in hands is handed out.
LEMMA HandDirectStep ==
  ASSUME PInv, TypeOK', HandDirect
  PROVE  PInv'
<1>. USE DEF PInv
<1>1. /\ call' = Idle /\ UNCHANGED <<sockets, netSocket, boundTo, udpPorts, arrived>>
      /\ call'.cur = 0
  BY CallFacts DEF HandDirect, portVars
<1>2. CASE call.cur = 0
  BY <1>1, <1>2, Forgotten DEF HandDirect
<1>3. CASE call.cur # 0
  <2>1. PICK s, n : s = netSocket[call.port] /\ n = boundTo[call.port]
    OBVIOUS
  <2>2. /\ call.port \in Ports /\ s \in Sockets /\ s # NoSocket /\ call.cur \in Ids
    <3>1. call.cur \in 0 .. MaxPackets /\ call.op # "none"
      BY <1>3, CurFact DEF HandDirect
    <3>2. call.cur \in Ids
      BY <1>3, <3>1, PortAssumption DEF Ids
    <3>. QED BY <1>3, <2>1, <3>1, <3>2 DEF TypeOK, PortTypes, CallTypes
  <2>3. sockets[s] # None /\ sockets[s].number = n
    BY <2>1, <2>2 DEF Owned
  <2>4. last'[s] = call.cur /\ \A t \in Sockets \ {s} : last'[t] = last[t]
    BY <1>3, <2>1, <2>2 DEF HandDirect, TypeOK, HistoryTypes
  <2>5. /\ \A m \in Numbers \cup {0} : Recieve(m)' = Recieve(m) /\ Recieve(m) \in Seq(Entries)
        /\ \A t \in Sockets : Mine(t)' = 0 /\ Mine(t) \in Nat /\ last[t] \in Nat
        /\ Mine(s) = call.cur
    BY <1>1, <1>3, <2>1, TypeFacts DEF Recieve, Mine
  <2>6. \A m \in Numbers \cup {0} : HasNone(Recieve(m), s)
    <3>1. Recieve(n) = <<>>
      BY <2>1 DEF HandDirect, Queue, Recieve
    <3>2. HasNone(<<>>, s)
      BY DEF HasNone
    <3>3. ASSUME NEW m \in Numbers, m # n PROVE HasNone(Recieve(m), s)
      BY <2>3, <3>3 DEF AtHome, HasNone
    <3>. QED BY <3>1, <3>2, <3>3, TypeFacts
  <2>7. Owned' /\ AtHome'
    BY <1>1, <2>5 DEF Owned, AtHome
  <2>8. Arrived'
    <3>1. arrived \in Nat
      BY PortAssumption DEF TypeOK, HistoryTypes
    <3>2. call.cur <= arrived /\ \A t \in Sockets : last[t] <= arrived
      BY DEF Arrived
    <3>3. \A t \in Sockets : last'[t] <= arrived
      BY <2>4, <3>2
    <3>4. \A m \in Numbers : Recieve(m)' = Recieve(m)
      BY <2>5
    <3>. QED BY <1>1, <3>1, <3>3, <3>4 DEF Arrived
  <2>9. ASSUME NEW t \in Sockets, NEW m \in Numbers \cup {0}, sockets[t] # None
        PROVE  InOrder(sockets[t].inbox, last'[t], 0, Recieve(m), t)
    <3>1. InOrder(sockets[t].inbox, last[t], Mine(t), Recieve(m), t)
      BY <2>9 DEF Ordered
    <3>2. CASE t = s
      <4>1. sockets[t].inbox \in Seq(Ids)
        BY <2>9, TypeFacts
      <4>. QED BY <2>2, <2>4, <2>5, <2>6, <3>1, <3>2, <4>1, HandKeepsOrder
    <3>3. CASE t # s
      BY <2>4, <3>1, <3>3, ForgetKeepsOrder
    <3>. QED BY <3>2, <3>3
  <2>. QED BY <1>1, <2>5, <2>7, <2>8, <2>9 DEF Ordered
<1>. QED BY <1>2, <1>3

\* The oldest of the delayed packets is handed out; what GetPacket had in hands is lost.
LEMMA HandDelayedStep ==
  ASSUME PInv, TypeOK', HandDelayed
  PROVE  PInv'
<1>. USE DEF PInv
<1>a. PICK n, q, s : n = boundTo[call.port] /\ q = Recieve(n) /\ s = Head(q).from
  OBVIOUS
<1>1. /\ call' = Idle /\ UNCHANGED <<sockets, netSocket, boundTo, arrived>>
      /\ call'.cur = 0
  BY CallFacts DEF HandDelayed
<1>2. n \in Numbers /\ udpPorts[n] # None /\ udpPorts[n] \in Lags /\ q = udpPorts[n].recieve /\ q # <<>>
  <2>1. call.port \in Ports
    BY DEF HandDelayed, TypeOK, CallTypes
  <2>2. udpPorts[n] # None /\ q # <<>>
    BY <1>a DEF HandDelayed, Queue, Ripe, Recieve
  <2>. QED BY <1>a, <2>1, <2>2 DEF TypeOK, PortTypes, Recieve
<1>3. /\ q \in Seq(Entries) /\ Tail(q) \in Seq(Entries)
      /\ Head(q) \in Entries /\ Head(q) = q[1] /\ 1 \in DOMAIN q
      /\ s \in Sockets /\ Head(q).id \in Ids
  BY <1>a, <1>2, LagFacts, TailFacts, DelayedFacts
<1>4. last' = [last EXCEPT ![s] = Head(q).id]
  BY <1>a, <1>2 DEF HandDelayed, Queue
<1>5. udpPorts' = [udpPorts EXCEPT ![n] = [udpPorts[n] EXCEPT !.recieve = Tail(q)]]
  BY <1>a, <1>2 DEF HandDelayed
<1>6. last'[s] = Head(q).id /\ \A t \in Sockets \ {s} : last'[t] = last[t]
  BY <1>3, <1>4 DEF TypeOK, HistoryTypes
<1>7. /\ Recieve(n)' = Tail(q)
      /\ \A m \in (Numbers \cup {0}) \ {n} : Recieve(m)' = Recieve(m)
  <2>1. udpPorts'[n] = [udpPorts[n] EXCEPT !.recieve = Tail(q)]
    BY <1>2, <1>5 DEF TypeOK, PortTypes
  <2>0. /\ [udpPorts[n] EXCEPT !.recieve = Tail(q)] \in Lags
        /\ [udpPorts[n] EXCEPT !.recieve = Tail(q)].recieve = Tail(q)
    BY <1>2, <1>3, LagFacts
  <2>2. udpPorts'[n] \in Lags /\ udpPorts'[n].recieve = Tail(q)
    BY <2>0, <2>1
  <2>3. Recieve(n)' = Tail(q)
    BY <2>2, NoneAssumption DEF Recieve
  <2>4. \A m \in (Numbers \cup {0}) \ {n} : Recieve(m)' = Recieve(m)
    BY <1>5 DEF TypeOK, PortTypes, Recieve
  <2>. QED BY <2>3, <2>4
<1>8. /\ \A m \in Numbers \cup {0} : Recieve(m) \in Seq(Entries)
      /\ \A t \in Sockets : Mine(t)' = 0 /\ Mine(t) \in Nat /\ last[t] \in Nat
  BY <1>1, TypeFacts DEF Mine
<1>9. \A m \in Numbers : \A i \in DOMAIN Recieve(m)' :
        \E j \in DOMAIN Recieve(m) : Recieve(m)'[i] = Recieve(m)[j]
  <2>1. \A i \in DOMAIN Tail(q) : i + 1 \in DOMAIN q /\ Tail(q)[i] = q[i + 1]
    BY <1>2, <1>3, TailFacts
  <2>2. \A i \in DOMAIN Recieve(n)' : \E j \in DOMAIN q : Recieve(n)'[i] = q[j]
    BY <1>7, <2>1
  <2>3. \A i \in DOMAIN Recieve(n)' : \E j \in DOMAIN Recieve(n) : Recieve(n)'[i] = Recieve(n)[j]
    BY <1>a, <2>2
  <2>. QED BY <1>7, <2>3
<1>10. Owned' /\ AtHome'
  BY <1>1, <1>9 DEF Owned, AtHome
<1>11. Arrived'
  <2>1. Head(q).id <= arrived
    BY <1>a, <1>2, <1>3 DEF Arrived
  <2>2. \A m \in Numbers : \A i \in DOMAIN Recieve(m)' : Recieve(m)'[i].id <= arrived
    BY <1>9 DEF Arrived
  <2>3. arrived \in Nat
    BY PortAssumption DEF TypeOK, HistoryTypes
  <2>. QED BY <1>1, <1>6, <2>1, <2>2, <2>3 DEF Arrived
<1>12. ASSUME NEW t \in Sockets, NEW m \in Numbers \cup {0}, sockets[t] # None
       PROVE  InOrder(sockets[t].inbox, last'[t], 0, Recieve(m)', t)
  <2>1. /\ InOrder(sockets[t].inbox, last[t], Mine(t), Recieve(m), t)
        /\ InOrder(sockets[t].inbox, last[t], Mine(t), q, t)
        /\ sockets[t].inbox \in Seq(Ids)
    BY <1>a, <1>2, <1>12, TypeFacts DEF Ordered
  <2>2. CASE t = s
    <3>1. InOrder(sockets[t].inbox, last'[t], 0, Tail(q), t)
      BY <1>a, <1>2, <1>3, <1>6, <1>8, <2>1, <2>2, HandDelayedKeepsOrder
    <3>2. ASSUME m # n PROVE HasNone(Recieve(m)', t)
      <4>0. 1 \in DOMAIN Recieve(n) /\ Recieve(n)[1].from = t
        BY <1>a, <1>3, <2>2
      <4>1. sockets[t].number = n
        BY <1>2, <4>0 DEF AtHome
      <4>. QED BY <1>7, <3>2, <4>1, TypeFacts DEF AtHome, HasNone
    <3>. QED BY <1>7, <3>1, <3>2, OrderWithoutDelayed
  <2>3. CASE t # s
    <3>1. InOrder(sockets[t].inbox, last[t], 0, Tail(q), t)
      BY <1>2, <1>3, <1>8, <2>1, OthersHandKeepsOrder
    <3>2. InOrder(sockets[t].inbox, last[t], 0, Recieve(m), t)
      BY <2>1, ForgetKeepsOrder
    <3>. QED BY <1>6, <1>7, <2>3, <3>1, <3>2
  <2>. QED BY <2>2, <2>3
<1>. QED BY <1>1, <1>8, <1>10, <1>11, <1>12 DEF Ordered

\* Time passes: what is delayed stays what it is.
LEMMA TickStep ==
  ASSUME PInv, TypeOK', Tick
  PROVE  PInv'
<1>. USE DEF PInv
<1>1. UNCHANGED <<sockets, netSocket, boundTo, call, arrived, last>>
  BY DEF Tick, inHistory
<1>2. ASSUME NEW n \in Numbers \cup {0}
      PROVE  /\ DOMAIN Recieve(n)' = DOMAIN Recieve(n)
             /\ \A i \in DOMAIN Recieve(n) : Recieve(n)'[i].id = Recieve(n)[i].id
                                             /\ Recieve(n)'[i].from = Recieve(n)[i].from
  <2>1. CASE udpPorts[n] = None
    BY <2>1 DEF Tick, TypeOK, PortTypes, Recieve
  <2>2. CASE udpPorts[n] # None
    <3>1. /\ udpPorts'[n] = [send |-> Older(udpPorts[n].send), recieve |-> Older(udpPorts[n].recieve)]
          /\ udpPorts[n].recieve \in Seq(Entries) /\ udpPorts[n].send \in Seq(Sendings)
      BY <2>2, TypeFacts, LagFacts DEF Tick, TypeOK, PortTypes
    <3>2. Older(udpPorts[n].send) \in Seq(Sendings) /\ Older(udpPorts[n].recieve) \in Seq(Entries)
      BY <3>1, OlderFacts DEF Sendings, Entries
    <3>3. udpPorts'[n] \in Lags
      BY <3>1, <3>2 DEF Lags, Sendings, Entries, Ids
    <3>4. Recieve(n)' = Older(Recieve(n)) /\ Recieve(n) \in Seq(Entries)
      BY <2>2, <3>1, <3>3, NoneAssumption DEF Recieve
    <3>. QED BY <3>4, OlderFacts DEF Entries
  <2>. QED BY <2>1, <2>2
<1>3. \A t \in Sockets : Mine(t)' = Mine(t)
  BY <1>1 DEF Mine
<1>4. Owned' /\ AtHome' /\ Arrived'
  BY <1>1, <1>2 DEF Owned, AtHome, Arrived
<1>5. ASSUME NEW t \in Sockets, NEW n \in Numbers \cup {0}, sockets[t] # None
      PROVE  InOrder(sockets[t].inbox, last[t], Mine(t), Recieve(n)', t)
  <2>1. InOrder(sockets[t].inbox, last[t], Mine(t), Recieve(n), t)
    BY <1>5 DEF Ordered
  <2>. QED BY <1>2, <2>1 DEF InOrder
<1>. QED BY <1>1, <1>3, <1>4, <1>5 DEF Ordered

\* A socket is opened that was not: what it is given to, and what was delayed under its
\* number, does not matter.
LEMMA OpenStep ==
  ASSUME PInv, TypeOK', call = Idle, NEW w, w \in Free,
         UNCHANGED <<call, arrived>>,
         \A t \in Sockets \ {w} : sockets'[t] = sockets[t] /\ last'[t] = last[t],
         sockets'[w].inbox = <<>>, last'[w] = 0,
         NEW p \in Ports, \A r \in Ports \ {p} : netSocket'[r] = netSocket[r] /\ boundTo'[r] = boundTo[r],
         \/ netSocket'[p] = NoSocket
         \/ netSocket'[p] = w /\ sockets'[w] # None /\ sockets'[w].number = boundTo'[p],
         \A n \in Numbers \cup {0} : Recieve(n)' = Recieve(n) \/ Recieve(n)' = <<>>
  PROVE  PInv'
<1>. USE DEF PInv
<1>1. w \in Sockets /\ sockets[w] = None
  BY DEF Free
<1>2. /\ \A t \in Sockets : Mine(t) = 0 /\ Mine(t)' = 0
      /\ \A n \in Numbers \cup {0} : Recieve(n) \in Seq(Entries)
  BY CallFacts, TypeFacts DEF Mine
<1>3. Owned'
  <2>1. \A r \in Ports : netSocket[r] # NoSocket => netSocket[r] \in Sockets \ {w}
    BY <1>1 DEF Owned, TypeOK, PortTypes
  <2>. QED BY <2>1 DEF Owned
<1>4. \A n \in Numbers \cup {0} : \A i \in DOMAIN Recieve(n) : Recieve(n)[i].from \in Sockets \ {w}
  BY <1>1, <1>2, TypeFacts, DelayedFacts DEF AtHome
<1>5. AtHome'
  BY <1>4, EmptySeq DEF AtHome
<1>6. Arrived'
  <2>1. arrived \in Nat
    BY PortAssumption DEF TypeOK, HistoryTypes
  <2>2. \A n \in Numbers : \A i \in DOMAIN Recieve(n)' : Recieve(n)'[i].id <= arrived
    BY EmptySeq DEF Arrived
  <2>3. \A t \in Sockets : last'[t] <= arrived
    BY <2>1 DEF Arrived
  <2>4. \A t \in Sockets : sockets'[t] # None =>
          \A i \in DOMAIN sockets'[t].inbox : sockets'[t].inbox[i] <= arrived
    BY EmptySeq DEF Arrived
  <2>5. call.cur <= arrived
    BY DEF Arrived
  <2>. QED BY <2>2, <2>3, <2>4, <2>5 DEF Arrived
<1>7. ASSUME NEW t \in Sockets, NEW n \in Numbers \cup {0}, sockets'[t] # None
      PROVE  InOrder(sockets'[t].inbox, last'[t], 0, Recieve(n)', t)
  <2>1. HasNone(<<>>, t)
    BY EmptySeq DEF HasNone
  <2>2. CASE t = w
    <3>1. HasNone(Recieve(n)', t)
      BY <1>4, <2>1, <2>2 DEF HasNone
    <3>. QED BY <2>2, <3>1, NewSocketInOrder
  <2>3. CASE t # w
    <3>1. InOrder(sockets[t].inbox, last[t], 0, Recieve(n), t)
      BY <1>2, <1>7, <2>3 DEF Ordered
    <3>2. InOrder(sockets[t].inbox, last[t], 0, <<>>, t)
      BY <2>1, <3>1, OrderWithoutDelayed
    <3>. QED BY <2>3, <3>1, <3>2
  <2>. QED BY <2>2, <2>3
<1>. QED BY <1>2, <1>3, <1>5, <1>6, <1>7 DEF Ordered

LEMMA InitFailsStep ==
  ASSUME PInv, TypeOK', NEW p \in Ports, InitFails(p)
  PROVE  PInv'
<1>. USE DEF PInv
<1>1. /\ call = Idle /\ UNCHANGED <<call, arrived, udpPorts>>
      /\ \A r \in Ports \ {p} : netSocket'[r] = netSocket[r] /\ boundTo'[r] = boundTo[r]
      /\ netSocket'[p] = NoSocket
  BY DEF InitFails, TypeOK, PortTypes
<1>2. \A n \in Numbers \cup {0} : Recieve(n)' = Recieve(n)
  BY <1>1 DEF Recieve
<1>3. CASE UNCHANGED <<sockets, last>>
  <2>1. \A t \in Sockets : Mine(t) = 0 /\ Mine(t)' = 0
    BY <1>1, CallFacts DEF Mine
  <2>2. Owned' /\ AtHome' /\ Arrived'
    BY <1>1, <1>2, <1>3 DEF Owned, AtHome, Arrived
  <2>. QED BY <1>2, <1>3, <2>1, <2>2 DEF Ordered
<1>4. CASE ~UNCHANGED <<sockets, last>>
  <2>1. PICK w : w = NewSocket
    OBVIOUS
  <2>2. /\ Free # {} /\ last' = [last EXCEPT ![w] = 0]
        /\ sockets' = [sockets EXCEPT ![w] = [iface |-> None, number |-> 0, inbox |-> <<>>]]
    BY <1>4, <2>1 DEF InitFails
  <2>3. w \in Free /\ w \in Sockets
    BY <2>1, <2>2 DEF NewSocket, Free
  <2>4. /\ \A t \in Sockets \ {w} : sockets'[t] = sockets[t] /\ last'[t] = last[t]
        /\ sockets'[w].inbox = <<>> /\ last'[w] = 0
    BY <2>2, <2>3 DEF TypeOK, PortTypes, HistoryTypes
  <2>. QED BY <1>1, <1>2, <2>3, <2>4, OpenStep
<1>. QED BY <1>3, <1>4

LEMMA InitForPortStep ==
  ASSUME PInv, TypeOK', NEW p \in Ports, InitForPort(p)
  PROVE  PInv'
<1>. USE DEF PInv
<1>1. PICK i \in Interfaces, n \in Numbers, w \in {NewSocket} :
        /\ sockets' = [sockets EXCEPT ![w] = [iface |-> i, number |-> n, inbox |-> <<>>]]
        /\ last' = [last EXCEPT ![w] = 0]
        /\ netSocket' = [netSocket EXCEPT ![p] = w]
        /\ boundTo' = [boundTo EXCEPT ![p] = n]
        /\ udpPorts' = [udpPorts EXCEPT ![n] = Lag]
  BY DEF InitForPort
<1>2. call = Idle /\ UNCHANGED <<call, arrived>> /\ w \in Free /\ w \in Sockets
  BY <1>1 DEF InitForPort, NewSocket, Free
<1>3. /\ \A t \in Sockets \ {w} : sockets'[t] = sockets[t] /\ last'[t] = last[t]
      /\ sockets'[w] = [iface |-> i, number |-> n, inbox |-> <<>>]
      /\ sockets'[w].inbox = <<>> /\ sockets'[w].number = n /\ last'[w] = 0
  BY <1>1, <1>2 DEF TypeOK, PortTypes, HistoryTypes
<1>4. sockets'[w] # None
  <2>1. sockets'[w] \in Opened
    BY <1>3, EmptySeq DEF Opened
  <2>. QED BY <2>1, NoneAssumption
<1>5. /\ \A r \in Ports \ {p} : netSocket'[r] = netSocket[r] /\ boundTo'[r] = boundTo[r]
      /\ netSocket'[p] = w /\ boundTo'[p] = n
  BY <1>1 DEF TypeOK, PortTypes
<1>6. ASSUME NEW m \in Numbers \cup {0} PROVE Recieve(m)' = Recieve(m) \/ Recieve(m)' = <<>>
  <2>1. Lag \in Lags /\ Lag.recieve = <<>>
    BY EmptySeq DEF Lag, Lags
  <2>2. CASE m = n
    BY <1>1, <2>1, <2>2, NoneAssumption DEF TypeOK, PortTypes, Recieve
  <2>3. CASE m # n
    BY <1>1, <2>3 DEF TypeOK, PortTypes, Recieve
  <2>. QED BY <2>2, <2>3
<1>. QED BY <1>2, <1>3, <1>4, <1>5, <1>6, OpenStep

\* A socket is closed, and with it go the delayed packets of its number: those of the other
\* numbers are not of this socket.
LEMMA CloseStep ==
  ASSUME PInv, TypeOK', NEW p \in Ports, Close(p)
  PROVE  PInv'
<1>. USE DEF PInv
<1>1. PICK s, n : s = netSocket[p] /\ n = boundTo[p]
  OBVIOUS
<1>2. /\ call = Idle /\ UNCHANGED <<call, arrived, last>> /\ s \in Sockets /\ s # NoSocket
      /\ n \in Numbers \cup {0}
  BY <1>1 DEF Close, TypeOK, PortTypes
<1>3. /\ sockets' = [sockets EXCEPT ![s] = None] /\ udpPorts' = [udpPorts EXCEPT ![n] = None]
      /\ netSocket' = [netSocket EXCEPT ![p] = NoSocket] /\ boundTo' = [boundTo EXCEPT ![p] = 0]
  BY <1>1 DEF Close
<1>4. /\ sockets'[s] = None /\ \A t \in Sockets \ {s} : sockets'[t] = sockets[t]
      /\ netSocket'[p] = NoSocket
      /\ \A r \in Ports \ {p} : netSocket'[r] = netSocket[r] /\ boundTo'[r] = boundTo[r]
  BY <1>2, <1>3 DEF TypeOK, PortTypes
<1>5. /\ Recieve(n)' = <<>>
      /\ \A m \in (Numbers \cup {0}) \ {n} : Recieve(m)' = Recieve(m)
  BY <1>2, <1>3 DEF TypeOK, PortTypes, Recieve
<1>6. sockets[s] # None /\ sockets[s].number = n /\ \A r \in Ports \ {p} : netSocket[r] # s
  BY <1>1, <1>2 DEF Owned
<1>7. Owned'
  <2>1. \A r \in Ports : netSocket[r] # NoSocket => netSocket[r] \in Sockets
    BY DEF TypeOK, PortTypes
  <2>. QED BY <1>4, <1>6, <2>1 DEF Owned
<1>8. AtHome'
  <2>1. ASSUME NEW m \in Numbers, NEW i \in DOMAIN Recieve(m), m # n
        PROVE  LET t == Recieve(m)[i].from IN sockets'[t] # None /\ sockets'[t].number = m
    <3>1. Recieve(m)[i].from \in Sockets
      BY TypeFacts, DelayedFacts
    <3>2. Recieve(m)[i].from # s
      BY <1>6, <2>1 DEF AtHome
    <3>. QED BY <1>4, <2>1, <3>1, <3>2 DEF AtHome
  <2>. QED BY <1>5, <2>1, EmptySeq DEF AtHome
<1>9. Arrived'
  <2>1. \A m \in Numbers : \A i \in DOMAIN Recieve(m)' : Recieve(m)'[i].id <= arrived
    BY <1>5, EmptySeq DEF Arrived
  <2>. QED BY <1>2, <1>4, <2>1 DEF Arrived
<1>10. ASSUME NEW t \in Sockets, NEW m \in Numbers \cup {0}, sockets'[t] # None
       PROVE  InOrder(sockets'[t].inbox, last'[t], Mine(t)', Recieve(m)', t)
  <2>1. Mine(t)' = 0 /\ Mine(t) = 0
    BY <1>2, CallFacts DEF Mine
  <2>2. t # s /\ sockets'[t] = sockets[t] /\ sockets[t] # None
    BY <1>4, <1>10
  <2>3. InOrder(sockets[t].inbox, last[t], 0, Recieve(m), t)
    BY <2>1, <2>2 DEF Ordered
  <2>4. HasNone(<<>>, t)
    BY EmptySeq DEF HasNone
  <2>5. InOrder(sockets[t].inbox, last[t], 0, <<>>, t)
    BY <2>3, <2>4, OrderWithoutDelayed
  <2>. QED BY <1>2, <1>5, <2>1, <2>2, <2>3, <2>5
<1>. QED BY <1>7, <1>8, <1>9, <1>10 DEF Ordered

\* Sending touches what is delayed in the other direction only.
LEMMA SendRecieves ==
  ASSUME PInv, SendPacket \/ \E p \in Ports : SendDelayed(p)
  PROVE  /\ UNCHANGED <<sockets, netSocket, boundTo, inHistory, latency>>
         /\ call.cur = 0 /\ call'.cur = 0
         /\ \A n \in Numbers \cup {0} : Recieve(n)' = Recieve(n)
<1>. USE DEF PInv
<1>1. UNCHANGED <<sockets, netSocket, boundTo, inHistory, latency>>
  BY DEF SendPacket, SendDue, SendEnds, SendDelayed, portVars
<1>2. call.cur = 0 /\ call'.cur = 0
  <2>1. call.cur # 0 => call.op = "hand"
    BY DEF TypeOK, CallTypes
  <2>2. SendDue => call.cur = 0 /\ call'.cur = 0
    BY <2>1 DEF SendDue
  <2>3. SendEnds => call.cur = 0 /\ call'.cur = 0
    BY <2>1, CallFacts DEF SendEnds
  <2>4. ASSUME NEW p \in Ports, SendDelayed(p) PROVE call.cur = 0 /\ call'.cur = 0
    BY <2>4, CallFacts, BeginFacts DEF SendDelayed
  <2>. QED BY <2>2, <2>3, <2>4 DEF SendPacket
<1>3. ASSUME NEW q, NEW n \in Numbers \cup {0}, udpPorts[n] # None, q \in Seq(Sendings),
             udpPorts' = [udpPorts EXCEPT ![n] = [udpPorts[n] EXCEPT !.send = q]]
      PROVE  \A m \in Numbers \cup {0} : Recieve(m)' = Recieve(m)
  <2>1. udpPorts[n] \in Lags
    BY <1>3, TypeFacts
  <2>2. /\ [udpPorts[n] EXCEPT !.send = q] \in Lags
        /\ [udpPorts[n] EXCEPT !.send = q].recieve = udpPorts[n].recieve
    BY <1>3, <2>1, LagFacts
  <2>3. udpPorts'[n] = [udpPorts[n] EXCEPT !.send = q]
    BY <1>3 DEF TypeOK, PortTypes
  <2>4. Recieve(n)' = Recieve(n)
    BY <1>3, <2>2, <2>3, NoneAssumption DEF Recieve
  <2>5. \A m \in (Numbers \cup {0}) \ {n} : Recieve(m)' = Recieve(m)
    BY <1>3 DEF TypeOK, PortTypes, Recieve
  <2>. QED BY <2>4, <2>5
<1>4. CASE SendEnds
  BY <1>1, <1>2, <1>4 DEF SendEnds, portVars, Recieve
<1>5. CASE SendDue
  <2>1. PICK n, q : n = boundTo[call.port] /\ q = udpPorts[n].send
    OBVIOUS
  <2>2. n \in Numbers \cup {0}
    BY <1>5, <2>1 DEF SendDue, TypeOK, PortTypes, CallTypes
  <2>3. udpPorts[n] # None /\ q # <<>>
    BY <1>5, <2>1 DEF SendDue, Queue, Ripe
  <2>4. q \in Seq(Sendings) /\ Tail(q) \in Seq(Sendings)
    BY <2>1, <2>2, <2>3, TypeFacts, LagFacts, TailFacts
  <2>5. udpPorts' = [udpPorts EXCEPT ![n] = [udpPorts[n] EXCEPT !.send = Tail(q)]]
    BY <1>5, <2>1 DEF SendDue
  <2>. QED BY <1>1, <1>2, <1>3, <2>2, <2>3, <2>4, <2>5
<1>6. ASSUME NEW p \in Ports, SendDelayed(p)
      PROVE  \A m \in Numbers \cup {0} : Recieve(m)' = Recieve(m)
  <2>1. PICK n, q, e : /\ n = boundTo[p] /\ q = udpPorts[n].send
                       /\ e = [id |-> sends + 1, from |-> p, age |-> 0]
    OBVIOUS
  <2>2. n \in Numbers \cup {0} /\ udpPorts[n] # None /\ sends + 1 \in 1 .. MaxSends
    <3>1. n \in Numbers \cup {0} /\ udpPorts[n] # None
      BY <1>6, <2>1 DEF SendDelayed, TypeOK, PortTypes
    <3>2. sends < MaxSends /\ sends \in 0 .. MaxSends
      BY <1>6 DEF SendDelayed, TypeOK, HistoryTypes
    <3>. QED BY <3>1, <3>2, PortAssumption
  <2>3. e \in Sendings
    BY <2>1, <2>2, DelayedFacts
  <2>4. q \in Seq(Sendings) /\ Append(q, e) \in Seq(Sendings)
    BY <2>1, <2>2, <2>3, TypeFacts, LagFacts, AppendFacts
  <2>5. udpPorts' = [udpPorts EXCEPT ![n] = [udpPorts[n] EXCEPT !.send = Append(q, e)]]
    BY <1>6, <2>1 DEF SendDelayed
  <2>. QED BY <1>1, <1>2, <1>3, <2>2, <2>4, <2>5
<1>. QED BY <1>1, <1>2, <1>4, <1>5, <1>6 DEF SendPacket

LEMMA SendStep ==
  ASSUME PInv, TypeOK', SendPacket \/ \E p \in Ports : SendDelayed(p)
  PROVE  PInv'
<1>1. /\ UNCHANGED <<sockets, netSocket, boundTo, arrived, last>>
      /\ call.cur = 0 /\ call'.cur = 0
      /\ \A n \in Numbers \cup {0} : Recieve(n)' = Recieve(n)
  BY SendRecieves DEF inHistory
<1>. QED BY <1>1, Untouched

-----------------------------------------------------------------------------
LEMMA StepKeeps == PInv /\ [Next]_vars => PInv'
<1>. SUFFICES ASSUME PInv, [Next]_vars PROVE PInv'
  OBVIOUS
<1>. USE DEF PInv
<1>0. Hand(0) => call'.cur = 0
  <2>1. 0 \in 0 .. MaxPackets /\ call \in CallStates
    BY PortAssumption DEF TypeOK, CallTypes
  <2>2. [call EXCEPT !.op = "hand", !.cur = 0].cur = 0
    BY <2>1, HandFacts
  <2>. QED BY <2>2 DEF Hand
<1>1. TypeOK'
  BY TypeStep
<1>2. ASSUME UNCHANGED portVars, UNCHANGED <<arrived, last>>, call'.cur = call.cur,
             call.cur # 0 => call'.port = call.port
      PROVE  PInv'
  <2>1. \A n \in Numbers \cup {0} : Recieve(n)' = Recieve(n)
    BY <1>2 DEF portVars, Recieve
  <2>. QED BY <1>1, <1>2, <2>1, Untouched DEF portVars
<1>3. ASSUME UNCHANGED portVars, UNCHANGED <<arrived, last>>, call'.cur = 0 PROVE PInv'
  BY <1>1, <1>3, Forgotten DEF portVars
<1>4. CASE Tick
  BY <1>1, <1>4, TickStep
<1>5. CASE SetLatency \/ UNCHANGED vars
  BY <1>2, <1>5 DEF SetLatency, vars, inHistory
<1>6. CASE WaitEnds
  <2>1. call'.cur = call.cur /\ call'.port = call.port
    BY <1>6, CallFacts DEF WaitEnds, TypeOK, CallTypes
  <2>. QED BY <1>2, <1>6, <2>1 DEF WaitEnds, inHistory
<1>7. CASE ReadNothing
  <2>1. call'.cur = 0
    BY <1>0, <1>7 DEF ReadNothing
  <2>. QED BY <1>3, <1>7, <2>1 DEF ReadNothing, inHistory
<1>8. CASE HandNotYet \/ HandCrashes
  <2>1. call'.cur = 0
    BY <1>8, CallFacts DEF HandNotYet, HandCrashes
  <2>. QED BY <1>3, <1>8, <2>1 DEF HandNotYet, HandCrashes, inHistory
<1>9. CASE ReadOversize \/ ReadDropped \/ ReadCrashes
  <2>1. Reading /\ UNCHANGED <<netSocket, boundTo, udpPorts, arrived, last>>
    BY <1>9 DEF ReadOversize, ReadDropped, ReadCrashes
  <2>2. call.cur = 0
    BY <2>1, ReadingFacts
  <2>3. call'.cur = 0
    BY <1>0, <1>9, <2>2, CallFacts DEF ReadOversize, ReadDropped, ReadCrashes
  <2>. QED BY <1>1, <2>1, <2>3, LostStep
<1>10. CASE ReadDirect
  BY <1>1, <1>10, ReadDirectStep
<1>11. CASE ReadDelayed
  BY <1>1, <1>11, ReadDelayedStep
<1>12. CASE HandDirect
  BY <1>1, <1>12, HandDirectStep
<1>13. CASE HandDelayed
  BY <1>1, <1>13, HandDelayedStep
<1>14. CASE SendPacket
  BY <1>1, <1>14, SendStep
<1>15. ASSUME NEW p \in Ports, Calls(p) PROVE PInv'
  <2>1. CASE InitFails(p)
    BY <1>1, <2>1, InitFailsStep
  <2>2. CASE InitForPort(p)
    BY <1>1, <2>2, InitForPortStep
  <2>3. CASE Close(p)
    BY <1>1, <2>3, CloseStep
  <2>4. CASE GetBegin(p)
    <3>1. call.cur = 0 /\ call'.cur = 0
      BY <2>4, CallFacts, BeginFacts DEF GetBegin
    <3>. QED BY <1>3, <2>4, <3>1 DEF GetBegin, inHistory
  <2>5. CASE SendDropped(p) \/ SendDirect(p) \/ SendCrashes(p)
    BY <1>2, <2>5 DEF SendDropped, SendDirect, SendCrashes, inHistory
  <2>6. CASE SendDelayed(p)
    BY <1>1, <2>6, SendStep
  <2>. QED BY <1>15, <2>1, <2>2, <2>3, <2>4, <2>5, <2>6 DEF Calls
<1>16. ASSUME NEW s \in Sockets, Arrive(s) PROVE PInv'
  BY <1>1, <1>16, ArriveStep
<1>. QED BY <1>4, <1>5, <1>6, <1>7, <1>8, <1>9, <1>10, <1>11, <1>12, <1>13, <1>14, <1>15, <1>16
         DEF Next, GetPacket

\* Whatever the latency is set to between the calls, whatever is dropped, and however the
\* ports are opened and closed in between, the packets of a socket are handed out in the
\* order of their arrival and none twice (win_net.cpp, idPort::GetPacket).
THEOREM ReceivedInOrderAlways == Spec => []ReceivedInOrder
<1>1. PInv => ReceivedInOrder
  BY PInvImplies
<1>. QED BY InitHolds, StepKeeps, <1>1, PTL DEF Spec

\* No port ever holds a socket that another holds, that is closed, or that is bound to
\* another number than GetPort tells.
THEOREM OwnedAlways == Spec => [](TypeOK /\ Owned)
<1>1. PInv => TypeOK /\ Owned
  BY DEF PInv
<1>. QED BY InitHolds, StepKeeps, <1>1, PTL DEF Spec
-----------------------------------------------------------------------------
(* Sending.  What is delayed under a number is in the order of the sends; while no two     *)
(* sockets had one number it is of the one port that is bound to it, and newer than all    *)
(* that left that port.                                                                    *)

Send(n) == IF udpPorts[n] = None THEN <<>> ELSE udpPorts[n].send

\* A port without a socket has no number, and no two have one while none was shared.
NumbersOwned ==
  /\ shared \in BOOLEAN
  /\ \A p \in Ports : netSocket[p] = NoSocket => boundTo[p] = 0
  /\ ~shared => \A p, r \in Ports : p # r /\ boundTo[p] # 0 => boundTo[p] # boundTo[r]

Ascending(q) == \A i, j \in DOMAIN q : i < j => q[i].id < q[j].id

\* No packet is newer than the last that was sent.
Sent ==
  /\ \A p \in Ports : lastOut[p] <= sends
  /\ \A n \in Numbers : Ascending(Send(n)) /\ \A i \in DOMAIN Send(n) : Send(n)[i].id <= sends

\* What is delayed under a port's number is its own, and newer than what left it.
Outgoing(p, q) == \A i \in DOMAIN q : q[i].from = p /\ lastOut[p] < q[i].id
OwnOutgoing ==
  ~shared => \A p \in Ports, n \in Numbers : boundTo[p] = n => Outgoing(p, Send(n))

SInv == PInv /\ NumbersOwned /\ Sent /\ OwnOutgoing

LEMMA SInvImplies == SInv => SentInOrder
<1>. SUFFICES ASSUME SInv, NEW n \in Numbers, udpPorts[n] # None
              PROVE  LET q == udpPorts[n].send
                     IN /\ \A i \in DOMAIN q : q[i].id <= sends
                        /\ \A i, j \in DOMAIN q : i < j => q[i].id < q[j].id
                        /\ shared \/ \A p \in Ports, i \in DOMAIN q :
                                       boundTo[p] = n => q[i].from = p /\ lastOut[p] < q[i].id
  BY DEF SentInOrder
<1>1. Send(n) = udpPorts[n].send
  BY DEF Send
<1>. QED BY <1>1 DEF SInv, Sent, Ascending, OwnOutgoing, Outgoing

LEMMA SendFacts ==
  ASSUME TypeOK
  PROVE  /\ sends \in Nat /\ sends \in 0 .. MaxSends /\ \A p \in Ports : lastOut[p] \in Nat
         /\ Send(0) = <<>>
         /\ \A n \in Numbers \cup {0} :
              /\ Send(n) \in Seq(Sendings)
              /\ \A i \in DOMAIN Send(n) : Send(n)[i].id \in Nat /\ Send(n)[i].from \in Ports
<1>1. sends \in Nat /\ sends \in 0 .. MaxSends /\ \A p \in Ports : lastOut[p] \in Nat
  BY PortAssumption DEF TypeOK, HistoryTypes
<1>2. Send(0) = <<>>
  BY DEF TypeOK, PortTypes, Send
<1>3. \A n \in Numbers \cup {0} : Send(n) \in Seq(Sendings)
  <2>1. TAKE n \in Numbers \cup {0}
  <2>2. CASE udpPorts[n] = None
    BY <2>2, EmptySeq DEF Send
  <2>3. CASE udpPorts[n] # None
    <3>1. udpPorts[n] \in Lags
      BY <2>3, TypeFacts
    <3>. QED BY <2>3, <3>1, LagFacts DEF Send
  <2>. QED BY <2>2, <2>3
<1>4. ASSUME NEW n \in Numbers \cup {0}, NEW i \in DOMAIN Send(n)
      PROVE  Send(n)[i].id \in Nat /\ Send(n)[i].from \in Ports
  <2>1. i \in 1 .. Len(Send(n))
    BY <1>3, LenProperties
  <2>2. Send(n)[i] \in Sendings
    BY <1>3, <2>1, ElementOfSeq
  <2>3. Send(n)[i].id \in 1 .. MaxSends /\ Send(n)[i].from \in Ports
    BY <2>2, DelayedFacts
  <2>. QED BY <2>3, PortAssumption
<1>. QED BY <1>1, <1>2, <1>3, <1>4

\* The other direction of the delayed packets does not touch what is to be sent.
LEMMA LagSends ==
  ASSUME NEW lag \in Lags
  PROVE  /\ \A q : [lag EXCEPT !.recieve = q].send = lag.send
         /\ \A q : [lag EXCEPT !.send = q].send = q
BY DEF Lags

LEMMA SendingInit == Init => SInv
<1>. SUFFICES ASSUME Init PROVE SInv
  OBVIOUS
<1>1. PInv
  BY InitHolds
<1>2. /\ \A n \in Numbers \cup {0} : Send(n) = <<>>
      /\ \A p \in Ports : netSocket[p] = NoSocket /\ boundTo[p] = 0 /\ lastOut[p] = 0
      /\ sends = 0 /\ shared = FALSE
  BY DEF Init, Send
<1>3. DOMAIN <<>> = {}
  OBVIOUS
<1>4. NumbersOwned
  BY <1>2 DEF NumbersOwned
<1>5. Sent
  BY <1>2, <1>3 DEF Sent, Ascending
<1>6. OwnOutgoing
  BY <1>2, <1>3 DEF OwnOutgoing, Outgoing
<1>. QED BY <1>1, <1>4, <1>5, <1>6 DEF SInv

\* The same packets wait, if for longer.
Same(q, r) == DOMAIN q = DOMAIN r /\ \A i \in DOMAIN q : q[i].id = r[i].id /\ q[i].from = r[i].from

LEMMA SameOrder ==
  ASSUME NEW q, NEW r, Same(r, q)
  PROVE  /\ Ascending(q) => Ascending(r)
         /\ \A p : Outgoing(p, q) => Outgoing(p, r)
BY DEF Same, Ascending, Outgoing

\* A step that neither opens nor closes a port and lets no packet go.
LEMMA NothingLeaves ==
  ASSUME SInv, PInv', UNCHANGED <<netSocket, boundTo, lastOut, shared>>,
         sends' = sends \/ sends' = sends + 1,
         \A n \in Numbers : Same(Send(n)', Send(n))
  PROVE  SInv'
<1>1. TypeOK /\ TypeOK'
  BY DEF SInv, PInv
<1>2. sends \in Nat /\ sends' \in Nat /\ sends <= sends' /\ \A p \in Ports : lastOut[p] \in Nat
  BY <1>1, SendFacts, SMT
<1>3. NumbersOwned'
  BY DEF SInv, NumbersOwned
<1>4. \A n \in Numbers : Ascending(Send(n)')
  BY SameOrder DEF SInv, Sent
<1>5. ASSUME NEW n \in Numbers, NEW i \in DOMAIN Send(n)'
      PROVE  Send(n)'[i].id <= sends'
  <2>1. i \in DOMAIN Send(n) /\ Send(n)'[i].id = Send(n)[i].id
    BY <1>5 DEF Same
  <2>2. Send(n)[i].id \in Nat /\ Send(n)[i].id <= sends
    BY <1>1, <2>1, SendFacts DEF SInv, Sent
  <2>. QED BY <1>2, <2>1, <2>2
<1>6. \A p \in Ports : lastOut'[p] <= sends'
  BY <1>2 DEF SInv, Sent
<1>7. Sent'
  BY <1>4, <1>5, <1>6 DEF Sent, Ascending
<1>8. OwnOutgoing'
  <2>1. ASSUME ~shared, NEW p \in Ports, NEW n \in Numbers, boundTo[p] = n
        PROVE  Outgoing(p, Send(n)')
    BY <2>1, SameOrder DEF SInv, OwnOutgoing
  <2>. QED BY <2>1 DEF OwnOutgoing, Outgoing
<1>. QED BY <1>3, <1>7, <1>8 DEF SInv

\* A port is opened or closed: the delayed packets of a number go, or stay.
LEMMA PortsChange ==
  ASSUME SInv, PInv', NumbersOwned', UNCHANGED <<lastOut, sends>>, shared => shared',
         \A n \in Numbers : Send(n)' = Send(n) \/ Send(n)' = <<>>,
         \A p \in Ports, n \in Numbers : boundTo'[p] = n /\ boundTo[p] # n => Send(n)' = <<>>
  PROVE  SInv'
<1>1. DOMAIN <<>> = {}
  OBVIOUS
<1>2. \A n \in Numbers : Ascending(Send(n)') /\ \A i \in DOMAIN Send(n)' : Send(n)'[i].id <= sends
  BY <1>1 DEF SInv, Sent, Ascending
<1>3. Sent'
  BY <1>2 DEF SInv, Sent, Ascending
<1>4. OwnOutgoing'
  <2>1. ASSUME ~shared', NEW p \in Ports, NEW n \in Numbers, boundTo'[p] = n
        PROVE  Outgoing(p, Send(n)')
    BY <1>1, <2>1 DEF SInv, OwnOutgoing, Outgoing
  <2>. QED BY <2>1 DEF OwnOutgoing, Outgoing
<1>. QED BY <1>3, <1>4 DEF SInv

LEMMA InitFailsSends ==
  ASSUME SInv, PInv', NEW p \in Ports, InitFails(p)
  PROVE  SInv'
<1>1. /\ \A r \in Ports \ {p} : netSocket'[r] = netSocket[r] /\ boundTo'[r] = boundTo[r]
      /\ netSocket'[p] = NoSocket /\ boundTo'[p] = 0
      /\ UNCHANGED <<udpPorts, lastOut, sends, shared>>
  BY DEF InitFails, outHistory, SInv, PInv, TypeOK, PortTypes
<1>2. NumbersOwned'
  BY <1>1 DEF SInv, NumbersOwned
<1>3. \A n \in Numbers : Send(n)' = Send(n)
  BY <1>1 DEF Send
<1>4. 0 \notin Numbers
  BY PortAssumption
<1>5. \A r \in Ports, n \in Numbers : boundTo'[r] = n => boundTo[r] = n
  BY <1>1, <1>4
<1>. QED BY <1>1, <1>2, <1>3, <1>5, PortsChange

LEMMA CloseSends ==
  ASSUME SInv, PInv', NEW p \in Ports, Close(p)
  PROVE  SInv'
<1>1. /\ \A r \in Ports \ {p} : netSocket'[r] = netSocket[r] /\ boundTo'[r] = boundTo[r]
      /\ netSocket'[p] = NoSocket /\ boundTo'[p] = 0
      /\ UNCHANGED <<lastOut, sends, shared>>
      /\ udpPorts' = [udpPorts EXCEPT ![boundTo[p]] = None]
  BY DEF Close, outHistory, SInv, PInv, TypeOK, PortTypes
<1>2. NumbersOwned'
  BY <1>1 DEF SInv, NumbersOwned
<1>3. \A n \in Numbers : udpPorts'[n] = udpPorts[n] \/ udpPorts'[n] = None
  BY <1>1 DEF SInv, PInv, TypeOK, PortTypes
<1>4. \A n \in Numbers : Send(n)' = Send(n) \/ Send(n)' = <<>>
  BY <1>3 DEF Send
<1>5. 0 \notin Numbers
  BY PortAssumption
<1>6. \A r \in Ports, n \in Numbers : boundTo'[r] = n => boundTo[r] = n
  BY <1>1, <1>5
<1>. QED BY <1>1, <1>2, <1>4, <1>6, PortsChange

\* A port that is opened where no socket has its number shares it with no other port: an
\* open port has a socket on its number.
LEMMA InitForPortSends ==
  ASSUME SInv, PInv', NEW p \in Ports, InitForPort(p)
  PROVE  SInv'
<1>a. PICK n \in Numbers :
        /\ netSocket' = [netSocket EXCEPT ![p] = NewSocket]
        /\ boundTo' = [boundTo EXCEPT ![p] = n]
        /\ udpPorts' = [udpPorts EXCEPT ![n] = Lag]
        /\ shared' = (shared \/ {t \in Sockets : sockets[t] # None /\ sockets[t].number = n} # {})
  BY DEF InitForPort
<1>b. PICK same : same = {t \in Sockets : sockets[t] # None /\ sockets[t].number = n}
  OBVIOUS
<1>1. /\ same = {t \in Sockets : sockets[t] # None /\ sockets[t].number = n}
      /\ netSocket' = [netSocket EXCEPT ![p] = NewSocket]
      /\ boundTo' = [boundTo EXCEPT ![p] = n]
      /\ udpPorts' = [udpPorts EXCEPT ![n] = Lag]
      /\ shared' = (shared \/ same # {})
  BY <1>a, <1>b
<1>2. NewSocket \in Sockets /\ NewSocket # NoSocket /\ UNCHANGED <<lastOut, sends>>
  BY PortAssumption DEF InitForPort, NewSocket, Free, outHistory
<1>3. /\ \A r \in Ports \ {p} : netSocket'[r] = netSocket[r] /\ boundTo'[r] = boundTo[r]
      /\ netSocket'[p] = NewSocket /\ boundTo'[p] = n
  BY <1>1 DEF SInv, PInv, TypeOK, PortTypes
<1>4. n # 0 /\ 0 \notin Numbers
  BY PortAssumption
<1>5. ASSUME ~shared', NEW r \in Ports, boundTo[r] = n PROVE FALSE
  <2>1. same = {}
    BY <1>1, <1>5
  <2>2. netSocket[r] # NoSocket
    BY <1>4, <1>5 DEF SInv, NumbersOwned
  <2>3. netSocket[r] \in Sockets /\ sockets[netSocket[r]] # None /\ sockets[netSocket[r]].number = n
    BY <1>5, <2>2 DEF SInv, PInv, Owned, TypeOK, PortTypes
  <2>. QED BY <1>1, <2>1, <2>3
<1>6. NumbersOwned'
  <2>1. shared' \in BOOLEAN
    BY <1>1
  <2>2. \A r \in Ports : netSocket'[r] = NoSocket => boundTo'[r] = 0
    BY <1>2, <1>3 DEF SInv, NumbersOwned
  <2>3. ASSUME ~shared', NEW r \in Ports, NEW t \in Ports, r # t, boundTo'[r] # 0
        PROVE  boundTo'[r] # boundTo'[t]
    <3>1. ~shared
      BY <1>1, <2>3
    <3>2. boundTo[r] # n /\ boundTo[t] # n
      BY <1>5, <2>3
    <3>3. boundTo[r] # 0 => boundTo[r] # boundTo[t]
      BY <2>3, <3>1 DEF SInv, NumbersOwned
    <3>. QED BY <1>3, <2>3, <3>2, <3>3
  <2>. QED BY <2>1, <2>2, <2>3 DEF NumbersOwned
<1>7. /\ udpPorts'[n] = Lag /\ Lag.send = <<>> /\ Lag # None
      /\ \A m \in Numbers \ {n} : udpPorts'[m] = udpPorts[m]
  <2>1. Lag \in Lags
    BY EmptySeq DEF Lag, Lags
  <2>2. Lag.send = <<>>
    BY DEF Lag
  <2>. QED BY <1>1, <2>1, <2>2, NoneAssumption DEF SInv, PInv, TypeOK, PortTypes
<1>8. Send(n)' = <<>> /\ \A m \in Numbers \ {n} : Send(m)' = Send(m)
  BY <1>7 DEF Send
<1>9. \A r \in Ports, m \in Numbers : boundTo'[r] = m /\ boundTo[r] # m => Send(m)' = <<>>
  BY <1>3, <1>8
<1>10. shared => shared'
  BY <1>1
<1>. QED BY <1>2, <1>6, <1>8, <1>9, <1>10, PortsChange
LEMMA TickSends ==
  ASSUME SInv, PInv', Tick
  PROVE  SInv'
<1>1. UNCHANGED <<netSocket, boundTo, lastOut, shared, sends>>
  BY DEF Tick, outHistory
<1>2. ASSUME NEW n \in Numbers PROVE Same(Send(n)', Send(n))
  <2>1. CASE udpPorts[n] = None
    BY <2>1 DEF Tick, SInv, PInv, TypeOK, PortTypes, Send, Same
  <2>2. CASE udpPorts[n] # None
    <3>1. udpPorts[n] \in Lags
      BY <2>2, TypeFacts DEF SInv, PInv
    <3>2. /\ udpPorts'[n] = [send |-> Older(udpPorts[n].send), recieve |-> Older(udpPorts[n].recieve)]
          /\ udpPorts[n].recieve \in Seq(Entries) /\ udpPorts[n].send \in Seq(Sendings)
      BY <2>2, <3>1, LagFacts DEF Tick, SInv, PInv, TypeOK, PortTypes
    <3>3. Older(udpPorts[n].send) \in Seq(Sendings) /\ Older(udpPorts[n].recieve) \in Seq(Entries)
      BY <3>2, OlderFacts DEF Sendings, Entries
    <3>4. udpPorts'[n] \in Lags
      BY <3>2, <3>3 DEF Lags, Sendings, Entries, Ids
    <3>5. Send(n)' = Older(Send(n)) /\ Send(n) \in Seq(Sendings)
      BY <2>2, <3>2, <3>4, NoneAssumption DEF Send
    <3>. QED BY <3>5, OlderFacts DEF Sendings, Same
  <2>. QED BY <2>1, <2>2
<1>. QED BY <1>1, <1>2, NothingLeaves

\* A packet leaves at once: nothing of this port is delayed.
LEMMA SendDirectSends ==
  ASSUME SInv, PInv', NEW p \in Ports, SendDirect(p)
  PROVE  SInv'
<1>1. /\ UNCHANGED <<netSocket, boundTo, udpPorts, shared>> /\ sends' = sends + 1
      /\ \/ lastOut' = lastOut
         \/ netSocket[p] # NoSocket /\ lastOut' = [lastOut EXCEPT ![p] = sends + 1]
  BY DEF SendDirect, portVars
<1>2. TypeOK /\ sends \in Nat /\ \A r \in Ports : lastOut[r] \in Nat
  BY SendFacts DEF SInv, PInv
<1>3. \A n \in Numbers : Send(n)' = Send(n)
  BY <1>1 DEF Send
<1>4. CASE lastOut' = lastOut
  <2>1. \A n \in Numbers : Same(Send(n)', Send(n))
    BY <1>3 DEF Same
  <2>. QED BY <1>1, <1>4, <2>1, NothingLeaves
<1>5. CASE lastOut' = [lastOut EXCEPT ![p] = sends + 1]
  <2>1. /\ lastOut'[p] = sends + 1 /\ \A r \in Ports \ {p} : lastOut'[r] = lastOut[r]
    BY <1>5 DEF SInv, PInv, TypeOK, HistoryTypes
  <2>2. NumbersOwned'
    BY <1>1 DEF SInv, NumbersOwned
  <2>3. \A r \in Ports : lastOut'[r] <= sends'
    BY <1>1, <1>2, <2>1 DEF SInv, Sent
  <2>4. ASSUME NEW n \in Numbers, NEW i \in DOMAIN Send(n) PROVE Send(n)[i].id <= sends'
    <3>1. Send(n)[i].id \in Nat /\ Send(n)[i].id <= sends
      BY <1>2, SendFacts DEF SInv, Sent
    <3>. QED BY <1>1, <1>2, <3>1
  <2>5. Sent'
    BY <1>3, <2>3, <2>4 DEF SInv, Sent, Ascending
  <2>6. DOMAIN <<>> = {}
    OBVIOUS
  <2>7. \A n \in Numbers : boundTo[p] = n => Send(n) = <<>>
    BY DEF SendDirect, Delays, Send
  <2>8. ASSUME ~shared, NEW r \in Ports, NEW n \in Numbers, boundTo[r] = n,
               NEW i \in DOMAIN Send(n)
        PROVE  Send(n)[i].from = r /\ lastOut'[r] < Send(n)[i].id
    <3>1. r # p
      BY <2>6, <2>7, <2>8
    <3>. QED BY <2>1, <2>8, <3>1 DEF SInv, OwnOutgoing, Outgoing
  <2>9. OwnOutgoing'
    BY <1>1, <1>3, <2>8 DEF OwnOutgoing, Outgoing
  <2>. QED BY <2>2, <2>5, <2>9 DEF SInv
<1>. QED BY <1>1, <1>4, <1>5

\* A packet is put behind those of its port.
LEMMA SendDelayedSends ==
  ASSUME SInv, PInv', NEW p \in Ports, SendDelayed(p)
  PROVE  SInv'
<1>1. PICK n, e : n = boundTo[p] /\ e = [id |-> sends + 1, from |-> p, age |-> 0]
  OBVIOUS
<1>2. /\ UNCHANGED <<netSocket, boundTo, shared, lastOut>> /\ sends' = sends + 1
      /\ udpPorts[n] # None
      /\ udpPorts' = [udpPorts EXCEPT ![n] = [udpPorts[n] EXCEPT !.send = Append(@, e)]]
  BY <1>1 DEF SendDelayed
<1>3. TypeOK /\ TypeOK' /\ sends \in Nat /\ \A r \in Ports : lastOut[r] \in Nat
  BY SendFacts DEF SInv, PInv
<1>4. n \in Numbers /\ udpPorts[n] \in Lags /\ Send(n) = udpPorts[n].send
  BY <1>1, <1>2, <1>3, TypeFacts DEF TypeOK, PortTypes, Send
<1>5. e \in Sendings /\ e.id = sends + 1 /\ e.from = p
  <2>1. sends' \in 0 .. MaxSends
    BY <1>3 DEF TypeOK, HistoryTypes
  <2>2. sends + 1 \in 1 .. MaxSends
    BY <1>2, <1>3, <2>1, PortAssumption
  <2>. QED BY <1>1, <2>2, DelayedFacts
<1>6. Send(n)' = Append(Send(n), e)
  <2>1. udpPorts'[n] = [udpPorts[n] EXCEPT !.send = Append(udpPorts[n].send, e)]
    BY <1>2, <1>4 DEF TypeOK, PortTypes, SInv, PInv
  <2>2. udpPorts[n].send \in Seq(Sendings)
    BY <1>4, LagFacts
  <2>3. Append(udpPorts[n].send, e) \in Seq(Sendings)
    BY <1>5, <2>2, AppendFacts
  <2>4. udpPorts'[n] \in Lags /\ udpPorts'[n].send = Append(udpPorts[n].send, e)
    <3>1. PICK lag, more : lag = udpPorts[n] /\ more = Append(lag.send, e)
      OBVIOUS
    <3>2. lag \in Lags /\ more \in Seq(Sendings)
      BY <1>4, <2>3, <3>1
    <3>3. [lag EXCEPT !.send = more] \in Lags /\ [lag EXCEPT !.send = more].send = more
      BY <3>2, LagFacts, LagSends
    <3>. QED BY <2>1, <3>1, <3>3
  <2>5. udpPorts'[n] # None
    BY <2>4, NoneAssumption
  <2>6. Send(n)' = udpPorts'[n].send
    BY <2>5 DEF Send
  <2>. QED BY <1>4, <2>4, <2>6
<1>7. \A m \in Numbers \ {n} : Send(m)' = Send(m)
  BY <1>2 DEF SInv, PInv, TypeOK, PortTypes, Send
<1>8. /\ Send(n) \in Seq(Sendings)
      /\ \A i \in DOMAIN Send(n) : Send(n)[i].id \in Nat /\ Send(n)[i].id <= sends
  BY <1>3, <1>4, SendFacts DEF SInv, Sent
<1> DEFINE q == Send(n)
           r == Append(q, e)
<1>9. /\ DOMAIN r = DOMAIN q \cup {Len(q) + 1} /\ r[Len(q) + 1] = e
      /\ \A i \in DOMAIN q : r[i] = q[i] /\ i \in Nat /\ i < Len(q) + 1
      /\ Len(q) + 1 \in Nat
  BY <1>5, <1>8, AppendFacts
<1>10. NumbersOwned'
  BY <1>2 DEF SInv, NumbersOwned
<1>11. Ascending(r)
  <2>1. ASSUME NEW i \in DOMAIN r, NEW j \in DOMAIN r, i < j PROVE r[i].id < r[j].id
    <3>1. i \in DOMAIN q
      BY <1>9, <2>1
    <3>2. CASE j \in DOMAIN q
      BY <1>9, <2>1, <3>1, <3>2, <1>4 DEF SInv, Sent, Ascending
    <3>3. CASE j = Len(q) + 1
      BY <1>3, <1>5, <1>8, <1>9, <3>1, <3>3
    <3>. QED BY <1>9, <3>2, <3>3
  <2>. QED BY <2>1 DEF Ascending
<1>12. \A i \in DOMAIN r : r[i].id <= sends'
  BY <1>2, <1>3, <1>5, <1>8, <1>9
<1>13. Sent'
  <2>1. ASSUME NEW m \in Numbers \ {n}, NEW i \in DOMAIN Send(m) PROVE Send(m)[i].id <= sends'
    <3>1. Send(m)[i].id \in Nat /\ Send(m)[i].id <= sends
      BY <1>3, SendFacts DEF SInv, Sent
    <3>. QED BY <1>2, <1>3, <3>1
  <2>2. \A s \in Ports : lastOut'[s] <= sends'
    BY <1>2, <1>3 DEF SInv, Sent
  <2>3. \A m \in Numbers : Ascending(Send(m)')
    BY <1>6, <1>7, <1>11 DEF SInv, Sent
  <2>4. \A m \in Numbers : \A i \in DOMAIN Send(m)' : Send(m)'[i].id <= sends'
    BY <1>6, <1>7, <1>12, <2>1
  <2>. QED BY <2>2, <2>3, <2>4 DEF Sent, Ascending
<1>14. OwnOutgoing'
  <2>1. ASSUME ~shared, NEW s \in Ports, NEW m \in Numbers, boundTo[s] = m
        PROVE  Outgoing(s, Send(m)')
    <3>1. Outgoing(s, Send(m))
      BY <2>1 DEF SInv, OwnOutgoing
    <3>2. CASE m # n
      BY <1>7, <3>1, <3>2
    <3>3. CASE m = n
      <4>1. n # 0
        BY <1>4, PortAssumption
      <4>2. s = p
        BY <1>1, <2>1, <3>3, <4>1 DEF SInv, NumbersOwned
      <4>3. lastOut[p] < e.id
        BY <1>3, <1>5 DEF SInv, Sent
      <4>4. \A i \in DOMAIN r : r[i].from = p /\ lastOut[p] < r[i].id
        BY <1>5, <1>9, <3>1, <3>3, <4>2, <4>3 DEF Outgoing
      <4>. QED BY <1>6, <3>3, <4>2, <4>4 DEF Outgoing
    <3>. QED BY <3>2, <3>3
  <2>. QED BY <1>2, <2>1 DEF OwnOutgoing, Outgoing
<1>. QED BY <1>10, <1>13, <1>14 DEF SInv

\* The oldest of the delayed packets leaves, or is refused.
LEMMA SendDueSends ==
  ASSUME SInv, PInv', SendDue
  PROVE  SInv'
<1>1. PICK n, msg : n = boundTo[call.port] /\ msg = Head(Send(n))
  OBVIOUS
<1>2. /\ UNCHANGED <<netSocket, boundTo, shared, sends>>
      /\ Send(n) # <<>> /\ udpPorts[n] # None /\ Send(n) = udpPorts[n].send
      /\ udpPorts' = [udpPorts EXCEPT ![n] = [udpPorts[n] EXCEPT !.send = Tail(@)]]
      /\ lastOut' = lastOut \/ lastOut' = [lastOut EXCEPT ![msg.from] = msg.id]
  BY <1>1 DEF SendDue, Queue, Ripe, Send
<1>3. TypeOK /\ TypeOK' /\ sends \in Nat /\ \A r \in Ports : lastOut[r] \in Nat
  BY SendFacts DEF SInv, PInv
<1>4. n \in Numbers /\ udpPorts[n] \in Lags /\ call.port \in Ports
  <2>1. call.port \in Ports /\ n \in Numbers \cup {0}
    BY <1>1, <1>3, SMT DEF SendDue, TypeOK, CallTypes, PortTypes
  <2>. QED BY <1>2, <1>3, <2>1, TypeFacts DEF TypeOK, PortTypes
<1>5. /\ Send(n) \in Seq(Sendings)
      /\ \A i \in DOMAIN Send(n) : Send(n)[i].id \in Nat /\ Send(n)[i].from \in Ports
      /\ Ascending(Send(n)) /\ \A i \in DOMAIN Send(n) : Send(n)[i].id <= sends
  BY <1>3, <1>4, SendFacts DEF SInv, Sent
<1> DEFINE q == Send(n)
           r == Tail(q)
<1>6. /\ r \in Seq(Sendings) /\ msg = q[1] /\ 1 \in DOMAIN q
      /\ \A i \in DOMAIN r : i + 1 \in DOMAIN q /\ r[i] = q[i + 1] /\ i \in Nat /\ 1 < i + 1
  <2>1. q \in Seq(Sendings) /\ q # <<>> /\ msg = Head(q)
    BY <1>1, <1>2, <1>5
  <2> HIDE DEF q
  <2>. QED BY <2>1, TailFacts
<1>7. Send(n)' = r
  <2>1. udpPorts'[n] = [udpPorts[n] EXCEPT !.send = Tail(udpPorts[n].send)]
    BY <1>2, <1>4 DEF TypeOK, PortTypes, SInv, PInv
  <2>2. udpPorts'[n] \in Lags /\ udpPorts'[n].send = Tail(udpPorts[n].send)
    <3>1. PICK lag, rest : lag = udpPorts[n] /\ rest = Tail(lag.send)
      OBVIOUS
    <3>2. lag \in Lags /\ rest \in Seq(Sendings)
      BY <1>2, <1>4, <1>6, <3>1
    <3>3. [lag EXCEPT !.send = rest] \in Lags /\ [lag EXCEPT !.send = rest].send = rest
      BY <3>2, LagFacts, LagSends
    <3>. QED BY <2>1, <3>1, <3>3
  <2>3. udpPorts'[n] # None
    BY <2>2, NoneAssumption
  <2>4. Send(n)' = udpPorts'[n].send
    BY <2>3 DEF Send
  <2>. QED BY <1>2, <2>2, <2>4
<1>8. \A m \in Numbers \ {n} : Send(m)' = Send(m)
  BY <1>2 DEF SInv, PInv, TypeOK, PortTypes, Send
<1>9. NumbersOwned'
  BY <1>2 DEF SInv, NumbersOwned
<1>10. Ascending(r) /\ \A i \in DOMAIN r : r[i].id <= sends /\ msg.id < r[i].id
  <2>1. ASSUME NEW i \in DOMAIN r, NEW j \in DOMAIN r, i < j PROVE r[i].id < r[j].id
    <3>1. i + 1 < j + 1
      BY <1>6, <2>1
    <3>. QED BY <1>5, <1>6, <3>1 DEF Ascending
  <2>2. \A i \in DOMAIN r : r[i].id <= sends /\ msg.id < r[i].id
    BY <1>5, <1>6 DEF Ascending
  <2>. QED BY <2>1, <2>2 DEF Ascending
<1>11. /\ msg.from \in Ports /\ msg.id \in Nat /\ msg.id <= sends
       /\ \A s \in Ports : lastOut'[s] = lastOut[s] \/ (s = msg.from /\ lastOut'[s] = msg.id)
  <2>1. msg.from \in Ports /\ msg.id \in Nat /\ msg.id <= sends
    BY <1>5, <1>6
  <2>. QED BY <1>2, <2>1 DEF SInv, PInv, TypeOK, HistoryTypes
<1>12. Sent'
  <2>1. \A s \in Ports : lastOut'[s] <= sends
    BY <1>11 DEF SInv, Sent
  <2>2. \A m \in Numbers : Ascending(Send(m)') /\ \A i \in DOMAIN Send(m)' : Send(m)'[i].id <= sends
    BY <1>7, <1>8, <1>10 DEF SInv, Sent
  <2>. QED BY <1>2, <2>1, <2>2 DEF Sent, Ascending
<1>13. OwnOutgoing'
  <2>1. ASSUME ~shared, NEW s \in Ports, NEW m \in Numbers, boundTo[s] = m
        PROVE  Outgoing(s, Send(m)) /\ (s = msg.from => m = n)
    <3>1. Outgoing(s, Send(m)) /\ Outgoing(call.port, Send(n))
      BY <1>1, <1>4, <2>1 DEF SInv, OwnOutgoing
    <3>2. msg.from = call.port
      BY <1>6, <3>1 DEF Outgoing
    <3>. QED BY <1>1, <2>1, <3>1, <3>2
  <2>2. ASSUME ~shared, NEW s \in Ports, NEW m \in Numbers, boundTo[s] = m,
               NEW i \in DOMAIN Send(m)'
        PROVE  Send(m)'[i].from = s /\ lastOut'[s] < Send(m)'[i].id
    <3>1. Outgoing(s, Send(m)) /\ (s = msg.from => m = n)
      BY <2>1, <2>2
    <3>2. CASE m = n
      <4>1. r[i].from = s /\ lastOut[s] < r[i].id /\ msg.id < r[i].id
        BY <1>6, <1>7, <1>10, <2>2, <3>1, <3>2 DEF Outgoing
      <4>. QED BY <1>7, <1>11, <3>2, <4>1
    <3>3. CASE m # n
      BY <1>8, <1>11, <2>2, <3>1, <3>3 DEF Outgoing
    <3>. QED BY <3>2, <3>3
  <2>. QED BY <1>2, <2>2 DEF OwnOutgoing, Outgoing
<1>. QED BY <1>9, <1>12, <1>13 DEF SInv

LEMMA SendingStep == SInv /\ [Next]_vars => SInv'
<1>. SUFFICES ASSUME SInv, [Next]_vars PROVE SInv'
  OBVIOUS
<1>1. PInv /\ PInv' /\ TypeOK
  BY StepKeeps DEF SInv, PInv
<1>2. ASSUME UNCHANGED <<netSocket, boundTo, udpPorts, lastOut, shared>>,
             sends' = sends \/ sends' = sends + 1
      PROVE  SInv'
  <2>1. \A n \in Numbers : Same(Send(n)', Send(n))
    BY <1>2 DEF Send, Same
  <2>. QED BY <1>1, <1>2, <2>1, NothingLeaves
<1>3. ASSUME UNCHANGED <<netSocket, boundTo, lastOut, sends, shared>>,
             NEW n \in Numbers \cup {0}, NEW q, udpPorts[n] # None, q \in Seq(Entries),
             udpPorts' = [udpPorts EXCEPT ![n] = [udpPorts[n] EXCEPT !.recieve = q]]
      PROVE  SInv'
  <2>1. udpPorts[n] \in Lags
    BY <1>1, <1>3, TypeFacts
  <2>2. udpPorts'[n] = [udpPorts[n] EXCEPT !.recieve = q]
    BY <1>1, <1>3 DEF TypeOK, PortTypes
  <2>3. udpPorts'[n] # None /\ udpPorts'[n].send = udpPorts[n].send
    BY <1>3, <2>1, <2>2, LagFacts, LagSends, NoneAssumption
  <2>4. Send(n)' = Send(n)
    BY <1>3, <2>3 DEF Send
  <2>5. \A m \in Numbers \ {n} : Send(m)' = Send(m)
    BY <1>1, <1>3 DEF TypeOK, PortTypes, Send
  <2>6. \A m \in Numbers : Same(Send(m)', Send(m))
    BY <2>4, <2>5 DEF Same
  <2>. QED BY <1>1, <1>3, <2>6, NothingLeaves
<1>4. CASE Tick
  BY <1>1, <1>4, TickSends
<1>5. CASE SetLatency \/ UNCHANGED vars
  BY <1>2, <1>5 DEF SetLatency, vars, portVars, outHistory
<1>6. CASE \/ WaitEnds \/ ReadNothing \/ ReadOversize \/ ReadDropped \/ ReadDirect \/ ReadCrashes
           \/ HandDirect \/ HandNotYet \/ HandCrashes
  BY <1>2, <1>6 DEF WaitEnds, ReadNothing, ReadOversize, ReadDropped, ReadDirect, ReadCrashes,
                    HandDirect, HandNotYet, HandCrashes, portVars, outHistory
<1>7. CASE ReadDelayed
  <2>1. PICK s, n, e : /\ s = netSocket[call.port] /\ n = boundTo[call.port]
                       /\ e = [id |-> HeadOf(s), from |-> s, age |-> 0]
    OBVIOUS
  <2>2. /\ UNCHANGED <<netSocket, boundTo, lastOut, sends, shared>> /\ udpPorts[n] # None
        /\ udpPorts' = [udpPorts EXCEPT ![n] = [udpPorts[n] EXCEPT !.recieve = Append(@, e)]]
        /\ Reading
    BY <1>7, <2>1 DEF ReadDelayed, outHistory
  <2>3. n \in Numbers \cup {0} /\ e \in Entries
    <3>1. s \in Sockets /\ HeadOf(s) \in Ids /\ call.port \in Ports
      BY <1>1, <2>1, <2>2, ReadingFacts DEF PInv
    <3>2. n \in Numbers \cup {0}
      BY <1>1, <2>1, <3>1 DEF TypeOK, PortTypes
    <3>. QED BY <2>1, <3>1, <3>2, DelayedFacts
  <2>4. Append(udpPorts[n].recieve, e) \in Seq(Entries)
    BY <1>1, <2>2, <2>3, TypeFacts, LagFacts, AppendFacts
  <2>. QED BY <1>3, <2>2, <2>3, <2>4
<1>8. CASE HandDelayed
  <2>1. PICK n : n = boundTo[call.port]
    OBVIOUS
  <2>2. /\ UNCHANGED <<netSocket, boundTo, lastOut, sends, shared>>
        /\ udpPorts[n] # None /\ udpPorts[n].recieve # <<>>
        /\ udpPorts' = [udpPorts EXCEPT ![n] = [udpPorts[n] EXCEPT !.recieve = Tail(@)]]
    BY <1>8, <2>1 DEF HandDelayed, Queue, Ripe, outHistory
  <2>3. n \in Numbers \cup {0}
    BY <1>1, <1>8, <2>1 DEF HandDelayed, TypeOK, PortTypes, CallTypes
  <2>4. Tail(udpPorts[n].recieve) \in Seq(Entries)
    BY <1>1, <2>2, <2>3, TypeFacts, LagFacts, TailFacts
  <2>. QED BY <1>3, <2>2, <2>3, <2>4
<1>9. CASE SendPacket
  <2>1. CASE SendDue
    BY <1>1, <2>1, SendDueSends
  <2>2. CASE SendEnds
    BY <1>2, <2>2 DEF SendEnds, portVars, outHistory
  <2>. QED BY <1>9, <2>1, <2>2 DEF SendPacket
<1>10. ASSUME NEW p \in Ports, Calls(p) PROVE SInv'
  <2>1. CASE InitFails(p)
    BY <1>1, <2>1, InitFailsSends
  <2>2. CASE InitForPort(p)
    BY <1>1, <2>2, InitForPortSends
  <2>3. CASE Close(p)
    BY <1>1, <2>3, CloseSends
  <2>4. CASE GetBegin(p) \/ SendDropped(p) \/ SendCrashes(p)
    BY <1>2, <2>4 DEF GetBegin, SendDropped, SendCrashes, portVars, outHistory
  <2>5. CASE SendDirect(p)
    BY <1>1, <2>5, SendDirectSends
  <2>6. CASE SendDelayed(p)
    BY <1>1, <2>6, SendDelayedSends
  <2>. QED BY <1>10, <2>1, <2>2, <2>3, <2>4, <2>5, <2>6 DEF Calls
<1>11. ASSUME NEW s \in Sockets, Arrive(s) PROVE SInv'
  BY <1>2, <1>11 DEF Arrive, outHistory
<1>. QED BY <1>4, <1>5, <1>6, <1>7, <1>8, <1>9, <1>10, <1>11 DEF Next, GetPacket

\* Delayed packets leave in the order of the SendPacket calls, and, as long as no two
\* sockets had one number, nothing that a port sends overtakes them: neither when the
\* latency is switched off, nor when a delayed one is refused (win_net.cpp,
\* idPort::SendPacket).
THEOREM SentInOrderAlways == Spec => []SentInOrder
<1>. QED BY SendingInit, SendingStep, SInvImplies, PTL DEF Spec
-----------------------------------------------------------------------------
(* Nothing vanishes and nothing is doubled. *)

\* The packets that a socket has, that are delayed under a number, and that GetPacket has.
Box == [s \in Sockets |-> IF sockets[s] = None THEN {} ELSE Range(sockets[s].inbox)]
Late == [n \in Numbers |-> IdsOf(Recieve(n))]
Hands == {call.cur} \ {0}

\* What waits is in one of these, and in one only.
Somewhere(i, B, L, h) == (\E s \in Sockets : i \in B[s]) \/ (\E n \in Numbers : i \in L[n]) \/ i \in h
Apart(B, L, h) ==
  /\ \A s \in Sockets : \A t \in Sockets \ {s} : \A i \in B[s] : i \notin B[t]
  /\ \A n \in Numbers : \A m \in Numbers \ {n} : \A i \in L[n] : i \notin L[m]
  /\ \A s \in Sockets : \A i \in B[s] : i \notin h /\ \A n \in Numbers : i \notin L[n]
  /\ \A n \in Numbers : \A i \in L[n] : i \notin h
Whole(B, L, h, f) ==
  /\ \A i \in Ids : f[i] = "waiting" <=> Somewhere(i, B, L, h)
  /\ Apart(B, L, h)

\* A packet is added to those of one socket or number, or taken from them.
Added(B, C, S, s, x) == C[s] = B[s] \cup {x} /\ \A t \in S \ {s} : C[t] = B[t]
Taken(B, C, S, s, x) == x \in B[s] /\ C[s] = B[s] \ {x} /\ \A t \in S \ {s} : C[t] = B[t]
\* The packets of D leave their places.
Leave(B, L, h, C, M, k, D) ==
  /\ \A s \in Sockets : \A i : i \in C[s] => i \in B[s]
  /\ \A n \in Numbers : \A i : i \in M[n] => i \in L[n]
  /\ \A i : i \in k => i \in h
  /\ \A s \in Sockets : \A i \in B[s] : i \in C[s] \/ i \in D
  /\ \A n \in Numbers : \A i \in L[n] : i \in M[n] \/ i \in D
  /\ \A i \in h : i \in k \/ i \in D
  /\ \A i \in D : \/ \E s \in Sockets : i \in B[s] /\ i \notin C[s]
                  \/ \E n \in Numbers : i \in L[n] /\ i \notin M[n]
                  \/ i \in h /\ i \notin k

LEMMA ArriveWhole ==
  ASSUME NEW B, NEW L, NEW h, NEW f, Whole(B, L, h, f), NEW s \in Sockets, NEW x \in Ids,
         f[x] # "waiting", NEW C, Added(B, C, Sockets, s, x),
         NEW g, g = [f EXCEPT ![x] = "waiting"], DOMAIN f = Ids
  PROVE  Whole(C, L, h, g)
<1>. USE DEF Added
<1>1. ~Somewhere(x, B, L, h)
  BY DEF Whole
<1>2. ASSUME NEW i \in Ids PROVE g[i] = "waiting" <=> Somewhere(i, C, L, h)
  <2>1. CASE i = x
    BY <2>1 DEF Somewhere
  <2>2. CASE i # x
    <3>1. Somewhere(i, C, L, h) <=> Somewhere(i, B, L, h)
      BY <2>2 DEF Somewhere
    <3>. QED BY <2>2, <3>1 DEF Whole
  <2>. QED BY <2>1, <2>2
<1>3. Apart(C, L, h)
  BY <1>1 DEF Whole, Apart, Somewhere
<1>. QED BY <1>2, <1>3 DEF Whole

\* A packet goes from a socket to GetPacket's hands, or to the delayed ones.
LEMMA TakenWhole ==
  ASSUME NEW B, NEW L, NEW f, Whole(B, L, {}, f), NEW s \in Sockets, NEW x,
         NEW C, Taken(B, C, Sockets, s, x)
  PROVE  Whole(C, L, {x}, f)
<1>. USE DEF Taken
<1>1. ASSUME NEW i PROVE Somewhere(i, C, L, {x}) <=> Somewhere(i, B, L, {})
  BY DEF Somewhere
<1>2. Apart(C, L, {x})
  BY DEF Whole, Apart
<1>. QED BY <1>1, <1>2 DEF Whole

LEMMA DelayedWhole ==
  ASSUME NEW B, NEW L, NEW f, Whole(B, L, {}, f), NEW s \in Sockets, NEW x,
         NEW C, Taken(B, C, Sockets, s, x), NEW M, NEW n \in Numbers, Added(L, M, Numbers, n, x)
  PROVE  Whole(C, M, {}, f)
<1>. USE DEF Taken, Added
<1>1. ASSUME NEW i PROVE Somewhere(i, C, M, {}) <=> Somewhere(i, B, L, {})
  <2>1. CASE i = x
    BY <2>1 DEF Somewhere
  <2>2. CASE i # x
    <3>1. \A t \in Sockets : i \in C[t] <=> i \in B[t]
      BY <2>2
    <3>2. \A m \in Numbers : i \in M[m] <=> i \in L[m]
      BY <2>2
    <3>. QED BY <3>1, <3>2 DEF Somewhere
  <2>. QED BY <2>1, <2>2
<1>2. Apart(C, M, {})
  <2>1. /\ \A t \in Sockets : \A i \in C[t] : i \in B[t] /\ i # x
        /\ \A m \in Numbers : \A i \in M[m] : i \in L[m] \/ (m = n /\ i = x)
        /\ \A m \in Numbers : x \notin L[m]
    BY DEF Whole, Apart
  <2>2. \A m \in Numbers : \A k \in Numbers \ {m} : \A i \in M[m] : i \notin M[k]
    BY <2>1 DEF Whole, Apart
  <2>3. \A t \in Sockets : \A u \in Sockets \ {t} : \A i \in C[t] : i \notin C[u]
    BY <2>1 DEF Whole, Apart
  <2>4. \A t \in Sockets : \A i \in C[t] : \A m \in Numbers : i \notin M[m]
    BY <2>1 DEF Whole, Apart
  <2>. QED BY <2>2, <2>3, <2>4 DEF Apart
<1>. QED BY <1>1, <1>2 DEF Whole

\* Packets are handed out or lost: those of D leave the place where they are.
LEMMA LostWhole ==
  ASSUME NEW B, NEW L, NEW h, NEW f, Whole(B, L, h, f), NEW C, NEW M, NEW k, NEW g, NEW D,
         Leave(B, L, h, C, M, k, D),
         \A i \in Ids : IF i \in D THEN g[i] # "waiting" ELSE g[i] = f[i]
  PROVE  Whole(C, M, k, g)
<1>. USE DEF Leave
<1>1. ASSUME NEW i \in D PROVE ~Somewhere(i, C, M, k)
  <2>1. CASE \E s \in Sockets : i \in B[s] /\ i \notin C[s]
    BY <2>1 DEF Whole, Apart, Somewhere
  <2>2. CASE \E n \in Numbers : i \in L[n] /\ i \notin M[n]
    BY <2>2 DEF Whole, Apart, Somewhere
  <2>3. CASE i \in h /\ i \notin k
    BY <2>3 DEF Whole, Apart, Somewhere
  <2>. QED BY <2>1, <2>2, <2>3
<1>2. ASSUME NEW i, i \notin D PROVE Somewhere(i, C, M, k) <=> Somewhere(i, B, L, h)
  BY <1>2 DEF Somewhere
<1>3. Apart(C, M, k)
  BY DEF Whole, Apart
<1>. QED BY <1>1, <1>2, <1>3 DEF Whole

-----------------------------------------------------------------------------
(* Sequences as sets. *)

LEMMA TailBack ==
  ASSUME NEW S, NEW q \in Seq(S), q # <<>>, NEW j \in DOMAIN q, j # 1
  PROVE  j - 1 \in DOMAIN Tail(q) /\ Tail(q)[j - 1] = q[j]
<1>1. PICK n \in Nat : n = Len(q)
  BY LenProperties
<1>2. /\ Tail(q) \in Seq(S) /\ Len(Tail(q)) = Len(q) - 1
      /\ \A i \in 1 .. Len(Tail(q)) : Tail(q)[i] = q[i + 1]
  BY HeadTailProperties
<1>3. DOMAIN q = 1 .. n /\ DOMAIN Tail(q) = 1 .. n - 1
  BY <1>1, <1>2, LenProperties
<1>. QED BY <1>1, <1>2, <1>3

LEMMA TailSet ==
  ASSUME NEW q \in Seq(Ids), q # <<>>, \A i, j \in DOMAIN q : i < j => q[i] < q[j]
  PROVE  /\ Head(q) \in Range(q)
         /\ \A x : x \in Range(Tail(q)) <=> x \in Range(q) /\ x # Head(q)
<1>1. /\ Head(q) = q[1] /\ 1 \in DOMAIN q
      /\ \A i \in DOMAIN Tail(q) : /\ i + 1 \in DOMAIN q /\ Tail(q)[i] = q[i + 1]
                                   /\ i \in Nat /\ 1 < i + 1
  BY TailFacts
<1>2. ASSUME NEW i \in DOMAIN q, 1 < i PROVE q[i] # q[1]
  <2>1. \A j \in DOMAIN q : q[j] \in Ids
    OBVIOUS
  <2>. QED BY <1>1, <1>2, <2>1 DEF Ids
<1>3. ASSUME NEW x, x \in Range(Tail(q)) PROVE x \in Range(q) /\ x # Head(q)
  BY <1>1, <1>2, <1>3 DEF Range
<1>4. ASSUME NEW x, x \in Range(q), x # Head(q) PROVE x \in Range(Tail(q))
  <2>1. PICK j \in DOMAIN q : x = q[j]
    BY <1>4 DEF Range
  <2>2. j - 1 \in DOMAIN Tail(q) /\ Tail(q)[j - 1] = x
    BY <1>1, <1>4, <2>1, TailBack
  <2>. QED BY <2>2 DEF Range
<1>. QED BY <1>1, <1>3, <1>4 DEF Range

LEMMA AppendSet ==
  ASSUME NEW q \in Seq(Ids), NEW x \in Ids
  PROVE  \A i : i \in Range(Append(q, x)) <=> i \in Range(q) \/ i = x
BY AppendFacts DEF Range

\* Of the delayed packets of a number none is there twice.
Once(q) == \A i, j \in DOMAIN q : q[i].id = q[j].id => i = j

LEMMA TailLate ==
  ASSUME NEW q \in Seq(Entries), q # <<>>, Once(q)
  PROVE  /\ Head(q).id \in IdsOf(q) /\ Once(Tail(q))
         /\ \A x : x \in IdsOf(Tail(q)) <=> x \in IdsOf(q) /\ x # Head(q).id
<1>1. /\ Head(q) = q[1] /\ 1 \in DOMAIN q
      /\ \A i \in DOMAIN Tail(q) : /\ i + 1 \in DOMAIN q /\ Tail(q)[i] = q[i + 1]
                                   /\ i \in Nat /\ 1 < i + 1
  BY TailFacts
<1>2. Once(Tail(q))
  <2>1. ASSUME NEW i \in DOMAIN Tail(q), NEW j \in DOMAIN Tail(q), Tail(q)[i].id = Tail(q)[j].id
        PROVE  i = j
    <3>1. i + 1 = j + 1
      BY <1>1, <2>1 DEF Once
    <3>. QED BY <1>1, <3>1
  <2>. QED BY <2>1 DEF Once
<1>3. ASSUME NEW x, x \in IdsOf(Tail(q)) PROVE x \in IdsOf(q) /\ x # Head(q).id
  BY <1>1, <1>3 DEF IdsOf, Once
<1>4. ASSUME NEW x, x \in IdsOf(q), x # Head(q).id PROVE x \in IdsOf(Tail(q))
  <2>1. PICK j \in DOMAIN q : x = q[j].id
    BY <1>4 DEF IdsOf
  <2>2. j - 1 \in DOMAIN Tail(q) /\ Tail(q)[j - 1] = q[j]
    BY <1>1, <1>4, <2>1, TailBack
  <2>. QED BY <2>1, <2>2 DEF IdsOf
<1>. QED BY <1>1, <1>2, <1>3, <1>4 DEF IdsOf

LEMMA AppendLate ==
  ASSUME NEW q \in Seq(Entries), NEW e \in Entries, Once(q), e.id \notin IdsOf(q)
  PROVE  /\ Once(Append(q, e))
         /\ \A x : x \in IdsOf(Append(q, e)) <=> x \in IdsOf(q) \/ x = e.id
<1>1. /\ DOMAIN Append(q, e) = DOMAIN q \cup {Len(q) + 1}
      /\ \A i \in DOMAIN q : Append(q, e)[i] = q[i]
      /\ Append(q, e)[Len(q) + 1] = e
  BY AppendFacts
<1>2. Once(Append(q, e))
  BY <1>1 DEF Once, IdsOf
<1>. QED BY <1>1, <1>2 DEF IdsOf

-----------------------------------------------------------------------------
(* The inductive invariant. *)

DelayedOnce == \A n \in Numbers : Once(Recieve(n))

\* What was delayed when the latency was switched off is no longer with its socket, nor in
\* GetPacket's hands; and without a latency nothing else is delayed.
SwitchedOff ==
  /\ waitedAtOff \subseteq 1 .. arrived
  /\ \A s \in Sockets : \A i \in Box[s] : i \notin waitedAtOff
  /\ call.cur \notin waitedAtOff
  /\ latency = 0 => \A n \in Numbers : \A i \in Late[n] : i \in waitedAtOff

\* Every packet that was overwritten has one of those that overwrote it, which is no longer
\* delayed.
Overwritten == {i \in 1..MaxPackets : fate[i] = "overwritten"}
Paid == Cardinality(Overwritten) <= Cardinality(waitedAtOff \ Waiting)

VInv == PInv /\ Whole(Box, Late, Hands, fate) /\ DelayedOnce /\ SwitchedOff /\ Paid

BoxTyped ==
  /\ \A s \in Sockets : sockets[s] = None => Box[s] = {}
  /\ \A s \in Sockets : sockets[s] # None => Box[s] = Range(sockets[s].inbox)
  /\ \A s \in Sockets : \A i \in Box[s] : i \in Ids /\ i \in 1 .. arrived
  /\ \A n \in Numbers : \A i \in Late[n] : i \in Ids /\ i \in 1 .. arrived
  /\ \A n \in Numbers : Late[n] = IdsOf(Recieve(n))
  /\ \A i \in Hands : i \in Ids /\ i \in 1 .. arrived
  /\ Waiting = {i \in Ids : \E n \in Numbers : i \in Late[n]}
  /\ arrived \in Nat /\ MaxPackets \in Nat /\ 1 .. arrived \subseteq Ids

LEMMA BoxFacts == PInv => BoxTyped
<1>. SUFFICES ASSUME PInv PROVE BoxTyped
  OBVIOUS
<1>1. TypeOK /\ Arrived
  BY DEF PInv
<1>2. arrived \in Nat /\ MaxPackets \in Nat /\ 1 .. arrived \subseteq Ids
  BY <1>1, PortAssumption DEF TypeOK, HistoryTypes, Ids
<1>3. ASSUME NEW s \in Sockets, NEW i \in Box[s] PROVE i \in Ids /\ i \in 1 .. arrived
  <2>1. sockets[s] # None /\ sockets[s].inbox \in Seq(Ids)
    BY <1>1, <1>3, TypeFacts DEF Box
  <2>2. PICK k \in DOMAIN sockets[s].inbox : i = sockets[s].inbox[k]
    BY <1>3, <2>1 DEF Box, Range
  <2>3. i \in Ids
    BY <2>1, <2>2
  <2>. QED BY <1>1, <1>2, <2>1, <2>2, <2>3 DEF Arrived, Ids
<1>4. ASSUME NEW n \in Numbers, NEW i \in Late[n] PROVE i \in Ids /\ i \in 1 .. arrived
  <2>1. Recieve(n) \in Seq(Entries)
    BY <1>1, TypeFacts
  <2>2. PICK k \in DOMAIN Recieve(n) : i = Recieve(n)[k].id
    BY <1>4 DEF Late, IdsOf
  <2>3. i \in Ids
    BY <2>1, <2>2, DelayedFacts
  <2>. QED BY <1>1, <1>2, <2>2, <2>3 DEF Arrived, Ids
<1>5. ASSUME NEW i \in Hands PROVE i \in Ids /\ i \in 1 .. arrived
  BY <1>1, <1>2, <1>5, CurFact DEF Hands, Arrived, Ids
<1>6. Waiting = {i \in Ids : \E n \in Numbers : i \in Late[n]}
  BY DEF Waiting, Ids, Late, Recieve, IdsOf
<1>. QED BY <1>2, <1>3, <1>4, <1>5, <1>6 DEF BoxTyped, Box, Late

\* Sets of packets are finite.
LEMMA IdsFinite ==
  /\ IsFiniteSet(Ids)
  /\ \A S \in SUBSET Ids : IsFiniteSet(S) /\ Cardinality(S) \in Nat
  /\ \A S, T \in SUBSET Ids : S \subseteq T => Cardinality(S) <= Cardinality(T)
<1>1. IsFiniteSet(Ids)
  BY PortAssumption, FS_Interval DEF Ids
<1>2. \A S \in SUBSET Ids : IsFiniteSet(S) /\ Cardinality(S) \in Nat
  BY <1>1, FS_Subset, FS_CardinalityType
<1>3. \A S, T \in SUBSET Ids : S \subseteq T => Cardinality(S) <= Cardinality(T)
  BY <1>2, FS_Subset
<1>. QED BY <1>1, <1>2, <1>3

Bounded ==
  /\ Overwritten \in SUBSET Ids
  /\ waitedAtOff \in SUBSET Ids /\ waitedAtOff \ Waiting \in SUBSET Ids
LEMMA SetsBounded == BoxTyped /\ SwitchedOff => Bounded
BY DEF Bounded, BoxTyped, SwitchedOff, Overwritten, Ids

LEMMA PaidKeeps ==
  ASSUME Bounded, Bounded', Paid, Overwritten' \subseteq Overwritten,
         waitedAtOff \ Waiting \subseteq (waitedAtOff \ Waiting)'
  PROVE  Paid'
<1>1. /\ Cardinality(Overwritten') <= Cardinality(Overwritten)
      /\ Cardinality(waitedAtOff \ Waiting) <= Cardinality((waitedAtOff \ Waiting)')
      /\ Cardinality(Overwritten) \in Nat /\ Cardinality(Overwritten') \in Nat
      /\ Cardinality(waitedAtOff \ Waiting) \in Nat /\ Cardinality((waitedAtOff \ Waiting)') \in Nat
  BY IdsFinite DEF Bounded
<1>2. Cardinality(Overwritten) <= Cardinality(waitedAtOff \ Waiting)
  BY DEF Paid
<1>3. Cardinality(Overwritten') <= Cardinality((waitedAtOff \ Waiting)')
  BY <1>1, <1>2
<1>. QED BY <1>3 DEF Paid

\* One packet is overwritten by one that was delayed.
LEMMA PaidFor ==
  ASSUME Bounded, Bounded', Paid, NEW x, Overwritten' \subseteq Overwritten \cup {x},
         waitedAtOff \ Waiting \subseteq (waitedAtOff \ Waiting)',
         NEW y, y \in (waitedAtOff \ Waiting)', y \notin waitedAtOff \ Waiting
  PROVE  Paid'
<1>. DEFINE O == Overwritten
            W == waitedAtOff \ Waiting
            V == (waitedAtOff \ Waiting)'
<1>1. /\ O \in SUBSET Ids /\ Overwritten' \in SUBSET Ids /\ W \in SUBSET Ids /\ V \in SUBSET Ids
  BY DEF Bounded
<1>2. /\ IsFiniteSet(O) /\ IsFiniteSet(W) /\ IsFiniteSet(V) /\ IsFiniteSet(Overwritten')
      /\ Cardinality(O) \in Nat /\ Cardinality(W) \in Nat /\ Cardinality(V) \in Nat
      /\ Cardinality(Overwritten') \in Nat
  BY <1>1, IdsFinite
<1>3. Cardinality(O) <= Cardinality(W)
  BY DEF Paid
<1>4. Cardinality(W) + 1 <= Cardinality(V)
  <2>1. Cardinality(W \cup {y}) = Cardinality(W) + 1
    BY <1>2, FS_AddElement
  <2>2. W \cup {y} \in SUBSET V
    OBVIOUS
  <2>3. Cardinality(W \cup {y}) <= Cardinality(V)
    BY <1>1, <2>2, IdsFinite
  <2>. QED BY <2>1, <2>3
<1>5. Cardinality(Overwritten') <= Cardinality(O) + 1
  <2>1. IsFiniteSet(O \cup {x}) /\ Cardinality(O \cup {x}) \in {Cardinality(O), Cardinality(O) + 1}
    BY <1>2, FS_AddElement
  <2>2. Cardinality(Overwritten') <= Cardinality(O \cup {x})
    BY <2>1, FS_Subset
  <2>. QED BY <1>2, <2>1, <2>2
<1>6. Cardinality(Overwritten') <= Cardinality(V)
  <2>. HIDE DEF O, W, V
  <2>. QED BY <1>2, <1>3, <1>4, <1>5
<1>. QED BY <1>6 DEF Paid

LEMMA BegunWhole == Init => VInv
<1>. SUFFICES ASSUME Init PROVE VInv
  OBVIOUS
<1>1. PInv
  BY InitHolds
<1>2. /\ \A s \in Sockets : Box[s] = {}
      /\ \A n \in Numbers : Recieve(n) = <<>>
      /\ Hands = {} /\ waitedAtOff = {} /\ call.cur = 0
  BY DEF Init, Box, Recieve, Hands, Idle
<1>3. \A n \in Numbers : Late[n] = {}
  BY <1>2 DEF Late, IdsOf
<1>4. Whole(Box, Late, Hands, fate)
  BY <1>2, <1>3 DEF Whole, Apart, Somewhere, Init, Ids
<1>5. DelayedOnce
  BY <1>2 DEF DelayedOnce, Once
<1>6. SwitchedOff
  BY <1>2, <1>3 DEF SwitchedOff
<1>7. Paid
  <2>1. Overwritten = {}
    BY DEF Init, Overwritten
  <2>2. waitedAtOff \ Waiting = {}
    BY <1>2
  <2>. QED BY <2>1, <2>2, FS_EmptySet DEF Paid
<1>. QED BY <1>1, <1>4, <1>5, <1>6, <1>7 DEF VInv

-----------------------------------------------------------------------------
(* The steps. *)

\* What is handed out or lost, those of D, leaves its place.
Left(D) == Leave(Box, Late, Hands, Box', Late', Hands', D)

LEMMA LeftKeeps ==
  ASSUME VInv, PInv', NEW D, Left(D), DelayedOnce', UNCHANGED <<arrived, waitedAtOff, latency>>,
         \A i \in Ids : IF i \in D THEN fate'[i] # "waiting" ELSE fate'[i] = fate[i]
  PROVE  /\ Whole(Box, Late, Hands, fate)' /\ SwitchedOff'
         /\ Bounded /\ Bounded' /\ waitedAtOff \ Waiting \subseteq (waitedAtOff \ Waiting)'
<1>1. BoxTyped /\ BoxTyped'
  BY BoxFacts, PTL DEF VInv
<1>2. Whole(Box, Late, Hands, fate)'
  <2>1. Whole(Box', Late', Hands', fate')
    BY LostWhole DEF VInv, Left
  <2>. QED BY <2>1
<1>3. SwitchedOff'
  <2>1. call'.cur = 0 \/ call'.cur = call.cur
    BY DEF Left, Leave, Hands
  <2>2. 0 \notin waitedAtOff
    BY <1>1 DEF VInv, SwitchedOff, BoxTyped
  <2>. QED BY <2>1, <2>2 DEF VInv, SwitchedOff, Left, Leave
<1>4. Bounded /\ Bounded'
  BY <1>1, <1>3, SetsBounded, PTL DEF VInv
<1>5. waitedAtOff \ Waiting \subseteq (waitedAtOff \ Waiting)'
  BY <1>1 DEF BoxTyped, Left, Leave
<1>. QED BY <1>2, <1>3, <1>4, <1>5

LEMMA LostStepKeeps ==
  ASSUME VInv, PInv', NEW D, Left(D), DelayedOnce', UNCHANGED <<arrived, waitedAtOff, latency>>,
         \A i \in Ids : IF i \in D THEN fate'[i] \notin {"waiting", "overwritten"}
                        ELSE fate'[i] = fate[i]
  PROVE  VInv'
<1>1. /\ Whole(Box, Late, Hands, fate)' /\ SwitchedOff'
      /\ Bounded /\ Bounded' /\ waitedAtOff \ Waiting \subseteq (waitedAtOff \ Waiting)'
  BY LeftKeeps
<1>2. Overwritten' \subseteq Overwritten
  BY DEF Overwritten, Ids
<1>3. Paid'
  BY <1>1, <1>2, PaidKeeps DEF VInv
<1>. QED BY <1>1, <1>3 DEF VInv

\* A step that moves no packet.
LEMMA QuietKeeps ==
  ASSUME VInv, PInv', \A s \in Sockets : \A i : i \in Box'[s] <=> i \in Box[s],
         \A n \in Numbers : Late'[n] = Late[n], DelayedOnce', Hands' = Hands,
         UNCHANGED <<arrived, waitedAtOff, latency, fate>>
  PROVE  VInv'
<1>1. Left({})
  BY DEF Left, Leave
<1>. QED BY <1>1, LostStepKeeps

LEMMA StillKeeps ==
  ASSUME VInv, PInv', UNCHANGED <<sockets, arrived, waitedAtOff, latency, fate>>,
         \A n \in Numbers : Recieve(n)' = Recieve(n), Hands' = Hands
  PROVE  VInv'
<1>1. Box' = Box
  BY DEF Box
<1>2. \A n \in Numbers : Late'[n] = Late[n]
  BY DEF Late
<1>3. DelayedOnce'
  BY DEF VInv, DelayedOnce
<1>. QED BY <1>1, <1>2, <1>3, QuietKeeps

LEMMA ArriveKeeps ==
  ASSUME VInv, PInv', NEW s \in Sockets, Arrive(s)
  PROVE  VInv'
<1>. DEFINE x == arrived + 1
<1>1. TypeOK /\ PInv /\ BoxTyped /\ BoxTyped'
  BY BoxFacts, PTL DEF VInv, PInv
<1>2. /\ x \in Ids /\ arrived \in Nat /\ arrived' = x
      /\ UNCHANGED <<netSocket, boundTo, udpPorts, latency, call, waitedAtOff>>
      /\ fate' = [fate EXCEPT ![x] = "waiting"] /\ fate \in [Ids -> Fates]
  BY <1>1, PortAssumption DEF Arrive, TypeOK, HistoryTypes, Ids
<1>3. /\ sockets[s] # None /\ sockets[s].inbox \in Seq(Ids) /\ sockets[s] \in Opened
      /\ \A t \in Sockets \ {s} : sockets'[t] = sockets[t]
      /\ sockets'[s] = [sockets[s] EXCEPT !.inbox = Append(@, x)]
  BY <1>1, TypeFacts DEF Arrive, TypeOK, PortTypes
<1>4. sockets'[s] # None /\ sockets'[s].inbox = Append(sockets[s].inbox, x)
  <2>1. Append(sockets[s].inbox, x) \in Seq(Ids)
    BY <1>2, <1>3, AppendFacts
  <2>2. sockets'[s] \in Opened
    BY <1>3, <2>1 DEF Opened, Ids
  <2>. QED BY <1>3, <2>2, NoneAssumption DEF Opened
<1>5. x \notin 1 .. arrived
  BY <1>2
<1>. HIDE DEF x
<1>6. /\ \A i : i \in Box'[s] <=> i \in Box[s] \cup {x}
      /\ \A t \in Sockets \ {s} : Box'[t] = Box[t]
  <2>1. \A i : i \in Range(Append(sockets[s].inbox, x)) <=> i \in Range(sockets[s].inbox) \/ i = x
    BY <1>2, <1>3, AppendSet
  <2>. QED BY <1>3, <1>4, <2>1 DEF Box
<1>7. Box'[s] = Box[s] \cup {x}
  BY <1>6
<1>8. \A n \in Numbers : Recieve(n)' = Recieve(n)
  BY <1>2 DEF Recieve
<1>9. Late' = Late /\ Hands' = Hands
  BY <1>2, <1>8 DEF Late, Hands
<1>10. fate[x] # "waiting"
  BY <1>1, <1>2, <1>5 DEF VInv, Whole, Somewhere, BoxTyped
<1>11. Whole(Box, Late, Hands, fate)'
  <2>1. Added(Box, Box', Sockets, s, x) /\ DOMAIN fate = Ids
    BY <1>2, <1>6, <1>7 DEF Added
  <2>2. Whole(Box', Late, Hands, fate')
    BY <1>2, <1>10, <2>1, ArriveWhole DEF VInv
  <2>. QED BY <1>9, <2>2
<1>12. DelayedOnce'
  BY <1>8 DEF VInv, DelayedOnce
<1>13. SwitchedOff'
  <2>1. waitedAtOff \subseteq 1 .. arrived' /\ x \notin waitedAtOff
    BY <1>2, <1>5 DEF VInv, SwitchedOff, x
  <2>2. \A t \in Sockets : \A i \in Box'[t] : i \notin waitedAtOff
    BY <1>6, <2>1 DEF VInv, SwitchedOff
  <2>. QED BY <1>2, <1>9, <2>1, <2>2 DEF VInv, SwitchedOff
<1>14. Paid'
  <2>1. Bounded /\ Bounded'
    BY <1>1, <1>13, SetsBounded, PTL DEF VInv
  <2>2. Overwritten' \subseteq Overwritten
    BY <1>2 DEF Overwritten, Ids
  <2>3. waitedAtOff \ Waiting \subseteq (waitedAtOff \ Waiting)'
    BY <1>1, <1>2, <1>9 DEF BoxTyped
  <2>. QED BY <2>1, <2>2, <2>3, PaidKeeps DEF VInv
<1>. QED BY <1>11, <1>12, <1>13, <1>14 DEF VInv

LEMMA SetLatencyKeeps ==
  ASSUME VInv, PInv', SetLatency
  PROVE  VInv'
<1>1. BoxTyped /\ BoxTyped'
  BY BoxFacts, PTL DEF VInv
<1>2. /\ UNCHANGED <<sockets, udpPorts, call, arrived, fate>> /\ latency \in Nat /\ latency' \in Nat
      /\ call.cur = 0
      /\ waitedAtOff' = IF latency > 0 /\ latency' = 0 THEN waitedAtOff \cup Waiting ELSE waitedAtOff
  BY PortAssumption DEF SetLatency, portVars, VInv, PInv, TypeOK, CallTypes, Idle
<1>3. \A n \in Numbers : Recieve(n)' = Recieve(n)
  BY <1>2 DEF Recieve
<1>4. Box' = Box /\ Late' = Late /\ Hands' = Hands
  BY <1>2, <1>3 DEF Box, Late, Hands
<1>5. Whole(Box, Late, Hands, fate)' /\ DelayedOnce'
  BY <1>2, <1>3, <1>4 DEF VInv, DelayedOnce
<1>6. SwitchedOff'
  <2>1. \A i \in Waiting : i \in 1 .. arrived /\ i # 0 /\ \A s \in Sockets : i \notin Box[s]
    BY <1>1 DEF BoxTyped, VInv, Whole, Apart
  <2>2. \A n \in Numbers : \A i \in Late[n] : i \in Waiting
    BY <1>1 DEF BoxTyped
  <2>3. CASE latency > 0 /\ latency' = 0
    BY <1>2, <1>4, <2>1, <2>2, <2>3 DEF VInv, SwitchedOff
  <2>4. CASE ~(latency > 0 /\ latency' = 0)
    BY <1>2, <1>4, <2>4 DEF VInv, SwitchedOff
  <2>. QED BY <2>3, <2>4
<1>7. Paid'
  <2>1. Bounded /\ Bounded'
    BY <1>1, <1>6, SetsBounded, PTL DEF VInv
  <2>2. Overwritten' \subseteq Overwritten /\ Waiting' = Waiting
    BY <1>1, <1>2, <1>4 DEF Overwritten, BoxTyped
  <2>3. waitedAtOff \ Waiting \subseteq (waitedAtOff \ Waiting)'
    BY <1>2, <2>2
  <2>. QED BY <2>1, <2>2, <2>3, PaidKeeps DEF VInv
<1>. QED BY <1>5, <1>6, <1>7 DEF VInv

\* A turn of GetPacket's loop takes the oldest packet from the socket.
LEMMA ReadTakes ==
  ASSUME PInv, Reading, NEW s, s = netSocket[call.port], NEW x, x = HeadOf(s)
  PROVE  /\ s \in Sockets /\ x \in Ids /\ Taken(Box, Box', Sockets, s, x)
         /\ call.cur = 0 /\ Hands = {} /\ call.port \in Ports /\ call \in CallStates
         /\ fate \in [Ids -> Fates]
<1>1. TypeOK /\ Owned
  BY DEF PInv
<1>2. /\ s \in Sockets /\ call.cur = 0 /\ sockets[s] # None /\ sockets[s].inbox # <<>>
      /\ sockets[s].inbox \in Seq(Ids) /\ sockets'[s].inbox = Tail(sockets[s].inbox)
      /\ sockets'[s] # None /\ x \in Ids /\ x = Head(sockets[s].inbox) /\ call.port \in Ports
  BY <1>1, ReadingFacts, TypeFacts
<1>3. \A t \in Sockets \ {s} : sockets'[t] = sockets[t]
  BY <1>1, ReadingFacts DEF TypeOK, PortTypes
<1>4. \A i, j \in DOMAIN sockets[s].inbox : i < j => sockets[s].inbox[i] < sockets[s].inbox[j]
  BY <1>2 DEF PInv, Ordered, InOrder
<1>5. PICK q : q = sockets[s].inbox
  OBVIOUS
<1>6. x \in Range(q) /\ \A i : i \in Range(Tail(q)) <=> i \in Range(q) /\ i # x
  BY <1>2, <1>4, <1>5, TailSet
<1>7. Box[s] = Range(q) /\ Box'[s] = Range(Tail(q)) /\ \A t \in Sockets \ {s} : Box'[t] = Box[t]
  BY <1>2, <1>3, <1>5 DEF Box
<1>8. Box'[s] = Box[s] \ {x}
  BY <1>6, <1>7
<1>. QED BY <1>1, <1>2, <1>6, <1>7, <1>8 DEF Taken, Hands, TypeOK, HistoryTypes, CallTypes, Ids

LEMMA ReadLostKeeps ==
  ASSUME VInv, PInv', ReadOversize \/ ReadDropped \/ ReadCrashes
  PROVE  VInv'
<1>1. /\ Reading /\ UNCHANGED <<udpPorts, arrived, waitedAtOff, latency>>
      /\ \E w \in {"oversize", "dropped", "closed"} :
           fate' = [fate EXCEPT ![HeadOf(netSocket[call.port])] = w]
  BY DEF ReadOversize, ReadDropped, ReadCrashes
<1>2. PICK s : s = netSocket[call.port]
  OBVIOUS
<1>3. PICK x : x = HeadOf(s)
  OBVIOUS
<1>4. /\ s \in Sockets /\ x \in Ids /\ Taken(Box, Box', Sockets, s, x)
      /\ call.cur = 0 /\ Hands = {} /\ call.port \in Ports /\ call \in CallStates
      /\ fate \in [Ids -> Fates]
  BY <1>1, <1>2, <1>3, ReadTakes DEF VInv
<1>5. PICK w \in {"oversize", "dropped", "closed"} : fate' = [fate EXCEPT ![x] = w]
  BY <1>1, <1>2, <1>3
<1>6. call'.cur = 0
  <2>1. 0 \in 0 .. MaxPackets
    BY PortAssumption
  <2>2. CASE Hand(0)
    BY <1>4, <2>1, <2>2, HandFacts DEF Hand
  <2>3. CASE call' = call \/ call' = Idle
    BY <1>4, <2>3, CallFacts
  <2>. QED BY <2>2, <2>3 DEF ReadOversize, ReadDropped, ReadCrashes
<1>7. \A n \in Numbers : Recieve(n)' = Recieve(n)
  BY <1>1 DEF Recieve
<1>8. Late' = Late /\ Hands' = Hands /\ DelayedOnce'
  BY <1>4, <1>6, <1>7 DEF Late, Hands, VInv, DelayedOnce
<1>9. Left({x})
  BY <1>4, <1>8 DEF Left, Leave, Taken
<1>10. \A i \in Ids : IF i \in {x} THEN fate'[i] \notin {"waiting", "overwritten"}
                      ELSE fate'[i] = fate[i]
  BY <1>4, <1>5
<1>. QED BY <1>1, <1>8, <1>9, <1>10, LostStepKeeps

\* Of the packets that are overwritten and paid for nothing changes.
LEMMA PaidStays ==
  ASSUME VInv, PInv', SwitchedOff', UNCHANGED <<fate, waitedAtOff>>,
         \A i \in waitedAtOff : i \in Waiting' => i \in Waiting
  PROVE  Paid'
<1>1. Bounded /\ Bounded'
  BY BoxFacts, SetsBounded, PTL DEF VInv
<1>2. Overwritten' \subseteq Overwritten
  BY DEF Overwritten
<1>3. waitedAtOff \ Waiting \subseteq (waitedAtOff \ Waiting)'
  OBVIOUS
<1>. QED BY <1>1, <1>2, <1>3, PaidKeeps DEF VInv

LEMMA ReadDirectKeeps ==
  ASSUME VInv, PInv', ReadDirect
  PROVE  VInv'
<1>1. Reading /\ UNCHANGED <<udpPorts, arrived, waitedAtOff, latency, fate>>
  BY DEF ReadDirect, inHistory
<1>2. PICK s : s = netSocket[call.port]
  OBVIOUS
<1>3. PICK x : x = HeadOf(s)
  OBVIOUS
<1>4. /\ s \in Sockets /\ x \in Ids /\ Taken(Box, Box', Sockets, s, x)
      /\ call.cur = 0 /\ Hands = {} /\ call \in CallStates
  BY <1>1, <1>2, <1>3, ReadTakes DEF VInv
<1>5. Hands' = {x} /\ call'.cur = x
  <2>1. x \in 0 .. MaxPackets /\ x # 0
    BY <1>4 DEF Ids
  <2>2. Hand(x)
    BY <1>2, <1>3 DEF ReadDirect
  <2>3. call'.cur = x
    BY <1>4, <2>1, <2>2, HandFacts DEF Hand
  <2>. QED BY <2>1, <2>3 DEF Hands
<1>6. \A n \in Numbers : Recieve(n)' = Recieve(n)
  BY <1>1 DEF Recieve
<1>7. Late' = Late /\ DelayedOnce'
  BY <1>6 DEF Late, VInv, DelayedOnce
<1>8. Whole(Box, Late, Hands, fate)'
  <2>1. Whole(Box', Late, {x}, fate)
    BY <1>4, TakenWhole DEF VInv
  <2>. QED BY <1>1, <1>5, <1>7, <2>1
<1>9. SwitchedOff'
  <2>1. \A t \in Sockets : \A i \in Box'[t] : i \in Box[t]
    BY <1>4 DEF Taken
  <2>2. x \notin waitedAtOff
    BY <1>4 DEF VInv, SwitchedOff, Taken
  <2>. QED BY <1>1, <1>5, <1>7, <2>1, <2>2 DEF VInv, SwitchedOff
<1>10. Paid'
  <2>1. Waiting' = Waiting
    BY <1>1 DEF Waiting
  <2>. QED BY <1>1, <1>9, <2>1, PaidStays
<1>. QED BY <1>7, <1>8, <1>9, <1>10 DEF VInv

LEMMA ReadDelayedKeeps ==
  ASSUME VInv, PInv', ReadDelayed
  PROVE  VInv'
<1>1. Reading /\ UNCHANGED <<arrived, waitedAtOff, latency, fate, call>> /\ latency > 0
  BY DEF ReadDelayed, inHistory
<1>2. PICK s : s = netSocket[call.port]
  OBVIOUS
<1>3. PICK x : x = HeadOf(s)
  OBVIOUS
<1>4. /\ s \in Sockets /\ x \in Ids /\ Taken(Box, Box', Sockets, s, x)
      /\ call.cur = 0 /\ Hands = {} /\ Hands' = {}
  BY <1>1, <1>2, <1>3, ReadTakes DEF VInv, Hands
<1>5. PICK n : n = boundTo[call.port]
  OBVIOUS
<1>6. PICK e : e = [id |-> x, from |-> s, age |-> 0]
  OBVIOUS
<1>7. e \in Entries /\ e.id = x
  BY <1>4, <1>6, DelayedFacts
<1>8. /\ TypeOK /\ udpPorts[n] # None /\ n \in Numbers
      /\ udpPorts' = [udpPorts EXCEPT ![n] = [udpPorts[n] EXCEPT !.recieve = Append(@, e)]]
  <2>1. n \in Numbers \cup {0} /\ udpPorts[0] = None
    BY <1>1, <1>5, ReadingFacts DEF VInv, PInv, TypeOK, PortTypes
  <2>. QED BY <1>2, <1>3, <1>5, <1>6, <2>1 DEF ReadDelayed, VInv, PInv
<1>9. Recieve(n)' = Append(Recieve(n), e) /\ Recieve(n) \in Seq(Entries)
  <2>1. udpPorts[n] \in Lags /\ Recieve(n) = udpPorts[n].recieve
    BY <1>8, TypeFacts DEF Recieve
  <2>2. Append(udpPorts[n].recieve, e) \in Seq(Entries)
    BY <1>7, <2>1, LagFacts, AppendFacts
  <2>3. /\ [udpPorts[n] EXCEPT !.recieve = Append(@, e)] \in Lags
        /\ [udpPorts[n] EXCEPT !.recieve = Append(@, e)].recieve = Append(Recieve(n), e)
    BY <2>1, <2>2, LagFacts
  <2>4. udpPorts'[n] = [udpPorts[n] EXCEPT !.recieve = Append(@, e)]
    BY <1>8 DEF TypeOK, PortTypes
  <2>. QED BY <2>1, <2>3, <2>4, LagFacts, NoneAssumption DEF Recieve
<1>10. \A m \in Numbers \ {n} : Recieve(m)' = Recieve(m)
  BY <1>8 DEF TypeOK, PortTypes, Recieve
<1>11. x \notin Late[n]
  BY <1>4, <1>8 DEF VInv, Whole, Apart, Taken
<1>12. /\ Once(Append(Recieve(n), e))
       /\ \A i : i \in IdsOf(Append(Recieve(n), e)) <=> i \in IdsOf(Recieve(n)) \/ i = x
  <2>1. Once(Recieve(n)) /\ e.id \notin IdsOf(Recieve(n))
    BY <1>7, <1>8, <1>11 DEF VInv, DelayedOnce, Late
  <2>. QED BY <1>7, <1>9, <2>1, AppendLate
<1>13. Added(Late, Late', Numbers, n, x)
  <2>1. \A i : i \in Late'[n] <=> i \in Late[n] \cup {x}
    BY <1>8, <1>9, <1>12 DEF Late
  <2>2. Late'[n] = Late[n] \cup {x}
    BY <2>1
  <2>3. \A m \in Numbers \ {n} : Late'[m] = Late[m]
    BY <1>10 DEF Late
  <2>. QED BY <2>2, <2>3 DEF Added
<1>14. DelayedOnce'
  BY <1>9, <1>10, <1>12 DEF VInv, DelayedOnce
<1>15. Whole(Box, Late, Hands, fate)'
  <2>1. Whole(Box', Late', {}, fate)
    BY <1>4, <1>8, <1>13, DelayedWhole DEF VInv
  <2>. QED BY <1>1, <1>4, <2>1
<1>16. SwitchedOff'
  <2>1. \A t \in Sockets : \A i \in Box'[t] : i \in Box[t]
    BY <1>4 DEF Taken
  <2>. QED BY <1>1, <2>1 DEF VInv, SwitchedOff
<1>17. Paid'
  <2>1. BoxTyped /\ BoxTyped'
    BY BoxFacts, PTL DEF VInv
  <2>2. x \notin waitedAtOff
    BY <1>4 DEF VInv, SwitchedOff, Taken
  <2>3. \A i \in waitedAtOff : i \in Waiting' => i \in Waiting
    BY <1>8, <1>13, <2>1, <2>2 DEF BoxTyped, Added
  <2>. QED BY <1>1, <1>16, <2>3, PaidStays
<1>. QED BY <1>14, <1>15, <1>16, <1>17 DEF VInv

\* The packet in GetPacket's hands is handed out.
LEMMA HandDirectKeeps ==
  ASSUME VInv, PInv', HandDirect
  PROVE  VInv'
<1>1. /\ UNCHANGED <<sockets, udpPorts, arrived, waitedAtOff, latency>> /\ call'.cur = 0
      /\ IF call.cur = 0 THEN fate' = fate ELSE fate' = [fate EXCEPT ![call.cur] = "got"]
      /\ fate \in [Ids -> Fates]
  BY CallFacts DEF HandDirect, portVars, VInv, PInv, TypeOK, HistoryTypes, Ids
<1>2. \A n \in Numbers : Recieve(n)' = Recieve(n)
  BY <1>1 DEF Recieve
<1>3. Box' = Box /\ Late' = Late /\ Hands' = {} /\ DelayedOnce'
  BY <1>1, <1>2 DEF Box, Late, Hands, VInv, DelayedOnce
<1>4. Left(Hands)
  BY <1>3 DEF Left, Leave
<1>5. \A i \in Ids : IF i \in Hands THEN fate'[i] \notin {"waiting", "overwritten"}
                     ELSE fate'[i] = fate[i]
  BY <1>1 DEF Hands
<1>. QED BY <1>1, <1>3, <1>4, <1>5, LostStepKeeps

\* The oldest of the delayed packets is handed out in place of the one that was read.
LEMMA HandDelayedKeepsAll ==
  ASSUME VInv, PInv', HandDelayed
  PROVE  VInv'
<1>a. PICK n : n = boundTo[call.port]
  OBVIOUS
<1>b. PICK q : q = Recieve(n)
  OBVIOUS
<1>c. PICK x : x = Head(q).id
  OBVIOUS
<1>d. PICK c : c = call.cur
  OBVIOUS
<1>0. TypeOK /\ PInv /\ BoxTyped /\ BoxTyped'
  BY BoxFacts, PTL DEF VInv, PInv
<1>1. UNCHANGED <<sockets, arrived, waitedAtOff, latency>> /\ call'.cur = 0
  BY CallFacts DEF HandDelayed
<1>2. /\ n \in Numbers /\ udpPorts[n] # None /\ udpPorts[n] \in Lags
      /\ q = udpPorts[n].recieve /\ q # <<>>
  <2>1. call.port \in Ports
    BY <1>0 DEF HandDelayed, TypeOK, CallTypes
  <2>2. udpPorts[n] # None /\ q # <<>>
    BY <1>a, <1>b DEF HandDelayed, Queue, Ripe, Recieve
  <2>. QED BY <1>0, <1>a, <1>b, <2>1, <2>2 DEF TypeOK, PortTypes, Recieve
<1>3. q \in Seq(Entries) /\ Tail(q) \in Seq(Entries) /\ Head(q) \in Entries /\ x \in Ids
  BY <1>c, <1>2, LagFacts, TailFacts, DelayedFacts
<1>4. udpPorts' = [udpPorts EXCEPT ![n] = [udpPorts[n] EXCEPT !.recieve = Tail(q)]]
  BY <1>a, <1>2 DEF HandDelayed
<1>5. /\ Recieve(n)' = Tail(q)
      /\ \A m \in Numbers \ {n} : Recieve(m)' = Recieve(m)
  <2>1. udpPorts'[n] = [udpPorts[n] EXCEPT !.recieve = Tail(q)]
    BY <1>0, <1>2, <1>4 DEF TypeOK, PortTypes
  <2>2. /\ [udpPorts[n] EXCEPT !.recieve = Tail(q)] \in Lags
        /\ [udpPorts[n] EXCEPT !.recieve = Tail(q)].recieve = Tail(q)
    BY <1>2, <1>3, LagFacts
  <2>3. udpPorts'[n] \in Lags /\ udpPorts'[n].recieve = Tail(q)
    BY <2>1, <2>2
  <2>4. Recieve(n)' = Tail(q)
    BY <2>3, NoneAssumption DEF Recieve
  <2>5. \A m \in Numbers \ {n} : Recieve(m)' = Recieve(m)
    BY <1>0, <1>4 DEF TypeOK, PortTypes, Recieve
  <2>. QED BY <2>4, <2>5
<1>6. /\ x \in IdsOf(q) /\ Once(q) /\ Once(Tail(q))
      /\ \A i : i \in IdsOf(Tail(q)) <=> i \in IdsOf(q) /\ i # x
  <2>1. Once(q)
    BY <1>b, <1>2 DEF VInv, DelayedOnce
  <2>. QED BY <1>c, <1>2, <1>3, <2>1, TailLate
<1>7. /\ x \in Late[n] /\ \A i : i \in Late'[n] <=> i \in Late[n] /\ i # x
      /\ \A m \in Numbers \ {n} : Late'[m] = Late[m]
  BY <1>b, <1>2, <1>5, <1>6 DEF Late
<1>8. DelayedOnce'
  BY <1>5, <1>6 DEF VInv, DelayedOnce
<1>9. Box' = Box /\ Hands' = {} /\ Hands = {c} \ {0}
  BY <1>1, <1>d DEF Box, Hands
<1>10. x # c /\ \A m \in Numbers : x \notin Late'[m]
  BY <1>2, <1>3, <1>7, <1>9, PortAssumption DEF VInv, Whole, Apart, Ids
<1>11. Left(Hands \cup {x})
  BY <1>2, <1>7, <1>9, <1>10 DEF Left, Leave
<1>12. /\ fate'[x] = "got" /\ (c \in Ids => fate'[c] = "overwritten")
       /\ \A i \in Ids \ {x, c} : fate'[i] = fate[i]
  <2>1. fate' = [WithFate(fate, {c}, "overwritten") EXCEPT ![x] = "got"]
    BY <1>a, <1>b, <1>c, <1>d, <1>2 DEF HandDelayed, Queue
  <2>2. DOMAIN fate = Ids
    BY <1>0 DEF TypeOK, HistoryTypes, Ids
  <2>. QED BY <1>3, <1>10, <2>1, <2>2 DEF WithFate
<1>13. \A i \in Ids : IF i \in Hands \cup {x} THEN fate'[i] # "waiting" ELSE fate'[i] = fate[i]
  BY <1>9, <1>12, PortAssumption DEF Ids
<1>14. /\ Whole(Box, Late, Hands, fate)' /\ SwitchedOff'
       /\ Bounded /\ Bounded' /\ waitedAtOff \ Waiting \subseteq (waitedAtOff \ Waiting)'
  BY <1>1, <1>8, <1>11, <1>13, LeftKeeps
<1>15. Overwritten' \subseteq Overwritten \cup {c}
  BY <1>12 DEF Overwritten, Ids
<1>16. Paid'
  <2>1. CASE c = 0
    <3>1. Overwritten' \subseteq Overwritten
      BY <1>15, <2>1, PortAssumption DEF Overwritten
    <3>. QED BY <1>14, <3>1, PaidKeeps DEF VInv
  <2>2. CASE c # 0
    <3>1. latency = 0
      BY <1>0, <1>d, <2>2 DEF TypeOK, CallTypes
    <3>2. x \in waitedAtOff /\ x \in Waiting
      BY <1>0, <1>2, <1>3, <1>7, <3>1 DEF VInv, SwitchedOff, BoxTyped
    <3>3. x \notin Waiting'
      BY <1>0, <1>10 DEF BoxTyped
    <3>4. x \in (waitedAtOff \ Waiting)' /\ x \notin waitedAtOff \ Waiting
      BY <1>1, <3>2, <3>3
    <3>. QED BY <1>14, <1>15, <3>4, PaidFor DEF VInv
  <2>. QED BY <2>1, <2>2
<1>. QED BY <1>8, <1>14, <1>16 DEF VInv

\* Time passes: what is delayed stays.
LEMMA TickKeeps ==
  ASSUME VInv, PInv', Tick
  PROVE  VInv'
<1>. TypeOK
  BY DEF VInv, PInv
<1>1. UNCHANGED <<sockets, call, arrived, waitedAtOff, latency, fate>>
  BY DEF Tick, inHistory
<1>2. ASSUME NEW n \in Numbers
      PROVE  /\ DOMAIN Recieve(n)' = DOMAIN Recieve(n)
             /\ \A i \in DOMAIN Recieve(n) : Recieve(n)'[i].id = Recieve(n)[i].id
  <2>1. CASE udpPorts[n] = None
    BY <2>1 DEF Tick, TypeOK, PortTypes, Recieve
  <2>2. CASE udpPorts[n] # None
    <3>1. /\ udpPorts'[n] = [send |-> Older(udpPorts[n].send), recieve |-> Older(udpPorts[n].recieve)]
          /\ udpPorts[n].recieve \in Seq(Entries) /\ udpPorts[n].send \in Seq(Sendings)
      BY <2>2, TypeFacts, LagFacts DEF Tick, TypeOK, PortTypes
    <3>2. Older(udpPorts[n].send) \in Seq(Sendings) /\ Older(udpPorts[n].recieve) \in Seq(Entries)
      BY <3>1, OlderFacts DEF Sendings, Entries
    <3>3. udpPorts'[n] \in Lags
      BY <3>1, <3>2 DEF Lags, Sendings, Entries, Ids
    <3>4. Recieve(n)' = Older(Recieve(n)) /\ Recieve(n) \in Seq(Entries)
      BY <2>2, <3>1, <3>3, NoneAssumption DEF Recieve
    <3>. QED BY <3>4, OlderFacts DEF Entries
  <2>. QED BY <2>1, <2>2
<1>3. \A n \in Numbers : \A i : i \in IdsOf(Recieve(n)') <=> i \in IdsOf(Recieve(n))
  BY <1>2 DEF IdsOf
<1>4. \A n \in Numbers : Late'[n] = Late[n]
  <2>1. ASSUME NEW n \in Numbers PROVE IdsOf(Recieve(n)') = IdsOf(Recieve(n))
    BY <1>3
  <2>. QED BY <2>1 DEF Late
<1>5. DelayedOnce'
  BY <1>2 DEF VInv, DelayedOnce, Once
<1>6. Box' = Box /\ Hands' = Hands
  BY <1>1 DEF Box, Hands
<1>. QED BY <1>1, <1>4, <1>5, <1>6, QuietKeeps

LEMMA InitFailsKeeps ==
  ASSUME VInv, PInv', NEW p \in Ports, InitFails(p)
  PROVE  VInv'
<1>1. UNCHANGED <<udpPorts, call, arrived, waitedAtOff, latency, fate>>
  BY DEF InitFails
<1>2. \A n \in Numbers : Recieve(n)' = Recieve(n)
  BY <1>1 DEF Recieve
<1>3. Hands' = Hands
  BY <1>1 DEF Hands
<1>4. CASE sockets' = sockets
  BY <1>1, <1>2, <1>3, <1>4, StillKeeps
<1>5. CASE /\ Free # {}
           /\ sockets' = [sockets EXCEPT ![NewSocket] = [iface |-> None, number |-> 0, inbox |-> <<>>]]
  <2>1. PICK w : w = NewSocket
    OBVIOUS
  <2>2. w \in Sockets /\ sockets[w] = None
    BY <1>5, <2>1 DEF NewSocket, Free
  <2>3. sockets'[w].inbox = <<>> /\ \A s \in Sockets \ {w} : sockets'[s] = sockets[s]
    BY <1>5, <2>1, <2>2 DEF VInv, PInv, TypeOK, PortTypes
  <2>4. Range(<<>>) = {}
    BY DEF Range
  <2>5. \A s \in Sockets : \A i : i \in Box'[s] <=> i \in Box[s]
    BY <2>2, <2>3, <2>4 DEF Box
  <2>6. \A n \in Numbers : Late'[n] = Late[n]
    BY <1>2 DEF Late
  <2>7. DelayedOnce'
    BY <1>2 DEF VInv, DelayedOnce
  <2>. QED BY <1>1, <1>3, <2>5, <2>6, <2>7, QuietKeeps
<1>. QED BY <1>4, <1>5 DEF InitFails

LEMMA InitForPortKeeps ==
  ASSUME VInv, PInv', NEW p \in Ports, InitForPort(p)
  PROVE  VInv'
<1>. TypeOK
  BY DEF VInv, PInv
<1>1. PICK w : w = NewSocket
  OBVIOUS
<1>2. w \in Sockets /\ sockets[w] = None
  BY <1>1 DEF InitForPort, NewSocket, Free
<1>3. PICK i \in Interfaces, n \in Numbers :
        /\ sockets' = [sockets EXCEPT ![w] = [iface |-> i, number |-> n, inbox |-> <<>>]]
        /\ udpPorts' = [udpPorts EXCEPT ![n] = Lag]
        /\ fate' = WithFate(fate, IF udpPorts[n] = None THEN {} ELSE IdsOf(udpPorts[n].recieve),
                            "closed")
  BY <1>1 DEF InitForPort
<1>4. UNCHANGED <<call, arrived, waitedAtOff, latency>>
  BY DEF InitForPort
<1>5. Lag \in Lags /\ Lag.recieve = <<>>
  BY EmptySeq DEF Lag, Lags
<1>6. Recieve(n)' = <<>> /\ \A m \in Numbers \ {n} : Recieve(m)' = Recieve(m)
  BY <1>3, <1>5, NoneAssumption DEF TypeOK, PortTypes, Recieve
<1>7. /\ sockets'[w].inbox = <<>> /\ \A s \in Sockets \ {w} : sockets'[s] = sockets[s]
  BY <1>2, <1>3 DEF TypeOK, PortTypes
<1>8. DOMAIN <<>> = {}
  OBVIOUS
<1>9. Range(<<>>) = {} /\ IdsOf(<<>>) = {} /\ Once(<<>>)
  BY <1>8 DEF Range, IdsOf, Once
<1>10. \A s \in Sockets : \A j : j \in Box'[s] <=> j \in Box[s]
  BY <1>2, <1>7, <1>9 DEF Box
<1>11. Late'[n] = {} /\ \A m \in Numbers \ {n} : Late'[m] = Late[m]
  BY <1>6, <1>9 DEF Late
<1>12. Hands' = Hands
  BY <1>4 DEF Hands
<1>13. DelayedOnce'
  BY <1>6, <1>9 DEF VInv, DelayedOnce
<1>14. Left(Late[n])
  BY <1>10, <1>11, <1>12 DEF Left, Leave
<1>15. Late[n] = IF udpPorts[n] = None THEN {} ELSE IdsOf(udpPorts[n].recieve)
  BY <1>9 DEF Late, Recieve
<1>16. \A j \in Ids : IF j \in Late[n] THEN fate'[j] \notin {"waiting", "overwritten"}
                      ELSE fate'[j] = fate[j]
  BY <1>3, <1>15 DEF WithFate, TypeOK, HistoryTypes, Ids
<1>. QED BY <1>4, <1>13, <1>14, <1>16, LostStepKeeps

\* What the socket still has is lost with it, and so is what is delayed under its number.
LEMMA CloseKeeps ==
  ASSUME VInv, PInv', NEW p \in Ports, Close(p)
  PROVE  VInv'
<1>. TypeOK /\ Owned
  BY DEF VInv, PInv
<1>1. PICK s, n : s = netSocket[p] /\ n = boundTo[p]
  OBVIOUS
<1>2. /\ s \in Sockets /\ sockets[s] # None /\ n \in Numbers \cup {0}
      /\ UNCHANGED <<call, arrived, waitedAtOff, latency>>
  BY <1>1 DEF Close, TypeOK, PortTypes, Owned
<1>3. PICK D : D = Range(sockets[s].inbox)
                     \cup IF udpPorts[n] = None THEN {} ELSE IdsOf(udpPorts[n].recieve)
  OBVIOUS
<1>4. /\ sockets' = [sockets EXCEPT ![s] = None] /\ udpPorts' = [udpPorts EXCEPT ![n] = None]
      /\ fate' = WithFate(fate, D, "closed")
  BY <1>1, <1>3 DEF Close
<1>5. sockets'[s] = None /\ \A t \in Sockets \ {s} : sockets'[t] = sockets[t]
  BY <1>2, <1>4 DEF TypeOK, PortTypes
<1>6. Recieve(n)' = <<>> /\ \A m \in Numbers \ {n} : Recieve(m)' = Recieve(m)
  BY <1>2, <1>4 DEF TypeOK, PortTypes, Recieve
<1>7. DOMAIN <<>> = {}
  OBVIOUS
<1>8. IdsOf(<<>>) = {} /\ Once(<<>>)
  BY <1>7 DEF IdsOf, Once
<1>9. Box'[s] = {} /\ \A t \in Sockets \ {s} : Box'[t] = Box[t]
  BY <1>2, <1>5 DEF Box
<1>10. Hands' = Hands
  BY <1>2 DEF Hands
<1>11. DelayedOnce'
  BY <1>6, <1>8 DEF VInv, DelayedOnce
<1>12. Box[s] = Range(sockets[s].inbox)
  BY <1>2 DEF Box
<1>13. IdsOf(Recieve(n)) = IF udpPorts[n] = None THEN {} ELSE IdsOf(udpPorts[n].recieve)
  BY <1>8 DEF Recieve
<1>14. Left(D)
  <2>1. CASE n \in Numbers
    <3>1. Late'[n] = {} /\ \A m \in Numbers \ {n} : Late'[m] = Late[m]
      BY <1>6, <1>8, <2>1 DEF Late
    <3>2. D = Box[s] \cup Late[n]
      BY <1>3, <1>12, <1>13, <2>1 DEF Late
    <3>. QED BY <1>2, <1>9, <1>10, <2>1, <3>1, <3>2 DEF Left, Leave
  <2>2. CASE n \notin Numbers
    <3>1. n = 0 /\ Recieve(0) = <<>>
      BY <1>2, <2>2, TypeFacts
    <3>2. D = Box[s]
      BY <1>3, <1>8, <1>12, <1>13, <3>1
    <3>3. \A m \in Numbers : Late'[m] = Late[m]
      BY <1>6, <2>2 DEF Late
    <3>. QED BY <1>2, <1>9, <1>10, <3>2, <3>3 DEF Left, Leave
  <2>. QED BY <2>1, <2>2
<1>15. \A j \in Ids : IF j \in D THEN fate'[j] \notin {"waiting", "overwritten"}
                      ELSE fate'[j] = fate[j]
  BY <1>4 DEF WithFate, TypeOK, HistoryTypes, Ids
<1>. QED BY <1>2, <1>11, <1>14, <1>15, LostStepKeeps

LEMMA WholeStep == VInv /\ [Next]_vars => VInv'
<1>. SUFFICES ASSUME VInv, [Next]_vars PROVE VInv'
  OBVIOUS
<1>1. PInv /\ PInv' /\ TypeOK
  BY StepKeeps DEF VInv, PInv
<1>2. /\ call \in CallStates /\ (call.cur # 0 => call.op = "hand" /\ latency = 0)
      /\ (call = Idle => call.cur = 0) /\ latency \in Nat
  BY <1>1, CallFacts, PortAssumption DEF TypeOK, CallTypes
<1>3. Hand(0) => call'.cur = 0
  <2>1. 0 \in 0 .. MaxPackets
    BY PortAssumption
  <2>2. [call EXCEPT !.op = "hand", !.cur = 0].cur = 0
    BY <1>2, <2>1, HandFacts
  <2>. QED BY <2>2 DEF Hand
<1>4. ASSUME UNCHANGED <<portVars, arrived, waitedAtOff, latency, fate>>, call'.cur = call.cur
      PROVE  VInv'
  <2>1. \A n \in Numbers : Recieve(n)' = Recieve(n)
    BY <1>4 DEF portVars, Recieve
  <2>2. Hands' = Hands
    BY <1>4 DEF Hands
  <2>3. UNCHANGED <<sockets, arrived, waitedAtOff, latency, fate>>
    BY <1>4 DEF portVars
  <2>. QED BY <1>1, <2>1, <2>2, <2>3, StillKeeps
<1>5. CASE UNCHANGED vars
  BY <1>4, <1>5 DEF vars, inHistory
<1>6. CASE Tick
  BY <1>1, <1>6, TickKeeps
<1>7. CASE SetLatency
  BY <1>1, <1>7, SetLatencyKeeps
<1>8. CASE WaitEnds
  <2>1. call'.cur = call.cur
    BY <1>2, <1>8, CallFacts DEF WaitEnds
  <2>. QED BY <1>4, <1>8, <2>1 DEF WaitEnds, inHistory
<1>9. CASE ReadNothing
  <2>1. call.cur = 0 /\ call'.cur = 0
    BY <1>2, <1>3, <1>9 DEF ReadNothing
  <2>. QED BY <1>4, <1>9, <2>1 DEF ReadNothing, inHistory
<1>10. CASE HandNotYet \/ HandCrashes
  <2>1. call.cur = 0 /\ call'.cur = 0
    BY <1>2, <1>10, CallFacts DEF HandNotYet, HandCrashes
  <2>. QED BY <1>4, <1>10, <2>1 DEF HandNotYet, HandCrashes, inHistory
<1>11. CASE ReadOversize \/ ReadDropped \/ ReadCrashes
  BY <1>1, <1>11, ReadLostKeeps
<1>12. CASE ReadDirect
  BY <1>1, <1>12, ReadDirectKeeps
<1>13. CASE ReadDelayed
  BY <1>1, <1>13, ReadDelayedKeeps
<1>14. CASE HandDirect
  BY <1>1, <1>14, HandDirectKeeps
<1>15. CASE HandDelayed
  BY <1>1, <1>15, HandDelayedKeepsAll
<1>16. CASE SendPacket \/ \E p \in Ports : SendDelayed(p)
  <2>1. /\ UNCHANGED <<sockets, arrived, waitedAtOff, latency, fate>>
        /\ call.cur = 0 /\ call'.cur = 0
        /\ \A n \in Numbers \cup {0} : Recieve(n)' = Recieve(n)
    BY <1>1, <1>16, SendRecieves DEF inHistory
  <2>2. Hands' = Hands
    BY <2>1 DEF Hands
  <2>. QED BY <1>1, <2>1, <2>2, StillKeeps
<1>17. ASSUME NEW p \in Ports, Calls(p) PROVE VInv'
  <2>1. CASE InitFails(p)
    BY <1>1, <2>1, InitFailsKeeps
  <2>2. CASE InitForPort(p)
    BY <1>1, <2>2, InitForPortKeeps
  <2>3. CASE Close(p)
    BY <1>1, <2>3, CloseKeeps
  <2>4. CASE GetBegin(p)
    <3>1. call.cur = 0 /\ call'.cur = 0
      BY <1>2, <2>4, BeginFacts DEF GetBegin
    <3>. QED BY <1>4, <2>4, <3>1 DEF GetBegin, inHistory
  <2>5. CASE SendDropped(p) \/ SendDirect(p) \/ SendCrashes(p)
    BY <1>4, <2>5 DEF SendDropped, SendDirect, SendCrashes, inHistory
  <2>6. CASE SendDelayed(p)
    BY <1>16, <2>6
  <2>. QED BY <1>17, <2>1, <2>2, <2>3, <2>4, <2>5, <2>6 DEF Calls
<1>18. ASSUME NEW s \in Sockets, Arrive(s) PROVE VInv'
  BY <1>1, <1>18, ArriveKeeps
<1>. QED BY <1>5, <1>6, <1>7, <1>8, <1>9, <1>10, <1>11, <1>12, <1>13, <1>14, <1>15, <1>16, <1>17,
            <1>18 DEF Next, GetPacket

-----------------------------------------------------------------------------
(* What the invariant says of the places of a packet. *)

\* The members of Places(i), one by one.
OfSocket(e, i) == \E s \in Sockets : /\ sockets[s] # None
                                     /\ \E k \in DOMAIN sockets[s].inbox :
                                          sockets[s].inbox[k] = i /\ e = <<"socket", s, k>>
OfDelayed(e, i) == \E n \in Numbers : /\ udpPorts[n] # None
                                      /\ \E k \in DOMAIN udpPorts[n].recieve :
                                           /\ udpPorts[n].recieve[k].id = i
                                           /\ e = <<"delayed", n, k>>
OfHands(e, i) == call.cur = i /\ e = <<"hands">>

LEMMA PlaceFacts ==
  \A i, e : e \in Places(i) <=> OfSocket(e, i) \/ OfDelayed(e, i) \/ OfHands(e, i)
BY DEF Places, OfSocket, OfDelayed, OfHands

LEMMA SocketPlace ==
  ASSUME VInv, NEW i, NEW e, NEW f, OfSocket(e, i), OfSocket(f, i)
  PROVE  e = f
<1>1. TypeOK /\ Ordered
  BY DEF VInv, PInv
<1>2. PICK s \in Sockets : sockets[s] # None /\ \E k \in DOMAIN sockets[s].inbox :
                             sockets[s].inbox[k] = i /\ e = <<"socket", s, k>>
  BY DEF OfSocket
<1>3. PICK t \in Sockets : sockets[t] # None /\ \E k \in DOMAIN sockets[t].inbox :
                             sockets[t].inbox[k] = i /\ f = <<"socket", t, k>>
  BY DEF OfSocket
<1>4. s = t
  <2>1. i \in Box[s] /\ i \in Box[t]
    BY <1>2, <1>3 DEF Box, Range
  <2>. QED BY <2>1 DEF VInv, Whole, Apart
<1>5. PICK q : q = sockets[s].inbox
  OBVIOUS
<1>6. q \in Seq(Ids) /\ \A j, k \in DOMAIN q : j < k => q[j] < q[k]
  BY <1>1, <1>2, <1>5, TypeFacts DEF Ordered, InOrder
<1>7. PICK j \in DOMAIN q : q[j] = i /\ e = <<"socket", s, j>>
  BY <1>2, <1>5
<1>8. PICK k \in DOMAIN q : q[k] = i /\ f = <<"socket", s, k>>
  BY <1>3, <1>4, <1>5
<1>9. j \in Nat /\ k \in Nat /\ i \in Nat
  <2>1. DOMAIN q = 1 .. Len(q) /\ Len(q) \in Nat /\ q[j] \in Ids
    BY <1>6
  <2>. QED BY <1>7, <2>1 DEF Ids
<1>10. j = k
  BY <1>6, <1>7, <1>8, <1>9
<1>. QED BY <1>7, <1>8, <1>10

LEMMA DelayedPlace ==
  ASSUME VInv, NEW i, NEW e, NEW f, OfDelayed(e, i), OfDelayed(f, i)
  PROVE  e = f
<1>1. PICK n \in Numbers : udpPorts[n] # None /\ \E k \in DOMAIN udpPorts[n].recieve :
                             udpPorts[n].recieve[k].id = i /\ e = <<"delayed", n, k>>
  BY DEF OfDelayed
<1>2. PICK m \in Numbers : udpPorts[m] # None /\ \E k \in DOMAIN udpPorts[m].recieve :
                             udpPorts[m].recieve[k].id = i /\ f = <<"delayed", m, k>>
  BY DEF OfDelayed
<1>3. Recieve(n) = udpPorts[n].recieve /\ Recieve(m) = udpPorts[m].recieve
  BY <1>1, <1>2 DEF Recieve
<1>4. n = m
  <2>1. i \in Late[n] /\ i \in Late[m]
    BY <1>1, <1>2, <1>3 DEF Late, IdsOf
  <2>. QED BY <2>1 DEF VInv, Whole, Apart
<1>. QED BY <1>1, <1>2, <1>3, <1>4 DEF VInv, DelayedOnce, Once

LEMMA OnePlace ==
  ASSUME VInv, NEW i \in Ids, NEW e \in Places(i), NEW f \in Places(i)
  PROVE  e = f
<1>1. ASSUME NEW g, OfSocket(g, i) PROVE \E s \in Sockets : i \in Box[s]
  BY <1>1 DEF OfSocket, Box, Range
<1>2. ASSUME NEW g, OfDelayed(g, i) PROVE \E n \in Numbers : i \in Late[n]
  BY <1>2 DEF OfDelayed, Late, IdsOf, Recieve
<1>3. ASSUME NEW g, OfHands(g, i) PROVE i \in Hands /\ g = <<"hands">>
  BY <1>3, PortAssumption DEF OfHands, Hands, Ids
<1>4. Apart(Box, Late, Hands)
  BY DEF VInv, Whole
<1>5. /\ ~((\E s \in Sockets : i \in Box[s]) /\ (\E n \in Numbers : i \in Late[n]))
      /\ ~((\E s \in Sockets : i \in Box[s]) /\ i \in Hands)
      /\ ~((\E n \in Numbers : i \in Late[n]) /\ i \in Hands)
  BY <1>4 DEF Apart
<1>6. OfSocket(e, i) \/ OfDelayed(e, i) \/ OfHands(e, i)
  BY PlaceFacts
<1>7. OfSocket(f, i) \/ OfDelayed(f, i) \/ OfHands(f, i)
  BY PlaceFacts
<1>. QED BY <1>1, <1>2, <1>3, <1>5, <1>6, <1>7, SocketPlace, DelayedPlace

LEMMA SomePlace ==
  ASSUME VInv, NEW i \in Ids
  PROVE  fate[i] = "waiting" <=> \E e : e \in Places(i)
<1>1. fate[i] = "waiting" <=> Somewhere(i, Box, Late, Hands)
  BY DEF VInv, Whole
<1>2. (\E s \in Sockets : i \in Box[s]) <=> \E e : OfSocket(e, i)
  BY DEF OfSocket, Box, Range
<1>3. (\E n \in Numbers : i \in Late[n]) <=> \E e : OfDelayed(e, i)
  <2>1. ASSUME NEW n \in Numbers, i \in Late[n] PROVE \E e : OfDelayed(e, i)
    <3>1. PICK k \in DOMAIN Recieve(n) : Recieve(n)[k].id = i
      BY <2>1 DEF Late, IdsOf
    <3>2. udpPorts[n] # None /\ Recieve(n) = udpPorts[n].recieve
      <4>1. DOMAIN <<>> = {}
        OBVIOUS
      <4>. QED BY <3>1, <4>1 DEF Recieve
    <3>3. OfDelayed(<<"delayed", n, k>>, i)
      BY <3>1, <3>2 DEF OfDelayed
    <3>. QED BY <3>3
  <2>2. ASSUME NEW e, OfDelayed(e, i) PROVE \E n \in Numbers : i \in Late[n]
    BY <2>2 DEF OfDelayed, Late, IdsOf, Recieve
  <2>. QED BY <2>1, <2>2
<1>4. i \in Hands <=> \E e : OfHands(e, i)
  <2>1. i # 0
    BY PortAssumption DEF Ids
  <2>. QED BY <2>1 DEF OfHands, Hands
<1>. QED BY <1>1, <1>2, <1>3, <1>4, PlaceFacts DEF Somewhere

LEMMA VInvImplies == VInv => NothingVanishes
<1>. SUFFICES ASSUME VInv PROVE NothingVanishes
  OBVIOUS
<1>1. ASSUME NEW i \in 1 .. MaxPackets
      PROVE  Cardinality(Places(i)) = IF fate[i] = "waiting" THEN 1 ELSE 0
  <2>1. i \in Ids
    BY DEF Ids
  <2>2. CASE fate[i] = "waiting"
    <3>1. PICK e : e \in Places(i)
      BY <2>1, <2>2, SomePlace
    <3>2. Places(i) = {e}
      BY <2>1, <3>1, OnePlace
    <3>. QED BY <2>2, <3>2, FS_Singleton
  <2>3. CASE fate[i] # "waiting"
    <3>1. Places(i) = {}
      BY <2>1, <2>3, SomePlace
    <3>. QED BY <2>3, <3>1, FS_EmptySet
  <2>. QED BY <2>2, <2>3
<1>2. Cardinality(Overwritten) <= Cardinality(waitedAtOff)
  <2>1. Bounded
    BY BoxFacts, SetsBounded DEF VInv
  <2>2. /\ Cardinality(waitedAtOff \ Waiting) <= Cardinality(waitedAtOff)
        /\ Cardinality(waitedAtOff \ Waiting) \in Nat /\ Cardinality(waitedAtOff) \in Nat
        /\ Cardinality(Overwritten) \in Nat
    BY <2>1, IdsFinite DEF Bounded
  <2>3. Cardinality(Overwritten) <= Cardinality(waitedAtOff \ Waiting)
    BY DEF VInv, Paid
  <2>. QED BY <2>2, <2>3
<1>. QED BY <1>1, <1>2 DEF NothingVanishes, Overwritten

\* Between the socket, the delayed packets and the caller nothing is lost and nothing
\* doubled, however the latency is set and the ports are opened and closed; what is copied
\* over because the latency was switched off is at most as much as was delayed when it was
\* (win_net.cpp, idPort::GetPacket).
THEOREM NothingVanishesAlways == Spec => []NothingVanishes
<1>. QED BY BegunWhole, WholeStep, VInvImplies, PTL DEF Spec

-----------------------------------------------------------------------------
(* idTCP.  Its object is the owner of a socket that is open. *)

TcpSpec == TcpInit /\ [][TcpNext]_tcpVars

Connections == [open : BOOLEAN, waiting : Nat, ended : BOOLEAN]

TcpTypeOK ==
  /\ fd \in Handles \cup {0}
  /\ conns \in [Handles -> Connections]
  /\ answer \in Int
  /\ tcpInits \in Nat /\ tcpReinits \in Nat

\* How many sockets are open can be counted, although winsock may have more handles
\* than can be.
TcpInv == TcpTypeOK /\ IsFiniteSet(OpenHandles) /\ TcpLeakIsExact

\* A step of the peer opens and closes nothing.
LEMMA SameOpenHandles ==
  ASSUME TcpTypeOK, NEW h \in Handles, NEW c \in Connections, c.open = conns[h].open,
         conns' = [conns EXCEPT ![h] = c]
  PROVE  conns' \in [Handles -> Connections] /\ OpenHandles' = OpenHandles
         /\ \A g \in Handles : conns'[g].open = conns[g].open
BY DEF TcpTypeOK, OpenHandles

\* Closing the socket of the object leaves the forgotten ones.
LEMMA CloseFdKeeps ==
  ASSUME TcpInv, fd # 0, CloseFd, tcpReinits' = tcpReinits
  PROVE  /\ fd' = 0 /\ conns' \in [Handles -> Connections]
         /\ IsFiniteSet(OpenHandles)' /\ TcpLeakIsExact'
<1>. USE TcpAssumption DEF TcpInv, TcpTypeOK
<1>1. fd \in Handles /\ fd' = 0 /\ conns' = [conns EXCEPT ![fd] = Unconnected]
  BY DEF CloseFd
<1>2. Unconnected \in Connections /\ ~Unconnected.open
  BY DEF Unconnected, Connections
<1>3. OpenHandles' = OpenHandles \ {fd} /\ fd \in OpenHandles
  BY <1>1, <1>2 DEF OpenHandles, TcpLeakIsExact
<1>4. /\ IsFiniteSet(OpenHandles')
      /\ Cardinality(OpenHandles') = Cardinality(OpenHandles) - 1
  BY <1>3, FS_RemoveElement
<1>5. Cardinality(OpenHandles) = tcpReinits + 1
  BY DEF TcpLeakIsExact
<1>. QED BY <1>1, <1>2, <1>4, <1>5 DEF TcpLeakIsExact

LEMMA TcpInitHolds == TcpInit => TcpInv
<1>. SUFFICES ASSUME TcpInit PROVE TcpInv
  OBVIOUS
<1>1. TcpTypeOK
  BY DEF TcpInit, TcpTypeOK, Unconnected, Connections, Silent
<1>2. OpenHandles = {}
  BY DEF TcpInit, OpenHandles, Unconnected
<1>. QED BY <1>1, <1>2, FS_EmptySet DEF TcpInv, TcpInit, TcpLeakIsExact, Silent

LEMMA TcpStepKeeps == TcpInv /\ [TcpNext]_tcpVars => TcpInv'
<1>. SUFFICES ASSUME TcpInv, [TcpNext]_tcpVars PROVE TcpInv'
  OBVIOUS
<1>. USE TcpAssumption DEF TcpInv, TcpTypeOK
<1>0. \A h \in Handles : conns[h] \in Connections /\ h # 0 /\ h \in Nat
  OBVIOUS
<1>1. ASSUME NEW h \in Handles, PeerSends(h) PROVE TcpInv'
  <2>1. conns' = [conns EXCEPT ![h] = [conns[h] EXCEPT !.waiting = @ + 1]]
    BY <1>1 DEF PeerSends
  <2>2. [conns[h] EXCEPT !.waiting = @ + 1] \in Connections
    BY <1>0 DEF Connections
  <2>3. [conns[h] EXCEPT !.waiting = @ + 1].open = conns[h].open
    BY <1>0 DEF Connections
  <2>. QED BY <1>1, <2>1, <2>2, <2>3, SameOpenHandles DEF PeerSends, TcpLeakIsExact
<1>2. ASSUME NEW h \in Handles, PeerCloses(h) PROVE TcpInv'
  <2>1. conns' = [conns EXCEPT ![h] = [conns[h] EXCEPT !.ended = TRUE]]
    BY <1>2 DEF PeerCloses
  <2>2. [conns[h] EXCEPT !.ended = TRUE] \in Connections
    BY <1>0 DEF Connections
  <2>3. [conns[h] EXCEPT !.ended = TRUE].open = conns[h].open
    BY <1>0 DEF Connections
  <2>. QED BY <1>2, <2>1, <2>2, <2>3, SameOpenHandles DEF PeerCloses, TcpLeakIsExact
<1>3. CASE TcpUnresolved
  BY <1>3 DEF TcpUnresolved, Counted, TcpLeakIsExact, OpenHandles
<1>4. CASE TcpInitFails
  <2>1. OpenHandles' = OpenHandles
    BY <1>4 DEF TcpInitFails, OpenHandles
  <2>. QED BY <1>4, <2>1 DEF TcpInitFails, Counted, Reinits, TcpLeakIsExact
<1>5. CASE TcpInitConnects
  <2>1. PICK h \in Handles \ OpenHandles :
          fd' = h /\ conns' = [conns EXCEPT ![h] = [Unconnected EXCEPT !.open = TRUE]]
    BY <1>5 DEF TcpInitConnects
  <2>2. [Unconnected EXCEPT !.open = TRUE] \in Connections
    BY DEF Unconnected, Connections
  <2>3. OpenHandles' = OpenHandles \cup {h}
    BY <2>1, <2>2 DEF OpenHandles, Unconnected
  <2>4. /\ IsFiniteSet(OpenHandles')
        /\ Cardinality(OpenHandles') = Cardinality(OpenHandles) + 1
    BY <2>1, <2>3, FS_AddElement
  <2>5. conns'[h].open
    BY <2>1, <2>2 DEF Unconnected
  <2>. QED BY <1>5, <2>1, <2>2, <2>4, <2>5
           DEF TcpInitConnects, Counted, Reinits, TcpLeakIsExact
<1>6. CASE TcpClose
  BY <1>6, CloseFdKeeps DEF TcpClose
<1>7. CASE NotInitialized
  BY <1>7 DEF NotInitialized, TcpLeakIsExact, OpenHandles
<1>8. CASE ReadBytes
  <2>1. PICK n \in 1 .. conns[fd].waiting :
          answer' = n /\ conns' = [conns EXCEPT ![fd] = [conns[fd] EXCEPT !.waiting = @ - n]]
    BY <1>8 DEF ReadBytes
  <2>2. fd \in Handles /\ conns[fd].waiting \in Nat
    BY <1>0, <1>8 DEF ReadBytes, Connections
  <2>3. [conns[fd] EXCEPT !.waiting = @ - n] \in Connections
    BY <1>0, <2>2 DEF Connections
  <2>4. [conns[fd] EXCEPT !.waiting = @ - n].open = conns[fd].open
    BY <1>0, <2>2 DEF Connections
  <2>5. /\ conns' \in [Handles -> Connections] /\ OpenHandles' = OpenHandles
        /\ \A h \in Handles : conns'[h].open = conns[h].open
    <3>. HIDE DEF TcpTypeOK
    <3>. QED BY <2>1, <2>2, <2>3, <2>4, SameOpenHandles
  <2>. QED BY <1>8, <2>1, <2>2, <2>5 DEF ReadBytes, TcpLeakIsExact
<1>9. CASE ReadWouldBlock
  BY <1>9 DEF ReadWouldBlock, TcpLeakIsExact, OpenHandles
<1>10. CASE ReadEnd
  <2>. QED BY <1>10 DEF ReadEnd, TcpLeakIsExact, OpenHandles
<1>11. CASE TcpFails
  BY <1>11, CloseFdKeeps DEF TcpFails
<1>12. CASE WriteBytes
  BY <1>12 DEF WriteBytes, TcpLeakIsExact, OpenHandles
<1>13. CASE UNCHANGED tcpVars
  BY <1>13 DEF tcpVars, TcpLeakIsExact, OpenHandles
<1>. QED BY <1>1, <1>2, <1>3, <1>4, <1>5, <1>6, <1>7, <1>8, <1>9, <1>10, <1>11, <1>12, <1>13
         DEF TcpNext

\* The sockets that are open are that of the object and those that Init forgot, however
\* many handles winsock has and however the calls fail.
THEOREM TcpLeakIsExactAlways == TcpSpec => []TcpLeakIsExact
<1>1. TcpInv => TcpLeakIsExact
  BY DEF TcpInv
<1>. QED BY TcpInitHolds, TcpStepKeeps, <1>1, PTL DEF TcpSpec

-----------------------------------------------------------------------------
(* NET_OpenSocks. *)

SocksSpec == SocksInit /\ [][SocksNext]_socksVars

\* What the server has granted when the client waits for the answer of a stage, and when
\* it uses the relay; and what an answer to the association is read over.
SocksInv ==
  /\ stage \in {"idle", "method", "auth", "associate"}
  /\ stage = "auth" => "method2" \in granted
  /\ stage = "associate" => "method0" \in granted \/ {"method2", "auth"} \subseteq granted
  /\ stage = "associate" => \A b \in Bytes : buf[b] = <<opens, "request">>
  /\ usingSocks => stage = "idle"
  /\ RelayIsGranted

LEMMA RequestFills ==
  ASSUME NEW bytes
  PROVE  \A b \in Bytes : Over(bytes, 10, "request")[b] = <<opens, "request">>
  BY DEF Over, Bytes

LEMMA OpeningKeeps ==
  ASSUME SocksInv, NET_OpenSocks \/ SocksNoSocket
  PROVE  SocksInv'
<1>1. usingSocks' = FALSE /\ stage' \in {"method", "idle"}
  BY DEF NET_OpenSocks, SocksNoSocket, SocksInv
<1> QED
  BY <1>1 DEF SocksInv, RelayIsGranted

LEMMA GivingUpKeeps ==
  ASSUME SocksInv, stage # "idle", stage' = "idle", usingSocks' = usingSocks
  PROVE  SocksInv'
  BY DEF SocksInv, RelayIsGranted

LEMMA SocksStepKeeps == SocksInv /\ [SocksNext]_socksVars => SocksInv'
<1>. SUFFICES ASSUME SocksInv, [SocksNext]_socksVars PROVE SocksInv'
  OBVIOUS
<1>1. CASE NET_OpenSocks \/ SocksNoSocket
  BY <1>1, OpeningKeeps
<1>2. CASE SocksFails
  BY <1>2, GivingUpKeeps DEF SocksFails, GiveUp
<1>3. ASSUME NEW a \in Answers, MethodAnswer(a) PROVE SocksInv'
  <2>1. CASE stage' = "idle"
    BY <1>3, <2>1, GivingUpKeeps DEF MethodAnswer
  <2>2. CASE stage' # "idle"
    <3>1. usingSocks' = FALSE /\ opens' = opens
      BY <1>3 DEF MethodAnswer, SocksInv
    <3>2. \/ stage' = "auth" /\ granted' = granted \cup {"method2"}
          \/ /\ stage' = "associate" /\ granted' = granted \cup {"method0"}
             /\ buf' = Over(Over(buf, a.len, "answer"), 10, "request")
      BY <1>3, <2>2 DEF MethodAnswer, GiveUp, AskWithName, AskForAssociation, Grants
    <3>3. stage' = "associate" => \A b \in Bytes : buf'[b] = <<opens', "request">>
      BY <3>1, <3>2, RequestFills
    <3> QED
      BY <3>1, <3>2, <3>3 DEF SocksInv, RelayIsGranted
  <2> QED
    BY <2>1, <2>2
<1>4. ASSUME NEW a \in Answers, AuthAnswer(a) PROVE SocksInv'
  <2>1. CASE stage' = "idle"
    BY <1>4, <2>1, GivingUpKeeps DEF AuthAnswer
  <2>2. CASE stage' # "idle"
    <3>1. usingSocks' = FALSE /\ opens' = opens /\ "method2" \in granted
      BY <1>4 DEF AuthAnswer, SocksInv
    <3>2. /\ stage' = "associate" /\ granted' = granted \cup {"auth"}
          /\ buf' = Over(Over(buf, a.len, "answer"), 10, "request")
      BY <1>4, <2>2 DEF AuthAnswer, GiveUp, AskForAssociation, Grants
    <3>3. \A b \in Bytes : buf'[b] = <<opens', "request">>
      BY <3>1, <3>2, RequestFills
    <3> QED
      BY <3>1, <3>2, <3>3 DEF SocksInv, RelayIsGranted
  <2> QED
    BY <2>1, <2>2
<1>5. ASSUME NEW a \in Answers, AssociateAnswer(a) PROVE SocksInv'
  <2>1. CASE usingSocks' = usingSocks
    BY <1>5, <2>1, GivingUpKeeps DEF AssociateAnswer, GiveUp, SocksInv
  <2>2. CASE usingSocks' # usingSocks
    <3>1. /\ stage' = "idle" /\ opens' = opens /\ granted' = granted \cup {"associate"}
          /\ socksRelayAddr' = [b \in 4..9 |-> Over(buf, a.len, "answer")[b]]
      BY <1>5, <2>2 DEF AssociateAnswer, GiveUp, Grants
    <3>2. \A b \in 4..9 : b \in Bytes /\ buf[b] = <<opens, "request">>
      BY <1>5 DEF AssociateAnswer, SocksInv, Bytes
    <3>3. \A b \in 4..9 : socksRelayAddr'[b] = <<opens', IF b < a.len THEN "answer" ELSE "request">>
      BY <3>1, <3>2 DEF Over
    <3>4. a.len \in {0, 2, 7, 10}
      BY DEF Answers
    <3>5. a.len \in 2..10
      BY <1>5, <2>2, <3>4 DEF AssociateAnswer, GiveUp
    <3>6. AddressOfThisConversation'
      BY <3>3, <3>5 DEF AddressOfThisConversation
    <3>7. Agreed'
      BY <1>5, <3>1 DEF AssociateAnswer, SocksInv, Agreed
    <3> QED
      BY <3>1, <3>6, <3>7 DEF SocksInv, RelayIsGranted
  <2> QED
    BY <2>1, <2>2
<1>6. CASE UNCHANGED socksVars
  BY <1>6 DEF socksVars, SocksInv, RelayIsGranted, Agreed, AddressOfThisConversation
<1>. QED BY <1>1, <1>2, <1>3, <1>4, <1>5, <1>6 DEF SocksNext

\* Datagrams go to a relay only by the grant of the server of this conversation, and to
\* an address that this conversation gave - the server's answer as far as it went, and
\* the program's own request behind it -, whatever the server and those before it
\* answered, and however many conversations there were.
THEOREM RelayIsGrantedAlways == SocksSpec => []RelayIsGranted
<1>1. SocksInit => SocksInv
  BY DEF SocksInit, SocksInv, RelayIsGranted
<1>2. SocksInv => RelayIsGranted
  BY DEF SocksInv
<1>. QED BY <1>1, <1>2, SocksStepKeeps, PTL DEF SocksSpec

-----------------------------------------------------------------------------
(* Sys_NetAdrToString. *)

TextsSpec == AddressIdle /\ [][TextsNext]_addressVars

Texts == [at : 0 .. 3, adr : Adrs]
NextBuffer(k) == IF k = 3 THEN 0 ELSE k + 1

\* Each text is in the buffer behind that of the text before, the newest before index.
TextsInv ==
  /\ index \in 0 .. 3
  /\ bufs \in [0 .. 3 -> Seq(Adrs)]
  /\ texts \in Seq(Texts) /\ Len(texts) <= 4
  /\ \A i \in 1 .. Len(texts) - 1 : texts[i + 1].at = NextBuffer(texts[i].at)
  /\ texts # <<>> => index = NextBuffer(texts[Len(texts)].at)
  /\ FourTextsLast

LEMMA LastThree ==
  \A n \in 0 .. 4 : \A i \in 1 .. n : (n = 4 => i # 1) => i \in {n, n - 1, n - 2}
OBVIOUS

LEMMA TailOfFive ==
  ASSUME NEW S, NEW s \in Seq(S), Len(s) = 5
  PROVE  /\ Tail(s) \in Seq(S) /\ Len(Tail(s)) = 4 /\ DOMAIN Tail(s) = 1 .. 4
         /\ \A i \in 1 .. 4 : Tail(s)[i] = s[i + 1]
<1>1. s # <<>>
  BY EmptySeq
<1>2. Tail(s) \in Seq(S) /\ Len(Tail(s)) = 4 /\ \A i \in 1 .. 4 : Tail(s)[i] = s[i + 1]
  <2>1. /\ Tail(s) \in Seq(S) /\ Len(Tail(s)) = Len(s) - 1
        /\ \A i \in 1 .. Len(Tail(s)) : Tail(s)[i] = s[i + 1]
    BY <1>1, HeadTailProperties
  <2>2. Len(s) - 1 = 4
    OBVIOUS
  <2>3. Len(Tail(s)) = 4
    BY <2>1, <2>2
  <2>4. 1 .. Len(Tail(s)) = 1 .. 4
    BY <2>3
  <2>5. \A i \in 1 .. 4 : Tail(s)[i] = s[i + 1]
    BY <2>1, <2>4, Zenon
  <2>. QED BY <2>1, <2>3, <2>5
<1>. QED BY <1>2, LenProperties

\* Of two texts of the four, neither is in the other's buffer, and the next call writes
\* the buffer of the one that is then forgotten.
LEMMA TextsStepKeeps == TextsInv /\ [TextsNext]_addressVars => TextsInv'
<1>. SUFFICES ASSUME TextsInv, [TextsNext]_addressVars PROVE TextsInv'
  OBVIOUS
<1>1. ASSUME NEW adr \in Adrs, Sys_NetAdrToString(adr) PROVE TextsInv'
  <2>. DEFINE new == [at |-> index, adr |-> adr]
              all == Append(texts, new)
  <2>1. /\ bufs' = IF adr.type \in {"loopback", "ip"} THEN [bufs EXCEPT ![index] = <<adr>>] ELSE bufs
        /\ index' = (index + 1) % 4
        /\ texts' = IF Len(all) > 4 THEN Tail(all) ELSE all
    BY <1>1 DEF Sys_NetAdrToString
  <2>. PICK n \in Nat : n = Len(texts)
    BY LenProperties DEF TextsInv
  <2>0. n \in 0 .. 4
    <3>1. texts \in Seq(Texts) /\ Len(texts) <= 4
      BY DEF TextsInv
    <3>. QED BY <3>1
  <2>2. /\ index \in 0 .. 3 /\ texts \in Seq(Texts) /\ DOMAIN texts = 1 .. n
        /\ \A i \in 1 .. n : texts[i] \in Texts
    BY LenProperties, ElementOfSeq DEF TextsInv
  <2>3. new \in Texts /\ new.at = index /\ new.adr = adr
    BY <2>2 DEF Texts
  <2>4. /\ all \in Seq(Texts) /\ Len(all) = n + 1 /\ all[n + 1] = new
        /\ \A i \in 1 .. n : all[i] = texts[i]
    BY <2>2, <2>3
  <2>. HIDE DEF new, all
  <2>5. index' = NextBuffer(index)
    BY <2>1, <2>2 DEF NextBuffer
  <2>6. \A i \in 1 .. n : texts[i].at \in 0 .. 3
    BY <2>2 DEF Texts
  <2>7. \A i \in 1 .. n : (n = 4 => i # 1) => texts[i].at # index
    <3>1. \A i \in 1 .. n - 1 : texts[i + 1].at = NextBuffer(texts[i].at)
      BY DEF TextsInv
    <3>2. n > 0 => index = NextBuffer(texts[n].at)
      BY <2>2 DEF TextsInv
    <3>3. n > 1 => texts[n].at = NextBuffer(texts[n - 1].at)
      BY <2>2, <3>1
    <3>4. n > 2 => texts[n - 1].at = NextBuffer(texts[n - 2].at)
      BY <2>2, <3>1
    <3>5. ASSUME NEW i \in 1 .. n, n = 4 => i # 1 PROVE texts[i].at # index
      <4>1. i = n \/ i = n - 1 \/ i = n - 2
        BY <2>0, <3>5, LastThree
      <4>2. CASE i = n
        BY <2>6, <3>2, <4>2 DEF NextBuffer
      <4>3. CASE i = n - 1
        <5>1. n \in 1 .. n /\ n > 1
          BY <2>0, <4>3
        <5>. QED BY <2>6, <3>2, <3>3, <4>3, <5>1 DEF NextBuffer
      <4>4. CASE i = n - 2
        <5>1. n \in 1 .. n /\ n - 1 \in 1 .. n /\ n > 2
          BY <2>0, <4>4
        <5>. QED BY <2>6, <3>2, <3>3, <3>4, <4>4, <5>1 DEF NextBuffer
      <4>. QED BY <4>1, <4>2, <4>3, <4>4
    <3>. QED BY <3>5
  <2>8. bufs' \in [0 .. 3 -> Seq(Adrs)]
    BY <2>1, <2>2 DEF TextsInv
  <2>9. adr.type # "bad" => bufs'[index] = <<adr>>
    BY <2>1, <2>2 DEF TextsInv, Adrs
  <2>10. \A i \in 1 .. n : (n = 4 => i # 1) => bufs'[texts[i].at] = bufs[texts[i].at]
    BY <2>1, <2>2, <2>6, <2>7 DEF TextsInv
  <2>11. \A i \in 1 .. n : texts[i].adr.type # "bad" => bufs[texts[i].at] = <<texts[i].adr>>
    BY <2>2 DEF FourTextsLast, TextsInv
  <2>12. \A i \in 1 .. n + 1 :
           (n = 4 => i # 1) /\ all[i].adr.type # "bad" => bufs'[all[i].at] = <<all[i].adr>>
    <3>1. \A i \in 1 .. n : (n = 4 => i # 1) /\ texts[i].adr.type # "bad" =>
            bufs'[texts[i].at] = <<texts[i].adr>>
      BY <2>10, <2>11
    <3>2. \A i \in 1 .. n + 1 : i \in 1 .. n \/ i = n + 1
      BY <2>2
    <3>. QED BY <2>3, <2>4, <2>9, <3>1, <3>2
  <2>13. /\ \A i \in 1 .. n : all[i + 1].at = NextBuffer(all[i].at)
         /\ index' = NextBuffer(all[n + 1].at)
    <3>1. \A i \in 1 .. n - 1 : all[i + 1].at = NextBuffer(all[i].at)
      <4>1. \A i \in 1 .. n - 1 : texts[i + 1].at = NextBuffer(texts[i].at)
        BY DEF TextsInv
      <4>2. \A i \in 1 .. n - 1 : i \in 1 .. n /\ i + 1 \in 1 .. n
        BY <2>2
      <4>. QED BY <2>4, <4>1, <4>2
    <3>2. n > 0 => all[n + 1].at = NextBuffer(all[n].at)
      BY <2>2, <2>3, <2>4 DEF TextsInv
    <3>. QED BY <2>2, <2>3, <2>4, <2>5, <3>1, <3>2
  <2>14. index' \in 0 .. 3
    BY <2>2, <2>5 DEF NextBuffer
  <2>15. CASE n < 4
    <3>1. texts' = all /\ DOMAIN texts' = 1 .. Len(texts') /\ Len(texts') = n + 1
      BY <2>1, <2>2, <2>4, <2>15
    <3>2. FourTextsLast'
      BY <2>2, <2>12, <2>15, <3>1 DEF FourTextsLast
    <3>3. texts' \in Seq(Texts) /\ Len(texts') <= 4
      BY <2>2, <2>4, <2>15, <3>1
    <3>4. \A i \in 1 .. Len(texts') - 1 : texts'[i + 1].at = NextBuffer(texts'[i].at)
      <4>1. \A i \in 1 .. Len(texts') - 1 : i \in 1 .. n
        BY <2>15, <3>1
      <4>. QED BY <2>13, <3>1, <4>1
    <3>5. index' = NextBuffer(texts'[Len(texts')].at)
      BY <2>13, <3>1
    <3>. QED BY <2>8, <2>14, <3>2, <3>3, <3>4, <3>5 DEF TextsInv
  <2>16. CASE n = 4
    <3>1. /\ texts' = Tail(all) /\ Len(all) = 5
      BY <2>1, <2>4, <2>16
    <3>2. /\ texts' \in Seq(Texts) /\ Len(texts') = 4 /\ DOMAIN texts' = 1 .. 4
          /\ \A i \in 1 .. 4 : texts'[i] = all[i + 1]
      BY <2>4, <3>1, TailOfFive
    <3>3. FourTextsLast'
      <4>1. \A i \in 1 .. 4 : i + 1 \in 1 .. n + 1 /\ i + 1 # 1
        BY <2>0, <2>16
      <4>2. \A i \in 1 .. 4 : all[i + 1].adr.type # "bad" => bufs'[all[i + 1].at] = <<all[i + 1].adr>>
        BY <2>12, <4>1
      <4>. QED BY <3>2, <4>2 DEF FourTextsLast
    <3>4. \A i \in 1 .. 3 : texts'[i + 1].at = NextBuffer(texts'[i].at)
      <4>1. \A i \in 1 .. 3 : i + 1 \in 1 .. n /\ i \in 1 .. 4 /\ i + 1 \in 1 .. 4
        BY <2>16
      <4>. QED BY <2>13, <3>2, <4>1
    <3>5. index' = NextBuffer(texts'[4].at)
      BY <2>13, <2>16, <3>2
    <3>. QED BY <2>8, <2>14, <3>2, <3>3, <3>4, <3>5 DEF TextsInv
  <2>. QED BY <2>0, <2>15, <2>16
<1>2. CASE UNCHANGED addressVars
  BY <1>2 DEF addressVars, textVars, TextsInv, FourTextsLast
<1>. QED BY <1>1, <1>2 DEF TextsNext

\* The four newest texts are all there, whatever addresses they are of and however many
\* calls there were before.
THEOREM FourTextsLastAlways == TextsSpec => []FourTextsLast
<1>1. AddressIdle => TextsInv
  BY DEF AddressIdle, TextsInv, FourTextsLast
<1>2. TextsInv => FourTextsLast
  BY DEF TextsInv
<1>. QED BY <1>1, <1>2, TextsStepKeeps, PTL DEF TextsSpec

-----------------------------------------------------------------------------
(* The local interfaces. *)

InterfacesSpec == AddressInit /\ [][InterfacesNext]_addressVars

\* What has been looked at is recorded, with its mask; the table has room while
\* the scan goes on.
Scanned == Len(listed) - Len(todo)
Recorded(n) == /\ Len(netint) = Cardinality(Masked(n)) /\ Len(netint) <= MaxInterfaces
               /\ {netint[i] : i \in DOMAIN netint} = {listed[i].net : i \in Masked(n)}
ListInv ==
  /\ listed \in Seq(Listed) /\ todo \in Seq(Listed) /\ netint \in Seq(Nets \cup {Loopback})
  /\ Len(todo) <= Len(listed)
  /\ \A i \in 1..Len(todo) : todo[i] = listed[Scanned + i]
  /\ initState = "scan" =>
       /\ Recorded(Scanned) /\ Len(netint) < MaxInterfaces
       /\ foundloopback <=> \E i \in 1..Scanned : listed[i].net = Loopback
  /\ LANIsWhatIsListed

LEMMA MaskedCounts ==
  ASSUME listed \in Seq(Listed), NEW n \in 0..Len(listed)
  PROVE  /\ IsFiniteSet(Masked(n)) /\ Cardinality(Masked(n)) \in Nat
         /\ Masked(0) = {} /\ Cardinality(Masked(0)) = 0
<1>1. Masked(n) \subseteq 1..n /\ n \in Nat
  BY DEF Masked
<1>2. IsFiniteSet(1..n)
  BY <1>1, FS_Interval
<1>3. Masked(0) = {}
  BY DEF Masked
<1> QED
  BY <1>1, <1>2, <1>3, FS_Subset, FS_CardinalityType, FS_EmptySet

LEMMA MaskedGrows ==
  ASSUME listed \in Seq(Listed), NEW m \in 0..Len(listed), NEW n \in 0..Len(listed), m <= n
  PROVE  /\ Masked(m) \subseteq Masked(n) /\ Cardinality(Masked(m)) <= Cardinality(Masked(n))
         /\ \A i \in Masked(n) : i > m => Cardinality(Masked(m)) < Cardinality(Masked(n))
<1>1. Masked(m) \subseteq Masked(n)
  BY DEF Masked
<1>2. Cardinality(Masked(m)) <= Cardinality(Masked(n))
  BY <1>1, MaskedCounts, FS_Subset
<1>3. ASSUME NEW i \in Masked(n), i > m PROVE Cardinality(Masked(m)) < Cardinality(Masked(n))
  <2>1. i \notin Masked(m)
    BY <1>3 DEF Masked
  <2> QED
    BY <1>1, <1>3, <2>1, MaskedCounts, FS_Subset
<1> QED
  BY <1>1, <1>2, <1>3

LEMMA MaskedNext ==
  ASSUME listed \in Seq(Listed), NEW n \in 0..Len(listed) - 1
  PROVE  /\ listed[n + 1].nullMask => Masked(n + 1) = Masked(n)
         /\ ~listed[n + 1].nullMask => /\ Masked(n + 1) = Masked(n) \cup {n + 1}
                                       /\ Cardinality(Masked(n + 1)) = Cardinality(Masked(n)) + 1
<1>0. Len(listed) \in Nat
  BY LenProperties
<1>1. ASSUME listed[n + 1].nullMask PROVE Masked(n + 1) = Masked(n)
  BY <1>0, <1>1 DEF Masked
<1>2. ASSUME ~listed[n + 1].nullMask PROVE Masked(n + 1) = Masked(n) \cup {n + 1}
  BY <1>0, <1>2 DEF Masked
<1>3. n + 1 \notin Masked(n) /\ IsFiniteSet(Masked(n))
  BY <1>0, MaskedCounts DEF Masked
<1>4. ASSUME ~listed[n + 1].nullMask PROVE Cardinality(Masked(n + 1)) = Cardinality(Masked(n)) + 1
  BY <1>2, <1>3, <1>4, FS_AddElement
<1> QED
  BY <1>1, <1>2, <1>4

\* The scan is over when the table is full, or when nothing is left to look at; then
\* the loopback is added if it was not listed.
Full == \E n \in 0..Len(listed) :
          listed \in Seq(Listed) /\ Recorded(n) /\ Cardinality(Masked(n)) = MaxInterfaces
Complete ==
  /\ listed \in Seq(Listed) /\ Len(netint) <= MaxInterfaces
  /\ Cardinality(Masked(Len(listed))) < MaxInterfaces
  /\ \A net : (\E i \in DOMAIN netint : netint[i] = net) <=>
               \/ \E i \in Masked(Len(listed)) : listed[i].net = net
               \/ net = Loopback /\ \A i \in DOMAIN listed : listed[i].net # Loopback

LEMMA FullIsKept == Full => LANIsWhatIsListed
<1> SUFFICES ASSUME listed \in Seq(Listed), NEW n \in 0..Len(listed), Recorded(n),
                    Cardinality(Masked(n)) = MaxInterfaces
             PROVE  LANIsWhatIsListed
  BY DEF Full
<1> DEFINE N == Len(listed)  kept == {i \in Masked(N) : Cardinality(Masked(i - 1)) < MaxInterfaces}
<1>1. N \in Nat /\ n \in 0..N /\ MaxInterfaces \in Nat
  BY LenProperties, NetAddressAssumption
<1>2. kept = Masked(n)
  <2>1. ASSUME NEW i \in Masked(n) PROVE i \in kept
    <3>1. i \in 1..n /\ i - 1 \in 0..N /\ i > i - 1 /\ i - 1 <= n
      BY <1>1, <2>1 DEF Masked
    <3>2. Cardinality(Masked(i - 1)) < Cardinality(Masked(n))
      BY <1>1, <3>1, MaskedGrows
    <3>3. i \in Masked(N)
      BY <1>1, MaskedGrows
    <3> QED
      BY <3>2, <3>3
  <2>2. ASSUME NEW i \in kept PROVE i \in Masked(n)
    <3>1. i \in 1..N /\ i - 1 \in 0..N
      BY <1>1 DEF Masked
    <3>2. ASSUME i > n PROVE FALSE
      <4>1. n <= i - 1
        BY <1>1, <3>1, <3>2
      <4>2. Cardinality(Masked(n)) <= Cardinality(Masked(i - 1))
        BY <1>1, <3>1, <4>1, MaskedGrows
      <4>3. Cardinality(Masked(i - 1)) \in Nat /\ Cardinality(Masked(i - 1)) < MaxInterfaces
        BY <3>1, MaskedCounts
      <4> QED
        BY <1>1, <4>2, <4>3
    <3> QED
      BY <1>1, <3>1, <3>2 DEF Masked
  <2> QED
    BY <2>1, <2>2
<1>3. ~(Cardinality(Masked(N)) < MaxInterfaces)
  BY <1>1, MaskedGrows, MaskedCounts
<1>4. \A net : (\E i \in DOMAIN netint : netint[i] = net) <=> (\E i \in Masked(n) : listed[i].net = net)
  <2>1. {netint[i] : i \in DOMAIN netint} = {listed[i].net : i \in Masked(n)}
    BY DEF Recorded
  <2> HIDE DEF kept
  <2>2. ASSUME NEW net PROVE (\E i \in DOMAIN netint : netint[i] = net) <=> net \in {netint[i] : i \in DOMAIN netint}
    OBVIOUS
  <2>3. ASSUME NEW net PROVE (\E i \in Masked(n) : listed[i].net = net) <=> net \in {listed[i].net : i \in Masked(n)}
    OBVIOUS
  <2> QED
    BY <2>1, <2>2, <2>3
<1>5. Len(netint) <= MaxInterfaces
  BY DEF Recorded
<1> HIDE DEF N
<1> QED
  BY <1>2, <1>3, <1>4, <1>5 DEF LANIsWhatIsListed, Sys_IsLANAddress, N

LEMMA CompleteIsKept == Complete => LANIsWhatIsListed
<1> SUFFICES ASSUME Complete PROVE LANIsWhatIsListed
  OBVIOUS
<1> DEFINE N == Len(listed)  kept == {i \in Masked(N) : Cardinality(Masked(i - 1)) < MaxInterfaces}
<1>1. N \in Nat /\ N \in 0..N /\ MaxInterfaces \in Nat /\ listed \in Seq(Listed)
  BY LenProperties, NetAddressAssumption DEF Complete
<1>2. kept = Masked(N)
  <2>1. ASSUME NEW i \in Masked(N) PROVE Cardinality(Masked(i - 1)) < MaxInterfaces
    <3>1. i \in 1..N /\ i - 1 \in 0..N /\ i - 1 <= N
      BY <1>1 DEF Masked
    <3>2. Cardinality(Masked(i - 1)) <= Cardinality(Masked(N))
      BY <1>1, <3>1, MaskedGrows
    <3>3. Cardinality(Masked(i - 1)) \in Nat /\ Cardinality(Masked(N)) \in Nat
      BY <1>1, <3>1, MaskedCounts
    <3> QED
      BY <1>1, <3>2, <3>3 DEF Complete
  <2> QED
    BY <2>1
<1>3. /\ Len(netint) <= MaxInterfaces /\ Cardinality(Masked(N)) < MaxInterfaces
      /\ \A net : (\E i \in DOMAIN netint : netint[i] = net) <=>
                   \/ \E i \in Masked(N) : listed[i].net = net
                   \/ net = Loopback /\ \A i \in DOMAIN listed : listed[i].net # Loopback
  BY DEF Complete
<1> HIDE DEF N
<1> QED
  BY <1>2, <1>3 DEF LANIsWhatIsListed, Sys_IsLANAddress, N

LEMMA ListInitHolds == AddressInit => ListInv
<1> SUFFICES ASSUME AddressInit PROVE ListInv
  OBVIOUS
<1>1. PICK n \in 0..MaxAdapters : listed \in [1..n -> Listed]
  BY DEF AddressInit
<1>2. listed \in Seq(Listed) /\ Len(listed) = n /\ n \in Nat
  <2>1. n \in Nat
    BY NetAddressAssumption
  <2> QED
    BY <1>1, <2>1, SeqDef, LenProperties
<1>3. todo = listed /\ netint = <<>> /\ foundloopback = FALSE /\ initState = "scan" /\ Len(netint) = 0
  BY DEF AddressInit
<1>4. Scanned = 0
  BY <1>2, <1>3 DEF Scanned
<1>5. Recorded(Scanned)
  <2>1. Masked(0) = {} /\ Cardinality(Masked(0)) = 0
    BY <1>2, MaskedCounts
  <2>2. DOMAIN netint = {}
    BY <1>3
  <2> QED
    BY <1>3, <1>4, <2>1, <2>2, NetAddressAssumption DEF Recorded
<1>6. Len(netint) < MaxInterfaces
  BY <1>3, NetAddressAssumption
<1>7. foundloopback <=> \E i \in 1..Scanned : listed[i].net = Loopback
  BY <1>3, <1>4
<1>8. netint \in Seq(Nets \cup {Loopback})
  BY <1>3
<1>9. \A i \in 1..Len(todo) : todo[i] = listed[Scanned + i]
  BY <1>2, <1>3, <1>4
<1>10. LANIsWhatIsListed
  BY <1>3 DEF LANIsWhatIsListed
<1> QED
  BY <1>2, <1>3, <1>5, <1>6, <1>7, <1>8, <1>9, <1>10 DEF ListInv

\* Looking at one more address.
LEMMA OneLookedAt ==
  ASSUME ListInv, todo # <<>>, initState = "scan", todo' = Tail(todo), listed' = listed
  PROVE  /\ Scanned \in 0..Len(listed) - 1 /\ Scanned' = Scanned + 1
         /\ Head(todo) = listed[Scanned + 1]
         /\ todo' \in Seq(Listed) /\ Len(todo') <= Len(listed')
         /\ \A i \in 1..Len(todo') : todo'[i] = listed'[Scanned' + i]
<1>1. /\ listed \in Seq(Listed) /\ todo \in Seq(Listed) /\ Len(todo) \in Nat /\ Len(listed) \in Nat
      /\ Len(todo) <= Len(listed) /\ Len(todo) > 0
  BY LenProperties, EmptySeq DEF ListInv
<1>2. /\ Tail(todo) \in Seq(Listed) /\ Len(Tail(todo)) = Len(todo) - 1 /\ Head(todo) = todo[1]
      /\ \A i \in 1..Len(Tail(todo)) : Tail(todo)[i] = todo[i + 1]
  BY <1>1, HeadTailProperties
<1>3. Scanned \in 0..Len(listed) - 1 /\ Scanned' = Scanned + 1
  BY <1>1, <1>2 DEF Scanned
<1>4. \A i \in 1..Len(todo) : todo[i] = listed[Scanned + i]
  BY DEF ListInv
<1>5. ASSUME NEW i \in 1..Len(todo') PROVE todo'[i] = listed'[Scanned' + i]
  <2>1. i \in 1..Len(Tail(todo)) /\ i + 1 \in 1..Len(todo) /\ (Scanned + 1) + i = Scanned + (i + 1)
    BY <1>1, <1>2, <1>3
  <2>2. todo'[i] = listed[Scanned + (i + 1)]
    BY <1>2, <1>4, <2>1
  <2> QED
    BY <1>3, <2>1, <2>2
<1> QED
  BY <1>1, <1>2, <1>3, <1>4, <1>5

LEMMA ScannedOneMore ==
  ASSUME NEW n \in Nat, foundloopback' = (foundloopback \/ listed[n + 1].net = Loopback),
         foundloopback <=> \E i \in 1..n : listed[i].net = Loopback
  PROVE  foundloopback' <=> \E i \in 1..n + 1 : listed[i].net = Loopback
<1>1. 1..n + 1 = (1..n) \cup {n + 1}
  OBVIOUS
<1> QED
  BY <1>1

LEMMA SkipOK ==
  ASSUME ListInv, SkipNullMask
  PROVE  ListInv'
<1>1. /\ initState = "scan" /\ todo # <<>> /\ todo' = Tail(todo) /\ listed' = listed /\ netint' = netint
      /\ initState' = initState /\ Head(todo).nullMask
      /\ foundloopback' = (foundloopback \/ Head(todo).net = Loopback)
  BY DEF SkipNullMask
<1>2. PICK n : n = Scanned
  OBVIOUS
<1>3. /\ n \in 0..Len(listed) - 1 /\ Scanned' = n + 1 /\ Head(todo) = listed[n + 1]
      /\ todo' \in Seq(Listed) /\ Len(todo') <= Len(listed')
      /\ \A i \in 1..Len(todo') : todo'[i] = listed'[Scanned' + i]
  BY <1>1, <1>2, OneLookedAt
<1>4. /\ listed \in Seq(Listed) /\ netint \in Seq(Nets \cup {Loopback}) /\ Len(listed) \in Nat
      /\ Recorded(n) /\ Len(netint) < MaxInterfaces
      /\ foundloopback <=> \E i \in 1..n : listed[i].net = Loopback
  BY <1>1, <1>2, LenProperties DEF ListInv
<1>5. Masked(n + 1) = Masked(n) /\ Masked(n + 1)' = Masked(n + 1)
  BY <1>1, <1>3, <1>4, MaskedNext DEF Masked
<1>6. Recorded(n + 1)'
  <2>1. Len(netint') = Cardinality(Masked(n + 1)') /\ Len(netint') <= MaxInterfaces
    BY <1>1, <1>4, <1>5 DEF Recorded
  <2>2. {netint[i] : i \in DOMAIN netint} = {listed[i].net : i \in Masked(n + 1)}
    BY <1>4, <1>5 DEF Recorded
  <2>3. {netint'[i] : i \in DOMAIN netint'} = {listed'[i].net : i \in Masked(n + 1)'}
    <3>1. {netint'[i] : i \in DOMAIN netint'} = {netint[i] : i \in DOMAIN netint}
      BY <1>1
    <3>2. {listed'[i].net : i \in Masked(n + 1)'} = {listed[i].net : i \in Masked(n + 1)}
      BY <1>1, <1>5
    <3> QED
      BY <2>2, <3>1, <3>2
  <2> QED
    BY <2>1, <2>3 DEF Recorded
<1>7. foundloopback' <=> \E i \in 1..n + 1 : listed'[i].net = Loopback
  <2>1. n \in Nat /\ foundloopback' = (foundloopback \/ listed[n + 1].net = Loopback)
    BY <1>1, <1>3, <1>4
  <2>2. foundloopback' <=> \E i \in 1..n + 1 : listed[i].net = Loopback
    BY <1>4, <2>1, ScannedOneMore
  <2> QED
    BY <1>1, <2>2
<1>8. LANIsWhatIsListed'
  BY <1>1 DEF LANIsWhatIsListed
<1> QED
  BY <1>1, <1>3, <1>4, <1>6, <1>7, <1>8 DEF ListInv

LEMMA RecordOK ==
  ASSUME ListInv, Record
  PROVE  ListInv'
<1>1. /\ initState = "scan" /\ todo # <<>> /\ todo' = Tail(todo) /\ listed' = listed
      /\ netint' = Append(netint, Head(todo).net) /\ ~Head(todo).nullMask
      /\ foundloopback' = (foundloopback \/ Head(todo).net = Loopback)
      /\ initState' = IF Len(netint') >= MaxInterfaces THEN "done" ELSE "scan"
  BY DEF Record
<1>2. PICK n : n = Scanned
  OBVIOUS
<1>3. /\ n \in 0..Len(listed) - 1 /\ Scanned' = n + 1 /\ Head(todo) = listed[n + 1]
      /\ todo' \in Seq(Listed) /\ Len(todo') <= Len(listed')
      /\ \A i \in 1..Len(todo') : todo'[i] = listed'[Scanned' + i]
  BY <1>1, <1>2, OneLookedAt
<1>4. /\ listed \in Seq(Listed) /\ netint \in Seq(Nets \cup {Loopback}) /\ Len(listed) \in Nat
      /\ Recorded(n) /\ Len(netint) < MaxInterfaces /\ Len(netint) \in Nat /\ MaxInterfaces \in Nat
      /\ foundloopback <=> \E i \in 1..n : listed[i].net = Loopback
  BY <1>1, <1>2, LenProperties, NetAddressAssumption DEF ListInv
<1>5. /\ Masked(n + 1) = Masked(n) \cup {n + 1} /\ Masked(n + 1)' = Masked(n + 1)
      /\ Cardinality(Masked(n + 1)) = Cardinality(Masked(n)) + 1
  BY <1>1, <1>3, <1>4, MaskedNext DEF Masked
<1> DEFINE net == listed[n + 1].net
<1>6. /\ net \in Nets \cup {Loopback} /\ netint' = Append(netint, net)
      /\ netint' \in Seq(Nets \cup {Loopback}) /\ Len(netint') = Len(netint) + 1
      /\ DOMAIN netint' = DOMAIN netint \cup {Len(netint) + 1} /\ netint'[Len(netint) + 1] = net
      /\ \A i \in DOMAIN netint : netint'[i] = netint[i]
  <2>1. net \in Nets \cup {Loopback}
    <3>1. listed[n + 1] \in Listed
      BY <1>3, <1>4, ElementOfSeq
    <3> QED
      BY <3>1 DEF Listed
  <2> HIDE DEF net
  <2>2. netint' = Append(netint, net)
    BY <1>1, <1>3 DEF net
  <2>3. /\ netint' \in Seq(Nets \cup {Loopback}) /\ Len(netint') = Len(netint) + 1
        /\ DOMAIN netint = 1..Len(netint) /\ DOMAIN netint' = 1..Len(netint) + 1
    BY <1>4, <2>1, <2>2, AppendProperties, LenProperties
  <2>4. netint'[Len(netint) + 1] = net /\ \A i \in 1..Len(netint) : netint'[i] = netint[i]
    BY <1>4, <2>1, <2>2, AppendProperties
  <2> QED
    BY <1>4, <2>1, <2>2, <2>3, <2>4
<1>7. Recorded(n + 1)'
  <2>1. Len(netint') = Cardinality(Masked(n + 1)) /\ Len(netint') <= MaxInterfaces
    BY <1>4, <1>5, <1>6 DEF Recorded
  <2>2. {netint[i] : i \in DOMAIN netint} = {listed[i].net : i \in Masked(n)}
    BY <1>4 DEF Recorded
  <2>3. {netint'[i] : i \in DOMAIN netint'} = {netint[i] : i \in DOMAIN netint} \cup {net}
    BY <1>6
  <2>4. {listed[i].net : i \in Masked(n + 1)} = {listed[i].net : i \in Masked(n)} \cup {net}
    BY <1>5
  <2>5. {netint'[i] : i \in DOMAIN netint'} = {listed'[i].net : i \in Masked(n + 1)}
    BY <1>1, <2>2, <2>3, <2>4
  <2> QED
    BY <1>5, <2>1, <2>5 DEF Recorded
<1>8. foundloopback' <=> \E i \in 1..n + 1 : listed'[i].net = Loopback
  BY <1>1, <1>3, <1>4, ScannedOneMore
<1>9. LANIsWhatIsListed'
  <2>1. CASE initState' = "scan"
    BY <2>1 DEF LANIsWhatIsListed
  <2>2. CASE initState' = "done"
    <3>1. Len(netint') = MaxInterfaces
      BY <1>1, <1>4, <1>6, <2>2
    <3>2. Cardinality(Masked(n + 1))' = MaxInterfaces
      BY <1>7, <3>1 DEF Recorded
    <3>3. n + 1 \in 0..Len(listed') /\ listed' \in Seq(Listed)
      BY <1>1, <1>3, <1>4
    <3>4. Full'
      BY <1>7, <3>2, <3>3 DEF Full
    <3> QED
      BY <3>4, FullIsKept, PTL
  <2> QED
    BY <1>1, <2>1, <2>2
<1>10. initState' = "scan" => Len(netint') < MaxInterfaces
  BY <1>1, <1>4, <1>6
<1> QED
  BY <1>1, <1>3, <1>4, <1>6, <1>7, <1>8, <1>9, <1>10 DEF ListInv

LEMMA AddLoopbackOK ==
  ASSUME ListInv, AddLoopback
  PROVE  ListInv'
<1>1. /\ initState = "scan" /\ todo = <<>> /\ todo' = todo /\ listed' = listed
      /\ netint' = IF foundloopback THEN netint ELSE Append(netint, Loopback)
      /\ foundloopback' = foundloopback /\ initState' = "done"
  BY DEF AddLoopback
<1>2. PICK N : N = Len(listed)
  OBVIOUS
<1>3. /\ listed \in Seq(Listed) /\ netint \in Seq(Nets \cup {Loopback}) /\ N \in Nat /\ Scanned = N
      /\ Recorded(N) /\ Len(netint) < MaxInterfaces /\ Len(netint) \in Nat /\ MaxInterfaces \in Nat
      /\ foundloopback <=> \E i \in 1..N : listed[i].net = Loopback
      /\ DOMAIN listed = 1..N /\ DOMAIN netint = 1..Len(netint)
  <2>1. listed \in Seq(Listed) /\ netint \in Seq(Nets \cup {Loopback})
    BY DEF ListInv
  <2>2. N \in Nat /\ DOMAIN listed = 1..N /\ DOMAIN netint = 1..Len(netint) /\ Len(netint) \in Nat
    BY <1>2, <2>1, LenProperties
  <2>3. Scanned = N
    BY <1>1, <1>2, <2>2 DEF Scanned
  <2> QED
    BY <1>1, <2>1, <2>2, <2>3, NetAddressAssumption DEF ListInv
<1>4. /\ netint' \in Seq(Nets \cup {Loopback}) /\ Len(netint') <= MaxInterfaces
      /\ \A net : (\E i \in DOMAIN netint' : netint'[i] = net) <=>
                   \/ \E i \in DOMAIN netint : netint[i] = net
                   \/ net = Loopback /\ ~foundloopback
  <2>1. CASE foundloopback
    BY <1>1, <1>3, <2>1
  <2>2. CASE ~foundloopback
    <3>1. netint' = Append(netint, Loopback) /\ Loopback \in Nets \cup {Loopback}
      BY <1>1, <2>2
    <3>2. /\ netint' \in Seq(Nets \cup {Loopback}) /\ Len(netint') = Len(netint) + 1
          /\ DOMAIN netint' = 1..Len(netint) + 1
      BY <1>3, <3>1, AppendProperties, LenProperties
    <3>3. netint'[Len(netint) + 1] = Loopback /\ \A i \in 1..Len(netint) : netint'[i] = netint[i]
      BY <1>3, <3>1, AppendProperties
    <3>4. DOMAIN netint' = DOMAIN netint \cup {Len(netint) + 1}
      BY <1>3, <3>2
    <3>5. Len(netint') <= MaxInterfaces
      BY <1>3, <3>2
    <3> QED
      BY <1>3, <2>2, <3>2, <3>3, <3>4, <3>5
  <2> QED
    BY <2>1, <2>2
<1>5. Masked(N)' = Masked(N) /\ Cardinality(Masked(N)) < MaxInterfaces
  BY <1>1, <1>3 DEF Masked, Recorded
<1>6. \A net : (\E i \in DOMAIN netint : netint[i] = net) <=> (\E i \in Masked(N) : listed[i].net = net)
  <2>1. {netint[i] : i \in DOMAIN netint} = {listed[i].net : i \in Masked(N)}
    BY <1>3 DEF Recorded
  <2>2. ASSUME NEW net PROVE (\E i \in DOMAIN netint : netint[i] = net) <=> net \in {netint[i] : i \in DOMAIN netint}
    OBVIOUS
  <2>3. ASSUME NEW net PROVE (\E i \in Masked(N) : listed[i].net = net) <=> net \in {listed[i].net : i \in Masked(N)}
    OBVIOUS
  <2> QED
    BY <2>1, <2>2, <2>3
<1>7. ~foundloopback <=> \A i \in DOMAIN listed : listed[i].net # Loopback
  BY <1>3
<1>8. Masked(Len(listed))' = Masked(N)
  BY <1>1, <1>2 DEF Masked
<1>9. Complete'
  BY <1>1, <1>3, <1>4, <1>5, <1>6, <1>7, <1>8 DEF Complete
<1>10. LANIsWhatIsListed'
  BY <1>9, CompleteIsKept, PTL
<1> QED
  BY <1>1, <1>3, <1>4, <1>10 DEF ListInv, Scanned

LEMMA NoAdaptersOK ==
  ASSUME ListInv, NoAdapters
  PROVE  ListInv'
<1>1. /\ initState = "scan" /\ todo = listed /\ todo' = <<>> /\ listed' = <<>> /\ netint' = netint
      /\ foundloopback' = foundloopback /\ initState' = initState
  BY DEF NoAdapters
<1>2. Scanned = 0 /\ Scanned' = 0
  BY <1>1, LenProperties DEF Scanned, ListInv
<1>3. Recorded(0) /\ (foundloopback <=> \E i \in 1..0 : listed[i].net = Loopback)
  BY <1>1, <1>2 DEF ListInv
<1>4. Masked(0) = {} /\ Masked(0)' = {}
  BY DEF Masked
<1>5. Recorded(0)'
  BY <1>1, <1>3, <1>4 DEF Recorded
<1>6. ~foundloopback'
  BY <1>1, <1>3
<1>7. LANIsWhatIsListed'
  BY <1>1 DEF LANIsWhatIsListed
<1>8. netint \in Seq(Nets \cup {Loopback}) /\ Len(netint) < MaxInterfaces
  BY <1>1 DEF ListInv
<1> QED
  BY <1>1, <1>2, <1>5, <1>6, <1>7, <1>8 DEF ListInv

\* However long the list of adapters is and whatever it holds, whatever number of
\* interfaces the table has room for: local is what was listed, in order, until the
\* table was full.
THEOREM LANIsWhatIsListedAlways == InterfacesSpec => []LANIsWhatIsListed
<1>1. ListInv /\ [InterfacesNext]_addressVars => ListInv'
  <2> SUFFICES ASSUME ListInv, [InterfacesNext]_addressVars PROVE ListInv'
    OBVIOUS
  <2>1. CASE NoAdapters
    BY <2>1, NoAdaptersOK
  <2>2. CASE SkipNullMask
    BY <2>2, SkipOK
  <2>3. CASE Record
    BY <2>3, RecordOK
  <2>4. CASE AddLoopback
    BY <2>4, AddLoopbackOK
  <2>5. CASE UNCHANGED addressVars
    <3>1. /\ listed' = listed /\ todo' = todo /\ netint' = netint
          /\ initState' = initState /\ foundloopback' = foundloopback
      BY <2>5 DEF addressVars, interfaceVars
    <3>2. LANIsWhatIsListed'
      BY <3>1 DEF ListInv, LANIsWhatIsListed, Sys_IsLANAddress, Masked
    <3>3. PICK n : n = Scanned
      OBVIOUS
    <3>4. Scanned' = n
      BY <3>1, <3>3 DEF Scanned
    <3>5. initState = "scan" => Recorded(n)'
      BY <3>1, <3>3 DEF ListInv, Recorded, Masked
    <3> QED
      BY <3>1, <3>2, <3>3, <3>4, <3>5 DEF ListInv
  <2> QED
    BY <2>1, <2>2, <2>3, <2>4, <2>5 DEF InterfacesNext
<1>2. ListInv => LANIsWhatIsListed
  BY DEF ListInv
<1> QED
  BY <1>1, <1>2, ListInitHolds, PTL DEF InterfacesSpec
==============================================================================
