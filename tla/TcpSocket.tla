----------------------------- MODULE TcpSocket -----------------------------
(***************************************************************************)
(* idTCP of win_net.cpp over the stream sockets of winsock: which calls    *)
(* leave a socket open, and what the caller is told.  What is in the       *)
(* stream is not modelled: Read and Write hand it on as it is.             *)
(***************************************************************************)
EXTENDS Integers, FiniteSets

CONSTANTS Handles,       \* sockets that winsock can hand out; 0 is none
          MaxTcpInits,   \* bound of Init calls
          MaxStream      \* bound of the bytes that wait to be read

ASSUME TcpAssumption == /\ Handles \subseteq Nat \ {0}
                        /\ {MaxTcpInits, MaxStream} \subseteq Nat

VARIABLES fd,        \* of the object
          conns,     \* of the system: what is open, with the bytes that wait
          answer,    \* what the last call returned; Silent before the first
          tcpInits, tcpReinits   \* history: Init calls, and those of them while fd was set

tcpVars == <<fd, conns, answer, tcpInits, tcpReinits>>

Silent == -2
Unconnected == [open |-> FALSE, waiting |-> 0, ended |-> FALSE]
OpenHandles == {h \in Handles : conns[h].open}

TcpInit == /\ fd = 0 /\ conns = [h \in Handles |-> Unconnected]
           /\ answer = Silent /\ tcpInits = 0 /\ tcpReinits = 0

\* The peer sends, or closes its side.
PeerSends(h) == /\ conns[h].open /\ ~conns[h].ended /\ conns[h].waiting < MaxStream
                /\ conns' = [conns EXCEPT ![h].waiting = @ + 1]
                /\ UNCHANGED <<fd, answer, tcpInits, tcpReinits>>
PeerCloses(h) == /\ conns[h].open /\ ~conns[h].ended
                 /\ conns' = [conns EXCEPT ![h].ended = TRUE]
                 /\ UNCHANGED <<fd, answer, tcpInits, tcpReinits>>

Counted == /\ tcpInits < MaxTcpInits /\ tcpInits' = tcpInits + 1

\* idTCP::Init: the host has no address.
TcpUnresolved == /\ Counted /\ answer' = 0 /\ UNCHANGED <<fd, conns, tcpReinits>>

Reinits == tcpReinits' = IF fd = 0 THEN tcpReinits ELSE tcpReinits + 1

\* There is no socket, or connect() or ioctlsocket() fails and it is closed.  A
\* socket that fd held before stays open ("already initialized?").
TcpInitFails == /\ Counted /\ Reinits /\ fd' = 0 /\ answer' = 0 /\ UNCHANGED conns

TcpInitConnects ==
  /\ Counted /\ Reinits /\ answer' = 1
  /\ \E h \in Handles \ OpenHandles :
       fd' = h /\ conns' = [conns EXCEPT ![h] = [Unconnected EXCEPT !.open = TRUE]]

CloseFd == IF fd = 0 THEN UNCHANGED <<fd, conns>>
           ELSE fd' = 0 /\ conns' = [conns EXCEPT ![fd] = Unconnected]

TcpClose == /\ CloseFd /\ fd # 0
            /\ UNCHANGED <<answer, tcpInits, tcpReinits>>

\* Read and Write of an object that is not initialised.
NotInitialized == /\ fd = 0 /\ answer' = -1 /\ UNCHANGED <<fd, conns, tcpInits, tcpReinits>>

\* Fewer bytes than are there are a legal answer of recv().
ReadBytes == /\ fd # 0 /\ \E n \in 1..conns[fd].waiting :
                            /\ answer' = n
                            /\ conns' = [conns EXCEPT ![fd].waiting = @ - n]
             /\ UNCHANGED <<fd, tcpInits, tcpReinits>>

ReadWouldBlock == /\ fd # 0 /\ conns[fd].waiting = 0 /\ ~conns[fd].ended
                  /\ answer' = 0 /\ UNCHANGED <<fd, conns, tcpInits, tcpReinits>>

\* recv() of no bytes: the peer has closed.
ReadEnd == /\ fd # 0 /\ conns[fd].waiting = 0 /\ conns[fd].ended
           /\ answer' = -1 /\ UNCHANGED <<fd, conns, tcpInits, tcpReinits>>

\* A slip: the object forgets its socket without closing it.
TcpFailsOpen == /\ fd # 0 /\ fd' = 0 /\ answer' = -1 /\ UNCHANGED <<conns, tcpInits, tcpReinits>>

\* Any other failure of recv(), and any of send(), WSAEWOULDBLOCK included.
TcpFails == /\ fd # 0 /\ CloseFd /\ answer' = -1 /\ UNCHANGED <<tcpInits, tcpReinits>>

WriteBytes == /\ fd # 0 /\ answer' \in 1..MaxStream
              /\ UNCHANGED <<fd, conns, tcpInits, tcpReinits>>

TcpNext == \/ \E h \in Handles : PeerSends(h) \/ PeerCloses(h)
           \/ TcpUnresolved \/ TcpInitFails \/ TcpInitConnects \/ TcpClose \/ NotInitialized
           \/ ReadBytes \/ ReadWouldBlock \/ ReadEnd \/ TcpFails \/ WriteBytes

-----------------------------------------------------------------------------
\* Exactly the sockets that Init forgot while it was "already initialized?" are
\* open besides the one of the object: every failure of Init, Read and Write
\* closes what it should, and nothing is closed twice (win_net.cpp, idTCP).
TcpLeakIsExact ==
  /\ fd # 0 => conns[fd].open
  /\ Cardinality(OpenHandles) = tcpReinits + IF fd = 0 THEN 0 ELSE 1

\* "returns -1 on failure (and closes socket)" (sys_public.h): a caller that was
\* told -1 has a closed object and may call Init again.
FailureCloses == answer = -1 => fd = 0
=============================================================================
