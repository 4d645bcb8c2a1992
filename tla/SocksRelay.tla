----------------------------- MODULE SocksRelay -----------------------------
(***************************************************************************)
(* NET_OpenSocks of win_net.cpp: the conversation that makes usingSocks    *)
(* true and writes socksRelayAddr, with a server that may answer anything. *)
(* Requests are built and answers received in one buf: a byte of it is who *)
(* wrote it, and in which conversation.                                    *)
(***************************************************************************)
EXTENDS Integers

CONSTANT MaxOpens        \* bound of NET_OpenSocks calls

ASSUME SocksAssumption == MaxOpens \in Nat

VARIABLES stage,         \* what the client waits for; "idle" between calls
          buf,           \* who wrote the first ten bytes of it
          usingSocks,
          socksRelayAddr,          \* who wrote the bytes it was read from
          user,          \* net_socksUsername or net_socksPassword is set
          opens, leaks,  \* history: calls, and sockets that were never closed
          granted        \* history: what the server granted in this conversation

socksVars == <<stage, buf, usingSocks, socksRelayAddr, user, opens, leaks, granted>>

Bytes == 0..9
Unset == <<0, "nobody">>
NewBuf == [b \in Bytes |-> Unset]
\* The first n bytes of a buf are written by someone.
Over(bytes, n, who) == [b \in Bytes |-> IF b < n THEN <<opens, who>> ELSE bytes[b]]

SocksInit == /\ stage = "idle" /\ buf = NewBuf /\ usingSocks = FALSE /\ socksRelayAddr = [b \in 4..9 |-> Unset]
             /\ user = FALSE /\ opens = 0 /\ leaks = 0 /\ granted = {}

\* How long the answer is, and its bytes 0, 1 and 3 as far as they are looked at.
Answers == [len : {0, 2, 7, 10}, version : {0, 1, 5}, code : {0, 2, 255}, adrType : {1, 3}]

\* A slip: a relay of an earlier conversation stays in use.
OpenSocksKeepsUsing ==
  /\ stage = "idle" /\ opens < MaxOpens
  /\ opens' = opens + 1 /\ granted' = {} /\ stage' = "method"
  /\ buf' = NewBuf /\ user' \in BOOLEAN
  /\ UNCHANGED <<usingSocks, socksRelayAddr, leaks>>

\* connect() has gone through, and the methods are sent: they are overwritten by
\* what follows.
NET_OpenSocks ==
  /\ stage = "idle" /\ opens < MaxOpens
  /\ opens' = opens + 1 /\ usingSocks' = FALSE /\ granted' = {} /\ stage' = "method"
  /\ buf' = NewBuf /\ user' \in BOOLEAN
  /\ UNCHANGED <<socksRelayAddr, leaks>>

\* socket() fails, before there is one to lose.
SocksNoSocket ==
  /\ stage = "idle" /\ opens < MaxOpens
  /\ opens' = opens + 1 /\ usingSocks' = FALSE /\ granted' = {}
  /\ UNCHANGED <<stage, buf, socksRelayAddr, user, leaks>>

\* Each return on the way leaves the socket open; recv() and send() may fail at any point.
GiveUp == stage' = "idle" /\ leaks' = leaks + 1 /\ buf' = NewBuf
SocksFails ==
  /\ stage # "idle" /\ GiveUp
  /\ UNCHANGED <<usingSocks, socksRelayAddr, user, opens, granted>>

Grants(what) == granted' = granted \cup {what}

\* The name and the password are as long as they like.
AskWithName(bytes) ==
  /\ stage' = "auth" /\ \E n \in {3, 10} : buf' = Over(bytes, n, "name")
AskForAssociation(bytes) ==
  /\ stage' = "associate" /\ buf' = Over(bytes, 10, "request")

MethodAnswer(a) ==
  /\ stage = "method"
  /\ IF a.len # 2 \/ a.version # 5 \/ a.code \notin {0, 2}
     THEN GiveUp /\ UNCHANGED granted
     ELSE LET received == Over(buf, a.len, "answer")
          IN /\ IF a.code = 2 THEN AskWithName(received) /\ Grants("method2")
                ELSE AskForAssociation(received) /\ Grants("method0")
             /\ UNCHANGED leaks
  /\ UNCHANGED <<usingSocks, socksRelayAddr, user, opens>>

AuthAnswer(a) ==
  /\ stage = "auth"
  /\ IF a.len # 2 \/ a.version # 1 \/ a.code # 0
     THEN GiveUp /\ UNCHANGED granted
     ELSE AskForAssociation(Over(buf, a.len, "answer")) /\ Grants("auth") /\ UNCHANGED leaks
  /\ UNCHANGED <<usingSocks, socksRelayAddr, user, opens>>

\* An answer of two bytes is long enough.  What it does not reach is as the
\* request has left it: byte 3 the 1 of IPV4, and the address INADDR_ANY and the
\* port that the program itself receives at.
AssociateAnswer(a) ==
  /\ stage = "associate"
  /\ IF a.len < 2 \/ a.version # 5 \/ a.code # 0 \/ (a.len > 3 /\ a.adrType # 1)
     THEN GiveUp /\ UNCHANGED <<usingSocks, socksRelayAddr, granted>>
     ELSE /\ usingSocks' = TRUE /\ stage' = "idle" /\ buf' = NewBuf /\ Grants("associate")
          /\ socksRelayAddr' = [b \in 4..9 |-> Over(buf, a.len, "answer")[b]]
          /\ UNCHANGED leaks
  /\ UNCHANGED <<user, opens>>

SocksNext == \/ NET_OpenSocks \/ SocksNoSocket \/ SocksFails
             \/ \E a \in Answers : MethodAnswer(a) \/ AuthAnswer(a) \/ AssociateAnswer(a)

-----------------------------------------------------------------------------
\* Datagrams go to the relay only after the server of this very conversation,
\* not of an earlier one, agreed to a method, to the name if it asked for one,
\* and to the association (win_net.cpp, NET_OpenSocks, Net_SendUDPPacket).
Agreed == /\ "associate" \in granted
          /\ "method0" \in granted \/ {"method2", "auth"} \subseteq granted
\* The address that they go to is of this conversation as well, but not always one
\* that the server gave: the code looks for two bytes of an answer only, and where
\* the answer ended the address goes on with the program's own request.  It never
\* goes on with a name, a password or an earlier answer.
AddressOfThisConversation ==
  \E n \in 2..10 : \A b \in 4..9 :
    socksRelayAddr[b] = <<opens, IF b < n THEN "answer" ELSE "request">>
RelayIsGranted == usingSocks => Agreed /\ AddressOfThisConversation
=============================================================================
