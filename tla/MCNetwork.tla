----------------------------- MODULE MCNetwork -----------------------------
(* The four parts of win_net.cpp.  None touches another's state, so that    *)
(* taking one at a time shows what any interleaving of them would.          *)
EXTENDS UdpPort, TcpSocket, NetAddress, SocksRelay

VARIABLE part
networkVars == <<vars, tcpVars, addressVars, socksVars, part>>

NetworkInit == /\ part \in {"udp", "tcp", "interfaces", "texts", "socks"}
               /\ Init /\ TcpInit /\ SocksInit
               /\ IF part = "interfaces" THEN AddressInit ELSE AddressIdle

NetworkNext ==
  /\ UNCHANGED part
  /\ \/ part = "udp" /\ Next /\ UNCHANGED <<tcpVars, addressVars, socksVars>>
     \/ part = "tcp" /\ TcpNext /\ UNCHANGED <<vars, addressVars, socksVars>>
     \/ part = "interfaces" /\ InterfacesNext /\ UNCHANGED <<vars, tcpVars, socksVars>>
     \/ part = "texts" /\ TextsNext /\ UNCHANGED <<vars, tcpVars, socksVars>>
     \/ part = "socks" /\ SocksNext /\ UNCHANGED <<vars, tcpVars, addressVars>>

NetworkSpec == NetworkInit /\ [][NetworkNext]_networkVars /\ Fairness

MCHandles == {1, 2}
=============================================================================
