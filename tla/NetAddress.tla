----------------------------- MODULE NetAddress -----------------------------
(***************************************************************************)
(* The local interfaces and the texts of addresses in win_net.cpp:         *)
(* Sys_InitNetworking over the list of adapters, Sys_IsLANAddress over     *)
(* what it recorded, and Sys_NetAdrToString with its four buffers.         *)
(* An address is the network it is in; for its text, the type is enough.   *)
(***************************************************************************)
EXTENDS Integers, Sequences, FiniteSets, SequencesExt

CONSTANTS Nets,            \* networks that adapters are in
          Loopback,        \* 127.0.0.0/8, not in Nets
          MaxInterfaces,   \* MAX_INTERFACES
          MaxAdapters      \* bound of the addresses that the system lists

ASSUME NetAddressAssumption ==
  Loopback \notin Nets /\ MaxInterfaces \in Nat \ {0} /\ MaxAdapters \in Nat

VARIABLES todo,            \* addresses that Sys_InitNetworking has still to look at
          listed,          \* history: all that the system lists
          netint, foundloopback, initState,
          bufs, index, texts       \* of Sys_NetAdrToString, and the last four texts it returned

interfaceVars == <<todo, listed, netint, foundloopback, initState>>
textVars == <<bufs, index, texts>>
addressVars == <<interfaceVars, textVars>>

Listed == [net : Nets \cup {Loopback}, nullMask : BOOLEAN]

AddressInit ==
  /\ \E n \in 0..MaxAdapters : listed \in [1..n -> Listed]
  /\ todo = listed /\ netint = <<>> /\ foundloopback = FALSE /\ initState = "scan"
  /\ bufs = [i \in 0..3 |-> <<>>] /\ index = 0 /\ texts = <<>>

\* Nothing listed, nothing to do.
AddressIdle ==
  /\ listed = <<>> /\ todo = <<>> /\ netint = <<>> /\ foundloopback = FALSE /\ initState = "idle"
  /\ bufs = [i \in 0..3 |-> <<>>] /\ index = 0 /\ texts = <<>>

\* GetAdaptersInfo fails.
NoAdapters == /\ initState = "scan" /\ todo = listed /\ listed # <<>>
              /\ todo' = <<>> /\ listed' = <<>>
              /\ UNCHANGED <<netint, foundloopback, initState, textVars>>

SkipNullMask == /\ initState = "scan" /\ todo # <<>> /\ Head(todo).nullMask
                /\ todo' = Tail(todo)
                /\ foundloopback' = (foundloopback \/ Head(todo).net = Loopback)
                /\ UNCHANGED <<listed, netint, initState, textVars>>

\* A slip: the table is found full one entry too late.
RecordTooMany == /\ initState = "scan" /\ todo # <<>> /\ ~Head(todo).nullMask
                 /\ todo' = Tail(todo)
                 /\ foundloopback' = (foundloopback \/ Head(todo).net = Loopback)
                 /\ netint' = Append(netint, Head(todo).net)
                 /\ initState' = IF Len(netint') > MaxInterfaces THEN "done" ELSE "scan"
                 /\ UNCHANGED <<listed, textVars>>

\* With the last entry of the table the scan is given up.
Record == /\ initState = "scan" /\ todo # <<>> /\ ~Head(todo).nullMask
          /\ todo' = Tail(todo)
          /\ foundloopback' = (foundloopback \/ Head(todo).net = Loopback)
          /\ netint' = Append(netint, Head(todo).net)
          /\ initState' = IF Len(netint') >= MaxInterfaces THEN "done" ELSE "scan"
          /\ UNCHANGED <<listed, textVars>>

AddLoopback == /\ initState = "scan" /\ todo = <<>>
               /\ netint' = IF foundloopback THEN netint ELSE Append(netint, Loopback)
               /\ initState' = "done"
               /\ UNCHANGED <<todo, listed, foundloopback, textVars>>

\* Sys_IsLANAddress: type NA_LOOPBACK is local, NA_IP when a recorded network has it.
Sys_IsLANAddress(net, type) ==
  type = "loopback" \/ (type = "ip" /\ \E i \in DOMAIN netint : netint[i] = net)

\* Only addresses of type NA_LOOPBACK and NA_IP are written into the buffer.
Sys_NetAdrToString(adr) ==
  /\ bufs' = IF adr.type \in {"loopback", "ip"} THEN [bufs EXCEPT ![index] = <<adr>>] ELSE bufs
  /\ index' = (index + 1) % 4
  /\ texts' = LET all == Append(texts, [at |-> index, adr |-> adr])
              IN IF Len(all) > 4 THEN Tail(all) ELSE all
  /\ UNCHANGED interfaceVars

Adrs == [type : {"loopback", "ip", "bad"}]

InterfacesNext == NoAdapters \/ SkipNullMask \/ Record \/ AddLoopback
TextsNext == \E adr \in Adrs : Sys_NetAdrToString(adr)

-----------------------------------------------------------------------------
\* The addresses with a mask among the first n that the system lists.
Masked(n) == {i \in 1..n : ~listed[i].nullMask}

\* An address is local exactly if it is in one of the first MAX_INTERFACES
\* networks with a mask that the system lists, or in the loopback's when that
\* is not listed and the table has room for it; and the table is never longer
\* than it is (win_net.cpp, Sys_InitNetworking and Sys_IsLANAddress).
LANIsWhatIsListed ==
  initState = "done" =>
    LET kept == {i \in Masked(Len(listed)) : Cardinality(Masked(i - 1)) < MaxInterfaces}
        added == /\ Cardinality(Masked(Len(listed))) < MaxInterfaces
                 /\ \A i \in DOMAIN listed : listed[i].net # Loopback
    IN /\ Len(netint) <= MaxInterfaces
       /\ \A net \in Nets \cup {Loopback} :
            Sys_IsLANAddress(net, "ip") <=> \/ \E i \in kept : listed[i].net = net
                                            \/ added /\ net = Loopback

\* The text of an address stays what it was for three more calls: the four
\* texts of one message do not overwrite each other (win_net.cpp,
\* Sys_NetAdrToString, "flip/flop").  An address of another type gets the buffer
\* as it is, with the text of an older one.
FourTextsLast ==
  \A i \in DOMAIN texts :
    texts[i].adr.type # "bad" => bufs[texts[i].at] = <<texts[i].adr>>
=============================================================================
