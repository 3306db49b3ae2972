------------------------ MODULE MCDeliverLocal ------------------------
(***************************************************************************)
(* --deliver-local: eth0 and the loopback interface lo0, which has no      *)
(* net.FlagBroadcast; its BroadcastAddress is 127.0.0.1.  On lo0 there are *)
(* no fixed IPs, and a program on this host may send from 127.0.0.1.       *)
(***************************************************************************)
EXTENDS Forwarding

CONSTANTS lan, lanCast, localhost, m1

MCIfaces == {"eth0", "lo0"}
MCIPs == {lan, lanCast, localhost}
MCIdentity == [ip \in MCIPs |-> ip]
MCMACs == {m1}
MCHosts == [i \in MCIfaces |-> IF i = "eth0" THEN {lan} ELSE {localhost}]
MCBroadcast == {"eth0"}
MCBroadcastAddress == [i \in MCIfaces |-> IF i = "eth0" THEN lanCast ELSE localhost]
MCHardwareAddr == [i \in MCIfaces |-> IF i = "eth0" THEN m1 ELSE NoMAC]
MCLinkType == [i \in MCIfaces |-> IF i = "eth0" THEN "Ethernet" ELSE "Null"]

\* What --deliver-local is documented to do: every packet that arrives on
\* another interface is delivered via the loopback interface.
DeliveredLocally ==
    \A i \in Ifaces : Served(i, "lo0") => Handed(i, "lo0") # {}
=============================================================================
