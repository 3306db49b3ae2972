------------------------- MODULE MCForwarding -------------------------
(***************************************************************************)
(* Three interfaces: eth0, a LAN with one talking host; tun0, a tunnel     *)
(* with one talking host and two fixed clients that never talk, one of     *)
(* them an IPv6 address; eth1, a second LAN where nobody talks and one     *)
(* fixed client lives.  A unit of time is a cleanup period.                *)
(***************************************************************************)
EXTENDS Forwarding

CONSTANTS lan, lanCast, remote, site, site6, printer, m1, m2

MCIfaces == {"eth0", "eth1", "tun0"}
MCIPv4 == {lan, lanCast, remote, site, printer}
MCIPs == MCIPv4 \cup {site6}
MCIdentity == [ip \in MCIPs |-> ip]
MCMACs == {m1, m2}
MCFixed == {<<"tun0", site>>, <<"tun0", site6>>, <<"eth1", printer>>}
MCHosts == [i \in MCIfaces |-> CASE i = "eth0" -> {lan}
                                 [] i = "tun0" -> {remote}
                                 [] OTHER -> {}]
MCBroadcast == {"eth0", "eth1"}
MCBroadcastAddress == [i \in MCIfaces |-> lanCast]
MCHardwareAddr == [i \in MCIfaces |-> IF i = "tun0" THEN NoMAC ELSE m1]
MCLinkType == [i \in MCIfaces |-> IF i = "tun0" THEN "Raw" ELSE "Ethernet"]
=============================================================================
