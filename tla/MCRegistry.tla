-------------------------- MODULE MCRegistry --------------------------
(***************************************************************************)
(* Two interfaces and two addresses; one address has a second spelling     *)
(* (an IPv4 address written ::ffff:a.b.c.d), which is how it is given as a *)
(* fixed IP of one interface, and canonically as one of the other.  A unit *)
(* of time is half a cleanup period.                                       *)
(***************************************************************************)
EXTENDS Registry

MCIfaces == {"eth0", "tun0"}
MCIPs == {"10.0.0.1", "10.0.0.2"}
MCTexts == MCIPs \cup {"::ffff:10.0.0.1"}
MCParseIP == [t \in MCTexts |-> IF t = "::ffff:10.0.0.1" THEN "10.0.0.1" ELSE t]
MCIPString == [ip \in MCIPs |-> ip]
MCFixed == {<<"eth0", "::ffff:10.0.0.1">>, <<"tun0", "10.0.0.1">>}
=============================================================================
