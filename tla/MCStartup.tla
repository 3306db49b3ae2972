--------------------------- MODULE MCStartup ---------------------------
(***************************************************************************)
(* A host with a LAN interface, a tunnel and the loopback interface, and   *)
(* command lines that use them, among them one that names an interface     *)
(* twice, some that name the loopback interface --deliver-local adds, and  *)
(* one with a single interface.                                            *)
(***************************************************************************)
EXTENDS Startup

MCCommandLines ==
    [interface : {<<"eth0", "tun0">>, <<"eth0", "lo0">>, <<"tun0", "tun0">>,
                   <<"eth0", "tun0", "lo0">>},
     fixed : {{}, {"tun0"}, {"lo0"}}, deliverLocal : BOOLEAN,
     noListen : BOOLEAN, mode : {"run"}]
  \cup
    [interface : {<<"eth0", "tun0">>, <<"eth0">>}, fixed : {{}}, deliverLocal : {TRUE},
     noListen : {FALSE}, mode : {"graph", "list"}]

ASSUME InstanceAssumption == OneLoopback
=============================================================================
