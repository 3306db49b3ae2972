------------------------- MODULE MCTransmitter -------------------------
(***************************************************************************)
(* Three goroutines that use one sink, two identities for reconnectLoop    *)
(* and five handles; delays of 1, 2, 3 in units of the initial delay.      *)
(***************************************************************************)
EXTENDS Transmitter
=============================================================================
