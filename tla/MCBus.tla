----------------------------- MODULE MCBus -----------------------------
(***************************************************************************)
(* Interfaces that each subscribe one of two channels of two messages.     *)
(***************************************************************************)
EXTENDS Bus
=============================================================================
