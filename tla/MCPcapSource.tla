------------------------- MODULE MCPcapSource -------------------------
(***************************************************************************)
(* One source on its interface, or two on the same: the configurations     *)
(* choose.                                                                 *)
(***************************************************************************)
EXTENDS PcapSource
=============================================================================
