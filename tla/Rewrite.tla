---------------------------- MODULE Rewrite ----------------------------
(***************************************************************************)
(* rewrite.PacketForEgress: the frame a packet becomes when it leaves an   *)
(* interface for one target, or the error that makes the route drop it.    *)
(* Ports, payload, TTL and the IP id pass through unchanged and checksums  *)
(* are recomputed; a frame shows what the routes choose: its addresses.    *)
(***************************************************************************)
CONSTANTS
    IPv4,           \* the addresses with a 4-byte form (net.IP.To4)
    NoMAC,          \* the empty Ethernet address
    BroadcastMAC    \* ff:ff:ff:ff:ff:ff

ASSUME MACAssumption == BroadcastMAC # NoMAC

L2Types == {"Null", "Loop"}                     \* a loopback header
L3Types == {"Raw", "RawOpenBSD", "RawOthers"}   \* no link-layer header

\* The destination MAC of an Ethernet frame, NoMAC if there is none to use.
DstMAC(opts) ==
    IF opts.forceBroadcastDestMAC THEN BroadcastMAC
    ELSE IF opts.targetMAC # NoMAC THEN opts.targetMAC
    ELSE IF opts.allowBroadcastDstMAC THEN BroadcastMAC
    ELSE NoMAC

\* Faulty variant: an IPv6 target is let through.
CanRewriteAnyTarget(opts) ==
    \/ /\ opts.egressLinkType = "Ethernet"
       /\ DstMAC(opts) # NoMAC
       /\ opts.sourceMAC # NoMAC
    \/ opts.egressLinkType \in L2Types \cup L3Types

\* The packet can be rewritten: its link type is supported, Ethernet has
\* both MACs, and the serializer finds an IPv4 destination.
CanRewrite(opts) ==
    /\ \/ /\ opts.egressLinkType = "Ethernet"
          /\ DstMAC(opts) # NoMAC
          /\ opts.sourceMAC # NoMAC
       \/ opts.egressLinkType \in L2Types \cup L3Types
    /\ opts.targetIP \in IPv4

\* The rewritten packet, for opts that can be rewritten.
PacketForEgress(src, opts) ==
    [src |-> src,
     dst |-> opts.targetIP,
     mac |-> IF opts.egressLinkType = "Ethernet" THEN DstMAC(opts) ELSE NoMAC,
     iface |-> opts.outputArrivalInterface]
=============================================================================
