---------------------------- MODULE Backoff ----------------------------
(***************************************************************************)
(* The retry delay shared by the two reconnect loops of the program,       *)
(* TransmitterSink.reconnectLoop and PcapSource.reconnect: it starts at    *)
(* reconnectInitialDelay, doubles after every failed open and is clamped   *)
(* at reconnectMaxDelay.                                                   *)
(***************************************************************************)
EXTENDS Naturals

CONSTANTS
    InitialDelay,   \* reconnectInitialDelay (1 s in the code)
    MaxDelay        \* reconnectMaxDelay (30 s in the code)

ASSUME DelayAssumption ==
    /\ InitialDelay \in Nat \ {0}
    /\ MaxDelay \in Nat
    /\ InitialDelay <= MaxDelay

Delays == InitialDelay..MaxDelay

\* Faulty variant: the delay is not clamped.
UnclampedDelay(d) == IF d < MaxDelay THEN 2 * d ELSE d

\* The delay to wait before the next attempt, after waiting d and failing.
NextDelay(d) ==
    IF d < MaxDelay
    THEN IF 2 * d > MaxDelay THEN MaxDelay ELSE 2 * d
    ELSE d
=============================================================================
