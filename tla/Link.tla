----------------------------- MODULE Link -----------------------------
(***************************************************************************)
(* What a TransmitterSink promises to the goroutines that use it: a link   *)
(* that one caller at a time sends on, that a failed send breaks and a     *)
(* repair mends, and that is down for good once it has been closed.  How   *)
(* it is repaired, and which handles come and go meanwhile, is not seen.   *)
(***************************************************************************)
CONSTANTS
    Callers,    \* goroutines that use the link
    None        \* nobody

VARIABLES
    linked,     \* the link can carry a packet
    closing,    \* somebody has asked for the link to be closed
    sender      \* the caller whose packet is on the link, or None

vars == <<linked, closing, sender>>

Init == linked = TRUE /\ closing = FALSE /\ sender = None

Send(c) ==
    /\ linked /\ sender = None
    /\ sender' = c
    /\ UNCHANGED <<linked, closing>>

Sent(c) ==
    /\ sender = c
    /\ sender' = None
    /\ UNCHANGED <<linked, closing>>

\* The packet on the link is lost, and the link with it.
Lose(c) ==
    /\ sender = c
    /\ sender' = None
    /\ linked' = FALSE
    /\ UNCHANGED closing

Repair ==
    /\ ~linked /\ ~closing
    /\ linked' = TRUE
    /\ UNCHANGED <<closing, sender>>

Ask ==
    /\ closing' = TRUE
    /\ UNCHANGED <<linked, sender>>

\* A closed link goes down, never under a packet.
Shut ==
    /\ closing /\ sender = None
    /\ linked' = FALSE
    /\ UNCHANGED <<closing, sender>>

Next ==
    \/ \E c \in Callers : Send(c) \/ Sent(c) \/ Lose(c)
    \/ Repair \/ Ask \/ Shut

Spec == Init /\ [][Next]_vars
=============================================================================
