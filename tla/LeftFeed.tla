------------------------------ MODULE LeftFeed ------------------------------
(***************************************************************************)
(* What the pipeline of the hub may rely on of the left half: how the      *)
(* hub's copy of its word, kbds.keystates, moves with the link.  HubKeys   *)
(* is built on these steps; SplitLink, the left half, the link and the     *)
(* client library together, makes no others.                               *)
(***************************************************************************)
EXTENDS KeyState

CONSTANT Words          \* the words of the left half

VARIABLES
    keystates,          \* the hub's copy
    left,               \* the link: "down", "up" or, discovered, "assigned"
    reading             \* the read at attach waits for its answer

vars == <<keystates, left, reading>>

Init == keystates = BT_KBDS_VAL_INVALID /\ left = "down" /\ reading = FALSE

Connected ==
    /\ left = "down" /\ left' = "up"
    /\ UNCHANGED <<keystates, reading>>

\* Once per link: the copy starts anew, and is to be read if the stack agrees.
Discovered ==
    /\ left = "up" /\ left' = "assigned"
    /\ keystates' = BT_KBDS_VAL_INVALID
    /\ reading' \in BOOLEAN

\* A whole word, whatever it is.
Notified(word) ==
    /\ left = "assigned"
    /\ keystates' = word
    /\ UNCHANGED <<left, reading>>

\* One byte, once; large ones are dropped.
Answered(byte) ==
    /\ reading /\ reading' = FALSE
    /\ keystates' = IF ByteValue(byte) <= BT_KBDS_VAL_MAX THEN byte ELSE keystates
    /\ UNCHANGED left

Unanswered ==
    /\ reading /\ reading' = FALSE
    /\ UNCHANGED <<keystates, left>>

\* The keys of a left half that is gone are up.
Disconnected ==
    /\ left # "down" /\ left' = "down"
    /\ keystates' = {} /\ reading' = FALSE

Next ==
    \/ Connected \/ Discovered \/ Unanswered \/ Disconnected
    \/ \E word \in Words : Notified(word) \/ Answered(LowByte(word))

Spec == Init /\ [][Next]_vars
=============================================================================
