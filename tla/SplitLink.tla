----------------------------- MODULE SplitLink ------------------------------
(***************************************************************************)
(* The left half (LeftHalf), the link and the KBDS client of the hub       *)
(* (KbdsClient), composed: does the hub have the word that the left half   *)
(* scanned?  Each side learns of the end of the link at a time of its own; *)
(* what is on its way then may still arrive or be lost.  The left half     *)
(* notifies, so the periodic read never runs.                              *)
(***************************************************************************)
EXTENDS LeftHalf

CONSTANT NullWord       \* what a load from address zero gives the hub

VARIABLES
    user, link, peer, discovery, assigned, conn, keystates, notify_cb, read_cb,
    interval, work, subscribed, reads, polls, refused,   \* of KbdsClient
    requests,      \* what the hub's stack has to send, in order
    informed       \* history: the last packet told app_keystate in full

C == INSTANCE KbdsClient WITH Words <- LeftWords, Users <- {"hub"},
                              Peers <- {"notifying"}, MaxPolls <- 1

clientVars == <<user, link, peer, discovery, assigned, conn, keystates, notify_cb, read_cb,
                interval, work, subscribed, reads, polls, refused>>
hubVars == <<clientVars, requests>>
vars == <<leftVars, hubVars, informed>>

attached == leftLink /\ link

TypeOK ==
    /\ LeftOK /\ C!TypeOK
    /\ requests \in Seq({"enable", "read"}) /\ Len(requests) <= 2
    /\ informed \in BOOLEAN

Init ==
    /\ LeftInit /\ C!Init
    /\ requests = <<>> /\ informed = FALSE

-----------------------------------------------------------------------------
(* The left half.                                                          *)

Scan ==
    /\ get_keystate
    /\ informed' = (informed /\ app_keystate' = app_keystate)
    /\ UNCHANGED hubVars

Send ==
    /\ \E sent \in IF Len(air) < MaxAir THEN BOOLEAN ELSE {FALSE} :
           /\ bt_kbds_send_keystate(sent)
           /\ informed' = (informed \/ (sent /\ notify_enabled))
    /\ UNCHANGED hubVars

CCCWritten ==
    /\ attached /\ requests # <<>> /\ Head(requests) = "enable"
    /\ kbdslc_ccc_cfg_changed
    /\ requests' = Tail(requests)
    /\ UNCHANGED <<clientVars, informed>>

\* The byte is all of the word, or it hides the rest, or the hub drops it.
ReadAnswered ==
    /\ attached /\ requests # <<>> /\ Head(requests) = "read"
    /\ read_button
    /\ requests' = Tail(requests)
    /\ informed' = IF C!ByteValue(LowByte(app_keystate)) <= C!BT_KBDS_VAL_MAX
                   THEN LowByte(app_keystate) = app_keystate ELSE informed
    /\ UNCHANGED clientVars

LeftDisconnected ==
    /\ disconnected
    /\ informed' = FALSE
    /\ UNCHANGED hubVars

-----------------------------------------------------------------------------
(* The hub.                                                                *)

\* Both sides have noticed the end of the last link; nothing of it arrives on
\* the new one.
Connected ==
    /\ ~leftLink /\ C!connected
    /\ leftLink' = TRUE /\ air' = <<>>
    /\ UNCHANGED <<app_keystate, button_state, left_pc, notify_enabled,
                   requests, informed>>

DiscoveryFailed == C!discovery_error_found_cb /\ UNCHANGED <<leftVars, requests, informed>>

\* The CCC is written before the value is read.
DiscoveryCompleted ==
    /\ C!discovery_completed_cb
    /\ LET enabling == IF subscribed' THEN <<"enable">> ELSE <<>>
       IN  requests' = IF reads' > reads THEN Append(enabling, "read") ELSE enabling
    /\ UNCHANGED <<leftVars, informed>>

\* What arrives is handled in the order of its sending.
Receive ==
    /\ link /\ air # <<>>
    /\ LET packet == Head(air)
       IN  IF packet.kind = "answer" THEN C!read_process(FALSE, packet.word)
                                     ELSE C!notify_process(packet.word)
    /\ air' = Tail(air)
    /\ UNCHANGED <<app_keystate, button_state, left_pc, notify_enabled, leftLink,
                   requests, informed>>

HubDisconnected ==
    /\ C!disconnected
    /\ air' = <<>> /\ requests' = <<>>
    /\ UNCHANGED <<app_keystate, button_state, left_pc, notify_enabled, leftLink,
                   informed>>

Next ==
    \/ Scan \/ Send \/ CCCWritten \/ ReadAnswered \/ LeftDisconnected
    \/ Connected \/ DiscoveryFailed \/ DiscoveryCompleted
    \/ Receive \/ HubDisconnected

(* The hub's stack hands over what has arrived; nothing need be sent.      *)
Spec == Init /\ [][Next]_vars /\ WF_vars(Receive)

-----------------------------------------------------------------------------
\* When nothing is on its way and the last packet told the whole word, the hub
\* has it: whatever notifications of old, the answer to the read at attach and
\* the reset by the discovery do to the client's copy, and in whatever order
\* (get_keystate, bt_kbds_send_keystate, notify_process, read_process).
HubHasWord ==
    attached /\ informed /\ air = <<>> => keystates = app_keystate

\* A word that stands, and that was told, is the hub's in the end.
HubLearns ==
    \A word \in LeftWords :
        <>[](attached /\ informed /\ app_keystate = word) => <>[](keystates = word)

\* The measure behind it, an upper bound of the packets still to arrive: those
\* in the air, the answer to a read that the hub has asked for, and a
\* notification that is due.  While a word stands that was told, no step of
\* either side adds to it, and each packet that arrives takes from it.
ToArrive ==
    Len(air) + 2 * Len(requests) + (IF button_state = app_keystate THEN 0 ELSE 2)
NewsArrives ==
    [][attached /\ informed /\ attached' /\ informed' /\ app_keystate' = app_keystate =>
           ToArrive' <= ToArrive /\ (Receive => ToArrive' < ToArrive)]_vars

-----------------------------------------------------------------------------
(* What HubKeys assumes of all this: LeftFeed.                             *)

LeftPhase == IF ~link THEN "down" ELSE IF assigned THEN "assigned" ELSE "up"

F == INSTANCE LeftFeed WITH Words <- LeftWords, left <- LeftPhase, reading <- reads > 0

\* The hub's copy moves as HubKeys takes it to: by whole words and single
\* bytes of the left half, on a link that has been discovered, one byte per
\* link at most, and starting from the sentinel, whatever is on its way when
\* a link ends and the next one begins.
ImplementsFeed == F!Spec
=============================================================================
