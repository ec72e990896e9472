----------------------------- MODULE KbdsClient -----------------------------
(***************************************************************************)
(* The KBDS client library (kbds_client.c), with the two programs that use *)
(* it: the hub, which discovers its peer once per link and reads it at     *)
(* once, and the test central, which discovers it again whenever the       *)
(* security of the link changes and never reads.                           *)
(*                                                                         *)
(* A peer notifies, or has no CCC descriptor and is read periodically, or  *)
(* lacks the characteristic ("bare").  The stack keeps the subscription    *)
(* and the reads that wait for an answer.  Callbacks and the work queue    *)
(* are cooperative threads, so each action is atomic.  The handles and     *)
(* properties the client stores are those of the peer it last discovered,  *)
(* `conn' is the pointer to that peer's connection, kept when it ends.     *)
(***************************************************************************)
EXTENDS KeyState, FiniteSets

CONSTANTS
    Words,        \* the key state words a peer sends
    Users,        \* the programs, a subset of {"hub", "central"}
    Peers,        \* the kinds of peers met
    MaxPolls,     \* bound: periodic reads under way
    NullWord      \* what a load from address zero gives

ASSUME UsersAssumption == Users \subseteq {"hub", "central"}
ASSUME PeersAssumption == Peers \subseteq {"notifying", "silent", "bare"} /\ Peers # {}
ASSUME PollsAssumption == MaxPolls \in Nat \ {0}

VARIABLES
    user,                   \* the program that runs, never changed
    link, peer,             \* is there a link, and to what kind of peer
    discovery,              \* the discovery is running
    assigned,               \* a discovery has completed on this link
    conn,                   \* kbds.conn is set
    keystates,
    notify_cb, read_cb,     \* the callback is set
    interval,               \* periodic_read.interval is not zero
    work,                   \* periodic_read.read_work is scheduled
    subscribed,             \* the stack has notify_params in its list
    reads, polls,           \* reads with read_params, periodic_read.params
    refused                 \* history: a periodic read was refused since the
                            \* last discovery

fixedVars == <<user>>
linkVars == <<link, peer, discovery, assigned>>
readVars == <<read_cb, reads>>
pollVars == <<interval, work, polls, refused>>
vars == <<fixedVars, linkVars, conn, keystates, notify_cb, subscribed, readVars, pollVars>>

LinkOK ==
    /\ user \in Users /\ peer \in Peers
    /\ link \in BOOLEAN /\ discovery \in BOOLEAN /\ assigned \in BOOLEAN
    /\ conn \in BOOLEAN /\ subscribed \in BOOLEAN

ClientOK ==
    /\ keystates \in Words \cup {BT_KBDS_VAL_INVALID, NullWord, {}}
                        \cup { LowByte(word) : word \in Words }
    /\ notify_cb \in BOOLEAN /\ read_cb \in BOOLEAN

PollOK ==
    /\ interval \in BOOLEAN /\ work \in BOOLEAN /\ refused \in BOOLEAN

CountsOK == reads \in Nat /\ polls \in 0..MaxPolls

\* The client's copy is a word that a peer sent, the byte of one, or a
\* sentinel, never a mixture; no more answers come than reads were sent.
TypeOK == LinkOK /\ ClientOK /\ PollOK /\ CountsOK

\* bt_kbds_client_init
Init ==
    /\ user \in Users
    /\ link = FALSE /\ peer \in Peers
    /\ discovery = FALSE /\ assigned = FALSE /\ conn = FALSE
    /\ keystates = BT_KBDS_VAL_INVALID
    /\ notify_cb = FALSE /\ read_cb = FALSE
    /\ interval = FALSE /\ work = FALSE /\ subscribed = FALSE
    /\ reads = 0 /\ polls = 0 /\ refused = FALSE

-----------------------------------------------------------------------------
(* The link and its discovery.                                             *)

\* gatt_discover: starts unless one is running; the stack may refuse.
gatt_discover == discovery' \in {discovery, TRUE}

connected ==
    /\ ~link
    /\ link' = TRUE /\ peer' \in Peers
    /\ gatt_discover
    /\ UNCHANGED <<fixedVars, assigned, conn, keystates, notify_cb, subscribed,
                   readVars, pollVars>>

\* A peer may ask for security; the test central alone then discovers again.
security_changed ==
    /\ user = "central" /\ link
    /\ gatt_discover
    /\ UNCHANGED <<fixedVars, link, peer, assigned, conn, keystates, notify_cb,
                   subscribed, readVars, pollVars>>

\* Not found or failed.
discovery_error_found_cb ==
    /\ discovery
    /\ discovery' = FALSE
    /\ UNCHANGED <<fixedVars, link, peer, assigned, conn, keystates, notify_cb,
                   subscribed, readVars, pollVars>>

\* Reset the client; the connection is stored if there is a characteristic.
bt_kbds_handles_assign ==
    /\ keystates' = BT_KBDS_VAL_INVALID
    /\ conn' = (peer # "bare")

\* MUTANT: the callback that kbds_reinit cleared is not set again.
Mut_bt_kbds_subscribe_keystates ==
    /\ \E err \in BOOLEAN : subscribed' = (subscribed \/ ~err)
    /\ notify_cb' = FALSE
    /\ UNCHANGED interval

\* kbds_reinit has cleared notify_cb before.  The stack refuses parameters
\* that it has in its list, or for want of memory.
bt_kbds_subscribe_keystates ==
    /\ \E err \in IF subscribed THEN {TRUE} ELSE BOOLEAN :
           /\ notify_cb' = ~err
           /\ subscribed' = (subscribed \/ ~err)
    /\ UNCHANGED interval

bt_kbds_start_per_read_keystates ==
    /\ notify_cb' = TRUE /\ interval' = TRUE
    /\ UNCHANGED subscribed

\* After kbds_reinit no callback is set, so the read is never refused as busy.
bt_kbds_read_keystates ==
    \E sent \in IF conn' THEN BOOLEAN ELSE {FALSE} :
        /\ read_cb' = sent
        /\ reads' = IF sent THEN reads + 1 ELSE reads

\* Assign the handles, which cancels the work, then subscribe or else read
\* periodically, without a characteristic too; the hub reads once in any case.
discovery_completed_cb ==
    /\ discovery
    /\ discovery' = FALSE /\ assigned' = TRUE
    /\ bt_kbds_handles_assign
    /\ work' = (peer # "notifying")
    /\ IF peer = "notifying" THEN bt_kbds_subscribe_keystates
                             ELSE bt_kbds_start_per_read_keystates
    /\ IF user = "hub" THEN bt_kbds_read_keystates
                       ELSE read_cb' = FALSE /\ UNCHANGED reads
    /\ refused' = FALSE
    /\ UNCHANGED <<fixedVars, link, peer, polls>>

\* MUTANT: the hub does not clear the word.
Mut_disconnected ==
    /\ link
    /\ link' = FALSE /\ discovery' = FALSE /\ assigned' = FALSE
    /\ reads' = 0 /\ read_cb' = (read_cb /\ reads = 0)
    /\ polls' = 0 /\ work' = (work \/ (polls > 0 /\ interval))
    /\ subscribed' = FALSE
    /\ keystates' = IF subscribed THEN NullWord ELSE keystates
    /\ UNCHANGED <<fixedVars, peer, conn, notify_cb, interval, refused>>

\* MUTANT: the discovery outlives its link.
Mut_disconnected_discovering ==
    /\ link
    /\ link' = FALSE /\ assigned' = FALSE
    /\ reads' = 0 /\ read_cb' = (read_cb /\ reads = 0)
    /\ polls' = 0 /\ work' = (work \/ (polls > 0 /\ interval))
    /\ subscribed' = FALSE
    /\ keystates' = IF user = "hub" THEN {} ELSE IF subscribed THEN NullWord ELSE keystates
    /\ UNCHANGED <<fixedVars, peer, discovery, conn, notify_cb, interval, refused>>

\* The stack answers what waits with an error and ends the subscription with
\* a notification without data; the hub clears the word afterwards.
disconnected ==
    /\ link
    /\ link' = FALSE /\ discovery' = FALSE /\ assigned' = FALSE
    /\ reads' = 0 /\ read_cb' = (read_cb /\ reads = 0)
    /\ polls' = 0 /\ work' = (work \/ (polls > 0 /\ interval))
    /\ subscribed' = FALSE
    /\ keystates' = IF user = "hub" THEN {} ELSE IF subscribed THEN NullWord ELSE keystates
    /\ UNCHANGED <<fixedVars, peer, conn, notify_cb, interval, refused>>

-----------------------------------------------------------------------------
(* What the peer sends.                                                    *)

\* MUTANT: the check that is commented out in the source.
Mut_notify_process(word) ==
    /\ subscribed
    /\ keystates' = IF ByteValue(word) > BT_KBDS_VAL_MAX THEN keystates ELSE word
    /\ UNCHANGED <<fixedVars, linkVars, conn, notify_cb, subscribed, readVars, pollVars>>

\* MUTANT: the new word is added to the old one.
Mut_notify_process_or(word) ==
    /\ subscribed
    /\ keystates' = keystates \cup word
    /\ UNCHANGED <<fixedVars, linkVars, conn, notify_cb, subscribed, readVars, pollVars>>

\* The word is stored as it is; notify_cb, if set, only prints it.
notify_process(word) ==
    /\ subscribed
    /\ keystates' = word
    /\ UNCHANGED <<fixedVars, linkVars, conn, notify_cb, subscribed, readVars, pollVars>>

\* MUTANT: read_cb is kept after an error.
Mut_read_process(err, byte) ==
    /\ reads > 0
    /\ reads' = reads - 1
    /\ read_cb' = (read_cb /\ err)
    /\ keystates' = IF read_cb /\ ~err /\ ByteValue(byte) <= BT_KBDS_VAL_MAX
                    THEN byte ELSE keystates
    /\ UNCHANGED <<fixedVars, linkVars, conn, notify_cb, subscribed, pollVars>>

read_process(err, byte) ==
    /\ reads > 0
    /\ reads' = reads - 1
    /\ read_cb' = FALSE
    /\ keystates' = IF read_cb /\ ~err /\ ByteValue(byte) <= BT_KBDS_VAL_MAX
                    THEN byte ELSE keystates
    /\ UNCHANGED <<fixedVars, linkVars, conn, notify_cb, subscribed, pollVars>>

\* MUTANT: after an error the next read is not scheduled.
Mut_periodic_read_process(err, byte) ==
    /\ polls > 0
    /\ polls' = polls - 1
    /\ keystates' = IF notify_cb /\ ~err /\ ByteValue(byte) <= BT_KBDS_VAL_MAX
                    THEN byte ELSE keystates
    /\ work' = (work \/ (interval /\ ~err))
    /\ UNCHANGED <<fixedVars, linkVars, conn, notify_cb, subscribed, readVars,
                   interval, refused>>

\* Whatever the answer, the next read is scheduled.
periodic_read_process(err, byte) ==
    /\ polls > 0
    /\ polls' = polls - 1
    /\ keystates' = IF notify_cb /\ ~err /\ ByteValue(byte) <= BT_KBDS_VAL_MAX
                    THEN byte ELSE keystates
    /\ work' = (work \/ interval)
    /\ UNCHANGED <<fixedVars, linkVars, conn, notify_cb, subscribed, readVars,
                   interval, refused>>

\* MUTANT: a refused read is tried again.
Mut_kbds_read_value_handler ==
    /\ work
    /\ \E sent \in IF interval /\ conn /\ link /\ polls < MaxPolls THEN BOOLEAN ELSE {FALSE} :
           /\ polls' = IF sent THEN polls + 1 ELSE polls
           /\ work' = (interval /\ conn /\ ~sent)
           /\ refused' = (refused \/ (interval /\ conn /\ ~sent))
    /\ UNCHANGED <<fixedVars, linkVars, conn, keystates, notify_cb, subscribed,
                   readVars, interval>>

\* The work: one read of the value, by the connection object of old, which a
\* new link may have been given meanwhile.  A refused read is the last one; the
\* bound MaxPolls refuses as well.
kbds_read_value_handler ==
    /\ work
    /\ work' = FALSE
    /\ \E sent \in IF interval /\ conn /\ link /\ polls < MaxPolls THEN BOOLEAN ELSE {FALSE} :
           /\ polls' = IF sent THEN polls + 1 ELSE polls
           /\ refused' = (refused \/ (interval /\ conn /\ ~sent))
    /\ UNCHANGED <<fixedVars, linkVars, conn, keystates, notify_cb, subscribed,
                   readVars, interval>>

Next ==
    \/ connected \/ security_changed \/ disconnected
    \/ discovery_completed_cb \/ discovery_error_found_cb
    \/ kbds_read_value_handler
    \/ \E word \in Words :
          \/ notify_process(word)
          \/ \E err \in BOOLEAN : \/ read_process(err, LowByte(word))
                                  \/ periodic_read_process(err, LowByte(word))

(* The work queue runs what is due; no peer need ever send.                *)
Spec == Init /\ [][Next]_vars /\ WF_vars(kbds_read_value_handler)

-----------------------------------------------------------------------------
\* The callback of a read is set exactly while the one read it is for waits
\* for its answer, so no read is ever refused as busy for good, and
\* read_params is never handed to the stack twice (bt_kbds_read_keystates,
\* read_process, kbds_reinit).
OneRead ==
    /\ reads \in {0, 1}
    /\ read_cb <=> (reads = 1)

\* In the hub, which discovers once per link, every notification that comes
\* in finds its callback, and comes on a link that has been discovered.
HubReports == user = "hub" /\ subscribed => notify_cb /\ assigned /\ conn

\* A peer without notifications is polled for as long as the link lasts,
\* errors or not, unless the stack refuses a read (periodic_read_process,
\* kbds_read_value_handler).
PollingGoesOn ==
    link /\ assigned /\ peer = "silent" /\ ~refused => work \/ polls > 0

\* kbds_read_value_handler, "Periodic read process is stopped after
\* disconnection": without a link it ends, whatever was under way.
PollingStops == ~link ~> (link \/ (~work /\ polls = 0))

\* The measure behind it: the end of the link takes the reads under way, and
\* from then on the work can only be used up, never be scheduled again, by no
\* late answer and no discovery.
PollingWinds == [][~link /\ ~link' => polls = 0 /\ polls' = 0 /\ (work' => work)]_vars

-----------------------------------------------------------------------------
\* README.rst of the test central: "Every notification that is received is
\* printed to the terminal."  The callback that prints must be set.
NotificationsReported == subscribed => notify_cb
=============================================================================
