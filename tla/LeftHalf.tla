------------------------------ MODULE LeftHalf ------------------------------
(***************************************************************************)
(* The left half: its main loop, which scans the keys and notifies every   *)
(* change, and its KBDS service, which the stack calls when a CCC write or *)
(* a read comes in.  The stack's thread may run between the two steps of   *)
(* the loop.  SplitLink gives the module its peer.                         *)
(***************************************************************************)
EXTENDS KeyState, Sequences

CONSTANTS
    LeftWords,    \* the words a scan can find
    MaxAir        \* bound: packets towards the hub

ASSUME WordsAssumption == LeftWords \subseteq SUBSET Positions /\ {} \in LeftWords
ASSUME AirAssumption == MaxAir \in Nat \ {0}

VARIABLES
    app_keystate,           \* the last scan
    button_state,           \* the scan before it, of main()
    left_pc,                \* "scan" or, in get_keystate, "send"
    notify_enabled,
    leftLink,               \* the left half is connected
    air                     \* packets towards the hub, in order

leftVars == <<app_keystate, button_state, left_pc, notify_enabled, leftLink, air>>

\* A notification, or the answer to a read.
Packet ==
    [kind : {"notification"}, word : LeftWords]
    \cup [kind : {"answer"}, word : { LowByte(word) : word \in LeftWords }]

LeftOK ==
    /\ app_keystate \in LeftWords /\ button_state \in LeftWords
    /\ left_pc \in {"scan", "send"}
    /\ notify_enabled \in BOOLEAN /\ leftLink \in BOOLEAN
    /\ air \in Seq(Packet) /\ Len(air) <= MaxAir

\* button_state of main() has no initial value.
LeftInit ==
    /\ app_keystate = {} /\ button_state \in LeftWords
    /\ left_pc = "scan"
    /\ notify_enabled = FALSE /\ leftLink = FALSE /\ air = <<>>

-----------------------------------------------------------------------------
\* One scan of the matrix; a change is to be sent.
get_keystate ==
    /\ left_pc = "scan"
    /\ \E word \in LeftWords :
           /\ app_keystate' = word
           /\ left_pc' = IF word = button_state THEN "scan" ELSE "send"
    /\ UNCHANGED <<button_state, notify_enabled, leftLink, air>>

\* MUTANT: what is sent is what has changed.
Mut_bt_kbds_send_keystate(sent) ==
    /\ left_pc = "send"
    /\ left_pc' = "scan" /\ button_state' = app_keystate
    /\ air' = IF sent /\ notify_enabled
              THEN Append(air, [kind |-> "notification",
                                word |-> (app_keystate \cup button_state)
                                         \ (app_keystate \cap button_state)])
              ELSE air
    /\ UNCHANGED <<app_keystate, notify_enabled, leftLink>>

\* MUTANT: the scan before the last one is sent.
Mut_bt_kbds_send_keystate_old(sent) ==
    /\ left_pc = "send"
    /\ left_pc' = "scan" /\ button_state' = app_keystate
    /\ air' = IF sent /\ notify_enabled
              THEN Append(air, [kind |-> "notification", word |-> button_state])
              ELSE air
    /\ UNCHANGED <<app_keystate, notify_enabled, leftLink>>

\* MUTANT: the scan is not kept, so a change is sent in every round.
Mut_bt_kbds_send_keystate_again(sent) ==
    /\ left_pc = "send"
    /\ left_pc' = "scan"
    /\ air' = IF sent /\ notify_enabled
              THEN Append(air, [kind |-> "notification", word |-> app_keystate])
              ELSE air
    /\ UNCHANGED <<app_keystate, button_state, notify_enabled, leftLink>>

\* The stack may refuse the notification; the loop goes on in any case.
bt_kbds_send_keystate(sent) ==
    /\ left_pc = "send"
    /\ left_pc' = "scan" /\ button_state' = app_keystate
    /\ air' = IF sent /\ notify_enabled
              THEN Append(air, [kind |-> "notification", word |-> app_keystate])
              ELSE air
    /\ UNCHANGED <<app_keystate, notify_enabled, leftLink>>

\* The hub writes its CCC.
kbdslc_ccc_cfg_changed ==
    /\ notify_enabled' = TRUE
    /\ UNCHANGED <<app_keystate, button_state, left_pc, leftLink, air>>

\* One byte of the last scan.
read_button ==
    /\ Len(air) < MaxAir
    /\ air' = Append(air, [kind |-> "answer", word |-> LowByte(app_keystate)])
    /\ UNCHANGED <<app_keystate, button_state, left_pc, notify_enabled, leftLink>>

\* The stack forgets the CCC of the peer, which is not bonded; some of what it
\* had queued is never sent.
disconnected ==
    /\ leftLink
    /\ leftLink' = FALSE /\ notify_enabled' = FALSE
    /\ \E n \in 0..Len(air) : air' = SubSeq(air, 1, n)
    /\ UNCHANGED <<app_keystate, button_state, left_pc>>
=============================================================================
