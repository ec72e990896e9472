------------------------------ MODULE HostFeed ------------------------------
(***************************************************************************)
(* What the pipeline of the hub may rely on of the host's side: how the    *)
(* host, its passkey and the pairing mode move while the main thread runs, *)
(* which answers a passkey in three steps that the callbacks may part.     *)
(* HubKeys is built on these steps; HubLinks makes no others.              *)
(***************************************************************************)
VARIABLES
    host,               \* conn_mode[0].conn is set
    pending,            \* mitm_queue holds a passkey to confirm
    in_pairing_mode,
    answering           \* main: "no", "accept", "reject" or, accepted, "leave"

vars == <<host, pending, in_pairing_mode, answering>>

Init == host = FALSE /\ pending = FALSE /\ in_pairing_mode = TRUE /\ answering = "no"

Connected == ~host /\ host' = TRUE /\ UNCHANGED <<pending, in_pairing_mode>>

\* Nothing waits for an answer any more, and the next host can be paired.
Disconnected == host /\ host' = FALSE /\ pending' = FALSE /\ in_pairing_mode' = TRUE

\* One passkey at a time.
Asked == host /\ ~pending /\ pending' = TRUE /\ UNCHANGED <<host, in_pairing_mode>>

Failed == pending /\ pending' = FALSE /\ UNCHANGED <<host, in_pairing_mode>>

\* A link is encrypted, the host's or the one to the left half: a host need not
\* be there, and a passkey of the host's may wait.
Secured == in_pairing_mode' = FALSE /\ UNCHANGED <<host, pending>>

\* Main takes the entry, which may be gone by then, ...
Taken == pending' = FALSE /\ UNCHANGED <<host, in_pairing_mode>>

\* ... and after an accepted passkey leaves the pairing mode, host or not.
Left == in_pairing_mode' = FALSE /\ UNCHANGED <<host, pending>>

Callback == Connected \/ Disconnected \/ Asked \/ Failed \/ Secured

Main ==
    \/ /\ answering = "no" /\ pending
       /\ answering' \in {"accept", "reject"}
       /\ UNCHANGED <<host, pending, in_pairing_mode>>
    \/ answering = "accept" /\ Taken /\ answering' = "leave"
    \/ answering = "reject" /\ Taken /\ answering' = "no"
    \/ answering = "leave" /\ Left /\ answering' = "no"

Next == (Callback /\ UNCHANGED answering) \/ Main

Spec == Init /\ [][Next]_vars
=============================================================================
