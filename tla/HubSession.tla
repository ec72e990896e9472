----------------------------- MODULE HubSession -----------------------------
(***************************************************************************)
(* What the links of the hub promise their user, without the connection    *)
(* objects: one host at a time and one left half at a time, and what ends  *)
(* begins anew, except where nothing starts it again.  The hub is "off"    *)
(* for hosts if the left half holds the object that advertising needs, or  *)
(* if the stack refuses; its search is "idle" if the stack refuses.        *)
(* Neither is ever left again.                                             *)
(***************************************************************************)

VARIABLES
    host,       \* "advertising", "connected" or "off"
    search,     \* "scanning", "connecting", "linked" or "idle"
    refused     \* what the stack would not start

vars == <<host, search, refused>>

Init == host = "advertising" /\ search = "scanning" /\ refused = {}

\* The hub cannot start what it is to start.
Refuse(what) == refused' = refused \cup {what}

HostComes ==
    /\ host = "advertising" /\ host' = "connected"
    /\ UNCHANGED <<search, refused>>

\* The next host can come, or none will for good.
HostGoes ==
    /\ host = "connected"
    /\ \/ host' = "advertising" /\ UNCHANGED refused
       \/ host' = "off" /\ search \in {"connecting", "linked"} /\ UNCHANGED refused
       \/ host' = "off" /\ Refuse("adv")
    /\ UNCHANGED search

LeftFound ==
    /\ search = "scanning"
    /\ \/ search' = "connecting" /\ UNCHANGED refused
       \/ search' = "idle" /\ Refuse("create")
    /\ UNCHANGED host

LeftComes ==
    /\ search = "connecting" /\ search' = "linked"
    /\ UNCHANGED <<host, refused>>

LeftGoes ==
    /\ search \in {"connecting", "linked"}
    /\ \/ search' = "scanning" /\ UNCHANGED refused
       \/ search' = "idle" /\ Refuse("scan")
    /\ UNCHANGED host

Next == HostComes \/ HostGoes \/ LeftFound \/ LeftComes \/ LeftGoes

Spec == Init /\ [][Next]_vars
=============================================================================
