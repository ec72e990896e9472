----------------------------- MODULE MCHubLinks -----------------------------
(***************************************************************************)
(* HubLinks with the two connection objects and two client slots of        *)
(* prj.conf.                                                               *)
(***************************************************************************)
EXTENDS HubLinks

CONSTANTS c1, c2
MCConns == {c1, c2}
=============================================================================
