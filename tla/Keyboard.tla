------------------------------ MODULE Keyboard ------------------------------
(***************************************************************************)
(* What the keyboard promises whoever types on it, without words, edges,   *)
(* rounds and slots: the report follows the keys one at a time, every      *)
(* change of it is a report of its own, and a key is taken in only while   *)
(* it is down and let go only while it is up.  The promise is void once    *)
(* something is lost; what may lose it is for the implementation to say.   *)
(***************************************************************************)
CONSTANTS
    Keys, Layers,
    Sends,          \* layer -> key -> what it sends in key slots, a set
    Sets            \* layer -> key -> its bits of the modifier byte

VARIABLES
    heard,          \* the keys that are down, as last heard
    down,           \* the keys the report shows
    layer,
    codes, mods,    \* the report
    host,           \* a host is connected
    told,           \* the host's last report is the current one
    lost

report == <<codes, mods>>
vars == <<heard, down, layer, report, host, told, lost>>

Init ==
    /\ heard = {} /\ down = {} /\ layer = 0
    /\ codes = {} /\ mods = {}
    /\ host = FALSE /\ told = TRUE /\ lost = FALSE

\* The stack may refuse a report.
Tell == told' \in {host, FALSE}

\* Keys go down and up whenever they like.
Hear ==
    /\ heard' \subseteq Keys
    /\ UNCHANGED <<down, layer, report, host, told, lost>>

Press(k) ==
    /\ k \in heard \ down
    /\ down' = down \cup {k}
    /\ codes' = codes \cup Sends[layer][k]
    /\ mods' = mods \cup Sets[layer][k]
    /\ Tell
    /\ UNCHANGED <<heard, layer, host, lost>>

Release(k) ==
    /\ k \in down \ heard
    /\ down' = down \ {k}
    /\ codes' = codes \ Sends[layer][k]
    /\ mods' = mods \ Sets[layer][k]
    /\ Tell
    /\ UNCHANGED <<heard, layer, host, lost>>

\* Another layer, on which the keys that are down mean the same.
Turn ==
    /\ layer' \in Layers
    /\ \A k \in down : /\ Sends[layer'][k] = Sends[layer][k]
                       /\ Sets[layer'][k] = Sets[layer][k]
    /\ UNCHANGED <<heard, down, report, host, told, lost>>

\* A new host takes no key to be down.
HostComes ==
    /\ ~host /\ host' = TRUE
    /\ told' = (codes = {} /\ mods = {})
    /\ UNCHANGED <<heard, down, layer, report, lost>>

HostGoes ==
    /\ host /\ host' = FALSE
    /\ UNCHANGED <<heard, down, layer, report, told, lost>>

Lose == lost' = TRUE

Next ==
    \/ Lose
    \/ ~lost /\ (Hear \/ Turn \/ HostComes \/ HostGoes
                 \/ \E k \in Keys : Press(k) \/ Release(k))

Spec == Init /\ [][Next]_vars
=============================================================================
