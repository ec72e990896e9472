----------------------------- MODULE MCHubKeys ------------------------------
(***************************************************************************)
(* HubKeys with the program's key tables and a few keys of each half.      *)
(***************************************************************************)
EXTENDS HubKeys

\* Q and the layer key of the left half; O (also the accept key) and the
\* layer key of the right half: all four layers.
LayersLeft == SUBSET {1, LAYER_KEY_1}
LayersRight == {3, LAYER_KEY_2}

\* Left Shift and Q, which is 1 on the symbol layer; U, the reject key, which
\* is 7 there: the keys that compete for Shift.
ShiftLeft == SUBSET {1, 12}
ShiftRight == {1, LAYER_KEY_2}

\* Left Ctrl and a layer key, and the first eight keys at once, whose word is the
\* sentinel and whose byte no read may return: it may be notified, be handed to
\* the callback of a read, and be latched.
SettleLeft == SUBSET {6, LAYER_KEY_1} \cup {BT_KBDS_VAL_INVALID}
SettleRight == {}

\* What DistinctAssumption says of the keys of a run holds of all the keys of
\* the program, on every layer.
ASSUME AllDistinct ==
    \A k, h \in Sides \X Positions, layer \in Layers :
        corne_key_map[k[1]][layer][k[2]] = corne_key_map[h[1]][layer][h[2]] =>
            k = h \/ corne_key_map[k[1]][layer][k[2]] = NONE

\* The words are followed, not the codes: every ordinary key sends nothing.
ModifiersOnly == [side \in Sides |-> [layer \in Layers |-> [pos \in Positions |->
    IF corne_key_map[side][layer][pos] \in mod_chr
    THEN corne_key_map[side][layer][pos] ELSE NONE]]]

\* What the code can tell states apart by: all but the history and `stray'.
CodeView == <<leftVars, hostVars, in_pairing_mode, last_keystate_left, mainVars, report>>

\* The runs with this view stop at the first hazard that the report minds; which
\* of the others came, one or both, nothing tells apart.  Without a race the old
\* difference that main holds between two samples is not looked at again.
IntactView ==
    <<leftVars, hostVars, in_pairing_mode, last_keystate_left, rightVars,
      IF InFlight THEN has_changed ELSE {}, layer_selection, pc, todo, report,
      stray, told, Intact, hazards = {}>>
=============================================================================
