------------------------ MODULE HubKeysReportProofs -------------------------
(***************************************************************************)
(* The report of HubKeys shows the keys that are held, for every table in  *)
(* which no two keys send the same, every set of keys and every number of  *)
(* slots.  The argument: what the report shows at any moment is the keys   *)
(* that are held, up to the edges that the loop of call_key_report has not *)
(* come to; every pass of it toggles one key, in the report and in them.   *)
(***************************************************************************)
EXTENDS HubKeysProofs, FiniteSetTheorems

(* What it means for slots and modifiers to show a set of keys, as pure    *)
(* operators of the layer, the keys and the report.                        *)
CodeOn(layer, k) == key_map[k[1]][layer][k[2]]
IsMod(k) == is_mod_chr(k[1], k[2])

Busy(cells) == { i \in Cells : cells[i] \notin {NONE, TRUE_BYTE} }
SlotCodes(layer, keys) == { CodeOn(layer, k) : k \in { h \in keys : ~IsMod(h) } } \ {NONE}
ModCodes(layer, keys) ==
    { CodeOn(layer, k) : k \in { h \in keys : IsMod(h) } }
    \cup { b \in {"LSHIFT"} : \E k \in keys : needs_shift(k[1], layer, k[2]) }

ShowsCodes(layer, keys, cells) ==
    /\ { cells[i] : i \in Busy(cells) } = SlotCodes(layer, keys)
    /\ \A i, j \in Busy(cells) : cells[i] = cells[j] => i = j
    /\ is_adv_cell \notin Busy(cells)

ShowsMods(layer, keys, mods) ==
    /\ mods \subseteq ModCodes(layer, keys)
    /\ ModCodes(layer, keys) \subseteq mods \cup {"LSHIFT"}

\* The words of the left half and what is left of the two loops.
WordsSound ==
    /\ keystates \in SUBSET LeftKeys \/ keystates = BT_KBDS_VAL_INVALID
    /\ last_keystate_left \subseteq LeftKeys
    /\ pc \in {"test", "left"} /\ keystates # BT_KBDS_VAL_INVALID =>
           has_changed = SymDiff(keystates, last_keystate_left)
    /\ pc = "left" => keystates # BT_KBDS_VAL_INVALID /\ todo \subseteq has_changed
    /\ pc = "right" => todo \subseteq right_keystate_change
    /\ pc \notin {"left", "right"} => todo = {}

ReportSound ==
    /\ ShowsCodes(layer_selection, ShownKeys, keys_state)
    /\ ShowsMods(layer_selection, ShownKeys, ctrl_keys_state)
    /\ ~stray

Follows == Intact => WordsSound /\ ReportSound

-----------------------------------------------------------------------------
(* One key more, one key less: slots.                                      *)

LEMMA CodeOfOrdinary ==
  ASSUME NEW layer \in Layers, NEW k \in Keys, ~IsMod(k)
  PROVE  CodeOn(layer, k) \in Codes \cup {NONE}
  BY KeyMapAssumption, KeysArePositions DEF CodeOn, IsMod, Keys, Sides

LEMMA Distinct ==
  ASSUME NEW layer \in Layers, NEW k \in Keys, NEW h \in Keys,
         CodeOn(layer, k) = CodeOn(layer, h), CodeOn(layer, k) # NONE
  PROVE  k = h
  BY DistinctAssumption DEF CodeOn

\* A key that sends nothing in a slot does not count.
LEMMA SilentKey ==
  ASSUME NEW layer, NEW keys, NEW k, IsMod(k) \/ CodeOn(layer, k) = NONE
  PROVE  /\ SlotCodes(layer, keys \cup {k}) = SlotCodes(layer, keys)
         /\ SlotCodes(layer, keys \ {k}) = SlotCodes(layer, keys)
  BY DEF SlotCodes

LEMMA AddCode ==
  ASSUME NEW layer \in Layers, NEW keys \in SUBSET Keys, NEW k \in Keys \ keys,
         NEW cells \in [Cells -> Codes \cup {NONE, TRUE_BYTE}],
         ShowsCodes(layer, keys, cells),
         NEW i \in Cells, cells[i] = NONE, i # is_adv_cell,
         ~IsMod(k), CodeOn(layer, k) # NONE
  PROVE  ShowsCodes(layer, keys \cup {k}, [cells EXCEPT ![i] = CodeOn(layer, k)])
  <1> DEFINE key == CodeOn(layer, k)
             new == [cells EXCEPT ![i] = key]
  <1>1. key \in Codes /\ key \notin {NONE, TRUE_BYTE}
    BY CodeOfOrdinary, KeyMapAssumption
  <1>2. SlotCodes(layer, keys \cup {k}) = SlotCodes(layer, keys) \cup {key}
    BY DEF SlotCodes
  <1>3. key \notin SlotCodes(layer, keys)
    BY Distinct DEF SlotCodes
  <1>4. i \notin Busy(cells)
    BY DEF Busy
  <1> HIDE DEF key
  <1>5. new[i] = key /\ \A j \in Cells : j # i => new[j] = cells[j]
    OBVIOUS
  <1> HIDE DEF new
  <1>6. Busy(new) = Busy(cells) \cup {i}
    BY <1>1, <1>5 DEF Busy
  <1>7. \A j \in Busy(cells) : j \in Cells /\ j # i /\ new[j] = cells[j] /\ new[j] # key
    BY <1>3, <1>4, <1>5 DEF Busy, ShowsCodes
  <1>8. { new[j] : j \in Busy(new) } = { cells[j] : j \in Busy(cells) } \cup {key}
    BY <1>5, <1>6, <1>7
  <1>9. \A j, h \in Busy(new) : new[j] = new[h] => j = h
    BY <1>5, <1>6, <1>7 DEF ShowsCodes
  <1>10. is_adv_cell \notin Busy(new)
    BY <1>6 DEF ShowsCodes
  <1>11. ShowsCodes(layer, keys \cup {k}, new)
    BY <1>2, <1>8, <1>9, <1>10 DEF ShowsCodes
  <1> QED
    BY <1>11 DEF new, key

LEMMA DropCode ==
  ASSUME NEW layer \in Layers, NEW keys \in SUBSET Keys, NEW k \in keys,
         NEW cells \in [Cells -> Codes \cup {NONE, TRUE_BYTE}],
         ShowsCodes(layer, keys, cells),
         NEW i \in Cells, cells[i] = CodeOn(layer, k),
         ~IsMod(k), CodeOn(layer, k) # NONE
  PROVE  ShowsCodes(layer, keys \ {k}, [cells EXCEPT ![i] = NONE])
  <1> DEFINE key == CodeOn(layer, k)
             new == [cells EXCEPT ![i] = NONE]
  <1>1. key \in Codes /\ key \notin {NONE, TRUE_BYTE}
    BY CodeOfOrdinary, KeyMapAssumption
  <1>2. SlotCodes(layer, keys \ {k}) = SlotCodes(layer, keys) \ {key}
    BY Distinct DEF SlotCodes
  <1>3. i \in Busy(cells)
    BY <1>1 DEF Busy
  <1> HIDE DEF key
  <1>4. new[i] = NONE /\ \A j \in Cells : j # i => new[j] = cells[j]
    OBVIOUS
  <1> HIDE DEF new
  <1>5. Busy(new) = Busy(cells) \ {i}
    BY <1>4 DEF Busy
  <1>6. \A j \in Busy(new) : j \in Busy(cells) /\ new[j] = cells[j] /\ new[j] # key
    <2> SUFFICES ASSUME NEW j \in Busy(new)
                 PROVE  j \in Busy(cells) /\ new[j] = cells[j] /\ new[j] # key
      OBVIOUS
    <2>1. j \in Busy(cells) /\ j # i /\ j \in Cells
      BY <1>5 DEF Busy
    <2>2. cells[i] = key
      BY DEF key
    <2> QED
      BY <2>1, <2>2, <1>3, <1>4 DEF ShowsCodes
  <1>7. { new[j] : j \in Busy(new) } = { cells[j] : j \in Busy(cells) } \ {key}
    <2>1. cells[i] = key
      BY DEF key
    <2>2. \A j \in Busy(cells) : cells[j] # key => j \in Busy(new)
      BY <1>5, <2>1
    <2> QED
      BY <1>6, <2>2
  <1>8. \A j, h \in Busy(new) : new[j] = new[h] => j = h
    BY <1>6 DEF ShowsCodes
  <1>9. is_adv_cell \notin Busy(new)
    BY <1>5 DEF ShowsCodes
  <1>10. ShowsCodes(layer, keys \ {k}, new)
    BY <1>2, <1>7, <1>8, <1>9 DEF ShowsCodes
  <1> QED
    BY <1>10 DEF new, key

-----------------------------------------------------------------------------
(* One key more, one key less: modifiers.                                  *)

KeyBits(layer, k) ==
    (IF IsMod(k) THEN {CodeOn(layer, k)} ELSE {})
    \cup (IF needs_shift(k[1], layer, k[2]) THEN {"LSHIFT"} ELSE {})

LEMMA AddMods ==
  ASSUME NEW layer, NEW keys, NEW k, NEW mods, ShowsMods(layer, keys, mods)
  PROVE  ShowsMods(layer, keys \cup {k}, mods \cup KeyBits(layer, k))
  <1>1. ModCodes(layer, keys \cup {k}) = ModCodes(layer, keys) \cup KeyBits(layer, k)
    BY DEF ModCodes, KeyBits
  <1> QED
    BY <1>1 DEF ShowsMods

\* Two modifier keys never set the same bit; only Shift is also set by keys
\* that are none.
LEMMA DropMods ==
  ASSUME NEW layer \in Layers, NEW keys \in SUBSET Keys, NEW k \in keys, NEW mods,
         ShowsMods(layer, keys, mods)
  PROVE  ShowsMods(layer, keys \ {k}, mods \ KeyBits(layer, k))
  <1>1. ModCodes(layer, keys) \ KeyBits(layer, k) \subseteq ModCodes(layer, keys \ {k})
    BY DEF ModCodes, KeyBits
  <1>2. ASSUME NEW b \in ModCodes(layer, keys \ {k}), b # "LSHIFT"
        PROVE  b \in mods \ KeyBits(layer, k)
    <2>1. PICK h \in keys \ {k} : IsMod(h) /\ b = CodeOn(layer, h)
      BY <1>2 DEF ModCodes
    <2>2. b \in mods
      BY <1>2, <2>1 DEF ShowsMods, ModCodes
    <2>3. b # NONE
      <3>1. b \in mod_chr
        BY <2>1, KeyMapAssumption, KeysArePositions DEF CodeOn, IsMod, Keys, Sides
      <3> QED
        BY <3>1 DEF mod_chr, NONE
    <2>4. CodeOn(layer, k) # b
      BY <2>1, <2>3, Distinct
    <2> QED
      BY <1>2, <2>2, <2>4 DEF KeyBits
  <1> QED
    BY <1>1, <1>2 DEF ShowsMods

-----------------------------------------------------------------------------
(* One pass of a loop: create_report shows one key more, or one less.      *)

LEMMA PressShows ==
  ASSUME TypeOK, NEW side \in Sides, NEW pos \in Positions, <<side, pos>> \in Keys,
         NEW keys \in SUBSET Keys, <<side, pos>> \notin keys,
         ~is_layer_key(side, pos), create_report(TRUE, side, pos), Intact',
         ShowsCodes(layer_selection, keys, keys_state),
         ShowsMods(layer_selection, keys, ctrl_keys_state), ~stray
  PROVE  /\ ShowsCodes(layer_selection, keys \cup {<<side, pos>>}, keys_state')
         /\ ShowsMods(layer_selection, keys \cup {<<side, pos>>}, ctrl_keys_state')
         /\ ~stray'
  <1> DEFINE k == <<side, pos>>
             key == IF is_mod_chr(side, pos) THEN NONE ELSE Code(side, pos)
             full == key # NONE /\ CellsWith(NONE) \subseteq {is_adv_cell}
  <1>1. /\ ctrl_keys_state' = ctrl_keys_state \cup ModBits(side, pos)
        /\ hid_kbd_state_key_set(key)
        /\ key_report_send(When("overflow", full))
    <2>1. /\ set_or_clear_mod_byte(TRUE, ModBits(side, pos))
          /\ button_text_change(TRUE, key)
          /\ key_report_send(When("overflow", TRUE /\ full))
      BY DEF create_report
    <2>2. ctrl_keys_state' = ctrl_keys_state \cup ModBits(side, pos)
      BY <2>1 DEF set_or_clear_mod_byte
    <2>3. hid_kbd_state_key_set(key)
      <3> HIDE DEF key
      <3> QED
        BY <2>1 DEF button_text_change
    <2> QED
      BY <2>1, <2>2, <2>3
  <1>2. ~full
    <2> HIDE DEF full
    <2> QED
      BY <1>1 DEF key_report_send, Note, When, Intact
  <1>3. layer_selection \in Layers /\ keys_state \in [Cells -> Codes \cup {NONE, TRUE_BYTE}]
    BY DEF TypeOK, MainOK, ReportOK
  <1>4. ModBits(side, pos) = KeyBits(layer_selection, k)
    BY DEF ModBits, KeyBits, IsMod, CodeOn, Code
  <1>5. ShowsMods(layer_selection, keys \cup {k}, ctrl_keys_state')
    BY <1>1, <1>4, AddMods
  <1>6. CASE key = NONE
    <2>1. IsMod(k) \/ CodeOn(layer_selection, k) = NONE
      BY <1>6 DEF IsMod, CodeOn, Code
    <2>2. keys_state' = keys_state /\ ~stray'
      <3> HIDE DEF key
      <3>1. keys_state' = keys_state
        BY <1>1, <1>6 DEF hid_kbd_state_key_set
      <3>2. ~stray'
        BY <1>1, <1>6, Zenon DEF hid_kbd_state_key_set
      <3> QED
        BY <3>1, <3>2
    <2>3. SlotCodes(layer_selection, keys \cup {k}) = SlotCodes(layer_selection, keys)
      BY <2>1, SilentKey
    <2> QED
      BY <1>5, <2>2, <2>3 DEF ShowsCodes
  <1>7. CASE key # NONE
    <2>1. key = CodeOn(layer_selection, k) /\ ~IsMod(k)
      BY <1>7 DEF IsMod, CodeOn, Code
    <2>2. CellsWith(NONE) # {} /\ ~(CellsWith(NONE) \subseteq {is_adv_cell})
      BY <1>2, <1>7
    <2> HIDE DEF key
    <2>3. PICK i \in FirstOf(CellsWith(NONE)) : keys_state' = [keys_state EXCEPT ![i] = key]
      BY <1>1, <1>7, <2>2 DEF hid_kbd_state_key_set
    <2>4. i \in Cells /\ keys_state[i] = NONE /\ i # is_adv_cell
      BY <2>2, SlotsAssumption DEF FirstOf, CellsWith, Cells, is_adv_cell
    <2>5. stray' = stray
      BY <1>1, <1>7, <2>2 DEF hid_kbd_state_key_set
    <2>6. ShowsCodes(layer_selection, keys \cup {k}, keys_state')
      <3> HIDE DEF k
      <3>1. k \in Keys \ keys
        BY DEF k
      <3> QED
        BY <1>3, <1>7, <2>1, <2>3, <2>4, <3>1, AddCode
    <2> QED
      BY <1>5, <2>5, <2>6
  <1> QED
    BY <1>6, <1>7

LEMMA ReleaseShows ==
  ASSUME TypeOK, NEW side \in Sides, NEW pos \in Positions,
         NEW keys \in SUBSET Keys, <<side, pos>> \in keys,
         ~is_layer_key(side, pos), create_report(FALSE, side, pos),
         ShowsCodes(layer_selection, keys, keys_state),
         ShowsMods(layer_selection, keys, ctrl_keys_state), ~stray
  PROVE  /\ ShowsCodes(layer_selection, keys \ {<<side, pos>>}, keys_state')
         /\ ShowsMods(layer_selection, keys \ {<<side, pos>>}, ctrl_keys_state')
         /\ ~stray'
  <1> DEFINE k == <<side, pos>>
             key == IF is_mod_chr(side, pos) THEN NONE ELSE Code(side, pos)
  <1>1. /\ ctrl_keys_state' = ctrl_keys_state \ ModBits(side, pos)
        /\ hid_kbd_state_key_clear(key)
    <2>1. /\ set_or_clear_mod_byte(FALSE, ModBits(side, pos))
          /\ button_text_change(FALSE, key)
      BY DEF create_report
    <2>2. ctrl_keys_state' = ctrl_keys_state \ ModBits(side, pos)
      BY <2>1 DEF set_or_clear_mod_byte
    <2>3. hid_kbd_state_key_clear(key)
      <3> HIDE DEF key
      <3> QED
        BY <2>1 DEF button_text_change
    <2> QED
      BY <2>2, <2>3
  <1>2. layer_selection \in Layers /\ keys_state \in [Cells -> Codes \cup {NONE, TRUE_BYTE}]
    BY DEF TypeOK, MainOK, ReportOK
  <1>3. ModBits(side, pos) = KeyBits(layer_selection, k)
    BY DEF ModBits, KeyBits, IsMod, CodeOn, Code
  <1>4. ShowsMods(layer_selection, keys \ {k}, ctrl_keys_state')
    BY <1>1, <1>2, <1>3, DropMods
  <1>5. CASE key = NONE
    <2>1. IsMod(k) \/ CodeOn(layer_selection, k) = NONE
      BY <1>5 DEF IsMod, CodeOn, Code
    <2>2. keys_state' = keys_state /\ ~stray'
      <3> HIDE DEF key
      <3>1. keys_state' = keys_state
        BY <1>1, <1>5 DEF hid_kbd_state_key_clear
      <3>2. ~stray'
        BY <1>1, <1>5, Zenon DEF hid_kbd_state_key_clear
      <3> QED
        BY <3>1, <3>2
    <2>3. SlotCodes(layer_selection, keys \ {k}) = SlotCodes(layer_selection, keys)
      BY <2>1, SilentKey
    <2> QED
      BY <1>4, <2>2, <2>3 DEF ShowsCodes
  <1>6. CASE key # NONE
    <2>1. key = CodeOn(layer_selection, k) /\ ~IsMod(k)
      BY <1>6 DEF IsMod, CodeOn, Code
    <2> HIDE DEF key
    <2>2. CellsWith(key) # {}
      <3>1. key \in SlotCodes(layer_selection, keys)
        BY <1>6, <2>1 DEF SlotCodes
      <3> QED
        BY <3>1 DEF ShowsCodes, Busy, CellsWith
    <2>3. PICK i \in FirstOf(CellsWith(key)) : keys_state' = [keys_state EXCEPT ![i] = NONE]
      BY <1>1, <1>6, <2>2 DEF hid_kbd_state_key_clear
    <2>4. i \in Cells /\ keys_state[i] = key
      BY DEF FirstOf, CellsWith
    <2>5. stray' = stray
      BY <1>1, <1>6, <2>2 DEF hid_kbd_state_key_clear
    <2>6. ShowsCodes(layer_selection, keys \ {k}, keys_state')
      <3> HIDE DEF k
      <3>1. k \in keys
        BY DEF k
      <3> QED
        BY <1>2, <1>6, <2>1, <2>3, <2>4, <3>1, DropCode
    <2> QED
      BY <1>4, <2>5, <2>6
  <1> QED
    BY <1>5, <1>6

-----------------------------------------------------------------------------
(* The steps of the pipeline, while none of the hazards has come.          *)

LEMMA HazardsGrow == [Next]_vars => hazards \subseteq hazards'
  <1> SUFFICES ASSUME [Next]_vars PROVE hazards \subseteq hazards'
    OBVIOUS
  <1> USE DEF Note, When
  <1>1. ASSUME NEW down, NEW side, NEW pos, create_report(down, side, pos)
        PROVE  hazards \subseteq hazards'
    BY <1>1 DEF create_report, key_report_send
  <1>2. CASE Main
    BY <1>1, <1>2 DEF Main, LoopTest, Sample, TestLeft, LeftBit, LatchLeft, RightBit, Scan,
       PairScan, pairing_mode, num_comp_reply, LeavePairingMode
  <1>3. CASE LeftCallback
    BY <1>3 DEF LeftCallback, LeftConnected, discovery_completed_cb, notify_process,
       read_process, read_failed, LeftDisconnected
  <1>4. CASE HostCallback
    BY <1>4 DEF HostCallback, HostConnected, HostDisconnected, security_changed,
       auth_passkey_confirm, pairing_failed
  <1> QED
    BY <1>2, <1>3, <1>4 DEF Next, vars

LEMMA ShownAreKeys ==
  ASSUME TypeOK, WordsSound
  PROVE  ShownKeys \in SUBSET Keys
  <1>1. ShownLeft \subseteq LeftKeys
    BY DEF ShownLeft, WordsSound, SymDiff
  <1>2. ShownRight \subseteq RightKeys
    BY DEF ShownRight, WordsSound, SymDiff, TypeOK, MainOK
  <1> QED
    BY <1>1, <1>2 DEF ShownKeys, Shown, Sides, Keys

\* A step that shows nothing new and leaves the report alone.
LEMMA SameReport ==
  ASSUME ReportSound, ShownLeft' = ShownLeft, ShownRight' = ShownRight,
         layer_selection' = layer_selection, UNCHANGED <<report, stray>>
  PROVE  ReportSound'
  <1>1. ShownKeys' = ShownKeys
    BY DEF ShownKeys
  <1> QED
    BY <1>1 DEF ReportSound, report

\* A key that is shown, too, or no more.
LEMMA OneMore ==
  ASSUME NEW L, NEW R, NEW L2, NEW R2, NEW side \in Sides, NEW pos, ~is_layer_key(side, pos),
         \/ side = "left" /\ L2 = L \cup {pos} /\ R2 = R
         \/ side = "right" /\ L2 = L /\ R2 = R \cup {pos}
  PROVE  Shown(L2, R2) = Shown(L, R) \cup {<<side, pos>>}
  BY DEF Shown

LEMMA OneLess ==
  ASSUME NEW L, NEW R, NEW L2, NEW R2, NEW side \in Sides, NEW pos,
         \/ side = "left" /\ L2 = L \ {pos} /\ R2 = R
         \/ side = "right" /\ L2 = L /\ R2 = R \ {pos}
  PROVE  Shown(L2, R2) = Shown(L, R) \ {<<side, pos>>}
  BY DEF Shown

\* Another layer that means the same for all the keys that are held.
LEMMA SameLayer ==
  ASSUME NEW keys, NEW l, NEW m,
         \A k \in keys : /\ CodeOn(l, k) = CodeOn(m, k)
                         /\ needs_shift(k[1], l, k[2]) = needs_shift(k[1], m, k[2])
  PROVE  SlotCodes(l, keys) = SlotCodes(m, keys) /\ ModCodes(l, keys) = ModCodes(m, keys)
  BY DEF SlotCodes, ModCodes

\* One pass of a loop of call_key_report: one key more is shown, or one less,
\* and the report is told so; a layer key is not shown.
Toggles(down, side, pos) ==
    /\ <<side, pos>> \in Keys
    /\ create_report(down, side, pos)
    /\ IF is_layer_key(side, pos) THEN ShownKeys' = ShownKeys
       ELSE IF down THEN /\ <<side, pos>> \notin ShownKeys
                         /\ ShownKeys' = ShownKeys \cup {<<side, pos>>}
       ELSE /\ <<side, pos>> \in ShownKeys
            /\ ShownKeys' = ShownKeys \ {<<side, pos>>}

LEMMA LeftBitToggles ==
  ASSUME TypeOK, WordsSound, LeftBit
  PROVE  \E pos \in LeftKeys : Toggles(pos \in keystates, "left", pos)
  <1>1. PICK pos \in todo : /\ create_report(pos \in keystates, "left", pos)
                            /\ todo' = todo \ {pos}
    BY DEF LeftBit
  <1>2. /\ pc = "left" /\ pc' = "left"
        /\ UNCHANGED <<keystates, last_keystate_left, last_keystate_right,
                       right_keystate_change, has_changed>>
    BY DEF LeftBit, leftVars, rightVars, passVars
  <1>3. todo \subseteq has_changed /\ has_changed = SymDiff(keystates, last_keystate_left)
    BY <1>2 DEF WordsSound
  <1>4. ShownRight' = ShownRight
    BY <1>2 DEF ShownRight
  <1>5. pos \in LeftKeys
    BY <1>1, <1>2, <1>3 DEF WordsSound, SymDiff
  <1>6. <<"left", pos>> \in Keys /\ "left" \in Sides
    BY <1>5 DEF Keys, Sides
  <1>7. ShownLeft' = SymDiff(ShownLeft, {pos})
    BY <1>1, <1>2, <1>3 DEF ShownLeft, SymDiff
  <1>8. pos \in ShownLeft <=> pos \notin keystates
    BY <1>1, <1>2, <1>3 DEF ShownLeft, SymDiff
  <1>9. CASE is_layer_key("left", pos)
    <2>1. ShownKeys' = ShownKeys
      BY <1>4, <1>7, <1>9 DEF ShownKeys, Shown, SymDiff
    <2> QED
      BY <1>1, <1>5, <1>6, <1>9, <2>1 DEF Toggles
  <1>10. CASE ~is_layer_key("left", pos) /\ pos \in keystates
    <2>1. ShownLeft' = ShownLeft \cup {pos}
      BY <1>7, <1>8, <1>10 DEF SymDiff
    <2>2. ShownKeys' = ShownKeys \cup {<<"left", pos>>}
      BY <1>4, <1>6, <1>10, <2>1, OneMore DEF ShownKeys
    <2>3. <<"left", pos>> \notin ShownKeys
      BY <1>8, <1>10 DEF ShownKeys, Shown
    <2> QED
      BY <1>1, <1>5, <1>6, <1>10, <2>2, <2>3 DEF Toggles
  <1>11. CASE ~is_layer_key("left", pos) /\ pos \notin keystates
    <2>1. ShownLeft' = ShownLeft \ {pos}
      BY <1>7, <1>8, <1>11 DEF SymDiff
    <2>2. ShownKeys' = ShownKeys \ {<<"left", pos>>}
      BY <1>4, <1>6, <2>1, OneLess DEF ShownKeys
    <2>3. <<"left", pos>> \in ShownKeys
      BY <1>8, <1>11 DEF ShownKeys, Shown
    <2> QED
      BY <1>1, <1>5, <1>6, <1>11, <2>2, <2>3 DEF Toggles
  <1> QED
    BY <1>9, <1>10, <1>11

LEMMA RightBitToggles ==
  ASSUME TypeOK, WordsSound, RightBit
  PROVE  \E pos \in RightKeys : Toggles(pos \in last_keystate_right, "right", pos)
  <1>1. PICK pos \in todo : /\ create_report(pos \in last_keystate_right, "right", pos)
                            /\ todo' = todo \ {pos}
    BY DEF RightBit
  <1>2. /\ pc = "right" /\ pc' = "right"
        /\ UNCHANGED <<last_keystate_left, last_keystate_right, right_keystate_change,
                       has_changed>>
    BY DEF RightBit, rightVars, passVars
  <1>3. ShownLeft' = ShownLeft
    BY <1>2 DEF ShownLeft
  <1>4. pos \in RightKeys
    BY <1>1, <1>2 DEF WordsSound, TypeOK, MainOK
  <1>5. <<"right", pos>> \in Keys /\ "right" \in Sides
    BY <1>4 DEF Keys, Sides
  <1>6. ShownRight' = SymDiff(ShownRight, {pos})
    BY <1>1, <1>2 DEF ShownRight, SymDiff
  <1>7. pos \in ShownRight <=> pos \notin last_keystate_right
    BY <1>1, <1>2 DEF ShownRight, SymDiff
  <1>8. CASE is_layer_key("right", pos)
    <2>1. ShownKeys' = ShownKeys
      BY <1>3, <1>6, <1>8 DEF ShownKeys, Shown, SymDiff
    <2> QED
      BY <1>1, <1>4, <1>5, <1>8, <2>1 DEF Toggles
  <1>9. CASE ~is_layer_key("right", pos) /\ pos \in last_keystate_right
    <2>1. ShownRight' = ShownRight \cup {pos}
      BY <1>6, <1>7, <1>9 DEF SymDiff
    <2>2. ShownKeys' = ShownKeys \cup {<<"right", pos>>}
      BY <1>3, <1>5, <1>9, <2>1, OneMore DEF ShownKeys
    <2>3. <<"right", pos>> \notin ShownKeys
      BY <1>7, <1>9 DEF ShownKeys, Shown
    <2> QED
      BY <1>1, <1>4, <1>5, <1>9, <2>2, <2>3 DEF Toggles
  <1>10. CASE ~is_layer_key("right", pos) /\ pos \notin last_keystate_right
    <2>1. ShownRight' = ShownRight \ {pos}
      BY <1>6, <1>7, <1>10 DEF SymDiff
    <2>2. ShownKeys' = ShownKeys \ {<<"right", pos>>}
      BY <1>3, <1>5, <2>1, OneLess DEF ShownKeys
    <2>3. <<"right", pos>> \in ShownKeys
      BY <1>7, <1>10 DEF ShownKeys, Shown
    <2> QED
      BY <1>1, <1>4, <1>5, <1>10, <2>2, <2>3 DEF Toggles
  <1> QED
    BY <1>8, <1>9, <1>10

LEMMA ToggleSound ==
  ASSUME TypeOK, WordsSound, ReportSound, layer_selection' = layer_selection, Intact',
         NEW side \in Sides, NEW pos \in Positions, NEW down \in BOOLEAN,
         Toggles(down, side, pos)
  PROVE  ReportSound'
  <1> DEFINE k == <<side, pos>>
  <1>1. ShownKeys \in SUBSET Keys /\ k \in Keys
    BY ShownAreKeys DEF Toggles
  <1>2. CASE is_layer_key(side, pos)
    <2>1. ShownKeys' = ShownKeys /\ UNCHANGED <<report, stray>>
      BY <1>2 DEF Toggles, create_report, reportVars
    <2> QED
      BY <2>1 DEF ReportSound, report
  <1>3. CASE ~is_layer_key(side, pos) /\ down = TRUE
    <2>1. /\ k \notin ShownKeys /\ ShownKeys' = ShownKeys \cup {k}
          /\ create_report(TRUE, side, pos)
      BY <1>3 DEF Toggles
    <2>2. /\ ShowsCodes(layer_selection, ShownKeys \cup {k}, keys_state')
          /\ ShowsMods(layer_selection, ShownKeys \cup {k}, ctrl_keys_state')
          /\ ~stray'
      BY <1>1, <1>3, <2>1, PressShows DEF ReportSound
    <2> QED
      BY <2>1, <2>2 DEF ReportSound
  <1>4. CASE ~is_layer_key(side, pos) /\ down = FALSE
    <2>1. /\ k \in ShownKeys /\ ShownKeys' = ShownKeys \ {k}
          /\ create_report(FALSE, side, pos)
      BY <1>4 DEF Toggles
    <2>2. /\ ShowsCodes(layer_selection, ShownKeys \ {k}, keys_state')
          /\ ShowsMods(layer_selection, ShownKeys \ {k}, ctrl_keys_state')
          /\ ~stray'
      BY <1>1, <1>4, <2>1, ReleaseShows DEF ReportSound
    <2> QED
      BY <2>1, <2>2 DEF ReportSound
  <1> QED
    BY <1>2, <1>3, <1>4

\* One key of either half goes down or up.
LEMMA BitSound ==
  ASSUME TypeOK, WordsSound, ReportSound, LeftBit \/ RightBit, Intact'
  PROVE  WordsSound' /\ ReportSound'
  <1>1. /\ UNCHANGED <<keystates, last_keystate_left, last_keystate_right,
                       right_keystate_change, has_changed, layer_selection, pc>>
        /\ todo' \subseteq todo /\ pc \in {"left", "right"}
    BY DEF LeftBit, RightBit, leftVars, rightVars, passVars
  <1>2. WordsSound'
    BY <1>1 DEF WordsSound
  <1>3. CASE LeftBit
    <2>1. PICK pos \in LeftKeys : Toggles(pos \in keystates, "left", pos)
      BY <1>3, LeftBitToggles
    <2>2. (pos \in keystates) \in BOOLEAN /\ pos \in Positions /\ "left" \in Sides
      BY KeysArePositions DEF Sides
    <2>3. ReportSound'
      BY <1>1, <2>1, <2>2, ToggleSound
    <2> QED
      BY <1>2, <2>3
  <1>4. CASE RightBit
    <2>1. PICK pos \in RightKeys : Toggles(pos \in last_keystate_right, "right", pos)
      BY <1>4, RightBitToggles
    <2>2. (pos \in last_keystate_right) \in BOOLEAN /\ pos \in Positions /\ "right" \in Sides
      BY KeysArePositions DEF Sides
    <2>3. ReportSound'
      BY <1>1, <2>1, <2>2, ToggleSound
    <2> QED
      BY <1>2, <2>3
  <1> QED
    BY <1>3, <1>4

\* The first part of call_key_report: another layer must mean the same.
LEMMA SampleSound ==
  ASSUME TypeOK, WordsSound, ReportSound, Sample, Intact'
  PROVE  WordsSound' /\ ReportSound'
  <1>1. /\ pc = "sample" /\ pc' = "test" /\ layer_selection' = LayerFor
        /\ UNCHANGED <<keystates, last_keystate_left, last_keystate_right,
                       right_keystate_change, todo, report, stray>>
    BY DEF Sample, leftVars, rightVars, reportVars
  <1>2. WordsSound'
    <2>1. has_changed' = IF keystates # BT_KBDS_VAL_INVALID
                         THEN SymDiff(keystates, last_keystate_left) ELSE has_changed
      BY DEF Sample
    <2> QED
      BY <1>1, <2>1 DEF WordsSound
  <1>3. ShownKeys' = ShownKeys
    BY <1>1 DEF ShownKeys, ShownLeft, ShownRight
  <1>4. ~Reinterprets(LayerFor)
    BY DEF Sample, Note, When, Intact
  <1>6. \A k \in ShownKeys :
           /\ CodeOn(LayerFor, k) = CodeOn(layer_selection, k)
           /\ needs_shift(k[1], LayerFor, k[2]) = needs_shift(k[1], layer_selection, k[2])
    BY <1>4 DEF Reinterprets, CodeOn, Code
  <1>7. /\ SlotCodes(LayerFor, ShownKeys) = SlotCodes(layer_selection, ShownKeys)
        /\ ModCodes(LayerFor, ShownKeys) = ModCodes(layer_selection, ShownKeys)
    BY <1>6, SameLayer
  <1>8. /\ ShowsCodes(LayerFor, ShownKeys, keys_state)
        /\ ShowsMods(LayerFor, ShownKeys, ctrl_keys_state) /\ ~stray
    BY <1>7 DEF ReportSound, ShowsCodes, ShowsMods
  <1> QED
    BY <1>1, <1>2, <1>3, <1>8 DEF ReportSound, report

\* The steps that neither show another key nor touch the report.
Quiet ==
    /\ ShownLeft' = ShownLeft /\ ShownRight' = ShownRight
    /\ UNCHANGED <<layer_selection, reportVars, host>>

LEMMA QuietMain ==
  ASSUME TypeOK, WordsSound, Intact',
         \/ LoopTest \/ TestLeft \/ LatchLeft \/ Scan \/ PairScan
         \/ pairing_mode \/ num_comp_reply \/ LeavePairingMode
  PROVE  WordsSound' /\ Quiet
  <1> USE DEF leftVars, hostVars, rightVars, passVars
  <1>1. CASE LoopTest
    BY <1>1 DEF LoopTest, WordsSound, Quiet, ShownLeft, ShownRight
  <1>2. CASE TestLeft
    <2>1. WordsSound'
      BY <1>2 DEF TestLeft, WordsSound
    <2>2. ShownLeft' = ShownLeft /\ ShownRight' = ShownRight
      BY <1>2 DEF TestLeft, ShownLeft, ShownRight, SymDiff
    <2> QED
      BY <1>2, <2>1, <2>2 DEF TestLeft, Quiet
  <1>3. CASE LatchLeft
    <2>1. keystates # BT_KBDS_VAL_INVALID /\ has_changed = SymDiff(keystates, last_keystate_left)
      BY <1>3 DEF LatchLeft, WordsSound
    <2>2. WordsSound'
      BY <1>3, <2>1 DEF LatchLeft, WordsSound
    <2>3. ShownLeft' = ShownLeft
      BY <1>3, <2>1 DEF LatchLeft, ShownLeft, SymDiff
    <2> QED
      BY <1>3, <2>2, <2>3 DEF LatchLeft, Quiet, ShownRight
  <1>4. ASSUME NEW buttons \in SUBSET RightKeys, get_keystate(buttons)
        PROVE  SymDiff(last_keystate_right, right_keystate_change)' = last_keystate_right
    BY <1>4 DEF get_keystate, SymDiff
  <1>5. CASE Scan
    <2>1. WordsSound'
      BY <1>5 DEF Scan, WordsSound
    <2>2. ShownRight' = ShownRight
      BY <1>4, <1>5 DEF Scan, ShownRight, SymDiff
    <2> QED
      BY <1>5, <2>1, <2>2 DEF Scan, Quiet, ShownLeft
  <1>6. CASE PairScan
    <2>1. WordsSound'
      BY <1>6 DEF PairScan, WordsSound
    <2>2. right_keystate_change = {}
      BY <1>6 DEF PairScan, Note, When, Intact
    <2>3. ShownRight' = ShownRight
      BY <1>4, <1>6, <2>2 DEF PairScan, ShownRight, SymDiff
    <2> QED
      BY <1>6, <2>1, <2>3 DEF PairScan, Quiet, ShownLeft
  <1>7. CASE pairing_mode \/ num_comp_reply \/ LeavePairingMode
    BY <1>7 DEF pairing_mode, num_comp_reply, LeavePairingMode, H!Taken, H!Left, WordsSound,
       Quiet, ShownLeft, ShownRight
  <1> QED
    BY <1>1, <1>2, <1>3, <1>5, <1>6, <1>7

\* The callbacks: a word that comes while main is on the way to latch the
\* one before is a hazard, unless it is the same.
LEMMA QuietLeft ==
  ASSUME WordsSound, LeftCallback, Intact'
  PROVE  WordsSound' /\ Quiet
  <1> USE DEF Note, When, Intact
  <1>1. /\ UNCHANGED <<hostVars, mainVars, reportVars, last_keystate_left>>
        /\ InFlight => keystates' = keystates
        /\ keystates' \in SUBSET LeftKeys \/ keystates' = BT_KBDS_VAL_INVALID
    <2>1. CASE LeftConnected \/ read_failed
      BY <2>1 DEF LeftConnected, read_failed, F!Connected, F!Unanswered, WordsSound
    <2>2. CASE discovery_completed_cb
      BY <2>2 DEF discovery_completed_cb, F!Discovered, F!BT_KBDS_VAL_INVALID,
         BT_KBDS_VAL_INVALID
    <2>3. CASE LeftDisconnected
      BY <2>3 DEF LeftDisconnected, F!Disconnected
    <2>4. ASSUME NEW word \in LeftWords, notify_process(word) PROVE <1>1!:
      BY <2>4, KeysArePositions DEF notify_process, F!Notified
    <2>5. ASSUME NEW word \in LeftWords, read_process(LowByte(word)) PROVE <1>1!:
      BY <2>5, KeysArePositions DEF read_process, F!Answered, read_keystates_cb, WordsSound
    <2> QED
      BY <2>1, <2>2, <2>3, <2>4, <2>5 DEF LeftCallback
  <1>2. WordsSound'
    BY <1>1 DEF WordsSound, InFlight, mainVars, rightVars, passVars
  <1> QED
    BY <1>1, <1>2 DEF mainVars, rightVars, passVars, hostVars, Quiet, ShownLeft, ShownRight

LEMMA MainSteps ==
  ASSUME TypeOK, WordsSound, ReportSound, Main, Intact'
  PROVE  WordsSound' /\ ReportSound'
  <1>1. CASE Sample
    BY <1>1, SampleSound
  <1>2. CASE LeftBit \/ RightBit
    BY <1>2, BitSound
  <1>3. CASE ~Sample /\ ~LeftBit /\ ~RightBit
    <2>1. WordsSound' /\ Quiet
      BY <1>3, QuietMain DEF Main
    <2> QED
      BY <2>1, SameReport DEF Quiet, reportVars
  <1> QED
    BY <1>1, <1>2, <1>3

LEMMA LeftSteps ==
  ASSUME WordsSound, ReportSound, LeftCallback, Intact'
  PROVE  WordsSound' /\ ReportSound'
  <1>1. WordsSound' /\ Quiet
    BY QuietLeft
  <1> QED
    BY <1>1, SameReport DEF Quiet, reportVars

\* The byte after the report changes between zero and is_adv's true.
LEMMA HostSteps ==
  ASSUME TypeOK, WordsSound, ReportSound, HostCallback
  PROVE  WordsSound' /\ ReportSound'
  <1>1. UNCHANGED <<leftVars, last_keystate_left, mainVars, ctrl_keys_state, stray>>
    BY DEF HostCallback, HostConnected, HostDisconnected, security_changed,
       auth_passkey_confirm, pairing_failed, reportVars, report
  <1>2. \/ keys_state' = keys_state
        \/ \E byte \in {NONE, TRUE_BYTE} : keys_state' = [keys_state EXCEPT ![is_adv_cell] = byte]
    BY DEF HostCallback, HostConnected, HostDisconnected, security_changed,
       auth_passkey_confirm, pairing_failed, reportVars, report
  <1>3. WordsSound'
    BY <1>1 DEF leftVars, mainVars, rightVars, passVars, WordsSound
  <1>4. ShownKeys' = ShownKeys /\ layer_selection' = layer_selection
    BY <1>1 DEF leftVars, mainVars, rightVars, passVars, ShownKeys, ShownLeft, ShownRight
  <1>5. ASSUME NEW byte \in {NONE, TRUE_BYTE},
               keys_state' = [keys_state EXCEPT ![is_adv_cell] = byte]
        PROVE  ShowsCodes(layer_selection, ShownKeys, keys_state')
    <2>1. keys_state \in [Cells -> Codes \cup {NONE, TRUE_BYTE}] /\ is_adv_cell \in Cells
      BY SlotsAssumption DEF TypeOK, ReportOK, Cells, is_adv_cell
    <2>2. keys_state'[is_adv_cell] = byte
          /\ \A i \in Cells : i # is_adv_cell => keys_state'[i] = keys_state[i]
      BY <1>5, <2>1
    <2>3. is_adv_cell \notin Busy(keys_state)
      BY DEF ReportSound, ShowsCodes
    <2>4. Busy(keys_state') = Busy(keys_state)
      BY <2>2, <2>3 DEF Busy
    <2>5. \A i \in Busy(keys_state) : keys_state'[i] = keys_state[i]
      BY <2>2, <2>3 DEF Busy
    <2>6. { keys_state'[i] : i \in Busy(keys_state') } = { keys_state[i] : i \in Busy(keys_state) }
      BY <2>4, <2>5
    <2>7. \A i, j \in Busy(keys_state') : keys_state'[i] = keys_state'[j] => i = j
      BY <2>4, <2>5 DEF ReportSound, ShowsCodes
    <2> QED
      BY <2>3, <2>4, <2>6, <2>7 DEF ReportSound, ShowsCodes
  <1>6. ShowsCodes(layer_selection, ShownKeys, keys_state')
    BY <1>2, <1>5 DEF ReportSound
  <1> QED
    BY <1>1, <1>3, <1>4, <1>6 DEF ReportSound

LEMMA NextFollows == TypeOK /\ Follows /\ [Next]_vars => Follows'
  <1> SUFFICES ASSUME TypeOK, Follows, [Next]_vars, Intact'
               PROVE  WordsSound' /\ ReportSound'
    BY DEF Follows
  <1>1. WordsSound /\ ReportSound
    BY HazardsGrow DEF Follows, Intact
  <1>2. CASE UNCHANGED vars
    <2>1. WordsSound'
      BY <1>1, <1>2 DEF vars, leftVars, mainVars, rightVars, passVars, WordsSound
    <2> QED
      BY <1>1, <1>2, <2>1, SameReport DEF vars, leftVars, mainVars, rightVars, passVars,
         reportVars, ShownLeft, ShownRight
  <1> QED
    BY <1>1, <1>2, MainSteps, LeftSteps, HostSteps DEF Next

LEMMA InitFollows == Init => Follows
  <1> SUFFICES ASSUME Init PROVE WordsSound /\ ReportSound
    BY DEF Follows
  <1>1. WordsSound
    BY DEF Init, WordsSound
  <1>2. ShownLeft = {} /\ ShownRight = {}
    BY DEF Init, ShownLeft, ShownRight, SymDiff
  <1>3. ShownKeys = {}
    BY <1>2 DEF ShownKeys, Shown
  <1>4. Busy(keys_state) = {}
    BY DEF Init, Busy
  <1>5. SlotCodes(layer_selection, {}) = {} /\ ModCodes(layer_selection, {}) = {}
    BY DEF SlotCodes, ModCodes
  <1>6. ShowsCodes(layer_selection, ShownKeys, keys_state)
    BY <1>3, <1>4, <1>5 DEF ShowsCodes
  <1>7. ShowsMods(layer_selection, ShownKeys, ctrl_keys_state) /\ ~stray
    BY <1>3, <1>5 DEF ShowsMods, Init
  <1> QED
    BY <1>1, <1>6, <1>7 DEF ReportSound

-----------------------------------------------------------------------------
\* Cells that hold different codes are as many as the codes.
LEMMA OneCellEach ==
  ASSUME NEW layer, NEW keys, NEW cells, ShowsCodes(layer, keys, cells)
  PROVE  Cardinality(Busy(cells)) = Cardinality(SlotCodes(layer, keys))
  <1>1. IsFiniteSet(Busy(cells))
    <2>1. IsFiniteSet(Cells)
      BY FS_Interval, SlotsAssumption DEF Cells
    <2> QED
      BY <2>1, FS_Subset DEF Busy
  <1> DEFINE f == [i \in Busy(cells) |-> cells[i]]
             T == SlotCodes(layer, keys)
  <1>2. f \in Bijection(Busy(cells), T)
    <2>1. f \in [Busy(cells) -> T]
      BY DEF ShowsCodes
    <2>2. \A a, b \in Busy(cells) : f[a] = f[b] => a = b
      BY DEF ShowsCodes
    <2>3. \A t \in T : \E a \in Busy(cells) : f[a] = t
      BY DEF ShowsCodes
    <2> HIDE DEF f, T
    <2> QED
      BY <2>1, <2>2, <2>3 DEF Bijection, Injection, Surjection, IsInjective
  <1> QED
    BY <1>1, <1>2, FS_Bijection DEF ExistsBijection

\* The report follows the keys for every table, every set of keys and every
\* number of slots.  So nothing but the named hazards can leave a key in the
\* report that is up, or out of it one that is down.
THEOREM ReportIsSound == Spec => []ReportFollowsKeys
  <1>1. Follows => ReportFollowsKeys
    <2> SUFFICES ASSUME Follows, Intact PROVE ReportFollowsKeys
      BY DEF ReportFollowsKeys
    <2>2. WantedCodes = SlotCodes(layer_selection, ShownKeys)
      BY DEF WantedCodes, SlotCodes, Code, CodeOn, IsMod
    <2>3. WantedMods = ModCodes(layer_selection, ShownKeys)
      BY DEF WantedMods, When, ModCodes, Code, CodeOn, IsMod
    <2>4. BusyCells = Busy(keys_state)
      BY DEF BusyCells, Busy
    <2>5. ReportSound
      BY DEF Follows
    <2>6. Cardinality(BusyCells) = Cardinality(WantedCodes)
      BY <2>2, <2>4, <2>5, OneCellEach DEF ReportSound
    <2> QED
      BY <2>2, <2>3, <2>4, <2>5, <2>6 DEF ReportFollowsKeys, SlotsSent, ReportSound, ShowsCodes, ShowsMods
  <1> QED
    BY <1>1, InitFollows, NextFollows, TypeCorrect, PTL DEF Spec

\* Every change of the report is sent, and a new host starts from what the
\* report shows: for every table, all keys and all numbers of slots.
THEOREM HostIsUpToDate == Spec => []HostUpToDate
  <1>1. Init => HostUpToDate
    BY DEF Init, HostUpToDate
  <1>2. HostUpToDate /\ [Next]_vars => HostUpToDate'
    <2> SUFFICES ASSUME HostUpToDate, [Next]_vars, host', (hazards \cap {"send", "attach"})' = {}
                 PROVE  told'
      BY DEF HostUpToDate
    <2> USE DEF Note, When
    <2>1. host => told
      BY HazardsGrow DEF HostUpToDate
    <2>2. ASSUME NEW down, NEW side, NEW pos, create_report(down, side, pos), host' = host
          PROVE  told'
      <3>1. CASE is_layer_key(side, pos)
        BY <2>1, <2>2, <3>1 DEF create_report, reportVars
      <3>2. CASE ~is_layer_key(side, pos)
        <4>1. PICK names : key_report_send(names)
          BY <2>2, <3>2 DEF create_report
        <4> QED
          BY <2>2, <4>1, Zenon DEF key_report_send
      <3> QED
        BY <3>1, <3>2
    <2>3. CASE HostConnected
      <3>1. ReportEmpty
        BY <2>3 DEF HostConnected
      <3> QED
        BY <2>3, <3>1 DEF HostConnected
    <2>4. CASE LeftBit \/ RightBit
      <3>1. host' = host
        BY <2>4 DEF LeftBit, RightBit, hostVars
      <3>2. PICK down, side, pos : create_report(down, side, pos)
        BY <2>4 DEF LeftBit, RightBit
      <3> QED
        BY <2>2, <3>1, <3>2
    <2>5. CASE Main /\ ~LeftBit /\ ~RightBit
      <3>1. told' = told /\ host' = host
        BY <2>5 DEF Main, LoopTest, Sample, TestLeft, LatchLeft, Scan, PairScan,
           pairing_mode, num_comp_reply, LeavePairingMode, H!Taken, H!Left, hostVars, reportVars
      <3> QED
        BY <2>1, <3>1
    <2>6. CASE LeftCallback
      BY <2>1, <2>6 DEF LeftCallback, LeftConnected, discovery_completed_cb, notify_process,
         read_process, read_failed, LeftDisconnected, hostVars, reportVars
    <2>7. CASE HostCallback /\ ~HostConnected
      <3>1. ~HostDisconnected
        BY DEF HostDisconnected, H!Disconnected
      <3>2. told' = told /\ host' = host
        BY <2>7, <3>1 DEF HostCallback, security_changed, auth_passkey_confirm,
           pairing_failed, H!Secured, H!Asked, H!Failed, hostVars, reportVars
      <3> QED
        BY <2>1, <3>2
    <2>8. CASE UNCHANGED vars
      BY <2>1, <2>8 DEF vars, hostVars, reportVars
    <2> QED
      BY <2>3, <2>4, <2>5, <2>6, <2>7, <2>8 DEF Next
  <1> QED
    BY <1>1, <1>2, PTL DEF Spec
=============================================================================
