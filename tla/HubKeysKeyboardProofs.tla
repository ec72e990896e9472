------------------------ MODULE HubKeysKeyboardProofs -------------------------
(***************************************************************************)
(* HubKeys implements Keyboard, for every table in which no two keys send  *)
(* the same, every set of keys and every number of slots.  The slots send  *)
(* what the keys shown send, before and after a step (HubKeysReportProofs),*)
(* so a step that shows one key more or less is a press or a release, the  *)
(* sample of the words a turn of the layer, and every other step of main   *)
(* and of the left half no more than news of the keys.                     *)
(***************************************************************************)
EXTENDS HubKeysReportProofs

\* The byte of is_adv is not in a slot of the report.
NoByteInSlots == \A i \in Cells : i # is_adv_cell => keys_state[i] # TRUE_BYTE

LEMMA NoByteKept == TypeOK /\ NoByteInSlots /\ [Next]_vars => NoByteInSlots'
  <1> SUFFICES ASSUME TypeOK, NoByteInSlots, [Next]_vars PROVE NoByteInSlots'
    OBVIOUS
  <1>1. keys_state \in [Cells -> Codes \cup {NONE, TRUE_BYTE}]
        /\ Cells' = Cells /\ is_adv_cell' = is_adv_cell
    BY DEF TypeOK, ReportOK, Cells, is_adv_cell
  <1>2. CASE keys_state' = keys_state
    BY <1>1, <1>2 DEF NoByteInSlots
  <1>3. ASSUME NEW side \in Sides, NEW pos \in Positions, NEW down, create_report(down, side, pos)
        PROVE  NoByteInSlots'
    <2> DEFINE key == IF is_mod_chr(side, pos) THEN NONE ELSE Code(side, pos)
    <2>1. keys_state' = keys_state \/ button_text_change(down, key)
      BY <1>3 DEF create_report, reportVars, report
    <2>2. key \in Codes \cup {NONE} /\ key # TRUE_BYTE /\ NONE # TRUE_BYTE
      BY CodeOfKey, KeyMapAssumption DEF TypeOK, NONE, TRUE_BYTE
    <2> HIDE DEF key
    <2>3. CASE button_text_change(down, key)
      <3>1. \/ keys_state' = keys_state
            \/ \E i \in Cells, byte \in {key, NONE} : keys_state' = [keys_state EXCEPT ![i] = byte]
        BY <2>3 DEF button_text_change, hid_kbd_state_key_set, hid_kbd_state_key_clear, FirstOf,
           CellsWith
      <3> QED
        BY <1>1, <1>2, <2>2, <3>1 DEF NoByteInSlots
    <2> QED
      BY <1>2, <2>1, <2>3
  <1>4. CASE LeftBit \/ RightBit
    <2>1. PICK side, pos, down : /\ side \in Sides /\ pos \in todo
                                 /\ create_report(down, side, pos)
      BY <1>4 DEF LeftBit, RightBit, Sides
    <2>2. pos \in Positions
      BY <2>1 DEF TypeOK, MainOK
    <2> QED
      BY <1>3, <2>1, <2>2
  <1>5. CASE Main /\ ~LeftBit /\ ~RightBit
    BY <1>2, <1>5 DEF Main, LoopTest, Sample, TestLeft, LatchLeft, Scan, PairScan, pairing_mode,
       num_comp_reply, LeavePairingMode, reportVars, report
  <1>6. CASE LeftCallback
    BY <1>2, <1>6 DEF LeftCallback, LeftConnected, discovery_completed_cb, notify_process,
       read_process, read_failed, LeftDisconnected, reportVars, report
  <1>7. CASE HostCallback
    <2>1. \/ keys_state' = keys_state
          \/ \E byte : keys_state' = [keys_state EXCEPT ![is_adv_cell] = byte]
      BY <1>7 DEF HostCallback, HostConnected, HostDisconnected, security_changed,
         auth_passkey_confirm, pairing_failed, reportVars, report
    <2> QED
      BY <1>1, <1>2, <2>1 DEF NoByteInSlots
  <1>8. CASE UNCHANGED vars
    BY <1>2, <1>8 DEF vars, reportVars, report
  <1> QED
    BY <1>4, <1>5, <1>6, <1>7, <1>8 DEF Next

-----------------------------------------------------------------------------
(* What the abstract keyboard sees of the keys and of the report.          *)

LEMMA HeardAreKeys ==
  ASSUME TypeOK, WordsSound
  PROVE  HeardKeys \subseteq Keys
  BY DEF HeardKeys, Shown, WordsSound, TypeOK, MainOK, Keys

LEMMA SlotsAsShown ==
  ASSUME ReportSound
  PROVE  SlotsSent = SlotCodes(layer_selection, ShownKeys)
  BY DEF ReportSound, ShowsCodes, SlotsSent, BusyCells, Busy

LEMMA EmptyAsSent ==
  ASSUME ReportSound, NoByteInSlots
  PROVE  ReportEmpty <=> SlotsSent = {} /\ ctrl_keys_state = {}
  <1>1. \A i \in Cells : i # is_adv_cell <=> i \in 1..KEY_PRESS_MAX
    BY SlotsAssumption DEF Cells, is_adv_cell
  <1>2. is_adv_cell \notin BusyCells
    BY DEF ReportSound, ShowsCodes, Busy, BusyCells
  <1>3. 1..KEY_PRESS_MAX \subseteq Cells
    BY SlotsAssumption DEF Cells
  <1>4. BusyCells = {} <=> \A i \in 1..KEY_PRESS_MAX : keys_state[i] = NONE
    BY <1>1, <1>2, <1>3 DEF BusyCells, NoByteInSlots
  <1>5. SlotsSent = {} <=> BusyCells = {}
    BY DEF SlotsSent
  <1> QED
    BY <1>4, <1>5 DEF ReportEmpty

\* What a key sends on a layer, in slots and as modifiers.
LEMMA KeySends ==
  ASSUME NEW layer \in Layers, NEW k \in Keys
  PROVE  Sends[layer][k] = SlotCodes(layer, {k}) /\ Sets[layer][k] = KeyBits(layer, k)
  BY DEF Sends, Sets, SlotCodes, KeyBits, CodeOn, IsMod, When

LEMMA MoreSent ==
  ASSUME NEW layer, NEW keys, NEW k
  PROVE  SlotCodes(layer, keys \cup {k}) = SlotCodes(layer, keys) \cup SlotCodes(layer, {k})
  BY DEF SlotCodes

LEMMA LessSent ==
  ASSUME NEW layer \in Layers, NEW keys \in SUBSET Keys, NEW k \in keys
  PROVE  SlotCodes(layer, keys \ {k}) = SlotCodes(layer, keys) \ SlotCodes(layer, {k})
  BY Distinct DEF SlotCodes

-----------------------------------------------------------------------------
(* The steps.                                                              *)

LEMMA InitMaps == Init => K!Init
  <1> SUFFICES ASSUME Init PROVE K!Init
    OBVIOUS
  <1>1. ShownKeys = {} /\ HeardKeys = {}
    BY DEF Init, ShownKeys, ShownLeft, ShownRight, SymDiff, HeardKeys, Shown
  <1>2. SlotsSent = {}
    BY DEF Init, SlotsSent, BusyCells
  <1>3. Intact
    BY DEF Init, Intact
  <1> QED
    BY <1>1, <1>2, <1>3 DEF Init, K!Init

\* A step that leaves the report alone, and shows no key more or less, is
\* news of the keys at most.
LEMMA QuietHears ==
  ASSUME WordsSound', TypeOK', ReportSound, ReportSound', Intact, Intact', Quiet
  PROVE  K!Hear
  <1>1. ShownKeys' = ShownKeys
    BY DEF Quiet, ShownKeys
  <1>2. SlotsSent' = SlotsSent
    BY DEF Quiet, reportVars, report, SlotsSent, BusyCells, Cells
  <1>3. HeardKeys' \subseteq Keys
    BY DEF HeardKeys, Shown, WordsSound, TypeOK, MainOK, Keys
  <1>4. (~Intact)' = ~Intact
    OBVIOUS
  <1> QED
    BY <1>1, <1>2, <1>3, <1>4 DEF K!Hear, K!report, Quiet, reportVars, report

\* One pass of a loop presses a key, releases one or, for a layer key, is
\* nothing to the keyboard.
LEMMA ToggleMaps ==
  ASSUME TypeOK, WordsSound, ReportSound, ReportSound', Intact, Intact',
         NEW side \in Sides, NEW pos \in Positions, NEW down \in BOOLEAN,
         Toggles(down, side, pos),
         down <=> pos \in (IF side = "left" THEN keystates ELSE last_keystate_right),
         side = "left" => keystates # BT_KBDS_VAL_INVALID,
         UNCHANGED <<keystates, last_keystate_right, layer_selection, host>>
  PROVE  K!Press(<<side, pos>>) \/ K!Release(<<side, pos>>) \/ UNCHANGED K!vars
  <1> DEFINE k == <<side, pos>>
  <1>1. k \in Keys /\ ShownKeys \in SUBSET Keys /\ layer_selection \in Layers
    BY ShownAreKeys DEF Toggles, TypeOK, MainOK
  <1>2. HeardKeys' = HeardKeys
    BY DEF HeardKeys
  <1>3. SlotsSent = SlotCodes(layer_selection, ShownKeys)
    BY SlotsAsShown
  <1>4. SlotsSent' = SlotCodes(layer_selection, ShownKeys')
    BY DEF ReportSound, ShowsCodes, SlotsSent, BusyCells, Busy
  <1>5. (~Intact)' = ~Intact
    OBVIOUS
  <1>6. CASE is_layer_key(side, pos)
    <2>1. ShownKeys' = ShownKeys /\ UNCHANGED <<ctrl_keys_state, told>>
      BY <1>6 DEF Toggles, create_report, reportVars, report
    <2> QED
      BY <1>2, <1>3, <1>4, <1>5, <2>1 DEF K!vars, K!report
  <1>7. CASE ~is_layer_key(side, pos)
    <2>1. PICK noted : key_report_send(noted)
      BY <1>7 DEF Toggles, create_report
    <2>2. K!Tell
      <3>1. PICK err \in BOOLEAN : told' = (host /\ ~err)
        BY <2>1 DEF key_report_send
      <3>2. host \in BOOLEAN
        BY DEF TypeOK, HostOK
      <3>3. told' = host \/ told' = FALSE
        BY <3>1, <3>2
      <3> QED
        BY <3>3 DEF K!Tell
    <2>3. ModBits(side, pos) = Sets[layer_selection][k]
      <3>1. ModBits(side, pos) = KeyBits(layer_selection, k)
        BY DEF ModBits, KeyBits, IsMod, CodeOn, Code
      <3> QED
        BY <1>1, <3>1, KeySends
    <2>4. SlotCodes(layer_selection, {k}) = Sends[layer_selection][k]
      BY <1>1, KeySends
    <2>5. set_or_clear_mod_byte(down, ModBits(side, pos))
      BY <1>7 DEF Toggles, create_report
    <2>6. k \in HeardKeys <=> down
      BY <1>7 DEF HeardKeys, Shown, Sides
    <2>7. CASE down = TRUE
      <3>1. k \notin ShownKeys /\ ShownKeys' = ShownKeys \cup {k}
        BY <1>7, <2>7 DEF Toggles
      <3>2. SlotsSent' = SlotsSent \cup Sends[layer_selection][k]
        <4> HIDE DEF k
        <4>1. SlotCodes(layer_selection, ShownKeys \cup {k})
              = SlotCodes(layer_selection, ShownKeys) \cup SlotCodes(layer_selection, {k})
          BY MoreSent
        <4> QED
          BY <1>3, <1>4, <2>4, <3>1, <4>1
      <3>3. ctrl_keys_state' = ctrl_keys_state \cup Sets[layer_selection][k]
        BY <2>3, <2>5, <2>7 DEF set_or_clear_mod_byte
      <3> HIDE DEF k
      <3>4. K!Press(k)
        BY <1>2, <1>5, <2>2, <2>6, <2>7, <3>1, <3>2, <3>3 DEF K!Press
      <3> QED
        BY <3>4 DEF k
    <2>8. CASE down = FALSE
      <3>1. k \in ShownKeys /\ ShownKeys' = ShownKeys \ {k}
        BY <1>7, <2>8 DEF Toggles
      <3>2. SlotsSent' = SlotsSent \ Sends[layer_selection][k]
        BY <1>1, <1>3, <1>4, <2>4, <3>1, LessSent
      <3>3. ctrl_keys_state' = ctrl_keys_state \ Sets[layer_selection][k]
        BY <2>3, <2>5, <2>8 DEF set_or_clear_mod_byte
      <3> HIDE DEF k
      <3>4. K!Release(k)
        BY <1>2, <1>5, <2>2, <2>6, <2>8, <3>1, <3>2, <3>3 DEF K!Release
      <3> QED
        BY <3>4 DEF k
    <2> QED
      BY <2>7, <2>8
  <1> QED
    BY <1>6, <1>7

LEMMA BitMaps ==
  ASSUME TypeOK, WordsSound, ReportSound, ReportSound', Intact, Intact', LeftBit \/ RightBit
  PROVE  (\E k \in Keys : K!Press(k) \/ K!Release(k)) \/ UNCHANGED K!vars
  <1>1. UNCHANGED <<keystates, last_keystate_right, layer_selection, host>>
    BY DEF LeftBit, RightBit, leftVars, rightVars, passVars, hostVars
  <1>2. CASE LeftBit
    <2>1. PICK pos \in LeftKeys : Toggles(pos \in keystates, "left", pos)
      BY <1>2, LeftBitToggles
    <2>2. (pos \in keystates) \in BOOLEAN /\ pos \in Positions /\ "left" \in Sides
      BY KeysArePositions DEF Sides
    <2>3. keystates # BT_KBDS_VAL_INVALID
      BY <1>2 DEF LeftBit, WordsSound
    <2>4. <<"left", pos>> \in Keys
      BY DEF Keys
    <2>5. \/ K!Press(<<"left", pos>>) \/ K!Release(<<"left", pos>>)
          \/ UNCHANGED K!vars
      BY <1>1, <2>1, <2>2, <2>3, ToggleMaps
    <2> QED
      BY <2>4, <2>5
  <1>3. CASE RightBit
    <2>1. PICK pos \in RightKeys : Toggles(pos \in last_keystate_right, "right", pos)
      BY <1>3, RightBitToggles
    <2>2. (pos \in last_keystate_right) \in BOOLEAN /\ pos \in Positions /\ "right" \in Sides
      BY KeysArePositions DEF Sides
    <2>3. <<"right", pos>> \in Keys
      BY DEF Keys
    <2>4. \/ K!Press(<<"right", pos>>) \/ K!Release(<<"right", pos>>)
          \/ UNCHANGED K!vars
      BY <1>1, <2>1, <2>2, ToggleMaps
    <2> QED
      BY <2>3, <2>4
  <1> QED
    BY <1>2, <1>3

\* The sample turns the layer, and only to one that means the same.
LEMMA SampleMaps ==
  ASSUME TypeOK, TypeOK', WordsSound, ReportSound, Intact, Intact', Sample
  PROVE  K!Turn
  <1>1. /\ layer_selection' = LayerFor /\ pc = "sample" /\ pc' = "test"
        /\ UNCHANGED <<keystates, last_keystate_left, last_keystate_right,
                       right_keystate_change, todo, reportVars, host>>
    BY DEF Sample, leftVars, rightVars, hostVars
  <1>2. ShownKeys' = ShownKeys /\ HeardKeys' = HeardKeys /\ SlotsSent' = SlotsSent
    BY <1>1 DEF ShownKeys, ShownLeft, ShownRight, HeardKeys, SlotsSent, BusyCells, Cells,
       reportVars, report
  <1>3. ~Reinterprets(LayerFor)
    BY DEF Sample, Note, When, Intact
  <1>4. layer_selection \in Layers /\ LayerFor \in Layers /\ layer_selection' \in Layers
    BY <1>1 DEF TypeOK, MainOK
  <1>5. ASSUME NEW k \in ShownKeys
        PROVE  /\ Sends[layer_selection'][k] = Sends[layer_selection][k]
               /\ Sets[layer_selection'][k] = Sets[layer_selection][k]
    <2>1. k \in Keys
      BY ShownAreKeys
    <2>2. /\ CodeOn(LayerFor, k) = CodeOn(layer_selection, k)
          /\ needs_shift(k[1], LayerFor, k[2]) = needs_shift(k[1], layer_selection, k[2])
      BY <1>3 DEF Reinterprets, CodeOn, Code
    <2>3. /\ SlotCodes(LayerFor, {k}) = SlotCodes(layer_selection, {k})
          /\ KeyBits(LayerFor, k) = KeyBits(layer_selection, k)
      BY <2>2 DEF SlotCodes, KeyBits
    <2> QED
      BY <1>1, <1>4, <2>1, <2>3, KeySends
  <1>6. (~Intact)' = ~Intact
    OBVIOUS
  <1> QED
    BY <1>1, <1>2, <1>4, <1>5, <1>6 DEF K!Turn, K!report, reportVars, report

\* A host that comes finds no key down; all else of it is nothing to the keys.
LEMMA HostMaps ==
  ASSUME TypeOK, TypeOK', WordsSound, WordsSound', ReportSound, ReportSound', NoByteInSlots,
         Intact, Intact', HostCallback
  PROVE  K!HostComes \/ K!HostGoes \/ K!Hear
  <1>1. UNCHANGED <<leftVars, last_keystate_left, mainVars, ctrl_keys_state, stray>>
    BY DEF HostCallback, HostConnected, HostDisconnected, security_changed,
       auth_passkey_confirm, pairing_failed, reportVars, report
  <1>2. /\ ShownLeft' = ShownLeft /\ ShownRight' = ShownRight /\ HeardKeys' = HeardKeys
        /\ layer_selection' = layer_selection
    BY <1>1 DEF leftVars, mainVars, rightVars, passVars, ShownLeft, ShownRight, HeardKeys
  <1>3. ShownKeys' = ShownKeys
    BY <1>2 DEF ShownKeys
  <1>4. SlotsSent' = SlotsSent
    <2>1. SlotsSent' = SlotCodes(layer_selection', ShownKeys')
      BY DEF ReportSound, ShowsCodes, SlotsSent, BusyCells, Busy
    <2> QED
      BY <1>2, <1>3, <2>1, SlotsAsShown
  <1>5. (~Intact)' = ~Intact
    OBVIOUS
  <1>6. CASE HostConnected
    <2>1. ~host /\ host' = TRUE
      BY <1>6 DEF HostConnected, H!Connected
    <2>2. told' = (SlotsSent = {} /\ ctrl_keys_state = {})
      <3>1. told' = ReportEmpty
        BY <1>6 DEF HostConnected
      <3>2. ReportEmpty = (SlotsSent = {} /\ ctrl_keys_state = {})
        BY EmptyAsSent, Zenon DEF ReportEmpty
      <3> QED
        BY <3>1, <3>2, Zenon
    <2> QED
      BY <1>1, <1>2, <1>3, <1>4, <1>5, <2>1, <2>2 DEF K!HostComes, K!report
  <1>7. CASE HostDisconnected
    <2>1. host /\ host' = FALSE /\ told' = told
      BY <1>7 DEF HostDisconnected, H!Disconnected
    <2> QED
      BY <1>1, <1>2, <1>3, <1>4, <1>5, <2>1 DEF K!HostGoes, K!report
  <1>8. CASE security_changed \/ auth_passkey_confirm \/ pairing_failed
    <2>1. UNCHANGED <<host, reportVars>>
      BY <1>8 DEF security_changed, auth_passkey_confirm, pairing_failed, H!Secured, H!Asked,
         H!Failed
    <2>2. Quiet
      BY <1>2, <2>1 DEF Quiet
    <2> QED
      BY <2>2, QuietHears
  <1> QED
    BY <1>6, <1>7, <1>8 DEF HostCallback

LEMMA StepMaps ==
  ASSUME TypeOK, TypeOK', Follows, Follows', NoByteInSlots, [Next]_vars
  PROVE  K!Next \/ UNCHANGED K!vars
  <1>1. CASE ~Intact'
    <2>1. (~Intact)' = TRUE
      BY <1>1
    <2> QED
      BY <2>1 DEF K!Next, K!Lose
  <1>2. CASE Intact'
    <2>1. Intact
      BY <1>2, HazardsGrow DEF Intact
    <2>2. WordsSound /\ WordsSound' /\ ReportSound /\ ReportSound'
      BY <1>2, <2>1 DEF Follows
    <2>3. CASE Sample
      BY <1>2, <2>1, <2>2, <2>3, SampleMaps DEF K!Next
    <2>4. CASE LeftBit \/ RightBit
      BY <1>2, <2>1, <2>2, <2>4, BitMaps DEF K!Next
    <2>5. CASE Main /\ ~Sample /\ ~LeftBit /\ ~RightBit
      <3>1. Quiet
        BY <1>2, <2>2, <2>5, QuietMain DEF Main
      <3> QED
        BY <1>2, <2>1, <2>2, <3>1, QuietHears DEF K!Next
    <2>6. CASE LeftCallback
      <3>1. Quiet
        BY <1>2, <2>2, <2>6, QuietLeft
      <3> QED
        BY <1>2, <2>1, <2>2, <3>1, QuietHears DEF K!Next
    <2>7. CASE HostCallback
      BY <1>2, <2>1, <2>2, <2>7, HostMaps DEF K!Next
    <2>8. CASE UNCHANGED vars
      <3>1. Quiet
        BY <2>8 DEF Quiet, vars, leftVars, hostVars, mainVars, rightVars, passVars, ShownLeft,
           ShownRight
      <3> QED
        BY <1>2, <2>1, <2>2, <3>1, QuietHears DEF K!Next
    <2> QED
      BY <2>3, <2>4, <2>5, <2>6, <2>7, <2>8 DEF Next, Main
  <1> QED
    BY <1>1, <1>2

\* Whoever types on the pipeline types on Keyboard: for every table, all keys
\* and all numbers of slots, a key goes down and up in the report one at a
\* time, in the direction of the newest word, and each change is its own
\* report, until one of the hazards comes that ReportFollowsKeys excludes.
THEOREM KeyboardIsImplemented == Spec => ImplementsKeyboard
  <1>1. Init => NoByteInSlots
    BY DEF Init, NoByteInSlots, NONE, TRUE_BYTE
  <1> QED
    BY <1>1, NoByteKept, InitFollows, NextFollows, TypeCorrect, InitMaps, StepMaps, PTL
       DEF Spec, ImplementsKeyboard, K!Spec
=============================================================================
