---------------------------- MODULE HubKeysProofs ---------------------------
(***************************************************************************)
(* Type correctness of HubKeys for every key table, every set of keys and  *)
(* every number of slots: whatever layer is selected when a key goes down  *)
(* or up, only key codes reach the slots and only modifiers the modifier   *)
(* byte.                                                                   *)
(***************************************************************************)
EXTENDS HubKeys, TLAPS

\* The keys of the runs are positions, and the words of the left half, as
\* notified or as read, are sets of its keys.
LEMMA KeysArePositions ==
  /\ LeftKeys \subseteq Positions /\ RightKeys \subseteq Positions
  /\ \A word \in LeftWords : word \subseteq LeftKeys /\ LowByte(word) \subseteq LeftKeys
  BY KeysAssumption DEF LeftKeys, LowByte

\* A key that is no modifier key has a key code, or none, on every layer.
LEMMA CodeOfKey ==
  ASSUME MainOK, NEW side \in Sides, NEW pos \in Positions, ~is_mod_chr(side, pos)
  PROVE  Code(side, pos) \in Codes \cup {NONE}
  <1> QED
    BY KeyMapAssumption DEF MainOK, Code

\* What create_report puts into the modifier byte, or takes out, are modifiers.
LEMMA ModBitsAreModifiers ==
  ASSUME MainOK, NEW side \in Sides, NEW pos \in Positions
  PROVE  ModBits(side, pos) \subseteq mod_chr
  <1>1. is_mod_chr(side, pos) => Code(side, pos) \in mod_chr
    BY KeyMapAssumption DEF MainOK, Code
  <1>2. "LSHIFT" \in mod_chr
    BY DEF mod_chr
  <1> QED
    BY <1>1, <1>2 DEF ModBits

\* The report keeps its type, whichever key goes down or up.
LEMMA ReportTyped ==
  ASSUME TypeOK, NEW side \in Sides, NEW pos \in Positions, NEW down \in BOOLEAN,
         create_report(down, side, pos)
  PROVE  ReportOK' /\ hazards' \in SUBSET Hazards
  <1>1. CASE is_layer_key(side, pos)
    BY <1>1 DEF create_report, TypeOK, ReportOK, reportVars, report, Cells
  <1>2. CASE ~is_layer_key(side, pos)
    <2> DEFINE key == IF is_mod_chr(side, pos) THEN NONE ELSE Code(side, pos)
               noted == When("overflow", /\ down /\ key # NONE
                                         /\ CellsWith(NONE) \subseteq {is_adv_cell})
    <2>1. /\ set_or_clear_mod_byte(down, ModBits(side, pos))
          /\ button_text_change(down, key)
          /\ key_report_send(noted)
      BY <1>2 DEF create_report
    <2>2. key \in Codes \cup {NONE}
      BY CodeOfKey DEF TypeOK
    <2>3. ctrl_keys_state' \in SUBSET mod_chr
      BY <2>1, ModBitsAreModifiers DEF set_or_clear_mod_byte, TypeOK, ReportOK
    <2>4. keys_state' \in [Cells -> Codes \cup {NONE, TRUE_BYTE}] /\ stray' \in BOOLEAN
      <3> HIDE DEF key
      <3> Cells' = Cells
        BY DEF Cells
      <3> QED
        BY <2>1, <2>2 DEF button_text_change, hid_kbd_state_key_set,
           hid_kbd_state_key_clear, TypeOK, ReportOK
    <2>5. noted \subseteq Hazards
      BY DEF When, Hazards
    <2>6. told' \in BOOLEAN /\ hazards' \in SUBSET Hazards
      <3> HIDE DEF noted
      <3> QED
        BY <2>1, <2>5 DEF key_report_send, Note, When, TypeOK, HostOK, Hazards
    <2> QED
      BY <2>3, <2>4, <2>6 DEF ReportOK, Cells
  <1> QED
    BY <1>1, <1>2

-----------------------------------------------------------------------------
LEMMA InvalidIsWord == BT_KBDS_VAL_INVALID \subseteq Positions
  BY DEF BT_KBDS_VAL_INVALID, Positions

LEMMA InitTypeOK == Init => TypeOK
  <1> SUFFICES ASSUME Init PROVE TypeOK
    OBVIOUS
  <1>1. LeftOK /\ HostOK
    BY InvalidIsWord DEF Init, LeftOK, HostOK
  <1>2. MainOK
    BY DEF Init, MainOK, Layers
  <1>3. ReportOK
    BY DEF Init, ReportOK, Cells
  <1> QED
    BY <1>1, <1>2, <1>3 DEF TypeOK, Init

\* A scan of the right half's matrix finds keys of the right half.
LEMMA ScanTyped ==
  ASSUME TypeOK, NEW buttons \in SUBSET RightKeys, get_keystate(buttons)
  PROVE  /\ last_keystate_right' \in SUBSET RightKeys
         /\ right_keystate_change' \in SUBSET RightKeys
  BY DEF get_keystate, SymDiff, TypeOK, MainOK

LEMMA MainTypeOK == TypeOK /\ Main => TypeOK'
  <1> SUFFICES ASSUME TypeOK, Main PROVE TypeOK'
    OBVIOUS
  <1> USE KeysArePositions DEF TypeOK
  <1>1. CASE LoopTest
    BY <1>1 DEF LoopTest, LeftOK, HostOK, MainOK, ReportOK, leftVars, hostVars,
       rightVars, passVars, reportVars, report, Cells
  <1>2. CASE Sample
    <2>1. LayerFor \in Layers
      BY DEF LayerFor, Layers
    <2>2. has_changed' \in SUBSET Positions
      BY <1>2 DEF Sample, SymDiff, LeftOK, MainOK
    <2>3. hazards' \in SUBSET Hazards
      BY <1>2 DEF Sample, Note, When, Hazards
    <2> QED
      BY <1>2, <2>1, <2>2, <2>3 DEF Sample, LeftOK, HostOK, MainOK, ReportOK, leftVars,
         hostVars, rightVars, reportVars, report, Cells
  <1>3. CASE TestLeft
    BY <1>3 DEF TestLeft, LeftOK, HostOK, MainOK, ReportOK, leftVars, hostVars,
       rightVars, passVars, reportVars, report, Cells
  <1>4. CASE LeftBit
    <2>1. PICK pos \in todo : /\ create_report(pos \in keystates, "left", pos)
                             /\ todo' = todo \ {pos}
      BY <1>4 DEF LeftBit
    <2>2. pos \in Positions /\ (pos \in keystates) \in BOOLEAN /\ "left" \in Sides
      BY DEF MainOK, Sides
    <2>3. ReportOK' /\ hazards' \in SUBSET Hazards
      BY <2>1, <2>2, ReportTyped
    <2> QED
      BY <1>4, <2>1, <2>3 DEF LeftBit, LeftOK, HostOK, MainOK, leftVars, hostVars, rightVars,
         passVars
  <1>5. CASE LatchLeft
    BY <1>5 DEF LatchLeft, LeftOK, HostOK, MainOK, ReportOK, leftVars, hostVars,
       rightVars, passVars, reportVars, report, Cells
  <1>6. CASE RightBit
    <2>1. PICK pos \in todo : /\ create_report(pos \in last_keystate_right, "right", pos)
                             /\ todo' = todo \ {pos}
      BY <1>6 DEF RightBit
    <2>2. pos \in Positions /\ (pos \in last_keystate_right) \in BOOLEAN /\ "right" \in Sides
      BY DEF MainOK, Sides
    <2>3. ReportOK' /\ hazards' \in SUBSET Hazards
      BY <2>1, <2>2, ReportTyped
    <2> QED
      BY <1>6, <2>1, <2>3 DEF RightBit, LeftOK, HostOK, MainOK, leftVars, hostVars, rightVars,
         passVars
  <1>7. CASE Scan
    BY <1>7, ScanTyped DEF Scan, LeftOK, HostOK, MainOK, ReportOK, leftVars, hostVars,
       passVars, reportVars, report, Cells
  <1>8. CASE PairScan
    <2>1. hazards' \in SUBSET Hazards
      BY <1>8 DEF PairScan, Note, When, Hazards
    <2> QED
      BY <1>8, <2>1, ScanTyped DEF PairScan, LeftOK, HostOK, MainOK, ReportOK, leftVars,
         hostVars, passVars, reportVars, report, Cells
  <1>9. CASE pairing_mode
    BY <1>9 DEF pairing_mode, LeftOK, HostOK, MainOK, ReportOK, leftVars, hostVars,
       rightVars, passVars, reportVars, report, Cells
  <1>10. CASE num_comp_reply
    BY <1>10 DEF num_comp_reply, H!Taken, LeftOK, HostOK, MainOK, ReportOK, leftVars,
       rightVars, passVars, reportVars, report, Cells
  <1>11. CASE LeavePairingMode
    BY <1>11 DEF LeavePairingMode, H!Left, LeftOK, HostOK, MainOK, ReportOK, leftVars,
       rightVars, passVars, reportVars, report, Cells
  <1> QED
    BY <1>1, <1>2, <1>3, <1>4, <1>5, <1>6, <1>7, <1>8, <1>9, <1>10, <1>11 DEF Main

LEMMA LeftTypeOK == TypeOK /\ LeftCallback => TypeOK'
  <1> SUFFICES ASSUME TypeOK, LeftCallback PROVE TypeOK'
    OBVIOUS
  <1> USE KeysArePositions DEF TypeOK, mainVars, rightVars, passVars, hostVars, reportVars,
         report, BT_KBDS_VAL_INVALID, F!BT_KBDS_VAL_INVALID
  <1>1. CASE LeftConnected
    BY <1>1 DEF LeftConnected, F!Connected, LeftOK, HostOK, MainOK, ReportOK, Cells
  <1>2. CASE discovery_completed_cb
    BY <1>2, InvalidIsWord DEF discovery_completed_cb, F!Discovered, Note, When, Hazards, LeftOK,
       HostOK, MainOK, ReportOK, Cells
  <1>3. CASE LeftDisconnected
    BY <1>3 DEF LeftDisconnected, F!Disconnected, Note, When, Hazards, LeftOK, HostOK, MainOK, ReportOK, Cells
  <1>4. CASE read_failed
    BY <1>4 DEF read_failed, F!Unanswered, LeftOK, HostOK, MainOK, ReportOK, Cells
  <1>5. ASSUME NEW word \in LeftWords, notify_process(word) PROVE TypeOK'
    BY <1>5 DEF notify_process, F!Notified, Note, When, Hazards, LeftOK, HostOK, MainOK, ReportOK, Cells
  <1>6. ASSUME NEW word \in LeftWords, read_process(LowByte(word)) PROVE TypeOK'
    <2>1. keystates' \in SUBSET Positions /\ last_keystate_left' \in SUBSET Positions
      BY <1>6, InvalidIsWord DEF read_process, F!Answered, read_keystates_cb, LeftOK
    <2>2. hazards' \in SUBSET Hazards
      BY <1>6 DEF read_process, F!Answered, Note, When, Hazards
    <2> QED
      BY <1>6, <2>1, <2>2 DEF read_process, F!Answered, LeftOK, HostOK, MainOK, ReportOK, Cells
  <1> QED
    BY <1>1, <1>2, <1>3, <1>4, <1>5, <1>6 DEF LeftCallback

LEMMA HostTypeOK == TypeOK /\ HostCallback => TypeOK'
  <1> SUFFICES ASSUME TypeOK, HostCallback PROVE TypeOK'
    OBVIOUS
  <1> USE DEF TypeOK, leftVars, mainVars, rightVars, passVars
  <1>1. CASE HostConnected
    <2>1. hazards' \in SUBSET Hazards
      BY <1>1 DEF HostConnected, Note, When, Hazards
    <2> QED
      BY <1>1, <2>1 DEF HostConnected, H!Connected, ReportEmpty, LeftOK, HostOK, MainOK, ReportOK, Cells
  <1>2. CASE HostDisconnected
    BY <1>2 DEF HostDisconnected, H!Disconnected, LeftOK, HostOK, MainOK, ReportOK, Cells
  <1>3. CASE security_changed
    BY <1>3 DEF security_changed, H!Secured, reportVars, report, LeftOK, HostOK, MainOK,
       ReportOK, Cells
  <1>4. CASE auth_passkey_confirm
    BY <1>4 DEF auth_passkey_confirm, H!Asked, reportVars, report, LeftOK, HostOK, MainOK,
       ReportOK, Cells
  <1>5. CASE pairing_failed
    BY <1>5 DEF pairing_failed, H!Failed, reportVars, report, LeftOK, HostOK, MainOK,
       ReportOK, Cells
  <1> QED
    BY <1>1, <1>2, <1>3, <1>4, <1>5 DEF HostCallback

\* Whatever the layer, the bits and the callbacks in between, the report
\* consists of key codes and modifiers and the words of existing positions.
THEOREM TypeCorrect == Spec => []TypeOK
  <1>1. TypeOK /\ UNCHANGED vars => TypeOK'
    BY DEF TypeOK, vars, leftVars, hostVars, mainVars, rightVars, passVars, reportVars,
       report, LeftOK, HostOK, MainOK, ReportOK, Cells
  <1>2. TypeOK /\ [Next]_vars => TypeOK'
    BY <1>1, MainTypeOK, LeftTypeOK, HostTypeOK DEF Next
  <1> QED
    BY InitTypeOK, <1>2, PTL DEF Spec
=============================================================================
