------------------------ MODULE HubKeysProgressProofs -------------------------
(***************************************************************************)
(* The two measures of progress of HubKeys, for every table, every set of  *)
(* keys and every number of slots: wherever main is when a word comes to   *)
(* stand, each of its steps takes one from a number, and no callback adds  *)
(* to it.  Numbers of steps cannot fall for ever: with main going on, the  *)
(* word is latched and the released keys leave the report.                 *)
(***************************************************************************)
EXTENDS HubKeysKeyboardProofs

(* What the measures are made of.                                          *)

LEMMA AwayValues ==
  /\ Away["left"] = 0 /\ Away["test"] = 25 /\ Away["sample"] = 26 /\ Away["top"] = 27
  /\ Away["right"] = 28 /\ Away["leave"] = 28 /\ Away["reject"] = 28
  /\ Away["accept"] = 29 /\ Away["pair_answer"] = 30 /\ Away["pair_scan"] = 31
  BY DEF Away

\* A set of positions has 24 members at most; one taken out makes it smaller.
LEMMA PositionsCounted ==
  ASSUME NEW word \in SUBSET Positions
  PROVE  /\ Cardinality(word) \in Nat /\ Cardinality(word) <= 24
         /\ \A pos \in word : Cardinality(word \ {pos}) = Cardinality(word) - 1
  <1>1. IsFiniteSet(Positions) /\ Cardinality(Positions) = 24
    <2>1. 0 \in Int /\ 23 \in Int
      OBVIOUS
    <2>2. /\ IsFiniteSet(0..23)
          /\ Cardinality(0..23) = IF 0 > 23 THEN 0 ELSE 23 - 0 + 1
      BY <2>1, FS_Interval, Zenon
    <2>3. (IF 0 > 23 THEN 0 ELSE 23 - 0 + 1) = 24
      OBVIOUS
    <2>4. Cardinality(0..23) = 24
      BY <2>2, <2>3
    <2> QED
      BY <2>2, <2>4 DEF Positions
  <1>2. IsFiniteSet(word) /\ Cardinality(word) <= 24
    BY <1>1, FS_Subset
  <1>3. Cardinality(word) \in Nat
    BY <1>2, FS_CardinalityType
  <1>4. \A pos \in word : Cardinality(word \ {pos}) = Cardinality(word) - 1
    BY <1>2, FS_RemoveElement
  <1> QED
    BY <1>2, <1>3, <1>4

LEMMA NoneCounted == Cardinality({}) = 0
  BY FS_EmptySet

-----------------------------------------------------------------------------
(* Outside its two loops main has no bits left to report, whatever comes.  *)

TodoSound == pc \notin {"left", "right"} => todo = {}

LEMMA CallbackLeavesMain == LeftCallback \/ HostCallback => UNCHANGED mainVars
  BY DEF LeftCallback, LeftConnected, discovery_completed_cb, LeftDisconnected, read_failed,
     notify_process, read_process, HostCallback, HostConnected, HostDisconnected,
     security_changed, auth_passkey_confirm, pairing_failed

LEMMA NextTodoSound == TodoSound /\ [Next]_vars => TodoSound'
  <1> SUFFICES ASSUME TodoSound, [Next]_vars PROVE TodoSound'
    OBVIOUS
  <1>1. CASE Main
    BY <1>1 DEF Main, LoopTest, Sample, TestLeft, LeftBit, LatchLeft, RightBit, Scan, PairScan,
       pairing_mode, num_comp_reply, LeavePairingMode, TodoSound
  <1>2. CASE LeftCallback \/ HostCallback \/ UNCHANGED vars
    BY <1>2, CallbackLeavesMain DEF vars, mainVars, TodoSound
  <1> QED
    BY <1>1, <1>2 DEF Next

-----------------------------------------------------------------------------
(* The latch.                                                              *)

\* Each step of main while a word stands that is not latched, and so each
\* while all keys are up: it is one nearer to the latch, or latches.
LEMMA MainNearer ==
  ASSUME TypeOK, TodoSound, Main, ~in_pairing_mode, keystates # BT_KBDS_VAL_INVALID
  PROVE  LatchLeft \/ StepsToLatch' < StepsToLatch
  <1> USE AwayValues, NoneCounted DEF StepsToLatch
  <1>1. /\ todo \in SUBSET Positions /\ has_changed \in SUBSET Positions
        /\ Cardinality(todo) \in Nat
    BY PositionsCounted DEF TypeOK, MainOK
  <1>2. CASE LoopTest
    BY <1>1, <1>2 DEF LoopTest
  <1>3. CASE Sample
    BY <1>1, <1>3 DEF Sample
  <1>4. CASE TestLeft
    <2>1. pc = "test" /\ pc' = "left" /\ todo' = has_changed /\ todo = {}
      BY <1>4 DEF TestLeft, TodoSound
    <2>2. Cardinality(todo') \in Nat /\ Cardinality(todo') <= 24
      BY <1>1, <2>1, PositionsCounted
    <2> QED
      BY <2>1, <2>2
  <1>5. CASE LeftBit \/ RightBit
    <2>1. PICK pos \in todo : todo' = todo \ {pos}
      BY <1>5 DEF LeftBit, RightBit
    <2>2. Cardinality(todo') = Cardinality(todo) - 1
      BY <1>1, <2>1, PositionsCounted
    <2>3. pc' = pc /\ pc \in {"left", "right"}
      BY <1>5 DEF LeftBit, RightBit
    <2> QED
      BY <1>1, <2>2, <2>3
  <1>6. CASE Scan
    BY <1>1, <1>6 DEF Scan
  <1>7. CASE PairScan
    BY <1>1, <1>7 DEF PairScan
  <1>8. CASE pairing_mode
    BY <1>1, <1>8 DEF pairing_mode
  <1>9. CASE num_comp_reply
    BY <1>1, <1>9 DEF num_comp_reply
  <1>10. CASE LeavePairingMode
    BY <1>1, <1>10 DEF LeavePairingMode
  <1> QED
    BY <1>2, <1>3, <1>4, <1>5, <1>6, <1>7, <1>8, <1>9, <1>10 DEF Main

LEMMA StepNearer ==
  ASSUME TypeOK, TodoSound, [Next]_vars, Standing, Standing', keystates' = keystates
  PROVE  IF Main THEN StepsToLatch' < StepsToLatch ELSE StepsToLatch' = StepsToLatch
  <1>1. CASE Main
    <2>1. ~LatchLeft
      BY DEF LatchLeft, Standing
    <2>2. StepsToLatch' < StepsToLatch
      BY <1>1, <2>1, MainNearer DEF Standing, Active
    <2> QED
      BY <1>1, <2>2
  <1>2. CASE ~Main
    <2>1. UNCHANGED <<pc, todo>>
      BY <1>2, CallbackLeavesMain DEF Next, vars, mainVars
    <2>2. StepsToLatch' = StepsToLatch
      BY <2>1 DEF StepsToLatch
    <2> QED
      BY <1>2, <2>2
  <1> QED
    BY <1>1, <1>2

\* A word of the left half that stands is 53 steps of main from its latch at
\* most, and every one of them counts (main, call_key_report, pairing_mode).
THEOREM LatchDrawsNearer == Spec => LatchNearer
  <1>1. Init => TodoSound
    BY DEF Init, TodoSound
  <1>2. TypeOK /\ TodoSound /\ [Next]_vars =>
            [Standing /\ Standing' /\ keystates' = keystates =>
                 IF Main THEN StepsToLatch' < StepsToLatch
                         ELSE StepsToLatch' = StepsToLatch]_vars
    BY StepNearer
  <1> QED
    BY <1>1, <1>2, NextTodoSound, TypeCorrect, PTL DEF Spec, LatchNearer

-----------------------------------------------------------------------------
(* The empty report.                                                       *)

\* While all keys are up no step shows one more.
LEMMA NoneComesBack ==
  ASSUME TypeOK, WordsSound, ReportSound, [Next]_vars, Intact', AllUp
  PROVE  ShownKeys' \subseteq ShownKeys
  <1>1. ASSUME Quiet PROVE ShownKeys' = ShownKeys
    BY <1>1 DEF Quiet, ShownKeys
  <1>2. CASE LeftBit
    <2>1. PICK pos \in LeftKeys : Toggles(pos \in keystates, "left", pos)
      BY <1>2, LeftBitToggles
    <2> QED
      BY <2>1 DEF Toggles, AllUp
  <1>3. CASE RightBit
    <2>1. PICK pos \in RightKeys : Toggles(pos \in last_keystate_right, "right", pos)
      BY <1>3, RightBitToggles
    <2> QED
      BY <2>1 DEF Toggles, AllUp
  <1>4. CASE Sample
    BY <1>4 DEF Sample, leftVars, rightVars, ShownKeys, ShownLeft, ShownRight
  <1>5. CASE Main /\ ~Sample /\ ~LeftBit /\ ~RightBit
    BY <1>1, <1>5, QuietMain DEF Main
  <1>6. CASE LeftCallback
    BY <1>1, <1>6, QuietLeft
  <1>7. CASE HostCallback \/ UNCHANGED vars
    <2>1. UNCHANGED <<mainVars, last_keystate_left>>
      BY <1>7 DEF HostCallback, HostConnected, HostDisconnected, security_changed,
         auth_passkey_confirm, pairing_failed, vars
    <2> QED
      BY <2>1 DEF mainVars, rightVars, passVars, ShownKeys, ShownLeft, ShownRight
  <1> QED
    BY <1>2, <1>3, <1>4, <1>5, <1>6, <1>7 DEF Next

\* When the last edge of the right half has been reported too, and all keys
\* are up, nothing is left to show.
LEMMA LastEdgeEmpties ==
  ASSUME ReportSound, NoByteInSlots, AllUp,
         pc = "right", last_keystate_left = {}, todo = {}
  PROVE  ReportEmpty
  <1>1. ShownKeys = {}
    BY DEF ShownKeys, ShownLeft, ShownRight, SymDiff, Shown, AllUp
  <1>2. SlotsSent = {}
    BY <1>1, SlotsAsShown DEF SlotCodes
  <1>3. ctrl_keys_state = {}
    BY <1>1 DEF ReportSound, ShowsMods, ModCodes
  <1> QED
    BY <1>2, <1>3, EmptyAsSent

\* Only an answer to the read changes the latched word behind main's back.
LEMMA OnlyMainLatches ==
  ASSUME ~Main, [Next]_vars, Intact'
  PROVE  UNCHANGED <<pc, todo, last_keystate_left>>
  <1>1. CASE LeftCallback
    <2>1. UNCHANGED mainVars
      BY <1>1, CallbackLeavesMain
    <2>2. last_keystate_left' = last_keystate_left
      BY <1>1 DEF LeftCallback, LeftConnected, discovery_completed_cb, LeftDisconnected,
         read_failed, notify_process, read_process, Note, When, Intact
    <2> QED
      BY <2>1, <2>2 DEF mainVars
  <1>2. CASE HostCallback
    BY <1>2 DEF HostCallback, HostConnected, HostDisconnected, security_changed,
       auth_passkey_confirm, pairing_failed, mainVars
  <1>3. CASE UNCHANGED vars
    BY <1>3 DEF vars, mainVars
  <1> QED
    BY <1>1, <1>2, <1>3 DEF Next

LEMMA MainEmpties ==
  ASSUME TypeOK, TypeOK', TodoSound, ReportSound, NoByteInSlots, Main, StillShown
  PROVE  StepsToEmpty' < StepsToEmpty
  <1> DEFINE Done == pc = "right" /\ last_keystate_left = {}
  <1> USE DEF StepsToEmpty
  <1>1. /\ todo \in SUBSET Positions /\ Cardinality(todo) \in Nat
        /\ Away[pc] \in Nat /\ StepsToLatch \in Nat
    BY PositionsCounted, AwayValues DEF TypeOK, MainOK, StepsToLatch
  <1>2. keystates # BT_KBDS_VAL_INVALID
    BY DEF StillShown, AllUp, BT_KBDS_VAL_INVALID
  <1>3. CASE Done
    <2>1. todo # {}
      BY <1>3, LastEdgeEmpties DEF StillShown
    <2>2. RightBit
      BY <1>3, <2>1 DEF Main, LoopTest, Sample, TestLeft, LeftBit, LatchLeft, Scan, PairScan,
         pairing_mode, num_comp_reply, LeavePairingMode
    <2>3. PICK pos \in todo : todo' = todo \ {pos}
      BY <2>2 DEF RightBit
    <2>4. Cardinality(todo') = Cardinality(todo) - 1
      BY <1>1, <2>3, PositionsCounted
    <2>5. pc' = "right" /\ last_keystate_left' = {}
      BY <1>3, <2>2 DEF RightBit
    <2> QED
      BY <1>1, <1>3, <2>4, <2>5
  <1>4. CASE LatchLeft
    <2>1. /\ pc = "left" /\ pc' = "right" /\ last_keystate_left' = {}
          /\ todo' = right_keystate_change
      BY <1>4 DEF LatchLeft, StillShown, AllUp
    <2>2. Cardinality(todo') \in Nat /\ Cardinality(todo') <= 24
      BY <2>1, KeysArePositions, PositionsCounted DEF TypeOK, MainOK
    <2> QED
      BY <1>1, <2>1, <2>2
  <1>5. CASE ~Done /\ ~LatchLeft
    <2>1. StepsToLatch' < StepsToLatch
      BY <1>2, <1>5, MainNearer DEF StillShown, Active
    <2>2. last_keystate_left' = last_keystate_left
      BY <1>5 DEF Main, LoopTest, Sample, TestLeft, LeftBit, RightBit, Scan, PairScan,
         pairing_mode, num_comp_reply, LeavePairingMode
    <2>3. pc' = "right" => pc \in {"right", "test"}
      BY <1>5 DEF Main, LoopTest, Sample, TestLeft, LeftBit, RightBit, Scan, PairScan,
         pairing_mode, num_comp_reply, LeavePairingMode
    <2>4. pc' = "right" => pc = "right"
      BY <1>2, <1>5, <2>3 DEF Main, LoopTest, Sample, TestLeft, LeftBit, RightBit, Scan, PairScan,
         pairing_mode, num_comp_reply, LeavePairingMode
    <2>5. ~Done'
      BY <1>5, <2>2, <2>4
    <2>6. StepsToLatch' \in Int
      <3>1. Cardinality(todo') \in Nat /\ Away[pc'] \in Nat
        BY PositionsCounted, AwayValues DEF TypeOK, MainOK
      <3> QED
        BY <3>1 DEF StepsToLatch
    <2> QED
      BY <1>1, <1>5, <2>1, <2>5, <2>6
  <1> QED
    BY <1>3, <1>4, <1>5

LEMMA StepEmpties ==
  ASSUME TypeOK, TypeOK', TodoSound, Follows, NoByteInSlots, [Next]_vars, StillShown,
         StillShown'
  PROVE  /\ ShownKeys' \subseteq ShownKeys
         /\ IF Main THEN StepsToEmpty' < StepsToEmpty ELSE StepsToEmpty' = StepsToEmpty
  <1>1. WordsSound /\ ReportSound /\ Intact' /\ AllUp
    BY DEF Follows, StillShown
  <1>2. ShownKeys' \subseteq ShownKeys
    BY <1>1, NoneComesBack
  <1>3. CASE Main
    <2>1. StepsToEmpty' < StepsToEmpty
      BY <1>1, <1>3, MainEmpties
    <2> QED
      BY <1>2, <1>3, <2>1
  <1>4. CASE ~Main
    <2>1. UNCHANGED <<pc, todo, last_keystate_left>>
      BY <1>1, <1>4, OnlyMainLatches
    <2>2. StepsToEmpty' = StepsToEmpty
      BY <2>1 DEF StepsToEmpty, StepsToLatch
    <2> QED
      BY <1>2, <1>4, <2>2
  <1> QED
    BY <1>3, <1>4

\* Released keys leave the report one by one, none of them comes back, and
\* each step of main is one of finitely many that are left until the report
\* is empty: main never gets to its next scan before (call_key_report).
THEOREM EmptyDrawsNearer == Spec => EmptyNearer
  <1>1. Init => TodoSound /\ NoByteInSlots
    BY DEF Init, TodoSound, NoByteInSlots, NONE, TRUE_BYTE
  <1>2. TypeOK /\ TypeOK' /\ TodoSound /\ Follows /\ NoByteInSlots /\ [Next]_vars =>
            [StillShown /\ StillShown' =>
                 /\ ShownKeys' \subseteq ShownKeys
                 /\ IF Main THEN StepsToEmpty' < StepsToEmpty
                            ELSE StepsToEmpty' = StepsToEmpty]_vars
    BY StepEmpties
  <1> QED
    BY <1>1, <1>2, NextTodoSound, NoByteKept, InitFollows, NextFollows, TypeCorrect, PTL
       DEF Spec, EmptyNearer
=============================================================================
