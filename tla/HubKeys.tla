------------------------------ MODULE HubKeys -------------------------------
(***************************************************************************)
(* The key pipeline of the hub, the right half of the keyboard: how the    *)
(* key state words of the two halves become the HID report the host gets.  *)
(* The main thread runs the endless loop of main() and, in it,             *)
(* call_key_report(); it is preemptible, so the Bluetooth callbacks, which *)
(* run in cooperative threads, come between any two of its steps and are   *)
(* atomic themselves.  A key state word is the set of its one bits.        *)
(*                                                                         *)
(* The model keeps one host: HubLinks shows that there is never a second.  *)
(* `hazards' and `told' are history: no guard reads them.                  *)
(***************************************************************************)
EXTENDS KeyMaps, FiniteSets

CONSTANTS
    key_map,         \* side -> layer -> position -> code (corne_key_map)
    Codes,           \* the codes key_map sends in key slots
    LeftWords,       \* the words of the left half that ever come
    RightKeys,       \* those of the right half
    KEY_PRESS_MAX    \* key slots of a report (6 in the program)

TRUE_BYTE == "true"              \* is_adv as a byte; no key has the code 1

(* The tables are total; a modifier stands on the modifier positions and   *)
(* nowhere else.                                                           *)
ASSUME KeyMapAssumption ==
    /\ key_map \in [Sides -> [Layers -> [Positions -> Codes \cup mod_chr \cup {NONE}]]]
    /\ NONE \notin Codes
    /\ Codes \cap (mod_chr \cup {TRUE_BYTE}) = {}
    /\ \A side \in Sides, layer \in Layers, pos \in Positions :
           is_mod_chr(side, pos) <=> key_map[side][layer][pos] \in mod_chr

ASSUME KeysAssumption ==
    LeftWords \subseteq SUBSET Positions /\ RightKeys \subseteq Positions

LeftKeys == UNION LeftWords
Keys == ({"left"} \X LeftKeys) \cup ({"right"} \X RightKeys)

(* On no layer do two keys send the same: a release cannot take another    *)
(* key's code or modifier out of the report.                               *)
ASSUME DistinctAssumption ==
    \A k, h \in Keys, layer \in Layers :
        key_map[k[1]][layer][k[2]] = key_map[h[1]][layer][h[2]] =>
            k = h \/ key_map[k[1]][layer][k[2]] = NONE

ASSUME SlotsAssumption == KEY_PRESS_MAX \in Nat \ {0}

BUT_ACCEPT_POS == {3}             \* 0x08
BUT_REJECT_POS == {1, 2, 4}       \* 0x16
keystate_right == {}              \* declared, tested, never assigned

Hazards == {"race", "read", "layer", "unheard", "overflow", "send", "attach"}

VARIABLES
    \* written by the callbacks
    keystates,              \* kbds.keystates, the left half as last heard
    left,                   \* the link to the left half
    reading,                \* the attach-time read is outstanding
    host,                   \* conn_mode[0].conn is set
    pending,                \* mitm_queue holds a passkey to confirm
    in_pairing_mode,        \* written by main too
    last_keystate_left,     \* written by main and by read_keystates_cb
    \* written by main
    has_changed,            \* static in call_key_report
    last_keystate_right, right_keystate_change,
    layer_selection,
    ctrl_keys_state,        \* the modifier byte of hid_keyboard_state
    keys_state,             \* its key slots and, last, the byte after them
    stray,                  \* a byte beyond those has been written
    pc, todo,               \* where main is, and the bits left of its loop
    \* history
    told,                   \* the host's last report is hid_keyboard_state
    hazards

\* Main answers a passkey: what it does with the mode is still to come.
answering == IF pc \in {"accept", "reject", "leave"} THEN pc ELSE "no"

F == INSTANCE LeftFeed WITH Words <- LeftWords
H == INSTANCE HostFeed

leftVars == <<keystates, left, reading>>
hostVars == <<host, pending>>
rightVars == <<last_keystate_right, right_keystate_change>>
report == <<ctrl_keys_state, keys_state>>
reportVars == <<report, stray, told>>
passVars == <<has_changed, layer_selection>>
mainVars == <<rightVars, passVars, pc, todo>>
vars == <<leftVars, hostVars, in_pairing_mode, last_keystate_left,
          mainVars, reportVars, hazards>>

-----------------------------------------------------------------------------
(* Layout: in the image of this build is_adv is the byte right after       *)
(* keys_state, so cell KEY_PRESS_MAX + 1 is is_adv.                        *)
Cells == 1..(KEY_PRESS_MAX + 1)
is_adv_cell == KEY_PRESS_MAX + 1

CellsWith(byte) == { i \in Cells : keys_state[i] = byte }
FirstOf(cells) == { i \in cells : \A j \in cells : i <= j }
Code(side, pos) == key_map[side][layer_selection][pos]
ReportEmpty == ctrl_keys_state = {} /\ \A i \in 1..KEY_PRESS_MAX : keys_state[i] = NONE
Note(names) == hazards' = hazards \cup names
When(name, cond) == { h \in {name} : cond }

\* Main is between taking its sample of kbds.keystates and latching it.
InFlight == pc \in {"test", "left"}

\* The keys of two words that are reported: all but the layer keys.
Shown(left_word, right_word) ==
    { k \in ({"left"} \X left_word) \cup ({"right"} \X right_word) :
          ~is_layer_key(k[1], k[2]) }

\* The keys the report is to show just now: those of the last words, but for
\* the edges that the loops of call_key_report have not come to.
ShownLeft ==
    IF pc = "left" THEN SymDiff(last_keystate_left, has_changed \ todo) ELSE last_keystate_left
ShownRight ==
    SymDiff(last_keystate_right, IF pc = "right" THEN todo ELSE right_keystate_change)
ShownKeys == Shown(ShownLeft, ShownRight)

\* Nothing has come in the way but of what the host was told.
Intact == hazards \subseteq {"send", "attach"}

LeftOK ==
    /\ keystates \in SUBSET Positions
    /\ left \in {"down", "up", "assigned"}
    /\ reading \in BOOLEAN
    /\ last_keystate_left \in SUBSET Positions

HostOK ==
    /\ host \in BOOLEAN
    /\ pending \in BOOLEAN
    /\ in_pairing_mode \in BOOLEAN

MainOK ==
    /\ last_keystate_right \in SUBSET RightKeys
    /\ right_keystate_change \in SUBSET RightKeys
    /\ has_changed \in SUBSET Positions
    /\ layer_selection \in Layers
    /\ pc \in {"top", "sample", "test", "left", "right", "pair_scan", "pair_answer",
               "accept", "reject", "leave"}
    /\ todo \in SUBSET Positions

ReportOK ==
    /\ ctrl_keys_state \in SUBSET mod_chr
    /\ keys_state \in [Cells -> Codes \cup {NONE, TRUE_BYTE}]
    /\ stray \in BOOLEAN
    /\ told \in BOOLEAN

TypeOK == LeftOK /\ HostOK /\ MainOK /\ ReportOK /\ hazards \in SUBSET Hazards

Init ==
    /\ keystates = BT_KBDS_VAL_INVALID
    /\ left = "down" /\ reading = FALSE
    /\ host = FALSE /\ pending = FALSE /\ in_pairing_mode = TRUE
    /\ last_keystate_left = {} /\ has_changed = {}
    /\ last_keystate_right = {} /\ right_keystate_change = {}
    /\ layer_selection = 0
    /\ ctrl_keys_state = {}
    /\ keys_state = [i \in Cells |-> IF i = is_adv_cell THEN TRUE_BYTE ELSE NONE]
    /\ stray = FALSE /\ told = TRUE
    /\ pc = "top" /\ todo = {}
    /\ hazards = {}

-----------------------------------------------------------------------------
(* The report.  Neither loop over the slots stops at KEY_PRESS_MAX.        *)

\* The first zero byte takes the key; past is_adv's byte the model only
\* records that the byte was not part of the report.
hid_kbd_state_key_set(key) ==
    IF key # NONE /\ CellsWith(NONE) # {}
    THEN /\ \E i \in FirstOf(CellsWith(NONE)) : keys_state' = [keys_state EXCEPT ![i] = key]
         /\ stray' = stray
    ELSE /\ keys_state' = keys_state
         /\ stray' = (stray \/ key # NONE)

\* MUTANT: the first slot in use is freed, whichever key it holds.
Mut_hid_kbd_state_key_clear(key) ==
    IF key # NONE /\ CellsWith(key) # {}
    THEN /\ \E i \in FirstOf(Cells \ CellsWith(NONE)) :
               keys_state' = [keys_state EXCEPT ![i] = NONE]
         /\ stray' = stray
    ELSE /\ keys_state' = keys_state
         /\ stray' \in {stray, key # NONE \/ stray}

\* The first byte equal to the key becomes zero, be it a slot or not; a key
\* that has no slot may hit a byte further up or none at all.
hid_kbd_state_key_clear(key) ==
    IF key # NONE /\ CellsWith(key) # {}
    THEN /\ \E i \in FirstOf(CellsWith(key)) : keys_state' = [keys_state EXCEPT ![i] = NONE]
         /\ stray' = stray
    ELSE /\ keys_state' = keys_state
         /\ stray' \in {stray, key # NONE \/ stray}

\* MUTANT: the Shift of the symbol layer is the right one.
Mut_ModBits(side, pos) ==
    (IF is_mod_chr(side, pos) THEN {Code(side, pos)} ELSE {})
        \cup (IF needs_shift(side, layer_selection, pos) THEN {"RSHIFT"} ELSE {})

\* The bits of the modifier byte a key sets and clears: its own, if it is a
\* modifier, and Shift for the digits of the symbol layer.
ModBits(side, pos) ==
    (IF is_mod_chr(side, pos) THEN {Code(side, pos)} ELSE {})
        \cup (IF needs_shift(side, layer_selection, pos) THEN {"LSHIFT"} ELSE {})

\* MUTANT: a report with no key in it is taken for nothing to send.
Mut_key_report_send(noted) ==
    \E err \in IF host THEN BOOLEAN ELSE {FALSE} :
        /\ told' = (host /\ ~err /\ ~ReportEmpty')
        /\ Note(noted \cup When("send", err))

\* key_report_send: the report goes to the host, unless the stack refuses it.
key_report_send(noted) ==
    \E err \in IF host THEN BOOLEAN ELSE {FALSE} :
        /\ told' = (host /\ ~err)
        /\ Note(noted \cup When("send", err))

\* MUTANT: the bits are inverted, whatever they were.
Mut_set_or_clear_mod_byte(down, bits) ==
    ctrl_keys_state' = SymDiff(ctrl_keys_state, bits)

set_or_clear_mod_byte(down, bits) ==
    ctrl_keys_state' = IF down THEN ctrl_keys_state \cup bits ELSE ctrl_keys_state \ bits

\* hid_buttons_press and hid_buttons_release of one key.
button_text_change(down, key) ==
    IF down THEN hid_kbd_state_key_set(key) ELSE hid_kbd_state_key_clear(key)

create_report(down, side, pos) ==
    IF is_layer_key(side, pos) THEN UNCHANGED <<reportVars, hazards>>
    ELSE LET key == IF is_mod_chr(side, pos) THEN NONE ELSE Code(side, pos)
         IN  /\ set_or_clear_mod_byte(down, ModBits(side, pos))
             /\ button_text_change(down, key)
             /\ key_report_send(When("overflow", /\ down /\ key # NONE
                                                 /\ CellsWith(NONE) \subseteq {is_adv_cell}))

-----------------------------------------------------------------------------
(* The main thread.                                                        *)

LoopTest ==
    /\ pc = "top"
    /\ \/ host /\ ~in_pairing_mode /\ pc' = "sample"
       \/ in_pairing_mode /\ pc' = "pair_scan"
    /\ UNCHANGED <<leftVars, hostVars, in_pairing_mode, last_keystate_left,
                   rightVars, passVars, todo, reportVars, hazards>>

\* The layer the words select; without a word from the left half only the
\* right half's layer key counts.
LayerFor ==
    LET heard == keystates # BT_KBDS_VAL_INVALID
        first == LAYER_KEY_1 \in keystates \cup last_keystate_left
        second == LAYER_KEY_2 \in keystate_right \cup last_keystate_right
        both == \/ LAYER_KEY_1 \in keystates /\ LAYER_KEY_2 \in keystate_right
                \/ LAYER_KEY_1 \in last_keystate_left /\ LAYER_KEY_2 \in last_keystate_right
    IN  IF heard /\ both THEN 3
        ELSE IF heard /\ first THEN 1
        ELSE IF second THEN 2 ELSE 0

\* A key that is down means something else on the new layer.
Reinterprets(layer) ==
    \E k \in ShownKeys :
        \/ key_map[k[1]][layer][k[2]] # Code(k[1], k[2])
        \/ needs_shift(k[1], layer, k[2]) # needs_shift(k[1], layer_selection, k[2])

\* The first part of call_key_report, which the compiler gives one load of
\* kbds.keystates: the difference to the last word and the layer.
Sample ==
    /\ pc = "sample"
    /\ pc' = "test"
    /\ has_changed' = IF keystates # BT_KBDS_VAL_INVALID
                      THEN SymDiff(keystates, last_keystate_left) ELSE has_changed
    /\ layer_selection' = LayerFor
    /\ Note(When("layer", Reinterprets(LayerFor)))
    /\ UNCHANGED <<leftVars, hostVars, in_pairing_mode, last_keystate_left,
                   rightVars, todo, reportVars>>

\* kbds.keystates is read again here, once more for every bit, and to latch.
TestLeft ==
    /\ pc = "test"
    /\ IF keystates # BT_KBDS_VAL_INVALID
       THEN pc' = "left" /\ todo' = has_changed
       ELSE pc' = "right" /\ todo' = right_keystate_change
    /\ UNCHANGED <<leftVars, hostVars, in_pairing_mode, last_keystate_left,
                   rightVars, passVars, reportVars, hazards>>

LeftBit ==
    /\ pc = "left"
    /\ \E pos \in todo :
           /\ \A other \in todo : pos <= other
           /\ create_report(pos \in keystates, "left", pos)
           /\ todo' = todo \ {pos}
    /\ UNCHANGED <<leftVars, hostVars, in_pairing_mode, last_keystate_left,
                   rightVars, passVars, pc>>

\* MUTANT: keys are added to the latched word and never taken out.
Mut_LatchLeft ==
    /\ pc = "left" /\ todo = {}
    /\ last_keystate_left' = last_keystate_left \cup keystates
    /\ pc' = "right" /\ todo' = right_keystate_change
    /\ UNCHANGED <<leftVars, hostVars, in_pairing_mode, rightVars, passVars,
                   reportVars, hazards>>

LatchLeft ==
    /\ pc = "left" /\ todo = {}
    /\ last_keystate_left' = keystates
    /\ pc' = "right" /\ todo' = right_keystate_change
    /\ UNCHANGED <<leftVars, hostVars, in_pairing_mode, rightVars, passVars,
                   reportVars, hazards>>

RightBit ==
    /\ pc = "right"
    /\ \E pos \in todo :
           /\ \A other \in todo : pos <= other
           /\ create_report(pos \in last_keystate_right, "right", pos)
           /\ todo' = todo \ {pos}
    /\ UNCHANGED <<leftVars, hostVars, in_pairing_mode, last_keystate_left,
                   rightVars, passVars, pc>>

\* MUTANT: the columns are read with the wrong polarity.
Mut_get_keystate(buttons) ==
    /\ last_keystate_right' = Positions \ buttons
    /\ right_keystate_change' = SymDiff(Positions \ buttons, last_keystate_right)

\* MUTANT: only the keys that went down count as changed.
Mut_get_keystate_presses(buttons) ==
    /\ last_keystate_right' = buttons
    /\ right_keystate_change' = buttons \ last_keystate_right

get_keystate(buttons) ==
    /\ last_keystate_right' = buttons
    /\ right_keystate_change' = SymDiff(buttons, last_keystate_right)

Scan ==
    /\ pc = "right" /\ todo = {}
    /\ \E buttons \in SUBSET RightKeys : get_keystate(buttons)
    /\ pc' = "top"
    /\ UNCHANGED <<leftVars, hostVars, in_pairing_mode, last_keystate_left,
                   passVars, todo, reportVars, hazards>>

\* In pairing mode the matrix is scanned too, but the edges of the scan
\* before are not reported any more.
PairScan ==
    /\ pc = "pair_scan"
    /\ \E buttons \in SUBSET RightKeys : get_keystate(buttons)
    /\ pc' = "pair_answer"
    /\ Note(When("unheard", right_keystate_change # {}))
    /\ UNCHANGED <<leftVars, hostVars, in_pairing_mode, last_keystate_left,
                   passVars, todo, reportVars>>

pairing_mode ==
    LET buttons == last_keystate_right \cap right_keystate_change
    IN  /\ pc = "pair_answer"
        /\ pc' = IF pending /\ buttons \cap BUT_ACCEPT_POS # {} THEN "accept"
                 ELSE IF pending /\ buttons \cap BUT_REJECT_POS # {} THEN "reject"
                 ELSE "top"
        /\ UNCHANGED <<leftVars, hostVars, in_pairing_mode, last_keystate_left, rightVars,
                       passVars, todo, reportVars, hazards>>

\* By now a callback may have emptied the queue; main goes on all the same.
num_comp_reply ==
    /\ pc \in {"accept", "reject"}
    /\ H!Taken
    /\ pc' = IF pc = "accept" THEN "leave" ELSE "top"
    /\ UNCHANGED <<leftVars, last_keystate_left, rightVars, passVars, todo, reportVars,
                   hazards>>

LeavePairingMode ==
    /\ pc = "leave"
    /\ H!Left
    /\ pc' = "top"
    /\ UNCHANGED <<leftVars, last_keystate_left, rightVars, passVars, todo, reportVars,
                   hazards>>

Main == \/ LoopTest \/ Sample \/ TestLeft \/ LeftBit \/ LatchLeft \/ RightBit
        \/ Scan \/ PairScan \/ pairing_mode \/ num_comp_reply \/ LeavePairingMode

-----------------------------------------------------------------------------
(* The callbacks of the link to the left half, on the steps of LeftFeed.   *)

LeftConnected ==
    /\ F!Connected
    /\ UNCHANGED <<hostVars, in_pairing_mode, last_keystate_left, mainVars, reportVars,
                   hazards>>

\* Handles assigned, subscribed, first read issued.
discovery_completed_cb ==
    /\ F!Discovered
    /\ Note(When("race", InFlight /\ keystates' # keystates))
    /\ UNCHANGED <<hostVars, in_pairing_mode, last_keystate_left, mainVars, reportVars>>

notify_process(word) ==
    /\ F!Notified(word)
    /\ Note(When("race", InFlight /\ keystates' # keystates))
    /\ UNCHANGED <<hostVars, in_pairing_mode, last_keystate_left, mainVars, reportVars>>

read_keystates_cb(word) == last_keystate_left' = word

\* A read returns the low byte of the left half's word.  A byte above
\* BT_KBDS_VAL_MAX is not stored, but the callback gets the sentinel for it.
read_process(byte) ==
    /\ F!Answered(byte)
    /\ read_keystates_cb(IF ByteValue(byte) > BT_KBDS_VAL_MAX
                         THEN BT_KBDS_VAL_INVALID ELSE byte)
    /\ Note(When("race", InFlight /\ keystates' # keystates)
            \cup When("read", last_keystate_left' # last_keystate_left))
    /\ UNCHANGED <<hostVars, in_pairing_mode, mainVars, reportVars>>

read_failed ==
    /\ F!Unanswered
    /\ UNCHANGED <<hostVars, in_pairing_mode, last_keystate_left, mainVars, reportVars,
                   hazards>>

LeftDisconnected ==
    /\ F!Disconnected
    /\ Note(When("race", InFlight /\ keystates' # keystates))
    /\ UNCHANGED <<hostVars, in_pairing_mode, last_keystate_left, mainVars, reportVars>>

LeftCallback ==
    \/ LeftConnected \/ discovery_completed_cb \/ LeftDisconnected \/ read_failed
    \/ \E word \in LeftWords : notify_process(word) \/ read_process(LowByte(word))

-----------------------------------------------------------------------------
(* The callbacks of the link to the host, on the steps of HostFeed.        *)

\* A new host takes no key to be down.
HostConnected ==
    /\ H!Connected
    /\ keys_state' = [keys_state EXCEPT ![is_adv_cell] = NONE]
    /\ told' = ReportEmpty
    /\ Note(When("attach", ~ReportEmpty))
    /\ UNCHANGED <<leftVars, last_keystate_left, mainVars, ctrl_keys_state, stray>>

\* pairing_failed empties the queue first; advertising may fail to start.
HostDisconnected ==
    /\ H!Disconnected
    /\ \/ keys_state' = [keys_state EXCEPT ![is_adv_cell] = TRUE_BYTE]
       \/ keys_state' = keys_state
    /\ UNCHANGED <<leftVars, last_keystate_left, mainVars, ctrl_keys_state,
                   stray, told, hazards>>

\* The host's link, when its passkey does not wait any more, or the one to the
\* left half.
security_changed ==
    /\ (host /\ ~pending) \/ left # "down"
    /\ H!Secured
    /\ UNCHANGED <<leftVars, last_keystate_left, mainVars, reportVars, hazards>>

auth_passkey_confirm ==
    /\ H!Asked
    /\ UNCHANGED <<leftVars, last_keystate_left, mainVars, reportVars, hazards>>

pairing_failed ==
    /\ H!Failed
    /\ UNCHANGED <<leftVars, last_keystate_left, mainVars, reportVars, hazards>>

HostCallback == \/ HostConnected \/ HostDisconnected \/ security_changed
                \/ auth_passkey_confirm \/ pairing_failed

Next == Main \/ LeftCallback \/ HostCallback

(* The callbacks are short and the main thread wakes from its sleep in     *)
(* every round, so the main thread always goes on; no link need ever move. *)
Spec == Init /\ [][Next]_vars /\ WF_vars(Main)

-----------------------------------------------------------------------------
(* What the pipeline promises between two rounds of the loop.              *)

WantedCodes ==
    { Code(k[1], k[2]) : k \in { h \in ShownKeys : ~is_mod_chr(h[1], h[2]) } } \ {NONE}
BusyCells == { i \in Cells : keys_state[i] \notin {NONE, TRUE_BYTE} }
SlotsSent == { keys_state[i] : i \in BusyCells }
WantedMods ==
    { Code(k[1], k[2]) : k \in { h \in ShownKeys : is_mod_chr(h[1], h[2]) } }
    \cup When("LSHIFT", \E k \in ShownKeys : needs_shift(k[1], layer_selection, k[2]))

\* Unless something came in the way that `hazards' names, the report shows
\* the keys it is to show, in one slot each, on the layer that is selected,
\* and no others, in the middle of the loops too; all modifiers of these,
\* Shift excepted, and none else; and nothing is written outside the report
\* (call_key_report, create_report, hid_kbd_state_key_set and _clear).
\* Refused reports and hosts that come late do not matter.
ReportFollowsKeys ==
    Intact =>
        /\ SlotsSent = WantedCodes
        /\ Cardinality(BusyCells) = Cardinality(WantedCodes)
        /\ ctrl_keys_state \subseteq WantedMods
        /\ WantedMods \subseteq ctrl_keys_state \cup {"LSHIFT"}
        /\ is_adv_cell \notin BusyCells
        /\ ~stray

\* While a host is connected, and got every report that was sent, its last
\* report is the current one: no path through create_report changes the
\* report and leaves without key_report_send, whatever else came in the way.
HostUpToDate == host /\ hazards \cap {"send", "attach"} = {} => told

\* When every key is up and stays up, a connected hub ends with an empty
\* report, however many rounds the edges take (the loop of main()).
Active == host /\ ~in_pairing_mode
AllUp == keystates = {} /\ last_keystate_right = {}
ReleasedKeysLeave ==
    (Active /\ AllUp /\ Intact) ~> (ReportEmpty \/ ~Active \/ ~AllUp \/ ~Intact)

\* Whatever comes in between, hazards or not: a word of the left half that
\* stands is latched in the end, so no later edge is computed against an
\* older one.  The word that arrives between the sample and the latch is the
\* hard case.  The word of the first eight keys is excepted, which is also the
\* sentinel: while it stands call_key_report passes over the left half.  It
\* may come, though, and the words after it are latched like any others.
LeftSettles ==
    \A word \in LeftWords \ {BT_KBDS_VAL_INVALID} :
        (Active /\ keystates = word) ~>
            (last_keystate_left = word \/ keystates # word \/ ~Active)

-----------------------------------------------------------------------------
(* How far main is from what the two promise, in steps of its own.         *)

Away == [left |-> 0, test |-> 25, sample |-> 26, top |-> 27, right |-> 28, leave |-> 28,
         reject |-> 28, accept |-> 29, pair_answer |-> 30, pair_scan |-> 31]

\* A loop has 24 passes at most, one for each position.
StepsToLatch == Cardinality(todo) + Away[pc]

StepsToEmpty ==
    IF pc = "right" /\ last_keystate_left = {} THEN Cardinality(todo) ELSE StepsToLatch + 25

\* The measure behind LeftSettles: while a word stands that is not latched,
\* each step of main, wherever it was when the word came, brings the latch
\* nearer, and no callback puts it off.  So 53 steps are enough.
Standing ==
    Active /\ keystates # BT_KBDS_VAL_INVALID /\ last_keystate_left # keystates
LatchNearer ==
    [][Standing /\ Standing' /\ keystates' = keystates =>
           IF Main THEN StepsToLatch' < StepsToLatch ELSE StepsToLatch' = StepsToLatch]_vars

\* The measure behind ReleasedKeysLeave: while all keys are up but the report
\* still shows some, none comes back, each step of main brings the end nearer,
\* and main never gets past the last edge with the report not empty.
StillShown == Active /\ AllUp /\ Intact /\ ~ReportEmpty
EmptyNearer ==
    [][StillShown /\ StillShown' =>
           /\ ShownKeys' \subseteq ShownKeys
           /\ IF Main THEN StepsToEmpty' < StepsToEmpty ELSE StepsToEmpty' = StepsToEmpty]_vars

-----------------------------------------------------------------------------
(* What the pipeline is to the user: Keyboard.                             *)

HeardKeys ==
    Shown(IF keystates = BT_KBDS_VAL_INVALID THEN {} ELSE keystates, last_keystate_right)

Sends == [layer \in Layers |-> [k \in Keys |->
             IF is_mod_chr(k[1], k[2]) THEN {} ELSE {key_map[k[1]][layer][k[2]]} \ {NONE}]]

Sets == [layer \in Layers |-> [k \in Keys |->
            (IF is_mod_chr(k[1], k[2]) THEN {key_map[k[1]][layer][k[2]]} ELSE {})
            \cup When("LSHIFT", needs_shift(k[1], layer, k[2]))]]

K == INSTANCE Keyboard WITH
         heard <- HeardKeys, down <- ShownKeys, layer <- layer_selection,
         codes <- SlotsSent, mods <- ctrl_keys_state, lost <- ~Intact

\* Words, edges, rounds and slots are details: the pipeline is the keyboard of
\* Keyboard.  Every report differs from the one before by one key, which has
\* gone the way of the newest word; a report that is refused, or a host that
\* comes late, puts off what the host knows to the next one and no further.
ImplementsKeyboard == K!Spec

-----------------------------------------------------------------------------
(* What the documentation says of the pipeline and the code does not keep. *)

\* README.rst, testing: "two notifications are received ..., denoting press
\* and release", the second one all zeroes.  Here: even if layer keys are
\* used, releasing all keys leaves an empty report.
LayerReleaseClears ==
    pc = "top" /\ hazards \subseteq {"layer"} /\ ShownKeys = {} => ReportEmpty

\* The same when a notification arrives while main works on the one before.
RaceReleaseClears ==
    pc = "top" /\ hazards \subseteq {"race"} /\ ShownKeys = {} => ReportEmpty

\* hid_kbd_state_key_set, "All slots busy": a key beyond the last slot is
\* refused, so no byte outside the report ever holds a key.
SlotsBusyRefused == keys_state[is_adv_cell] \notin Codes /\ ~stray
=============================================================================
