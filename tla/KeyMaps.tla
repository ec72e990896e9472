------------------------------ MODULE KeyMaps ------------------------------
(***************************************************************************)
(* The key tables of the hub (peripheral_hids_keyboard/src/keys.h) and the *)
(* predicates on positions that go with them.  A key code is the name of   *)
(* its KEY_ constant; the codes that differ in the header have different   *)
(* names here.  NONE is KEY_NONE, the zero byte, and a modifier is the one *)
(* bit its KEY_MOD_ constant sets, so a modifier byte is a set of names.   *)
(***************************************************************************)
EXTENDS KeyState, Sequences

NONE == "NONE"

Sides == {"left", "right"}
Layers == 0..3

LAYER_KEY_1 == 22           \* on the left half
LAYER_KEY_2 == 19           \* on the right half

mod_chr == {"LCTRL", "LSHIFT", "LALT", "LMETA",
            "RCTRL", "RSHIFT", "RALT", "RMETA"}

\* The rows of the left table that all layers, or several, have in common.
CtrlRow == <<"LCTRL", NONE, NONE, NONE, NONE, NONE>>
ShiftRow == <<"LSHIFT", NONE, NONE, NONE, NONE, NONE>>
LeftThumbs == <<NONE, NONE, NONE, "LMETA", NONE, "SPACE">>
RightThumbs == <<"ENTER", NONE, "LALT", NONE, NONE, NONE>>
LeftDigits == <<"TAB", "1", "2", "3", "4", "5">>
RightDigits == <<"6", "7", "8", "9", "0", "BACKSPACE">>
EscRow == <<NONE, NONE, NONE, NONE, NONE, "ESC">>

key_map_left ==
    << << <<"TAB", "Q", "W", "E", "R", "T">>,
          <<"LCTRL", "A", "S", "D", "F", "G">>,
          <<"LSHIFT", "Z", "X", "C", "V", "B">>, LeftThumbs >>,
       << LeftDigits, CtrlRow, ShiftRow, LeftThumbs >>,
       << LeftDigits, CtrlRow, ShiftRow, LeftThumbs >>,
       << <<"TAB", NONE, NONE, NONE, NONE, NONE>>, CtrlRow,
          <<"LSHIFT", "F1", "F2", "F3", "F4", "F5">>, LeftThumbs >> >>

key_map_right ==
    << << <<"Y", "U", "I", "O", "P", "BACKSPACE">>,
          <<"H", "J", "K", "L", "SEMICOLON", "APOSTROPHE">>,
          <<"N", "M", "COMMA", "DOT", "SLASH", "ESC">>, RightThumbs >>,
       << RightDigits,
          <<"LEFT", "DOWN", "UP", "RIGHT", NONE, "GRAVE">>,
          EscRow, RightThumbs >>,
       << RightDigits,
          <<"MINUS", "EQUAL", "RIGHTBRACE", "LEFTBRACE", "BACKSLASH", NONE>>,
          EscRow, RightThumbs >>,
       << <<NONE, NONE, NONE, NONE, NONE, "BACKSPACE">>,
          <<NONE, NONE, NONE, NONE, "F11", "F12">>,
          <<"F6", "F7", "F8", "F9", "F10", "ESC">>, RightThumbs >> >>

\* key_map_<side>[layer][position / 6][position % 6]
corne_key_map ==
    [side \in Sides |-> [layer \in Layers |-> [pos \in Positions |->
        LET table == IF side = "left" THEN key_map_left ELSE key_map_right
        IN  table[layer + 1][(pos \div 6) + 1][(pos % 6) + 1]]]]

\* All codes that the tables send in one of the key slots of a report.
corne_codes ==
    { corne_key_map[s][l][p] : s \in Sides, l \in Layers, p \in Positions }
        \ (mod_chr \cup {NONE})

\* The positions whose code is a modifier bit and not a key slot's code.
is_mod_chr(side, pos) ==
    \/ side = "left" /\ pos \in {6, 12, 21}
    \/ side = "right" /\ pos = 20

is_layer_key(side, pos) ==
    \/ side = "left" /\ pos = LAYER_KEY_1
    \/ side = "right" /\ pos = LAYER_KEY_2

\* The keys that need Shift on the symbol layer: the digits of the top row.
needs_shift(side, layer, pos) ==
    /\ layer = 2
    /\ pos \div 6 = 0
    /\ side = "left" => pos % 6 > 0
    /\ side = "right" => pos % 6 < 5
=============================================================================
