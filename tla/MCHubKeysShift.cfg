SPECIFICATION Spec
CONSTANTS
    key_map <- corne_key_map
    Codes <- corne_codes
    LeftWords <- ShiftLeft
    RightKeys <- ShiftRight
    KEY_PRESS_MAX = 2
INVARIANT ReportFollowsKeys
PROPERTIES
    ImplementsKeyboard
    EmptyNearer
CONSTRAINT Intact
VIEW IntactView
