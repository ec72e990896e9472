SPECIFICATION Spec
CONSTANTS
    key_map <- ModifiersOnly
    Codes <- corne_codes
    LeftWords <- SettleLeft
    RightKeys <- SettleRight
    KEY_PRESS_MAX = 1
PROPERTIES
    LeftSettles
    LatchNearer
VIEW CodeView
