SPECIFICATION Spec
CONSTANTS
    key_map <- corne_key_map
    Codes <- corne_codes
    LeftWords <- LayersLeft
    RightKeys <- LayersRight
    KEY_PRESS_MAX = 2
INVARIANT LayerReleaseClears
