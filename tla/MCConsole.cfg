SPECIFICATION Spec
CONSTANTS
    Bits = 5
    WIDTH = 6
    HEIGHT = 13
    FONT_WIDTH = 1
    FONT_HEIGHT = 2
    Characters <- MCCharacters
    Title <- MCTitle
    Prefix <- MCPrefix
    Unprintable = {"tab"}
    Early <- MCEarly
    Messages <- MCMessages
    MaxPrints <- MCMaxPrints
INVARIANTS TextExact FrameIntact CursorSettles
CHECK_DEADLOCK FALSE
