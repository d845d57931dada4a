SPECIFICATION PinSpec
CONSTANTS
    IntRange = 64
    LongRange = 128
    NoNumber = NoNumber
    Base = 3
    Digits = 2
    Texts = {0, 5, 8, 9, 63, 64, 200}
INVARIANT
    PinIsLimited
CHECK_DEADLOCK FALSE
