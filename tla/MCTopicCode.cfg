SPECIFICATION Spec
CONSTANTS
    Chars = {65, 2047, 2048, 65535, 65536, 1114111}
    MaxChars = 2
    Alphabet = {65, 128, 143, 144, 160, 191, 193, 194, 224, 237, 240, 244, 245}
    MaxPayload = 4
    Tails <- MCTails
INVARIANT RoundTrip
INVARIANT DecodeValidates
CHECK_DEADLOCK FALSE
