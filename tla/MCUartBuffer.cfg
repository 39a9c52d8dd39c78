CONSTANTS
    Numbers <- MCNumbers
    Strings <- MCStrings
    Inputs <- MCInputs
    Chars = {65}
    Garbage = {0, 7}
    Headers <- MCHeaders
    WaitingOptions = {0, 2}
    MaxCalls = 3

SPECIFICATION Spec

INVARIANT PacketsFitBuffer
