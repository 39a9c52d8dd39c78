CONSTANTS
    Numbers <- MCNumbers
    Strings <- MCStrings
    Inputs <- MCInputs
    Chars = {65}
    Garbage = {0, 7}
    Headers <- MCHeaders
    WaitingOptions = {0, 260}
    MaxCalls = 3

SPECIFICATION FairSpec

INVARIANTS
    TypeOK
    TerminatorIsPacket
    InputsInOrder

PROPERTIES
    ProtocolRespected
    NoLostReady
    RemainingInputArrives
    ImplementsConsole
    CallsReturn
