CONSTANTS
    IsrLines <- MCIsrLines
    PrgrmLines <- MCPrgrmLines
    EpromLines <- MCEpromLines
    Gaps = {1022, 2097152}
    MaxIsrItems = 3
    MaxItems = 2
    MaxCells = 4
    SramSizes = {65536, 2147483647}
    ds_address_extension = FALSE
    MAX_VAL_ISR = 3
    Unknown <- MCUnknown

SPECIFICATION Spec

PROPERTIES
    LoadReadsStored

\* The model stops where the program leaves what was loaded.
CHECK_DEADLOCK FALSE
