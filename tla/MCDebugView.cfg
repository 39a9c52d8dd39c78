CONSTANTS
    INDEX = 256
    U16_SIZE = 64
    EPROM_SIZE = 40
    sram_size = 100
    num_instrs_start_prgrm = 14
    ivt_size = 3
    num_instrs = 20
    radius_option = 2
    RegStates <- MCRegStates
    Typed = {5, 517}
    Heights = {24, 25, 28}
    MaxAssigns = 2
SPECIFICATION Spec
INVARIANT TypeOK
INVARIANT WindowsAreWhole
INVARIANT WatchedCellShown
INVARIANT ScreenIsCurrent
