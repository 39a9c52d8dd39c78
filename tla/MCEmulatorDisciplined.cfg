CONSTANTS
    debug_mode = TRUE
    interrupt_timer_interval = 0
    isr_of_timer_interrupt = 0
    isr_of_keypress_interrupt = 1
    Isrs = {0, 1}
    SoftIsrs = {2}
    isr_to_prio <- TimerFirst
    HEAP_SIZE = 2
    MAX_STACK_SIZE = 4
    ivt <- MCivt
    Words = 3
    Keys <- AllKeys
    Disciplined = TRUE
    MaxFrames = 4
SPECIFICATION FairSpec
INVARIANT StackMirrorsFrames
INVARIANT TimerRestartable
INVARIANT KeypressRefusalJustified
INVARIANT NoSelfInterruption
INVARIANT IdleIsFresh
PROPERTY TimerRecurs
PROPERTY KeypressServed
PROPERTY DebuggerComesBack
