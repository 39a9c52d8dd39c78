CONSTANTS
    debug_mode = TRUE
    interrupt_timer_interval = 2
    isr_of_timer_interrupt = 0
    isr_of_keypress_interrupt = 1
    Isrs = {0, 1}
    SoftIsrs = {0, 2}
    isr_to_prio <- KeypressFirst
    HEAP_SIZE = 2
    MAX_STACK_SIZE = 4
    ivt <- MCivt
    Words = 3
    Keys <- AllKeys
    Disciplined = FALSE
    MaxFrames = 4
SPECIFICATION Spec
INVARIANT TypeOK
INVARIANT ControllerTypeOK
INVARIANT StackStrictlyRising
INVARIANT NestingBounded
INVARIANT NoPriorityInversion
PROPERTY ObeysController
PROPERTY ResumesWhereInterrupted
