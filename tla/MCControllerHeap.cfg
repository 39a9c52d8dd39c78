CONSTANTS
    Isrs = {0, 1, 2, 3}
    isr_to_prio <- MCPrio
    HEAP_SIZE = 6
    MAX_STACK_SIZE = 6
SPECIFICATION ControllerHeapSpec
INVARIANT TypeOK
INVARIANT HeapOrder
PROPERTY ImplementsQueue
PROPERTY ImplementsController
