CONSTANTS
    Half = 4096
    Radix = 10
    Places = 10
    Setting <- LargeBlocks
SPECIFICATION Spec
\* the bounds on the clock and on the number of blocks are reached
CHECK_DEADLOCK FALSE
INVARIANTS
    PenaltyDefined
