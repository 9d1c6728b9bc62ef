SPECIFICATION RangeSpec
CONSTANT Half = 8
INVARIANTS ExactBytes RefusedForAReason
CHECK_DEADLOCK FALSE
