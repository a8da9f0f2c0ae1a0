SPECIFICATION Spec
CONSTANT Exchangers = 3
INVARIANTS TypeOK Answered CopiesAreLapses
PROPERTIES Returns
CHECK_DEADLOCK FALSE
