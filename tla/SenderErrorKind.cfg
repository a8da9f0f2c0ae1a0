SPECIFICATION Spec
CONSTANT Exchangers = 2
INVARIANTS ErrorKept
CHECK_DEADLOCK FALSE
