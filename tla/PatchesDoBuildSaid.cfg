SPECIFICATION Spec
CONSTANT NumPatches = 2
INVARIANT SuccessIsReal
CHECK_DEADLOCK FALSE
