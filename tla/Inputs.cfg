SPECIFICATION InputsSpec
CONSTANTS
  PAM_MAX_NUM_MSG = 4
  Interrupts = TRUE
  OutOfMemory = TRUE
  Alphabet = {97, 55, 32, 34, 39, 92, 35}
  MaxLine = 5
  MaxWord = 2
  InputSize = 3
  MaxTyped = 5
  Names = {1, 2, 4, 7}
  Argv0 = 4
  TASK_COMM_LEN = 6
  Page = 3
  MaxCalls = 3
  Files = {f1, f2}
INVARIANTS InputsInv ReadsBack
CHECK_DEADLOCK FALSE
