\* create_proc and fork store the new task's kernel stack in their caller's task_t.
SPECIFICATION Spec
CONSTANTS
  NProcs = 1
  Lines = {0}
  MaxFrames = 1
  TickModulus = 2
INVARIANTS
  EveryTaskHasKernelStack
