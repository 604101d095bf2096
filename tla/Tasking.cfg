\* PANIC (IRQ 14) really stops the system: deadlock is not checked here.
SPECIFICATION Spec
CONSTANTS
  NProcs = 3
  Lines <- SafetyLines
  MaxFrames = 3
  TickModulus = 2
CHECK_DEADLOCK FALSE
INVARIANTS
  TypeOK
  SwitchNotReentered
  RunningIsCurrent
  SavedContextOwn
  UserModeKernelStack
PROPERTIES
  ImplementsRoundRobin
