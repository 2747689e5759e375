CONSTANTS
  Callers = {c1, c2}
  MaxCommands = 2
  MaxReboots = 1
SPECIFICATION Spec
INVARIANT DowngradeUnblocks
CHECK_DEADLOCK FALSE
