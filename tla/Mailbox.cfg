CONSTANTS
  Callers = {c1, c2}
  MaxCommands = 2
  MaxReboots = 1
SYMMETRY Symmetry
SPECIFICATION Spec
INVARIANTS  OwnReply PongIsFresh BootUndisturbed LegacyNeverBusy 
CHECK_DEADLOCK FALSE
