\* Two files, two bindings of the device, two loads of the RT driver.
CONSTANTS
    Files = {f1, f2}
    MaxBinds = 2
    MaxLoads = 2
SPECIFICATION Spec
INVARIANTS
    
    WorkHasMemory
    CallbackAlive
    RefCounted
    FreshPointers
CHECK_DEADLOCK FALSE
