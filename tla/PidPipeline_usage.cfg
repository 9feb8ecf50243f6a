SPECIFICATION Spec
CONSTANTS
    Idle = idle
    Self = self
    Pid = {idle, self}
    Protected = {idle}
    Receiver = {"dll.xml", "heap.xml"}
    Capacity = 2
    MaxReceivers = 3
    MaxSessions = 2
    MaxGen = 1
INVARIANTS TypeOK NoDangling UsedOnceIsSafe NothingLeaked OneRowPerPid
PROPERTIES ImplementsLifecycle
