SPECIFICATION Spec
CONSTANTS
    Idle = idle
    Self = self
    Pid = {idle, self, p}
    Protected = {idle}
    Receiver = {"memory_region.xml", "processMemoryInfo.xml", "thModule.xml"}
    Capacity = 2
    MaxReceivers = 2
    MaxSessions = 1
    MaxGen = 2
INVARIANTS OneProcessPerPid
PROPERTIES SavedIsComplete
