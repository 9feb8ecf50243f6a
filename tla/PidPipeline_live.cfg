SPECIFICATION FairSpec
CONSTANTS
    Idle = idle
    Self = self
    Pid = {idle, self, p}
    Protected = {idle}
    Receiver = {"dll.xml", "thThread.xml"}
    Capacity = 2
    MaxReceivers = 1
    MaxSessions = 2
    MaxGen = 1
PROPERTIES SessionEnds DoomedCrashes
