SPECIFICATION Spec
CONSTANTS
    Driver = {"d1", "d2"}
    Address = {1, 2}
    BufferEntries = 2
    MaxLoads = 2
    InfoRows = 2
    ObjectRows = 1
    MaxProcessRows = 1
    TypeRows = 1
    Producer = {"DriverEnumerator", "PerformanceInfo", "pdhProcessEnumerator", "SavePerfTypes"}
    MaxCalls = 2
    MaxTotal = 4
INVARIANTS RowsOfOneAddress SteadyDriversListed UsedInOrderIsSafe
PROPERTIES ImplementsLifecycle
