SPECIFICATION FairSpec
CONSTANTS
    Index = {1, 2, 3, 4}
    Provider = {3}
    PROCESS = 2
    IDPROCESS = 1
    LongName = {2, 4}
    INITIAL_SIZE = 2
    EXTEND_SIZE = 1
    MaxData = 3
    MaxInstances = 1
    Producer = {"PerfObjEnumerator", "test_pdh_process", "testHelp"}
    MaxCalls = 2
    MaxTotal = 4
INVARIANTS SteadyObjectsListed NamesExactUnlessLonger ProperUse
PROPERTIES NamesWhole ImplementsLifecycle CallsReturn
