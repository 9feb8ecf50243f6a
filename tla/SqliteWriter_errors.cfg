SPECIFICATION Spec
CONSTANTS
    Instance = {i1, i2, i3}
    Column = {Name, WorkingSet}
    MaxFaults = 1
INVARIANTS ErrorsPrinted
