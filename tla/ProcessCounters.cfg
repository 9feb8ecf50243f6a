SPECIFICATION FairSpec
CONSTANTS
    Names = 3
    Self = 2
    Me = 2
    MemoryCounters = 1
    TimeCounters = 1
    MaxProcess = 5
    MaxChanges = 3
    Zero = zero
    Garbage = garbage
    Untyped = untyped
INVARIANTS TypeOK RowIsOneProcess RowMovesForward  ReportIsPrefix
PROPERTIES EnumerateEnds
