SPECIFICATION Spec
CONSTANTS
    LongRange = 16777216
    DwordRange = 4194304
    Kilo = 64
    Samples = {0, 1, 90, 4000, 20000, 2000000}
    Timebases = {0, 1, 7}
    Multis = {0, 1, 2}
    Numbers = {0, 1, 63, 64, 65, 999, 1000, 1001, 4095, 4096, 4097, 59999, 60000, 60001, 262143, 262144, 265421, 3599999, 3600000, 3661000, 4194303, 4194304, 8388607}
INVARIANTS ElapsedReadsBack
CHECK_DEADLOCK FALSE
