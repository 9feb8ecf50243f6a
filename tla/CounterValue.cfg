SPECIFICATION Spec
CONSTANTS
    LongRange = 8388608
    DwordRange = 4194304
    Kilo = 64
    Samples <- MCSamples
    Timebases = {0, 1, 5}
    Multis = {0, 1, 2}
    Numbers <- MCNumbers
INVARIANTS CloseToFormula MultiTimerWithinTwice UndefinedIsZero TimesReadBack SizeRounded
CHECK_DEADLOCK FALSE
