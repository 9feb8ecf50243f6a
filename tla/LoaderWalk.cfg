SPECIFICATION Spec
CONSTANTS
    Module = {a, b, c}
    Sentinel = sentinel
    Wild = wild
    MaxChanges = 3
    MaxListed = 8
INVARIANTS QuietTargetListed SteadyModulesListed
PROPERTIES WalkEnds ExitedTargetHangs
