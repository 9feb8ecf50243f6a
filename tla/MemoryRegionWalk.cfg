SPECIFICATION Spec
CONSTANTS
    Top = 4
    MemType = {131072}
    MemProtect = {4, 260}
INVARIANTS PagesListedOnce SteadyPagesRight
PROPERTIES RegionWalkEnds
