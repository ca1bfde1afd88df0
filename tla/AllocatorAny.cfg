CONSTANTS
    Pools = {"MEM1", "MEM2"}
    PoolTop <- MCTop
    PoolBottom <- MCBottom
    Reserved <- MCReserved
    Header = 1
    MIN_ALIGN = 4
    WORD = 64
    Sizes = {1, 4}
    Aligns = {0, 8}
    Avoids <- MCAvoids
    MaxCalls = 1
SPECIFICATION Spec
INVARIANT AnyRefusedOnlyWhenFull
CHECK_DEADLOCK FALSE
