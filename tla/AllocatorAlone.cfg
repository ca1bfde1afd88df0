CONSTANTS
    Pools = {"MEM1", "MEM2"}
    PoolTop <- MCTop
    PoolBottom <- MCBottom
    Reserved <- MCReserved
    Header = 1
    MIN_ALIGN = 4
    WORD = 64
    Sizes = {0, 1, 4}
    Aligns = {0, 8}
    Avoids <- MCAvoids
    MaxCalls = 1
SPECIFICATION Spec
INVARIANT PoolsKept
INVARIANT RefusedOnlyWhenFull
PROPERTY HeapSpec
CHECK_DEADLOCK FALSE
