SPECIFICATION Spec
CONSTANTS
    PRIMARY = 2
    BitfieldSizes = {2, 1}
    ListSizes = {0}
    BITS = 2
    DMA_SIZE_BITS = 2
    BootInfos <- Machines
INVARIANTS
    BlocksTranslate
    MemoryPartitioned
    FailsOnlyWhenFull
