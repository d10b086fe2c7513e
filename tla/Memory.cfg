SPECIFICATION Spec
CONSTANTS
    ENTRY = 1
    BIOS_SIZE = 4
    ROM_SIZE = 6
    GPU_RAM_SIZE = 2
    EXT_RAM_SIZE = 1
    WORKING_RAM_SIZE = 2
    ECHO_GAP = 1
    GRAPHICS_RAM_SIZE = 2
    UNUSABLE_MEM_SIZE = 1
    IO_SIZE = 2
    ZRAM_SIZE = 1
    BANK_COUNT = 3
    PAGE = 2
    BLOCK = 2
    Data = {0, 1}
    Selects = {0, 2, 3}
    Pages = {3, 5}
    Sources = {11}
    Targets = {6, 7}
    Lengths = {0}
INVARIANTS HandledOnce OnlyTheEchoAliases
PROPERTIES TransfersCopy
CHECK_DEADLOCK FALSE
