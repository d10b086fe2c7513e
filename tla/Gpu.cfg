CONSTANTS
    OAM_TICKS = 3
    VRAM_TICKS = 4
    HBLANK_TICKS = 3
    VBLANK_TICKS = 9
    PIXELS_PER_COL = 2
    SCANLINE_MAX = 5
    LY_VALUES = 8
    Steps = {1, 2}
    Controls = {"LCD", "STAT", "LY", "UI"}
SPECIFICATION FairSpec
INVARIANTS DrawnInOrder VBlankIsBounded
PROPERTIES OneInterruptPerFrame FramesKeepComing
