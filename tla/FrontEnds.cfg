CONSTANTS
    KeyCodes = {"KeyB", "ArrowLeft"}
    Mouse = {"KeyB"}
    MaxQueue = 2
    MaxSpare = 2
    MaxFrames = 2
    MaxFaults = 1
    Roms <- mcRoms
    HandWritten <- mcHandWritten
SPECIFICATION Spec
INVARIANTS KeysInOrder SettingsSurvive ConsoleObeys
PROPERTIES KeysArrive StreamFlows
CHECK_DEADLOCK FALSE
