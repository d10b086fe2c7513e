CONSTANTS
    TicksNormal = 3
    CycleTicks = 2
    Modulus = 9
    Keys = {"SPEED"}
SPECIFICATION Spec
INVARIANTS HaltIsExclusive
