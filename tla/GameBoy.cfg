CONSTANTS
    TicksNormal = 1
    CycleTicks = 2
    Modulus = 4
    Keys = {"SPEED", "LINK_TYPE", "LINK_ENABLE"}
SPECIFICATION FairSpec
INVARIANTS TypeOK HaltsAreExclusive NoFault PacedHardware LinkObeysConfig
PROPERTIES CallsReturn IntervalEnds
