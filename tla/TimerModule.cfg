CONSTANTS
    REGISTER = 4
    RTC_INCREMENT = 8
    TIMEOUTS = {2, 4, 8}
    Steps = {1, 3}
    Modulos = {0, 2, 3}
    MaxElapsed = 9
SPECIFICATION Spec
INVARIANTS NoTickLost
PROPERTIES OverflowRaises DividerRuns
CHECK_DEADLOCK FALSE
