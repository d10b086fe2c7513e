CONSTANTS
    MaxTransfers = 1
    MaxQuits = 0
    Impatient = {}
    Stops = {"client"}
SPECIFICATION FairSpec
PROPERTIES StopEndsCpu
CHECK_DEADLOCK FALSE
