CONSTANTS
    MaxTransfers = 2
    MaxQuits = 2
    Impatient = {"client"}
    Stops = {"server"}
SPECIFICATION FairSpec
INVARIANTS NothingOverwritten BusyWhileInProgress
PROPERTIES ImplementsExchange ExchangeCompletes DropFrees
CHECK_DEADLOCK FALSE
