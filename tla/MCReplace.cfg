\* One eviction of each kind from every list that the stocks describe.
CONSTANTS
    LastList = 2
    Calls <- MCCalls
    Modes = {"LFRU", "FAST"}
    Now = 5
    Total = 12
    Alpha = 30
    Beta = 30
    MaxRef = 3
    MaxSwitches = 1
SPECIFICATION Spec
INVARIANT ContractKept InnocentsKeep CallerPaysLast OldestGo LastLoopSpins
PROPERTY EvictionEnds
CHECK_DEADLOCK FALSE
