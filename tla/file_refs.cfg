CONSTANTS
    Procs = {1, 2, 3}
    MaxFd = 1
    MaxStd = 0
    MaxOfd = 4
    MaxActions = 1
    MaxServices = 2
SPECIFICATION Spec
INVARIANTS RefsExact ReleasedAtLastUse HoldersExact
CHECK_DEADLOCK FALSE
