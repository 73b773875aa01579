\* kernel.js: a different process's first read always re-reads the host.
SPECIFICATION Spec
CONSTANTS
    Procs = {"c1", "c2"}
    MaxHost = 2
    MaxCalls = 3
INVARIANT FirstPasteFresh
CHECK_DEADLOCK FALSE
