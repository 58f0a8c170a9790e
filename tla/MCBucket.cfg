\* Two CPUs, on different keys or on the same ones, with and without daemon.
CONSTANTS
    c1 = c1  c2 = c2  ka = ka  kb = kb
    Cpus <- MCCpus
    Keys <- MCKeys
    Works <- MCWorks
    Daemon = {TRUE, FALSE}
    Ops = {"put", "get", "remove", "check"}
    Limit = 1
    MaxCalls = 4
SYMMETRY MCSymmetry
SPECIFICATION Spec
INVARIANT ListSound ListDelSafe OneEntryPerKey FreshWithoutDaemon SlightlyOver
CHECK_DEADLOCK FALSE
