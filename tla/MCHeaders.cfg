\* Two CPUs that take, free and flush headers, and stop and start the daemon.
CONSTANTS
    c1 = c1  c2 = c2  p1 = p1  p2 = p2  p3 = p3
    Cpus <- MCCpus
    Pages <- MCPages
    PerPage = 2
    MaxPages = 2
SYMMETRY MCSymmetry
CONSTRAINT MCAlone
SPECIFICATION Spec
INVARIANT HeadersInv FreeOrUsed FreelistSound NoneLost PagesEntered
CHECK_DEADLOCK FALSE
