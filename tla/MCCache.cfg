\* Shared mode with the daemon, which may restart, and a ring that may be full;
\* all modes and the switches between them, without the daemon; partition mode
\* with the daemon, while domains come and go.
CONSTANTS
    d0 = d0  d1 = d1  d2 = d2
    a = a  b = b  v1 = v1  v2 = v2
    Doms <- MCTwoDoms
    Dom0 = d0
    Keys <- MCKeys
    Vals <- MCVals
    Size <- MCSize
    HeaderSize = 1
    DomainSize = 1
    Safety = 1
    Limits = {0, 4}
    Setups <- MCSetups
    RingFills = TRUE
    MaxHeaders = 1
SYMMETRY MCSymmetry
SPECIFICATION Spec
INVARIANT TypeOK Accounting WithinLimit FilesBehindHeaders SharedGetsAreFresh OwnersAlive HeadersLive
