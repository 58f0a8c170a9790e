\* Partition mode with the daemon: a get may answer with an older put.
CONSTANTS
    d0 = d0  d1 = d1  d2 = d2
    a = a  b = b  v1 = v1  v2 = v2
    Doms <- MCOneDom
    Dom0 = d0
    Keys <- MCKeys
    Vals <- MCVals
    Size <- MCSize
    HeaderSize = 1
    DomainSize = 1
    Safety = 1
    Limits = {0, 4}
    Setups <- MCOldSetups
    RingFills = FALSE
    MaxHeaders = 1
SPECIFICATION Spec
INVARIANT GetsAreFresh
