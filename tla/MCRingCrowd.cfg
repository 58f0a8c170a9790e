CONSTANTS
    v1 = v1
    v2 = v2
    v3 = v3
    v4 = v4
    dmn = dmn
    Vcpus <- MCFourCpus
    Daemon <- dmn
    Types <- MCOnlyDel
    RingSize = 4
    IdxMod = 8
    Threshold = 4
SPECIFICATION Spec
INVARIANT OutstandingBelowSize
