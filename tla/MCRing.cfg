CONSTANTS
    v1 = v1
    v2 = v2
    v3 = v3
    v4 = v4
    dmn = dmn
    Vcpus <- MCTwoCpus
    Daemon <- dmn
    Types <- MCWithPages
    RingSize = 4
    IdxMod = 8
    Threshold = 3
SPECIFICATION Spec
INVARIANTS NoOverrun SlotReserve RingInv
PROPERTY RingIsChannel
