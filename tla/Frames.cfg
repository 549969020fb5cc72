CONSTANTS
    Near = {a, b}
    Far = {c}
    EthernetMtu = 9000
    LoopbackMtu = 65536
    Lengths = {0, 45, 46, 1500, 2048, 2049, 65536}
    MaxSends = 2
SPECIFICATION Spec
SYMMETRY FramesSymmetry
INVARIANTS
    FramesInv
    WholeMessage
    CutAtBufferOnly
    OnceInOrder
PROPERTIES
    ImplementsFrameService
CHECK_DEADLOCK FALSE
