CONSTANTS
    Sockets = {s1, s2}
    Arrays = {arr}
    Buffers = {buf}
    Contents <- MCContents
    Texts <- MCTexts
    HwAddresses <- MCHwAddresses
    MaxRequests = 1
    MaxFrames = 1
    Nobody = Nobody
SPECIFICATION Spec
SYMMETRY AddressingSymmetry
INVARIANTS
    AddressingInv
    SentAsGiven
    AnswersReturn
    SendersToldApart
CHECK_DEADLOCK FALSE
