CONSTANTS
    Blocks = {b1, b2, b3, b4, b5}
    Null = Null
    MaxRefs = 2
SPECIFICATION Spec
INVARIANT
    BufferHasItsBlock
