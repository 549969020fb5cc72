CONSTANTS
    Sockets = {s1}
    Texts <- MCTexts
    Arrays <- MCArrays
    Contents <- MCContents
    NoAddress = NoAddress
    NoMembership = NoMembership
    MaxCount = 2
SPECIFICATION Spec
INVARIANT
    BadArgumentIsError
CHECK_DEADLOCK FALSE
