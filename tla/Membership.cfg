CONSTANTS
    Sockets = {s1, s2}
    Texts <- MCTexts
    Arrays <- MCArrays
    Contents <- MCContents
    NoAddress = NoAddress
    NoMembership = NoMembership
    MaxCount = 2
SPECIFICATION Spec
SYMMETRY MembershipSymmetry
INVARIANTS
    CanonicalEntries
PROPERTY
    ImplementsMembershipService
CHECK_DEADLOCK FALSE
