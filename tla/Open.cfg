CONSTANTS
    Sockets = {s1, s2, s3}
    Fds = {f1, f2}
    Interfaces = {eth, lo}
    Device = eth
    MaxBacklog = 2
    NoFd = NoFd
    Free = Free
    Other = Other
SPECIFICATION FairSpec
INVARIANTS
    DescriptorInv
    OwnDescriptor
    NoOrphan
PROPERTIES
    NoNewStrangers
    StrangersPass
