CONSTANTS
    Requests = {r1, r2, r3, r4}
    NoRequest = NoRequest
    MaxBacklog = 2
SPECIFICATION FairSpec
INVARIANTS
    NoLostWakeup
    AnsweredOnce
    OneStraggler
    IInv
PROPERTIES
    ClosedStaysQuiet
    PollErrorIsFinal
    ImplementsSendService
    SendAnswered
    FrameRead
    SendingPauses
    HandleReclaimed
\* the process may end: ctl = "dead" with a full backlog has no step left
CHECK_DEADLOCK FALSE
