CONSTANTS
    Requests = {r1, r2}
    NoRequest = NoRequest
    MaxBacklog = 2
SPECIFICATION FairSpec
PROPERTY
    EverySendAnswered
\* the process may end: ctl = "dead" with a full backlog has no step left
CHECK_DEADLOCK FALSE
