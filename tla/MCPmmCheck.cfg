CONSTANTS
    NPage = 7
    FirstFree = 1
    MaxRequest = 3
    MaxRef = 0
    TopStaysFree = FALSE
    MaxCalls = 7
SPECIFICATION CheckSpec
INVARIANT NeverOverReports
PROPERTY SelfTestsPass
CHECK_DEADLOCK FALSE
