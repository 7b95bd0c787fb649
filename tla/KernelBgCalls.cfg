\* Background programs that execute and halt with status 1 as well as
\* halt: does every system call act on its caller's terminal?
CONSTANTS
    MAX_PROCESSES <- MCMaxProcesses
    NUM_TERM <- MCNumTerm
    UserStatuses <- MCStatuses
    Calls <- MCCallsNoRtc
    BackgroundCalls <- MCBackgroundCalls
    MAX_RTC_FREQ <- MCMaxRtcFreq
    RtcRates <- MCRtcRates
SPECIFICATION Spec
VIEW NoRtcView
PROPERTY
    CallsActOnCallersTerminal
