CONSTANTS
    MAX_PROCESSES <- MCMaxProcesses
    NUM_TERM <- MCNumTerm
    UserStatuses <- MCStatuses
    Calls <- MCCallsNoRtc
    BackgroundCalls <- MCBackgroundHalt
    MAX_RTC_FREQ <- MCMaxRtcFreq
    RtcRates <- MCRtcRates
SPECIFICATION Spec
VIEW NoRtcView
INVARIANT
    ForegroundHasProcess
