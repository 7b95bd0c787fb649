\* Where schedule finds each terminal's execution once halt_func can be
\* interrupted after its keyboard clear, under the foreground-driven
\* environment.
CONSTANTS
    MAX_PROCESSES <- MCMaxProcesses
    NUM_TERM <- MCNumTerm
    UserStatuses <- MCStatuses
    Calls <- MCCallsNoRtc
    BackgroundCalls <- MCBackgroundHalt
    MAX_RTC_FREQ <- MCMaxRtcFreq
    RtcRates <- MCRtcRates
SPECIFICATION WSpec
INVARIANT
    ExecutionsStayWithTerminals
