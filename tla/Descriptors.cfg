\* Descriptor lifecycle under the foreground-driven environment.
CONSTANTS
    MAX_PROCESSES <- MCMaxProcesses
    NUM_TERM <- MCNumTerm
    MAX_FILES <- MCMaxFiles
    UserStatuses <- MCStatuses
    Calls <- MCCallsNoRtc
    BackgroundCalls <- MCBackgroundHalt
    MAX_RTC_FREQ <- MCMaxRtcFreq
    RtcRates <- MCRtcRates
    ExceptionVectors <- MCExceptionVectors
    MAX_SQUASHED <- MCMaxSquashed
SPECIFICATION DSpec
INVARIANTS
    DescTypeOK
VIEW
    DescView
