\* Process trees, address-space pairing and round-robin scheduling under
\* the foreground-driven environment: only halts other than a root
\* shell's and the RTC calls happen in background; the timer tick and the
\* RTC interrupt are weakly fair, the rtc_read loop strongly fair.
CONSTANTS
    MAX_PROCESSES <- MCMaxProcessesFair
    NUM_TERM <- MCNumTerm
    UserStatuses <- MCStatuses
    Calls <- MCCalls
    BackgroundCalls <- MCBackgroundRtc
    MAX_RTC_FREQ <- MCMaxRtcFreq
    RtcRates <- MCRtcRates
SPECIFICATION FairSpec
INVARIANTS
    TypeOK
    ProcessTrees
    ResidentConsistent
    UserMemoryIsolated
PROPERTY
    RoundRobin
    ImplementsTerminalTrees
    RtcReadReturns
