---------------------------- MODULE MCHaltWindow ----------------------------
(* HaltWindow with the constants of the Kernel runs.                       *)
EXTENDS HaltWindow

\* a root shell and a child on one terminal and a shell on another: the
\* child's pid is the first free one once it halts
MCMaxProcesses == 3
MCNumTerm == 3
MCStatuses == {0, 1}
\* the calls of the Kernel runs but the RTC's, which these modules do
\* not refine
MCCallsNoRtc == CallKinds \ {"rtc"}
\* background programs halt; only the shell executes (see MCKernel)
MCBackgroundHalt == {"halt"}
\* the RTC's rate only enters Init here: its operations are Kernel's
MCMaxRtcFreq == 2
MCRtcRates == {2}
=============================================================================
