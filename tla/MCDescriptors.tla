---------------------------- MODULE MCDescriptors ----------------------------
(* Descriptors with small constants.                                       *)
EXTENDS Descriptors

\* one root shell per terminal, or a child on one terminal: enough for a
\* halted process to have a file open while another terminal is resident
MCMaxProcesses == 3
MCNumTerm == 3
\* two descriptors beyond stdin and stdout, so first-fit allocation and a
\* close that leaves a hole both occur
MCMaxFiles == 4
MCStatuses == {0, 1}
\* the calls of the Kernel runs but the RTC's, which these modules do
\* not refine; programs may fault
MCCallsNoRtc == CallKinds \ {"rtc"}
\* every vector of set_exceptions has a trap gate and a handler that
\* prints and squashes: the page fault stands for them all
MCExceptionVectors == {14}
\* one faulted program at a time: a second spinning program on another
\* terminal meets the same two interrupts
MCMaxSquashed == 1
\* background programs halt; only the shell executes (see MCKernel)
MCBackgroundHalt == {"halt"}
\* the RTC's rate only enters Init here: its operations are Kernel's
MCMaxRtcFreq == 2
MCRtcRates == {2}
\* States that differ only in the paging entries or the RTC's state are
\* identified: no guard or other variable's update reads page_directory
\* or page_table, and without rtc calls or RtcInterrupt in DNext the RTC
\* state never leaves Init (rtc_count stays NoRead, the value MayCall
\* asks for), so every behaviour of the other variables is kept
DescView == << pid_array, cur_pid, running_term, curr_term, running_pid,
               term_esp0, tss_esp0, pcb, faultVars, fd_flags >>
=============================================================================
