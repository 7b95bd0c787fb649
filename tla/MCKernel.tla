------------------------------ MODULE MCKernel ------------------------------
(* Kernel with the constants of syscall_handler.h and terminal.h.          *)
EXTENDS Kernel

\* NUM_TERM as in the code
\* 4 of the code's 6 pids: three root shells and one child, enough for
\* the pids to run out while a terminal is being launched
MCMaxProcesses == 4
\* 3 pids for the run that also checks liveness: three root shells exhaust
\* them, and a terminal's child can still run while another is unlaunched
MCMaxProcessesFair == 3
\* one root shell per terminal: enough for scheduling questions
MCNumTerm == 3
\* 0 stands for any status other than 1, the status halt_func reads as
\* Ctrl+C
MCStatuses == {0, 1}
\* the calls of the shell, testprint, counter, pingpong, fish, ...
MCCalls == CallKinds
\* the same without the RTC, for the questions it takes no part in
MCCallsNoRtc == CallKinds \ {"rtc"}
\* without rtc calls, rtc_freq and rtc_count keep their initial values
\* and the interrupt flags are never read: states that differ only in
\* the flags are explored once
NoRtcView == << pid_array, cur_pid, running_term, curr_term, running_pid,
                term_esp0, tss_esp0, pcb, page_directory, page_table, faultVars >>
\* background programs halt (counter, pingpong); only the shell executes,
\* and it acts on a line typed at the foreground terminal
MCBackgroundHalt == {"halt"}
\* background programs also use the RTC (pingpong, fish)
MCBackgroundRtc == {"halt", "rtc"}
\* 2 stands for 1024: MIN_RTC_FREQ = MAX_RTC_FREQ, so every rate is 2,
\* and rtc_read's count, 2 divided among 1 to 3 running terminals, is 2,
\* 1 or 0: a read that waits twice, waits once and does not wait all
\* occur.  A second rate multiplies the states by the rates' product
\* over the terminals, past what the liveness check can take in minutes.
MCMaxRtcFreq == 2
MCRtcRates == {2}
\* a background process that also executes, or halts with status 1
MCBackgroundCalls == {"halt", "execute", "halt_status1"}
=============================================================================
