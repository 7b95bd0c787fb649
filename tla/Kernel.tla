------------------------------- MODULE Kernel -------------------------------
(***************************************************************************)
(* The process, address-space and scheduling core of the multi-terminal    *)
(* kernel in src/student-distrib:                                          *)
(*   execute_func / halt_func / init_pcb / get_available_pid               *)
(*                                           (syscall_handler.c)           *)
(*   pit_interrupt_handler / schedule / get_next_process      (pit.c)      *)
(*   launch_term                                         (terminal.c)      *)
(*   the Ctrl+C and Alt+Fn paths of keyboard_interrupt_handler             *)
(*                                                       (keyboard.c)      *)
(*   remap / remap_vid                                      (paging.c)     *)
(*   rtc_open / rtc_write / rtc_read / rtc_interrupt_handler               *)
(*                                                     (rtc_handler.c)     *)
(*                                                                         *)
(* Kernel stacks are abstracted to the pid whose _8KB region holds them:   *)
(* tss.esp0, term[t].esp0 and pcb->esp are addresses inside the region     *)
(* of one pid, and the model records that pid.  Paging keeps the entries  *)
(* of paging.h that set_up_PD_PT, remap and remap_vid write and a         *)
(* translation reads: page-directory entries 0, 1, 32 (128 MiB) and 33     *)
(* (132 MiB), and the entries of the one page table for virtual page 0     *)
(* and the video pages; every other entry stays not present.  Screen and   *)
(* keyboard contents are left out.                                         *)
(*                                                                         *)
(* Every action runs with interrupts disabled in the code (cli ... sti),   *)
(* so each is one atomic step; a timer tick is the PitTick action.         *)
(***************************************************************************)
EXTENDS Integers, Sequences, FiniteSets, FiniteSetsExt

CONSTANTS
    MAX_PROCESSES,    \* syscall_handler.h: size of pid_array
    NUM_TERM,         \* terminal.h: number of terminals
    UserStatuses,     \* the status bytes user programs pass to halt
    Calls,            \* the system calls user programs make at all
    BackgroundCalls,  \* the system calls a process makes while its
                      \* terminal is not the foreground one (see MayCall)
    MAX_RTC_FREQ,     \* rtc_handler.h: the fastest virtual rate (1024)
    RtcRates          \* the values programs pass to rtc_write

Pids  == 0 .. MAX_PROCESSES - 1
Terms == 0 .. NUM_TERM - 1

\* term[t].running_pid == -1 and pcb->parent == NULL
NoPid == -1
\* an esp0 / esp that lies in no pid's kernel stack (the boot stack, or
\* the zero of an uninitialised term record)
NoStack == -1

\* physical pages the 132 MiB video alias can map (terminal.h): VIDEO and
\* the backups VIDEOA, VIDEOB, VIDEOC; 0 while the entry is not present
VIDEO == 753664
VidBackup(t) == VIDEO + 4096 * (t + 1)
NotPresent == 0

\* "exception": the program faults (divides by zero, touches an unmapped page)
CallKinds == {"execute", "halt", "halt_root", "halt_status1", "vidmap", "rtc",
              "exception"}

\* rtc_handler.h: the slowest rate, set by rtc_open
MIN_RTC_FREQ == 2
\* rtc_count[p] of a process not inside rtc_read
NoRead == -1

\* pit_interrupt_handler tests term[1] and term[2] by index
ASSUME MAX_PROCESSES \in Nat \ {0} /\ NUM_TERM = 3
ASSUME UserStatuses \subseteq 0 .. 255 /\ Calls \subseteq CallKinds
ASSUME BackgroundCalls \subseteq Calls
ASSUME MAX_RTC_FREQ \in Nat /\ MAX_RTC_FREQ >= MIN_RTC_FREQ

VARIABLES
    pid_array,     \* pid_array[p] = 1 iff pid p is in use
    cur_pid,       \* the pid whose system calls are served (cur_pid)
    running_term,  \* the terminal whose process is CPU-resident
    curr_term,     \* the foreground terminal
    running_pid,   \* term[t].running_pid
    term_esp0,     \* term[t].esp0: kernel stack saved for terminal t
    tss_esp0,      \* tss.esp0: the stack a trap from user mode enters on
    pcb,           \* pcb of each pid: parent, term_id, esp (execute frame)
    page_directory, \* page_directory_array[0].page_directory[d], d \in DirIdx
    page_table,    \* page_table_array[0].page_table[i], i \in TableIdx
    rtc_freq,      \* term[t].rtc_freq: the virtual rate of terminal t
    rtc_interrupt_occurred, \* rtc_interrupt_occurred[t]
    rtc_count,     \* rtc_count[p]: the interrupts the rtc_read process p
                   \* is inside still waits for (its local i runs to count)
    squashed,      \* the pids whose program faulted and spins in squash()
    eflags_if      \* EFLAGS.IF between steps: 1 unless the CPU spins in an
                   \* exception handler entered with interrupts disabled

rtcVars == << rtc_freq, rtc_interrupt_occurred, rtc_count >>
faultVars == << squashed, eflags_if >>
vars == << pid_array, cur_pid, running_term, curr_term, running_pid,
           term_esp0, tss_esp0, pcb, page_directory, page_table, rtcVars,
           faultVars >>

PcbRec == [parent : Pids \cup {NoPid}, term_id : Terms,
           esp : Pids \cup {NoStack}]

Live == {p \in Pids : pid_array[p] = 1}

-----------------------------------------------------------------------------
(* Paging (paging.c, paging.h)                                             *)

four_KB == 4096
_4MB    == 4194304
_8MB    == 2 * _4MB
_128MB  == 32 * _4MB
_132MB  == 33 * _4MB
VIDEO_ADDR == 184     \* 0xB8: the page-table index of video memory

\* the directory index of a virtual address (remap: virtual_addr / four_MB)
PdeIndex(va) == va \div _4MB

\* The entries a translation can use: the kernel's entries 0 and 1, the
\* two remap targets; in the one page table, entry 0 (the 132 MiB alias)
\* and the entries of video memory and its three backups.
DirIdx   == {0, 1, PdeIndex(_128MB), PdeIndex(_132MB)}
TableIdx == {0} \cup VIDEO_ADDR .. VIDEO_ADDR + 3

\* PDE_t and PTE_t: present, user/supervisor, page size, and the base (the
\* 4 MiB frame of a 4 MiB entry; for a 4 KiB entry the index in
\* page_table_array of its table, always 0).  rw is 1 in every entry the
\* code writes and the caching bits do not affect a translation.
PdeRec == [p : {0, 1}, us : {0, 1}, ps : {0, 1}, base : 0 .. 1023]
PteRec == [p : {0, 1}, us : {0, 1}, base : 0 .. 1048575]

\* set_up_PD_PT: table entry i maps frame i, present only for the four
\* video pages, supervisor only
InitPageTable ==
    [i \in TableIdx |->
        [p |-> IF i \in VIDEO_ADDR .. VIDEO_ADDR + 3 THEN 1 ELSE 0,
         us |-> 0, base |-> i]]

\* set_up_PD_PT: entry 0 points at the page table, entry 1 maps the kernel's
\* 4 MiB page, the rest are not present; all supervisor only
InitPageDirectory ==
    [d \in DirIdx |->
        CASE d = 0 -> [p |-> 1, us |-> 0, ps |-> 0, base |-> 0]
          [] d = 1 -> [p |-> 1, us |-> 0, ps |-> 1, base |-> 1]
          [] OTHER -> [p |-> 0, us |-> 0, ps |-> 0, base |-> d]]

\* remap(_128MB, _8MB + pid * _4MB): a present user 4 MiB entry for the
\* process window whose base is the slot of pid (TLB flushed)
RemapDir(pd, pid) ==
    [pd EXCEPT ![PdeIndex(_128MB)] =
        [p |-> 1, us |-> 1, ps |-> 1, base |-> (_8MB + pid * _4MB) \div _4MB]]

\* remap_vid(_132MB, addr), directory part: a present user 4 KiB entry for
\* the alias, pointing at page_table_array[0]
RemapVidDir(pd) ==
    [pd EXCEPT ![PdeIndex(_132MB)] = [p |-> 1, us |-> 1, ps |-> 0, base |-> 0]]

\* mutant: the table entry is chosen by the physical frame, as
\* set_up_PD_PT numbers them, instead of entry 0
RemapVidTableAtFrame(pt, addr) ==
    [pt EXCEPT ![addr \div four_KB] =
        [p |-> 1, us |-> 1, base |-> addr \div four_KB]]

\* remap_vid(_132MB, addr), table part: entry 0 of the shared table, the
\* one for virtual page 132 MiB, becomes a present user entry for addr
RemapVidTable(pt, addr) ==
    [pt EXCEPT ![0] = [p |-> 1, us |-> 1, base |-> addr \div four_KB]]

Remap(pid) == page_directory' = RemapDir(page_directory, pid)

RemapVid(addr) ==
    /\ page_directory' = RemapVidDir(page_directory)
    /\ page_table'     = RemapVidTable(page_table, addr)

\* the pid whose slot the process window maps
page_window == (page_directory[PdeIndex(_128MB)].base * _4MB - _8MB) \div _4MB

\* the physical page the 132 MiB alias maps, NotPresent before vidmap
vid_map ==
    IF page_directory[PdeIndex(_132MB)].p = 0 THEN NotPresent
    ELSE page_table[0].base * four_KB

-----------------------------------------------------------------------------
(* Interrupt descriptor table (idt_init.c)                                 *)

SYSCALL_VECTOR == 128   \* 0x80

\* the programs spinning in squash() at once: the code sets no limit, so
\* every pid may; a model bound, named so that an MC module can lower it
MAX_SQUASHED == MAX_PROCESSES

\* set_exceptions: the vectors with a handler that prints and squashes
\* (15 is left without one)
ExceptionVectors == (0 .. 31) \ {15}

\* initialize_IDT: reserved3 = 1 (a trap gate, which leaves EFLAGS.IF as
\* it was) for the exceptions and the system call; an interrupt gate,
\* which clears IF, for everything else
TrapGate(v) == v < 32 \/ v = SYSCALL_VECTOR

-----------------------------------------------------------------------------
(* Helpers                                                                 *)

\* mutant: the scan also reads pid_array[MAX_PROCESSES], past the array
FreePidsPastEnd(pa) ==
    {p \in 0 .. MAX_PROCESSES : p = MAX_PROCESSES \/ pa[p] = 0}

\* get_available_pid: first-fit scan of pid_array
FreePids(pa) == {p \in Pids : pa[p] = 0}
FirstFree(pa) == Min(FreePids(pa))

\* mutant: only the terminal right after running_term is tried
NextTermNoSkip ==
    LET n == (running_term + 1) % NUM_TERM
    IN  IF running_pid[n] # NoPid THEN n ELSE running_term

\* get_next_process: the first terminal after running_term (cyclically)
\* with a running pid; running_term itself when there is none
NextTerm ==
    LET steps == {k \in 1 .. NUM_TERM :
                    running_pid[(running_term + k) % NUM_TERM] # NoPid}
    IN  IF steps = {} THEN running_term
        ELSE (running_term + Min(steps)) % NUM_TERM

\* A user program may issue a call of kind k \in Calls when its terminal
\* is in the foreground, and in the background only if k \in
\* BackgroundCalls.  A process blocked in rtc_read makes no call until it
\* returns.
MayCall(k) ==
    /\ k \in Calls
    /\ running_term = curr_term \/ k \in BackgroundCalls
    /\ rtc_count[cur_pid] = NoRead
    /\ cur_pid \notin squashed

\* get_parent_pcb: the running process of terminal ct, or NULL
ParentPcb(rp, ct) == rp[ct]

\* init_pcb (and the ebp/esp capture just before it): parent, pid,
\* term_id = curr_term; descriptors 0 and 1 are set up (see Descriptors)
InitPcb(rp, ct, esp) ==
    [parent |-> ParentPcb(rp, ct), term_id |-> ct, esp |-> esp]

(***************************************************************************)
(* execute_func after the command has been parsed and the file checked:    *)
(* get_available_pid, remap, init_pcb (with get_parent_pcb), the TSS and   *)
(* term record writes and running_pid.  pa, rp and ct are pid_array,       *)
(* term[].running_pid, curr_term and term[].esp0 as the caller left them;  *)
(* esp is the kernel stack execute runs on (saved in new_pcb->esp).        *)
(***************************************************************************)
Load(pa, rp, ct, te, esp) ==
    LET np == FirstFree(pa) IN
    /\ pid_array'    = [pa EXCEPT ![np] = 1]
    /\ cur_pid'      = np
    /\ Remap(np)
    /\ pcb'          = [pcb EXCEPT ![np] = InitPcb(rp, ct, esp)]
    /\ tss_esp0'     = np
    /\ term_esp0'    = [te EXCEPT ![ct] = np]
    /\ running_term' = ct
    /\ running_pid'  = [rp EXCEPT ![ct] = np]

\* halt_func leaves the victim's frames behind: an rtc_read it was blocked
\* in, or the squash() loop it spins in (a Ctrl+C), is never resumed.
AbandonFrames(victim) ==
    /\ rtc_count' = [rtc_count EXCEPT ![victim] = NoRead]
    /\ squashed'  = squashed \ {victim}
    /\ UNCHANGED << rtc_freq, rtc_interrupt_occurred, eflags_if >>

\* mutant: halt forgets to clear the pid bit
TerminateKeepPid(victim, halt_term, rt, te) ==
    LET parent == pcb[victim].parent IN
    /\ AbandonFrames(victim)
    /\ IF parent = NoPid
       THEN /\ Load(pid_array, [running_pid EXCEPT ![halt_term] = NoPid],
                    curr_term, te, tss_esp0)
            /\ UNCHANGED << curr_term, page_table >>
       ELSE /\ running_pid'  = [running_pid EXCEPT ![halt_term] = parent]
            /\ Remap(parent)
            /\ tss_esp0'     = pcb[victim].esp
            /\ cur_pid'      = parent
            /\ running_term' = rt
            /\ term_esp0'    = te
            /\ UNCHANGED << pid_array, curr_term, pcb, page_table >>

\* The part of halt_func after the victim and halt_term are chosen: free
\* the pid (the descriptors are closed, see Descriptors), respawn a root
\* shell through execute, or hand the terminal back to the parent and
\* jump into the parent's execute frame.
Terminate(victim, halt_term, rt, te) ==
    LET parent == pcb[victim].parent
        pa     == [pid_array EXCEPT ![victim] = 0]
    IN  /\ AbandonFrames(victim)
        /\ IF parent = NoPid
           THEN /\ Load(pa, [running_pid EXCEPT ![halt_term] = NoPid],
                        curr_term, te, tss_esp0)
                /\ UNCHANGED << curr_term, page_table >>
           ELSE /\ pid_array'    = pa
                /\ running_pid'  = [running_pid EXCEPT ![halt_term] = parent]
                /\ Remap(parent)
                /\ tss_esp0'     = pcb[victim].esp
                /\ cur_pid'      = parent
                /\ running_term' = rt
                /\ term_esp0'    = te
                /\ UNCHANGED << curr_term, pcb, page_table >>

-----------------------------------------------------------------------------
(* Operations                                                              *)

\* Boot: init_paging, prep_term, init_term (execute("shell") on terminal 0)
Init ==
    /\ pid_array    = [p \in Pids |-> IF p = 0 THEN 1 ELSE 0]
    /\ cur_pid      = 0
    /\ running_term = 0
    /\ curr_term    = 0
    /\ running_pid  = [t \in Terms |-> IF t = 0 THEN 0 ELSE NoPid]
    /\ term_esp0    = [t \in Terms |-> IF t = 0 THEN 0 ELSE NoStack]
    /\ tss_esp0     = 0
    /\ pcb = [p \in Pids |-> [parent |-> NoPid, term_id |-> 0,
                              esp |-> NoStack]]
    /\ page_directory = RemapDir(InitPageDirectory, 0)
    /\ page_table     = InitPageTable
    /\ rtc_freq     = [t \in Terms |-> MAX_RTC_FREQ]
    /\ rtc_interrupt_occurred = [t \in Terms |-> 0]
    /\ rtc_count    = [p \in Pids |-> NoRead]
    /\ squashed     = {}
    /\ eflags_if    = 1

\* The resident process calls execute and the program is found, is an
\* ELF file and a pid is free.  The failing returns (-1, -2) change no
\* state.  The system call enters on tss.esp0.
Execute ==
    /\ MayCall("execute")
    /\ FreePids(pid_array) # {}
    /\ Load(pid_array, running_pid, curr_term, term_esp0, tss_esp0)
    /\ UNCHANGED << curr_term, page_table, rtcVars, faultVars >>

\* The resident process calls halt(status).  A status of 1 is taken by
\* halt_func as Ctrl+C and handled by ForcedHalt; any other status halts
\* the CPU-resident process cur_pid on its own terminal.
Halt(status) ==
    /\ status # 1
    /\ MayCall(IF pcb[cur_pid].parent = NoPid THEN "halt_root" ELSE "halt")
    /\ Terminate(cur_pid, pcb[cur_pid].term_id, running_term, term_esp0)

\* mutant: the Ctrl+C path takes the resident terminal's process as victim
ForcedHaltResident ==
    LET victim == running_pid[running_term] IN
    /\ victim # NoPid
    /\ Terminate(victim, curr_term, curr_term,
                 IF running_term # curr_term
                 THEN [term_esp0 EXCEPT ![running_term] = tss_esp0]
                 ELSE term_esp0)

\* halt_func(1): reached from Ctrl+C in keyboard_interrupt_handler and from
\* a program that exits with status 1.  It halts the foreground terminal's
\* process, first saving the resident terminal's esp0 if that differs.
ForcedHalt ==
    LET victim == running_pid[curr_term] IN
    /\ victim # NoPid
    /\ Terminate(victim, curr_term, curr_term,
                 IF running_term # curr_term
                 THEN [term_esp0 EXCEPT ![running_term] = tss_esp0]
                 ELSE term_esp0)

\* The keyboard interrupt (an interrupt gate) with Ctrl+C held
CtrlC == eflags_if = 1 /\ ForcedHalt

UserHaltOne ==
    /\ 1 \in UserStatuses
    /\ MayCall(IF pcb[cur_pid].parent = NoPid THEN "halt_root"
               ELSE "halt_status1")
    /\ ForcedHalt

\* launch_term(t) on Alt+Ft for a terminal other than the foreground one.
\* A terminal without a process gets a root shell from execute; when no
\* pid is free execute returns -2, which launch_term ignores.
LaunchTerm(t) ==
    /\ eflags_if = 1
    /\ t # curr_term
    /\ IF running_pid[t] = NoPid
       THEN IF FreePids(pid_array) # {}
            THEN /\ Load(pid_array, running_pid, t, term_esp0, tss_esp0)
                 /\ curr_term' = t
                 /\ UNCHANGED << page_table, rtcVars, faultVars >>
            ELSE /\ curr_term' = t
                 /\ UNCHANGED << pid_array, cur_pid, running_term,
                                 running_pid, term_esp0, tss_esp0, pcb,
                                 page_directory, page_table, rtcVars, faultVars >>
       ELSE /\ curr_term' = t
            /\ RemapVid(IF running_term # t THEN VidBackup(running_term) ELSE VIDEO)
            /\ UNCHANGED << pid_array, cur_pid, running_term, running_pid,
                            term_esp0, tss_esp0, pcb, rtcVars, faultVars >>

\* mutant: schedule does not remap the process window
PitTickNoRemap ==
    LET nt == NextTerm IN
    /\ eflags_if = 1
    /\ running_pid[1] # NoPid \/ running_pid[2] # NoPid
    /\ RemapVid(IF nt # curr_term THEN VidBackup(nt) ELSE VIDEO)
    /\ term_esp0'    = [term_esp0 EXCEPT ![running_term] = tss_esp0]
    /\ running_term' = nt
    /\ tss_esp0'     = term_esp0[nt]
    /\ cur_pid'      = running_pid[nt]
    /\ UNCHANGED << pid_array, curr_term, running_pid, pcb, rtcVars, faultVars >>

\* vidmap_func: the resident program maps video memory at 132 MiB
Vidmap ==
    /\ MayCall("vidmap")
    /\ RemapVid(VIDEO)
    /\ UNCHANGED << pid_array, cur_pid, running_term, curr_term,
                    running_pid, term_esp0, tss_esp0, pcb, rtcVars, faultVars >>

\* exception_n for vector v: the resident program faults; the handler
\* prints the message and the address and calls squash(), which never
\* returns, so the program makes no more calls.  Entered through a trap
\* gate from user mode, where IF is 1, the loop runs with interrupts on.
Exception(v) ==
    /\ MayCall("exception")
    /\ Cardinality(squashed) < MAX_SQUASHED
    /\ squashed'  = squashed \cup {cur_pid}
    /\ eflags_if' = IF TrapGate(v) THEN eflags_if ELSE 0
    /\ UNCHANGED << pid_array, cur_pid, running_term, curr_term,
                    running_pid, term_esp0, tss_esp0, pcb, page_directory,
                    page_table, rtcVars >>

\* squash: while (1); one turn of the loop of the resident process
Spin ==
    /\ cur_pid \in squashed
    /\ UNCHANGED vars

\* rtc_open, through open_func: the resident terminal's rate becomes 2 Hz
RtcOpen ==
    /\ MayCall("rtc")
    /\ rtc_freq' = [rtc_freq EXCEPT ![running_term] = MIN_RTC_FREQ]
    /\ UNCHANGED << pid_array, cur_pid, running_term, curr_term, running_pid,
                    term_esp0, tss_esp0, pcb, page_directory, page_table,
                    rtc_interrupt_occurred, rtc_count, faultVars >>

\* rtc_write(fd, &f, 4): a rate within MIN_RTC_FREQ .. MAX_RTC_FREQ becomes
\* the resident terminal's; any other value returns -1
RtcWrite(f) ==
    /\ MayCall("rtc")
    /\ f \in MIN_RTC_FREQ .. MAX_RTC_FREQ
    /\ rtc_freq' = [rtc_freq EXCEPT ![running_term] = f]
    /\ UNCHANGED << pid_array, cur_pid, running_term, curr_term, running_pid,
                    term_esp0, tss_esp0, pcb, page_directory, page_table,
                    rtc_interrupt_occurred, rtc_count, faultVars >>

\* rtc_read: num_running counts terminal 0 and those of terminals 1 and 2
\* that have a process
NumRunning ==
    1 + Cardinality({t \in {1, 2} : running_pid[t] # NoPid})

\* rtc_read(fd, buf, n): count = MAX_RTC_FREQ / rtc_freq / num_running,
\* then the loop waits for count interrupts (none when count is 0)
RtcRead ==
    LET count == (MAX_RTC_FREQ \div rtc_freq[running_term]) \div NumRunning
    IN
    /\ MayCall("rtc")
    /\ rtc_count' = [rtc_count EXCEPT ![cur_pid] =
                        IF count = 0 THEN NoRead ELSE count]
    /\ UNCHANGED << pid_array, cur_pid, running_term, curr_term, running_pid,
                    term_esp0, tss_esp0, pcb, page_directory, page_table,
                    rtc_freq, rtc_interrupt_occurred, faultVars >>

\* One round of rtc_read's loop, run with interrupts enabled by the
\* resident process: the flag of running_term is set, so it is cleared
\* and i++; at i = count rtc_read returns 0.
RtcWait ==
    /\ rtc_count[cur_pid] # NoRead
    /\ rtc_interrupt_occurred[running_term] = 1
    /\ rtc_interrupt_occurred' =
          [rtc_interrupt_occurred EXCEPT ![running_term] = 0]
    /\ rtc_count' = [rtc_count EXCEPT ![cur_pid] =
                        IF @ = 1 THEN NoRead ELSE @ - 1]
    /\ UNCHANGED << pid_array, cur_pid, running_term, curr_term, running_pid,
                    term_esp0, tss_esp0, pcb, page_directory, page_table, rtc_freq, faultVars >>

\* mutant: the handler flags only the resident terminal's interrupt
RtcInterruptResidentOnly ==
    /\ eflags_if = 1
    /\ rtc_interrupt_occurred' =
          [rtc_interrupt_occurred EXCEPT ![running_term] = 1]
    /\ UNCHANGED << pid_array, cur_pid, running_term, curr_term, running_pid,
                    term_esp0, tss_esp0, pcb, page_directory, page_table,
                    rtc_freq, rtc_count, faultVars >>

\* rtc_interrupt_handler: every terminal's flag is set
RtcInterrupt ==
    /\ eflags_if = 1
    /\ rtc_interrupt_occurred' = [t \in Terms |-> 1]
    /\ UNCHANGED << pid_array, cur_pid, running_term, curr_term, running_pid,
                    term_esp0, tss_esp0, pcb, page_directory, page_table,
                    rtc_freq, rtc_count, faultVars >>

\* pit_interrupt_handler: when terminal 1 or 2 has a process,
\* get_next_process and schedule switch to the next terminal.
PitTick ==
    LET nt == NextTerm
        np == running_pid[nt]
    IN
    /\ eflags_if = 1
    /\ running_pid[1] # NoPid \/ running_pid[2] # NoPid
    /\ page_directory' = RemapDir(RemapVidDir(page_directory), np)
    /\ page_table' = RemapVidTable(page_table,
                        IF nt # curr_term THEN VidBackup(nt) ELSE VIDEO)
    /\ term_esp0'    = [term_esp0 EXCEPT ![running_term] = tss_esp0]
    /\ running_term' = nt
    /\ tss_esp0'     = term_esp0[nt]
    /\ cur_pid'      = np
    /\ UNCHANGED << pid_array, curr_term, running_pid, pcb, rtcVars, faultVars >>

Next ==
    \/ Execute
    \/ \E s \in UserStatuses : Halt(s)
    \/ UserHaltOne
    \/ CtrlC
    \/ \E t \in Terms : LaunchTerm(t)
    \/ Vidmap
    \/ RtcOpen \/ \E f \in RtcRates : RtcWrite(f) \/ RtcRead \/ RtcWait
    \/ RtcInterrupt
    \/ PitTick

Spec == Init /\ [][Next]_vars

\* Exception and Spin, the faults of user programs, are composed with the
\* descriptor tables in Descriptors' DNext; the runs of Next ask about
\* programs that keep making calls.

\* The PIT and the RTC interrupt at a fixed rate and their handlers run
\* whenever interrupts are enabled, so an enabled tick or RTC interrupt is
\* eventually taken.  rtc_read's loop tests the flag over and over while
\* its terminal is resident, far more often than the PIT interrupts: a
\* wait that is enabled again and again is eventually taken, on every
\* terminal, since each terminal's reader polls its own flag.
FairSpec ==
    /\ Spec
    /\ WF_vars(PitTick) /\ WF_vars(RtcInterrupt)
    /\ \A t \in Terms : SF_vars(running_term = t /\ RtcWait)

-----------------------------------------------------------------------------
(* Properties                                                              *)

TypeOK ==
    /\ pid_array    \in [Pids -> {0, 1}]
    /\ cur_pid      \in Pids
    /\ running_term \in Terms
    /\ curr_term    \in Terms
    /\ running_pid  \in [Terms -> Pids \cup {NoPid}]
    /\ term_esp0    \in [Terms -> Pids \cup {NoStack}]
    /\ tss_esp0     \in Pids \cup {NoStack}
    /\ pcb          \in [Pids -> PcbRec]
    /\ page_directory \in [DirIdx -> PdeRec]
    /\ page_table     \in [TableIdx -> PteRec]
    /\ rtc_freq     \in [Terms -> MIN_RTC_FREQ .. MAX_RTC_FREQ]
    /\ rtc_interrupt_occurred \in [Terms -> {0, 1}]
    /\ rtc_count    \in [Pids -> {NoRead} \cup 1 .. MAX_RTC_FREQ]
    /\ squashed     \subseteq Live
    /\ eflags_if    \in {0, 1}

\* The parent chain from p, at most MAX_PROCESSES long (a cycle stops it).
RECURSIVE Lineage(_, _)
Lineage(p, n) ==
    IF p = NoPid \/ n = 0 THEN {} ELSE {p} \cup Lineage(pcb[p].parent, n - 1)

\* Process trees (execute, halt, init_pcb, launch_term): the processes of
\* each terminal are exactly one parent chain, from a root shell with no
\* parent down to term[t].running_pid, and every pid in use belongs to
\* one; so the running pid of a terminal is the only one of its processes
\* not blocked in execute, and no pid leaks.
ProcessTrees ==
    \A t \in Terms :
        LET r     == running_pid[t]
            procs == {p \in Live : pcb[p].term_id = t}
        IN  IF r = NoPid THEN procs = {}
            ELSE /\ Lineage(r, MAX_PROCESSES) = procs
                 /\ \E q \in procs : pcb[q].parent = NoPid
                 /\ r \in Live

\* Address-space / stack pairing (schedule, execute, halt): the process
\* whose system calls are served is the running process of the resident
\* terminal, of which it is a process, and the process window maps its
\* slot.
ResidentConsistent ==
    /\ cur_pid = running_pid[running_term]
    /\ pcb[cur_pid].term_id = running_term
    /\ page_window = cur_pid

\* an entry a user-mode access may go through (both p and us set)
UserEntry(e) == e.p = 1 /\ e.us = 1

\* The physical memory user mode reaches through the entries, as the MMU
\* translates: the 4 MiB page of a user 4 MiB directory entry, and the
\* page of a user table entry reached through a user 4 KiB directory entry.
UserPages ==
    LET pd == page_directory
    IN  {[addr |-> pd[d].base * _4MB, size |-> _4MB] :
            d \in {d \in DirIdx : UserEntry(pd[d]) /\ pd[d].ps = 1}}
        \cup
        {[addr |-> page_table[i].base * four_KB, size |-> four_KB] :
            i \in {i \in TableIdx :
                     /\ UserEntry(page_table[i])
                     /\ \E d \in DirIdx : UserEntry(pd[d]) /\ pd[d].ps = 0}}

VideoPages ==
    {[addr |-> a, size |-> four_KB] : a \in {VIDEO} \cup {VidBackup(t) : t \in Terms}}

\* User memory isolation (set_up_PD_PT, remap in execute, halt and
\* schedule, remap_vid in vidmap, launch_term and schedule): the resident
\* process reaches, in user mode, its own 4 MiB slot and at most one video
\* page, and nothing else: not the kernel, not another process's slot, not
\* the saved screens of the other terminals.  remap_vid shares the kernel's
\* low page table, so every remap must leave the kernel's entries
\* supervisor-only and re-point the one user table entry.
UserMemoryIsolated ==
    LET slot == [addr |-> _8MB + cur_pid * _4MB, size |-> _4MB]
        rest == UserPages \ {slot}
    IN  /\ slot \in UserPages
        /\ rest \subseteq VideoPages
        /\ Cardinality(rest) <= 1

\* Kernel stack ownership (execute, halt, schedule, launch_term): tss.esp0
\* lies in the kernel stack of the resident process, and the esp0 that
\* schedule will load for each background terminal lies in the kernel
\* stack of that terminal's running process; so no process traps onto
\* another's kernel stack.
KernelStackOwned ==
    /\ tss_esp0 = cur_pid
    /\ \A t \in Terms \ {running_term} :
          running_pid[t] # NoPid => term_esp0[t] = running_pid[t]

\* A system call acts on its caller's terminal (spec 4.2, 4.3 step 8 and
\* section 4.4: halt targets the CPU-resident process): execute makes the
\* calling process the parent of the new one and attaches it to the
\* caller's terminal, and a program's halt leaves the processes of the
\* other terminals alone.
CallsActOnCallersTerminal ==
    [][/\ Execute => /\ pcb'[cur_pid'].parent  = cur_pid
                     /\ pcb'[cur_pid'].term_id = pcb[cur_pid].term_id
       /\ (UserHaltOne \/ \E s \in UserStatuses : Halt(s)) =>
             \A t \in Terms \ {pcb[cur_pid].term_id} :
                 running_pid'[t] = running_pid[t]]_vars

\* Round robin (get_next_process, schedule): once only timer ticks happen,
\* every terminal with a process becomes CPU-resident.
RoundRobin ==
    (<>[][PitTick]_vars) =>
        \A t \in Terms : running_pid[t] # NoPid ~> running_term = t

\* The programs of terminal t, root shell first: the parent chain of
\* term[t].running_pid, read from the top down.
RECURSIVE ChainSeq(_, _)
ChainSeq(p, n) ==
    IF p = NoPid \/ n = 0 THEN << >>
    ELSE Append(ChainSeq(pcb[p].parent, n - 1), p)

Trees == INSTANCE TerminalTrees
             WITH stacks   <- [t \in Terms |-> ChainSeq(running_pid[t],
                                                        MAX_PROCESSES)],
                  fg       <- curr_term,
                  resident <- running_term

\* The kernel implements TerminalTrees (execute, halt, launch_term,
\* schedule, Ctrl+C): read through the parent chains of the terminals'
\* running pids, every step is a program starting on the resident
\* terminal, the top program of the resident or foreground terminal
\* exiting (a root shell being replaced), a terminal launched or
\* switched to, or a change of resident terminal.
ImplementsTerminalTrees == Trees!Spec

\* Ctrl+C and Alt+Fn are pressed only finitely often.  Each moves the CPU
\* to the foreground terminal; keys pressed faster than the PIT ticks
\* could keep a background terminal from ever being resident.
KeyboardQuiet == <>[][~CtrlC /\ \A t \in Terms : ~LaunchTerm(t)]_vars

\* rtc_read returns (rtc_read, rtc_interrupt_handler, schedule): once the
\* keyboard is left alone, a process blocked in rtc_read, in the
\* foreground or in the background, eventually returns from it or is
\* halted.
RtcReadReturns ==
    KeyboardQuiet =>
        \A p \in Pids : rtc_count[p] # NoRead ~> rtc_count[p] = NoRead

\* Once launched, a terminal keeps a process (spec section 5: every
\* terminal always has at least a root shell), in particular the
\* foreground terminal that Ctrl+C targets.
ForegroundHasProcess == running_pid[curr_term] # NoPid

\* The video alias of a process that runs in the background points at
\* its terminal's backup page, and the foreground process's at live video
\* (spec 4.5 step 2).
VideoAliasMatchesResident ==
    vid_map # NotPresent =>
        vid_map = IF running_term = curr_term THEN VIDEO
                  ELSE VidBackup(running_term)

=============================================================================
