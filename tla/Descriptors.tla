----------------------------- MODULE Descriptors -----------------------------
(***************************************************************************)
(* The file-descriptor tables of the PCBs (syscall_handler.c) composed     *)
(* with the process core of Kernel:                                        *)
(*   open_func, close_func, the descriptor set-up of init_pcb and the      *)
(*   close loop of halt_func.                                              *)
(*                                                                         *)
(* A descriptor table is abstracted to the set of descriptors whose flags  *)
(* field is 1.  The operation table bound to a descriptor and its          *)
(* file_position do not change which descriptors are in use, and are left  *)
(* out (read_func and write_func only dispatch, and change no flag).       *)
(* The PCB region of a pid never used before holds zeroed memory.          *)
(***************************************************************************)
EXTENDS Kernel

CONSTANT MAX_FILES    \* syscall_handler.h: entries of fd_table

ASSUME MAX_FILES \in Nat /\ MAX_FILES >= 3

Fds     == 0 .. MAX_FILES - 1
Stdio   == {0, 1}
FileFds == 2 .. MAX_FILES - 1

VARIABLE fd_flags     \* fd_flags[p]: descriptors of pcb p with flags = 1

dvars == << vars, fd_flags >>

-----------------------------------------------------------------------------
(* Helpers                                                                 *)

\* init_pcb: fd_table[0] and fd_table[1] are bound to stdin and stdout and
\* marked in use; the other entries keep what the pid's last owner left.
\* The new process is the pid Load hands out.
InitFds(pa) ==
    LET np == FirstFree(pa) IN
    fd_flags' = [fd_flags EXCEPT ![np] = @ \cup Stdio]

\* The close loop of halt_func: for every i with cur_pcb->fd_table[i].flags
\* set, close(i) enters close_func, which looks the descriptor up in the
\* pcb of cur_pid and refuses i < 2.
CloseLoop(victim) ==
    [fd_flags EXCEPT ![cur_pid] = @ \ (fd_flags[victim] \cap FileFds)]

-----------------------------------------------------------------------------
(* Kernel operations with the descriptor tables they touch                 *)

DInit == Init /\ fd_flags = [p \in Pids |-> IF p = 0 THEN Stdio ELSE {}]

DExecute ==
    /\ Execute
    /\ InitFds(pid_array)

\* halt_func: the close loop runs before the root-shell respawn, which
\* reuses the freed pid through execute and init_pcb.
Respawns(victim) == pcb[victim].parent = NoPid

HaltFds(victim) ==
    LET closed == CloseLoop(victim)
        np     == FirstFree([pid_array EXCEPT ![victim] = 0])
    IN  fd_flags' = IF Respawns(victim)
                    THEN [closed EXCEPT ![np] = @ \cup Stdio]
                    ELSE closed

DHalt(status) ==
    /\ Halt(status)
    /\ HaltFds(cur_pid)

DCtrlC ==
    /\ CtrlC
    /\ HaltFds(running_pid[curr_term])

DUserHaltOne ==
    /\ UserHaltOne
    /\ HaltFds(running_pid[curr_term])

DLaunchTerm(t) ==
    /\ LaunchTerm(t)
    /\ IF running_pid[t] = NoPid /\ FreePids(pid_array) # {}
       THEN InitFds(pid_array)
       ELSE UNCHANGED fd_flags

DVidmap  == Vidmap  /\ UNCHANGED fd_flags
DPitTick == PitTick /\ UNCHANGED fd_flags
\* a faulted program keeps its descriptors until a Ctrl+C halts it
DException(v) == Exception(v) /\ UNCHANGED fd_flags
DSpin == Spin /\ UNCHANGED fd_flags

\* mutant: the scan runs up to fd == MAX_FILES, one entry past the table
OpenPastEnd ==
    LET free == {fd \in 2 .. MAX_FILES : fd \notin fd_flags[cur_pid]} IN
    /\ cur_pid \notin squashed
    /\ free # {}
    /\ fd_flags' = [fd_flags EXCEPT ![cur_pid] = @ \cup {Min(free)}]
    /\ UNCHANGED vars

\* open_func for a name the file system resolves: the first descriptor
\* from 2 with flags == 0 is marked in use (rtc, directory and regular file
\* alike).  With none free, and for "stdin"/"stdout" (which set flags
\* that are already 1) or an unknown name, no flag changes.
Open ==
    LET free == FileFds \ fd_flags[cur_pid] IN
    /\ cur_pid \notin squashed
    /\ free # {}
    /\ fd_flags' = [fd_flags EXCEPT ![cur_pid] = @ \cup {Min(free)}]
    /\ UNCHANGED vars

\* close_func(fd): fd < 2, fd >= MAX_FILES and a descriptor not in use
\* return -1; otherwise the flag is cleared (and the bound close, which
\* returns 0 for rtc, directory and file, is called).
Close(fd) ==
    /\ fd \in FileFds
    /\ cur_pid \notin squashed
    /\ fd \in fd_flags[cur_pid]
    /\ fd_flags' = [fd_flags EXCEPT ![cur_pid] = @ \ {fd}]
    /\ UNCHANGED vars

DNext ==
    \/ DExecute
    \/ \E s \in UserStatuses : DHalt(s)
    \/ DUserHaltOne
    \/ DCtrlC
    \/ \E t \in Terms : DLaunchTerm(t)
    \/ DVidmap
    \/ DPitTick
    \/ \E v \in ExceptionVectors : DException(v)
    \/ DSpin
    \/ Open
    \/ \E fd \in Fds : Close(fd)

DSpec == DInit /\ [][DNext]_dvars

-----------------------------------------------------------------------------
(* Properties                                                              *)

\* Every descriptor table holds only descriptors of fd_table: open's
\* first-fit scan stays below MAX_FILES.
DescTypeOK == fd_flags \in [Pids -> SUBSET Fds]

\* The process a halt terminates (cur_pid for a normal halt, the
\* foreground terminal's process for status 1 / Ctrl+C).
HaltVictim ==
    IF \E s \in UserStatuses : DHalt(s) THEN cur_pid
    ELSE running_pid[curr_term]

\* halt closes every descriptor the terminated process has in use and no
\* other process's (spec 4.4 step 1): after it the victim's pid holds no
\* file descriptor, and every other process has the files it had.
HaltClosesVictimFiles ==
    [][(DUserHaltOne \/ DCtrlC \/ \E s \in UserStatuses : DHalt(s)) =>
          /\ fd_flags'[HaltVictim] \subseteq Stdio
          /\ \A p \in Pids \ {HaltVictim} :
                fd_flags'[p] \cap FileFds = fd_flags[p] \cap FileFds]_dvars

=============================================================================
