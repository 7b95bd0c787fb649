----------------------------- MODULE HaltWindow -----------------------------
(***************************************************************************)
(* halt_func with the interrupts it really allows.  It starts with cli(),  *)
(* but clear_keyboard_buffer / clear_keyboard_backup (keyboard.c:153-183), *)
(* which it calls at syscall_handler.c:200-207, end with sti().  So every  *)
(* later statement of halt_func can be separated from the next by a timer  *)
(* tick or a key: freeing the pid, linking the terminal to the parent (or  *)
(* to -1 and a respawn), remap, tss.esp0, cur_pid, and the jump whose      *)
(* operands are read from cur_pcb.  Each is an action here.                *)
(*                                                                         *)
(* schedule saves the interrupted execution in the pcb of the resident     *)
(* terminal's running_pid and resumes the one saved in the pcb of the      *)
(* next terminal's (pit.c:78-105).  An execution is named by the terminal  *)
(* it was started for: cpu is the one on the CPU, saved[p] the one saved   *)
(* in pcb p (pcb 255, reached through running_pid -1, is the slot Stray).  *)
(* halting[e] is the progress of a halt execution e is inside, with the    *)
(* locals halt_func keeps: victim, parent, halt_term, and the victim's     *)
(* pcb->esp when the halt began (frame).                                   *)
(***************************************************************************)
EXTENDS Kernel

\* get_specific_pcb((uint8_t)-1): the pcb slot below pid MAX_PROCESSES - 1
Stray  == MAX_PROCESSES
Slots  == Pids \cup {Stray}
NoExec == -1

Slot(p) == IF p = NoPid THEN Stray ELSE p

Stages == {"none", "free", "link", "respawn", "remap", "tss", "cur", "jump"}

NoHalt == [stage |-> "none", victim |-> NoPid, parent |-> NoPid,
           ht |-> 0, frame |-> NoStack]

VARIABLES
    cpu,       \* the execution on the CPU
    saved,     \* saved[s]: the execution whose esp/ebp pcb slot s holds
    halting    \* halting[e]: where execution e is inside halt_func

wvars == << vars, cpu, saved, halting >>

\* the execution on the CPU is a user program (it can make system calls)
InUser == halting[cpu].stage = "none"

\* schedule / launch_term / the Ctrl+C path: save the running execution
\* in the pcb of term[running_term].running_pid
SaveCpu == [saved EXCEPT ![Slot(running_pid[running_term])] = cpu]

\* cli ... clear_keyboard_*: halt_func has chosen victim and halt_term
Begin(victim, ht) ==
    [stage |-> "free", victim |-> victim, parent |-> pcb[victim].parent,
     ht |-> ht, frame |-> pcb[victim].esp]

\* the next step of the halt that the running execution is inside
Step(from, to) ==
    /\ halting[cpu].stage = from
    /\ halting' = [halting EXCEPT ![cpu].stage = to]

H == halting[cpu]

WInit ==
    /\ Init
    /\ cpu     = 0
    /\ saved   = [s \in Slots |-> NoExec]
    /\ halting = [e \in Terms |-> NoHalt]

-----------------------------------------------------------------------------
(* Operations                                                              *)

WExecute ==
    /\ InUser
    /\ Execute
    /\ UNCHANGED << cpu, saved, halting >>

WVidmap ==
    /\ InUser
    /\ Vidmap
    /\ UNCHANGED << cpu, saved, halting >>

\* halt(status), status # 1, up to the sti() of the keyboard clear
HaltBegin(status) ==
    /\ InUser
    /\ status # 1
    /\ MayCall(IF pcb[cur_pid].parent = NoPid THEN "halt_root" ELSE "halt")
    /\ halting' = [halting EXCEPT ![cpu] = Begin(cur_pid, pcb[cur_pid].term_id)]
    /\ UNCHANGED << vars, cpu, saved >>

\* halt(1) up to the keyboard clear: with another terminal resident, its
\* esp0 and the interrupted execution are saved and running_term becomes
\* curr_term; the CPU then carries curr_term's halt.
ForcedBegin ==
    LET victim == running_pid[curr_term] IN
    /\ victim # NoPid
    /\ IF running_term # curr_term
       THEN /\ term_esp0'    = [term_esp0 EXCEPT ![running_term] = tss_esp0]
            /\ running_term' = curr_term
            /\ saved'        = SaveCpu
            /\ cpu'          = curr_term
       ELSE UNCHANGED << term_esp0, running_term, saved, cpu >>
    /\ halting' = [halting EXCEPT ![curr_term] = Begin(victim, curr_term)]
    /\ UNCHANGED << pid_array, cur_pid, curr_term, running_pid, tss_esp0,
                    pcb, page_directory, page_table, rtcVars, faultVars >>

\* Ctrl+C: a keyboard interrupt, taken inside a halt as well
WCtrlC == ForcedBegin

WUserHaltOne ==
    /\ InUser
    /\ 1 \in UserStatuses
    /\ MayCall(IF pcb[cur_pid].parent = NoPid THEN "halt_root"
               ELSE "halt_status1")
    /\ ForcedBegin

\* pid_array[victim] = 0 (and the close loop)
HaltFree ==
    /\ Step("free", IF H.parent = NoPid THEN "respawn" ELSE "link")
    /\ pid_array' = [pid_array EXCEPT ![H.victim] = 0]
    /\ UNCHANGED << cur_pid, running_term, curr_term, running_pid,
                    term_esp0, tss_esp0, pcb, page_directory, page_table, rtcVars,
                    cpu, saved, faultVars >>

\* root shell: term[halt_term].running_pid = -1, then execute("shell"),
\* whose cli ... sti is one step; the shell goes to curr_term
HaltUnlink ==
    /\ H.stage = "respawn"
    /\ running_pid[H.ht] # NoPid
    /\ running_pid' = [running_pid EXCEPT ![H.ht] = NoPid]
    /\ UNCHANGED << pid_array, cur_pid, running_term, curr_term, term_esp0,
                    tss_esp0, pcb, page_directory, page_table, rtcVars, cpu, saved,
                    halting, faultVars >>

HaltRespawn ==
    /\ H.stage = "respawn"
    /\ running_pid[H.ht] = NoPid
    /\ FreePids(pid_array) # {}
    /\ Load(pid_array, running_pid, curr_term, term_esp0, tss_esp0)
    /\ halting' = [halting EXCEPT ![cpu] = NoHalt]
    /\ UNCHANGED << curr_term, page_table, rtcVars, cpu, saved, faultVars >>

\* term[halt_term].running_pid = parent_pcb->pid
HaltLink ==
    /\ Step("link", "remap")
    /\ running_pid' = [running_pid EXCEPT ![H.ht] = H.parent]
    /\ UNCHANGED << pid_array, cur_pid, running_term, curr_term, term_esp0,
                    tss_esp0, pcb, page_directory, page_table, rtcVars, cpu,
                    saved, faultVars >>

HaltRemap ==
    /\ Step("remap", "tss")
    /\ Remap(H.parent)
    /\ UNCHANGED << pid_array, cur_pid, running_term, curr_term,
                    running_pid, term_esp0, tss_esp0, pcb, page_table, rtcVars,
                    cpu, saved, faultVars >>

\* tss.esp0 = cur_pcb->esp, read now
HaltTss ==
    /\ Step("tss", "cur")
    /\ tss_esp0' = pcb[H.victim].esp
    /\ UNCHANGED << pid_array, cur_pid, running_term, curr_term,
                    running_pid, term_esp0, pcb, page_directory, page_table, rtcVars,
                    cpu, saved, faultVars >>

HaltCur ==
    /\ Step("cur", "jump")
    /\ cur_pid' = H.parent
    /\ UNCHANGED << pid_array, running_term, curr_term, running_pid,
                    term_esp0, tss_esp0, pcb, page_directory, page_table, rtcVars,
                    cpu, saved, faultVars >>

\* sti(); esp = cur_pcb->esp, ebp = cur_pcb->ebp; jmp RET_FROM_IRET
HaltJump ==
    /\ H.stage = "jump"
    /\ halting' = [halting EXCEPT ![cpu] = NoHalt]
    /\ UNCHANGED << vars, cpu, saved >>

\* Alt+Fn, taken inside a halt as well.  A new shell: launch_term saves
\* the interrupted execution in the resident pcb (terminal.c:166-173) and
\* execute starts the shell as a new execution of t.  A switch returns.
WLaunchTerm(t) ==
    /\ LaunchTerm(t)
    /\ IF running_pid[t] = NoPid /\ FreePids(pid_array) # {}
       THEN /\ saved'   = SaveCpu
            /\ cpu'     = t
            /\ halting' = [halting EXCEPT ![t] = NoHalt]
       ELSE UNCHANGED << cpu, saved, halting >>

\* schedule: save the running execution in the resident terminal's pcb,
\* resume the one saved in the next terminal's
WPitTick ==
    /\ PitTick
    /\ saved' = SaveCpu
    /\ cpu'   = SaveCpu[Slot(running_pid[NextTerm])]
    /\ UNCHANGED halting

WNext ==
    \/ WExecute
    \/ \E s \in UserStatuses : HaltBegin(s)
    \/ WUserHaltOne
    \/ WCtrlC
    \/ HaltFree \/ HaltUnlink \/ HaltRespawn \/ HaltLink
    \/ HaltRemap \/ HaltTss \/ HaltCur \/ HaltJump
    \/ \E t \in Terms : WLaunchTerm(t)
    \/ WVidmap
    \/ WPitTick

WSpec == WInit /\ [][WNext]_wvars

-----------------------------------------------------------------------------
(* Properties                                                              *)

WindowTypeOK ==
    /\ cpu \in Terms \cup {NoExec}
    /\ saved \in [Slots -> Terms \cup {NoExec}]
    /\ \A e \in Terms : halting[e].stage \in Stages

\* Each terminal's execution stays its own (schedule, halt, launch_term):
\* the CPU runs the resident terminal's execution, and the pcb schedule
\* will resume for every other terminal with a process holds that
\* terminal's execution.
ExecutionsStayWithTerminals ==
    /\ cpu = running_term
    /\ \A t \in Terms \ {running_term} :
          running_pid[t] # NoPid => saved[running_pid[t]] = t

\* halt returns into the execute frame the parent was suspended in: the
\* esp halt_func loads for its jump is the victim's pcb->esp of the time
\* the halt began (execute saved it in new_pcb->esp).
HaltReturnsToSavedFrame ==
    [][HaltJump => pcb[H.victim].esp = H.frame]_wvars

=============================================================================
