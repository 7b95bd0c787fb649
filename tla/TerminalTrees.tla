---------------------------- MODULE TerminalTrees ----------------------------
(***************************************************************************)
(* What the kernel promises about programs and terminals, without pids'    *)
(* bitmap, stacks, page tables or the TSS (spec 4.2-4.5): every terminal   *)
(* holds a stack of programs, its root shell at the bottom and the one     *)
(* that runs on top; every other program of the stack is blocked in the    *)
(* execute that started the one above it.                                  *)
(*                                                                         *)
(*   - a program on the resident terminal starts another on top of it;     *)
(*   - the top program of the resident or of the foreground terminal      *)
(*     exits, and the one below resumes; a root shell that exits is        *)
(*     replaced by a new one;                                              *)
(*   - Alt+Fn brings a terminal to the foreground, first giving it a root  *)
(*     shell if it has none;                                               *)
(*   - the scheduler makes any terminal with programs resident.            *)
(*                                                                         *)
(* A program is named by its pid; a pid names at most one program at a    *)
(* time.  When every pid is taken, Alt+Fn to a terminal without programs   *)
(* still brings it to the foreground, empty.                               *)
(***************************************************************************)
EXTENDS Integers, Sequences, SequencesExt

CONSTANTS
    Pids,     \* the pids programs can have
    Terms     \* the terminals

VARIABLES
    stacks,   \* stacks[t]: the programs of terminal t, root first
    fg,       \* the foreground terminal (keyboard and screen)
    resident  \* the terminal whose top program has the CPU

avars == << stacks, fg, resident >>

InUse == UNION {ToSet(stacks[t]) : t \in Terms}
Fresh == Pids \ InUse

Init ==
    /\ \E p \in Pids :
          stacks = [t \in Terms |-> IF t = 0 THEN << p >> ELSE << >>]
    /\ fg = 0
    /\ resident = 0

\* execute: a new program on top of the resident terminal's stack
Run(p) ==
    /\ stacks[resident] # << >>
    /\ p \in Fresh
    /\ stacks' = [stacks EXCEPT ![resident] = Append(@, p)]
    /\ UNCHANGED << fg, resident >>

\* halt of the resident terminal's program, or Ctrl+C on the foreground
\* one: the program below it resumes, and its terminal is resident
Exit(t) ==
    /\ t \in {resident, fg}
    /\ Len(stacks[t]) > 1
    /\ stacks' = [stacks EXCEPT ![t] = Front(@)]
    /\ resident' = t
    /\ UNCHANGED fg

\* the root shell exits: a new root shell takes its place
Restart(t, p) ==
    /\ t \in {resident, fg}
    /\ Len(stacks[t]) = 1
    /\ p \in Fresh \cup {stacks[t][1]}
    /\ stacks' = [stacks EXCEPT ![t] = << p >>]
    /\ resident' = t
    /\ UNCHANGED fg

\* Alt+Fn to a terminal without programs: its root shell starts there
Launch(t, p) ==
    /\ t # fg
    /\ stacks[t] = << >>
    /\ p \in Fresh
    /\ stacks' = [stacks EXCEPT ![t] = << p >>]
    /\ fg' = t
    /\ resident' = t

\* Alt+Fn to a terminal without programs when no pid is free
LaunchEmpty(t) ==
    /\ t # fg
    /\ stacks[t] = << >>
    /\ Fresh = {}
    /\ fg' = t
    /\ UNCHANGED << stacks, resident >>

\* Alt+Fn to a terminal that has programs
Switch(t) ==
    /\ t # fg
    /\ stacks[t] # << >>
    /\ fg' = t
    /\ UNCHANGED << stacks, resident >>

\* a timer tick hands the CPU to a terminal with programs
Schedule(t) ==
    /\ stacks[t] # << >>
    /\ resident' = t
    /\ UNCHANGED << stacks, fg >>

Next ==
    \/ \E p \in Pids : Run(p)
    \/ \E t \in Terms : \/ Exit(t) \/ LaunchEmpty(t) \/ Switch(t)
                        \/ Schedule(t)
    \/ \E t \in Terms, p \in Pids : Restart(t, p) \/ Launch(t, p)

Spec == Init /\ [][Next]_avars

=============================================================================
