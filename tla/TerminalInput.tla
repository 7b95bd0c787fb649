---------------------------- MODULE TerminalInput ----------------------------
(***************************************************************************)
(* Keyboard input of the three terminals (keyboard.c, terminal.c): the     *)
(* live keyboard_buffer of the foreground terminal, the backup buffer and  *)
(* has_enter flag of every terminal, the terminal switch of launch_term    *)
(* (switch_terminal, save_term_info, restore_term_info), and the shell of  *)
(* every terminal blocked in terminal_read.                                *)
(*                                                                         *)
(* Every terminal has been launched and its shell waits in terminal_read:  *)
(* the state after Alt+F2 and Alt+F3 at boot and a switch back.  Process   *)
(* management is left to Kernel; here the timer tick only moves            *)
(* running_term round the terminals, all of which have a process.          *)
(*                                                                         *)
(* A key is the terminal it was typed at (curr_term when the keyboard      *)
(* interrupt stored it) and its kind: a printable character, a Tab or the  *)
(* newline of Enter.  Backspace and Ctrl+L edit the foreground line.       *)
(* Ctrl+C (halt) and the Shift/Caps modes (which only pick the character   *)
(* stored) are left to Kernel and out, respectively.                       *)
(*                                                                         *)
(* Interrupts: terminal_read runs with interrupts enabled, and the         *)
(* keyboard handler calls sti() before launch_term; inside the switch,     *)
(* clear_keyboard_backup and clear_keyboard_buffer end with sti().  Each   *)
(* stretch between those points is one step, and a key or a tick can come  *)
(* between any two.                                                        *)
(***************************************************************************)
EXTENDS Integers, Sequences, SequencesExt

CONSTANTS
    NUM_TERM,        \* terminals
    SIZE,            \* KEYBOARD_BUFFER_SIZE
    NBYTES,          \* nbytes the shell passes to read
    MAX_KEYS,        \* bound on the keys stored in total
    MAX_DELIVERED    \* bound on the bytes a shell has read before reading on

ASSUME SIZE \in Nat \ {0} /\ NBYTES \in Nat \ {0}

Terms == 0 .. NUM_TERM - 1
Kinds == {"char", "tab", "nl"}
Keys  == [term : Terms, kind : Kinds]
\* NULL_KEY: what clear_keyboard_buffer and clear_keyboard_backup write,
\* and what a slot past length_key holds
NULL_KEY == [term |-> NUM_TERM, kind |-> "nul"]

\* memcpy(dst, src, KEYBOARD_BUFFER_SIZE) of a line src into a cleared
\* array: its first SIZE keys
CopyOut(src) == SubSeq(src, 1, IF Len(src) < SIZE THEN Len(src) ELSE SIZE)

\* the first len slots of a cleared array holding src
Pad(src, len) == [i \in 1 .. len |-> IF i <= Len(src) THEN src[i] ELSE NULL_KEY]

\* where the shell of a terminal is inside terminal_read
ReadStages == {"spin", "copy", "clear"}
\* where a switch carried by a terminal's execution is inside launch_term
SwitchStages == {"none", "pending", "saved", "copied", "lenset", "cleared",
                 "restored"}

VARIABLES
    curr_term,      \* the foreground terminal
    running_term,   \* the terminal whose shell is on the CPU
    keyboard_buffer,\* keyboard_buffer[0 .. length_key - 1]
    term_key_buf,   \* term[t].term_key_buf, up to its last non-NUL key
    len_key_buf,    \* term[t].len_key_buf
    has_enter,      \* term[t].has_enter
    rd,             \* rd[t]: the stage of terminal t's terminal_read
    got,            \* got[t]: the bytes terminal_read has copied into buf
    sw,             \* sw[t]: a switch nested on terminal t's execution
    typed,          \* typed[t]: the keys stored while t was foreground,
                    \* less those erased before t's shell copied them
    delivered,      \* delivered[t]: what t's shell has read, in order
    ctrl_pressed    \* keyboard.c's ctrl_pressed

vars == << ctrl_pressed, curr_term, running_term, keyboard_buffer,
           term_key_buf, len_key_buf, has_enter, rd, got, sw, typed, delivered >>

NoSwitch == [stage |-> "none", to |-> 0, from |-> 0]

Init ==
    /\ curr_term = 0
    /\ running_term = 0
    /\ keyboard_buffer = << >>
    /\ term_key_buf = [t \in Terms |-> << >>]
    /\ len_key_buf = [t \in Terms |-> 0]
    /\ has_enter = [t \in Terms |-> 0]
    /\ rd = [t \in Terms |-> "spin"]
    /\ got = [t \in Terms |-> << >>]
    /\ sw = [t \in Terms |-> NoSwitch]
    /\ typed = [t \in Terms |-> << >>]
    /\ delivered = [t \in Terms |-> << >>]
    /\ ctrl_pressed = 0

Stored == MapThenSumSet(LAMBDA t : Len(typed[t]), Terms)

\* the shell of running_term runs (no switch is nested on it)
Runs(t) == running_term = t /\ sw[t].stage = "none"

-----------------------------------------------------------------------------
(* The keyboard interrupt: process_char under cli                         *)

\* default case: stored unless length_key == KEYBOARD_BUFFER_SIZE - 1.
\* Only that one length is refused: after an Enter or a Tab has filled
\* the last slot, the key goes to keyboard_buffer[length_key] past the
\* end of the array, and so does every later one.
KeyChar ==
    LET k == [term |-> curr_term, kind |-> "char"] IN
    /\ Stored < MAX_KEYS
    /\ Len(keyboard_buffer) # SIZE - 1
    /\ keyboard_buffer' = Append(keyboard_buffer, k)
    /\ typed' = [typed EXCEPT ![curr_term] = Append(@, k)]
    /\ UNCHANGED << ctrl_pressed, curr_term, running_term, term_key_buf, len_key_buf,
                    has_enter, rd, got, sw, delivered >>

\* ENTER: handle_enter sets term[curr_term].has_enter, and the newline is
\* stored, unless length_key == KEYBOARD_BUFFER_SIZE
KeyEnter ==
    LET k == [term |-> curr_term, kind |-> "nl"] IN
    /\ Stored < MAX_KEYS
    /\ Len(keyboard_buffer) # SIZE
    /\ has_enter' = [has_enter EXCEPT ![curr_term] = 1]
    /\ keyboard_buffer' = Append(keyboard_buffer, k)
    /\ typed' = [typed EXCEPT ![curr_term] = Append(@, k)]
    /\ UNCHANGED << ctrl_pressed, curr_term, running_term, term_key_buf, len_key_buf, rd,
                    got, sw, delivered >>

\* keys of the foreground line t's shell has already copied: the shell
\* has them, whatever is erased from keyboard_buffer after
Committed(t) == Len(delivered[t]) + Len(got[t])

\* the foreground line loses its last n keys the shell has not copied
Erase(n) ==
    typed' = [typed EXCEPT ![curr_term] =
                 SubSeq(@, 1, IF Len(@) - n > Committed(curr_term)
                              THEN Len(@) - n ELSE Committed(curr_term))]

\* TAB: handle_tab draws four spaces and '\t' is stored, unless
\* length_key == KEYBOARD_BUFFER_SIZE (one slot more than a character gets)
KeyTab ==
    LET k == [term |-> curr_term, kind |-> "tab"] IN
    /\ Stored < MAX_KEYS
    /\ Len(keyboard_buffer) # SIZE
    /\ keyboard_buffer' = Append(keyboard_buffer, k)
    /\ typed' = [typed EXCEPT ![curr_term] = Append(@, k)]
    /\ UNCHANGED << ctrl_pressed, curr_term, running_term, term_key_buf, len_key_buf,
                    has_enter, rd, got, sw, delivered >>

\* BACKSPACE: handle_backspace does nothing when length_key == 0 (or the
\* cursor is at the top left, a screen position left out); otherwise
\* keyboard_buffer[length_key - 1] is cleared and length_key--, whatever
\* the key, a newline whose has_enter is set included
KeyBackspace ==
    /\ keyboard_buffer # << >>
    /\ keyboard_buffer' = Front(keyboard_buffer)
    /\ Erase(1)
    /\ UNCHANGED << ctrl_pressed, curr_term, running_term, term_key_buf, len_key_buf,
                    has_enter, rd, got, sw, delivered >>

\* CTRL_DOWN sets ctrl_pressed; the release code CTRL_UP clears it in
\* keyboard_interrupt_handler
KeyCtrl(b) ==
    /\ ctrl_pressed' = b
    /\ UNCHANGED << curr_term, running_term, keyboard_buffer, term_key_buf, len_key_buf,
                    has_enter, rd, got, sw, typed, delivered >>

\* LETTER_L with ctrl_pressed: clear the screen, ctrl_pressed = UNPRESSED,
\* clear_keyboard_buffer; has_enter is left as it is.  Without Ctrl, l
\* falls through to the default case (KeyChar).
KeyCtrlL ==
    /\ ctrl_pressed = 1
    /\ ctrl_pressed' = 0
    /\ keyboard_buffer' = << >>
    /\ Erase(Len(keyboard_buffer))
    /\ UNCHANGED << curr_term, running_term, term_key_buf, len_key_buf, has_enter, rd,
                    got, sw, delivered >>

\* Alt+F(t+1): process_char returns t+1, the handler calls sti() and then
\* launch_term(t), nested on the execution of running_term
KeyAltF(t) ==
    /\ sw[running_term].stage = "none"
    /\ sw' = [sw EXCEPT ![running_term] =
                 [NoSwitch EXCEPT !.stage = "pending", !.to = t]]
    /\ UNCHANGED << ctrl_pressed, curr_term, running_term, keyboard_buffer,
                    term_key_buf, len_key_buf, len_key_buf, has_enter, rd, got, typed, delivered >>

-----------------------------------------------------------------------------
(* launch_term(to) for a launched terminal, in the execution e carrying it *)

Switching(e, from) == running_term = e /\ sw[e].stage = from

SetStage(e, s) == sw' = [sw EXCEPT ![e].stage = s]

\* cli; to == curr_term returns at once.  Otherwise switch_terminal
\* (curr_term, to) and save_term_info(old_term): len_key_buf = length_key,
\* then clear_keyboard_backup(old_term) empties the backup, len_key_buf = 0,
\* and ends with sti()
SwitchBegin(e) ==
    /\ Switching(e, "pending")
    /\ IF sw[e].to = curr_term
       THEN /\ sw' = [sw EXCEPT ![e] = NoSwitch]
            /\ UNCHANGED << term_key_buf, len_key_buf >>
       ELSE /\ sw' = [sw EXCEPT ![e] = [@ EXCEPT !.stage = "saved",
                                                   !.from = curr_term]]
            /\ term_key_buf' = [term_key_buf EXCEPT ![curr_term] = << >>]
            /\ len_key_buf' = [len_key_buf EXCEPT ![curr_term] = 0]
    /\ UNCHANGED << ctrl_pressed, curr_term, running_term, keyboard_buffer,
                    has_enter, rd, got, typed, delivered >>

\* memcpy of KEYBOARD_BUFFER_SIZE bytes of keyboard_buffer into the
\* backup of old_term, with interrupts enabled
SwitchCopy(e) ==
    /\ Switching(e, "saved")
    /\ SetStage(e, "copied")
    /\ term_key_buf' = [term_key_buf EXCEPT ![sw[e].from] = CopyOut(keyboard_buffer)]
    /\ UNCHANGED << ctrl_pressed, curr_term, running_term, keyboard_buffer,
                    len_key_buf, has_enter, rd, got, typed, delivered >>

\* term[old_term].len_key_buf = length_key, read after the memcpy
SwitchLen(e) ==
    /\ Switching(e, "copied")
    /\ SetStage(e, "lenset")
    /\ len_key_buf' = [len_key_buf EXCEPT ![sw[e].from] = Len(keyboard_buffer)]
    /\ UNCHANGED << ctrl_pressed, curr_term, running_term, keyboard_buffer,
                    term_key_buf, has_enter, rd, got, typed, delivered >>

\* clear_keyboard_buffer (cli ... sti)
SwitchClear(e) ==
    /\ Switching(e, "lenset")
    /\ SetStage(e, "cleared")
    /\ keyboard_buffer' = << >>
    /\ UNCHANGED << ctrl_pressed, curr_term, running_term, term_key_buf,
                    len_key_buf, has_enter, rd, got, typed, delivered >>

\* restore_term_info(to): length_key = len_key_buf and the memcpy of the
\* backup; the slots past what the backup holds are NUL
SwitchRestore(e) ==
    /\ Switching(e, "cleared")
    /\ SetStage(e, "restored")
    /\ keyboard_buffer' = Pad(term_key_buf[sw[e].to], len_key_buf[sw[e].to])
    /\ UNCHANGED << ctrl_pressed, curr_term, running_term, term_key_buf,
                    len_key_buf, has_enter, rd, got, typed, delivered >>

\* curr_term = term_id; vidmap and remap_vid; sti; return
SwitchDone(e) ==
    /\ Switching(e, "restored")
    /\ curr_term' = sw[e].to
    /\ sw' = [sw EXCEPT ![e] = NoSwitch]
    /\ UNCHANGED << ctrl_pressed, running_term, keyboard_buffer,
                    term_key_buf, len_key_buf, len_key_buf, has_enter, rd, got, typed, delivered >>

-----------------------------------------------------------------------------
(* terminal_read(fd, buf, nbytes) of terminal t's shell                    *)

\* read_buffer: spin until term[running_term].has_enter, then clear it
ReadWake(t) ==
    /\ Runs(t)
    /\ rd[t] = "spin"
    /\ has_enter[t] = 1
    /\ Len(delivered[t]) < MAX_DELIVERED
    /\ has_enter' = [has_enter EXCEPT ![t] = 0]
    /\ rd' = [rd EXCEPT ![t] = "copy"]
    /\ UNCHANGED << ctrl_pressed, curr_term, running_term, keyboard_buffer,
                    term_key_buf, len_key_buf, got, sw, typed, delivered >>

\* buffer[i] = keyboard_buffer[i] for i < nbytes and i < length_key
ReadCopy(t) ==
    /\ Runs(t)
    /\ rd[t] = "copy"
    /\ got' = [got EXCEPT ![t] =
                  SubSeq(keyboard_buffer, 1,
                         IF Len(keyboard_buffer) < NBYTES
                         THEN Len(keyboard_buffer) ELSE NBYTES)]
    /\ rd' = [rd EXCEPT ![t] = "clear"]
    /\ UNCHANGED << ctrl_pressed, curr_term, running_term, keyboard_buffer,
                    term_key_buf, len_key_buf, len_key_buf, has_enter, sw, typed, delivered >>

\* clear_keyboard_buffer, return i: the shell has the copied bytes
ReadClear(t) ==
    /\ Runs(t)
    /\ rd[t] = "clear"
    /\ keyboard_buffer' = << >>
    /\ delivered' = [delivered EXCEPT ![t] = @ \o got[t]]
    /\ got' = [got EXCEPT ![t] = << >>]
    /\ rd' = [rd EXCEPT ![t] = "spin"]
    /\ UNCHANGED << ctrl_pressed, curr_term, running_term, term_key_buf, len_key_buf,
                    has_enter, sw, typed >>

\* pit_interrupt_handler: every terminal has a process, so the next
\* terminal in round-robin order becomes resident
Tick ==
    /\ running_term' = (running_term + 1) % NUM_TERM
    /\ UNCHANGED << ctrl_pressed, curr_term, keyboard_buffer, term_key_buf, len_key_buf,
                    has_enter, rd, got, sw, typed, delivered >>

Next ==
    \/ KeyChar \/ KeyEnter
    \/ \E t \in Terms : KeyAltF(t)
    \/ \E e \in Terms : \/ SwitchBegin(e) \/ SwitchCopy(e) \/ SwitchLen(e)
                        \/ SwitchClear(e) \/ SwitchRestore(e) \/ SwitchDone(e)
    \/ \E t \in Terms : ReadWake(t) \/ ReadCopy(t) \/ ReadClear(t)
    \/ Tick
    \/ KeyTab \/ KeyBackspace \/ KeyCtrlL
    \/ \E b \in {0, 1} : KeyCtrl(b)

Spec == Init /\ [][Next]_vars

-----------------------------------------------------------------------------
(* Properties                                                              *)

TypeOK ==
    /\ curr_term \in Terms /\ running_term \in Terms
    /\ keyboard_buffer \in Seq(Keys \cup {NULL_KEY})
    /\ \A t \in Terms : /\ term_key_buf[t] \in Seq(Keys \cup {NULL_KEY})
                        /\ Len(term_key_buf[t]) <= SIZE
                        /\ len_key_buf[t] \in Nat
                        /\ has_enter[t] \in {0, 1}
                        /\ rd[t] \in ReadStages
                        /\ sw[t].stage \in SwitchStages
    /\ ctrl_pressed \in {0, 1}

\* Each terminal's shell reads what was typed at that terminal (spec: a
\* terminal has its own input buffer; blocking reads wait on a per-
\* terminal readiness flag): the bytes terminal_read has returned to t's
\* shell are, in order, a prefix of the keys stored while t was the
\* foreground terminal, none lost, repeated or taken from another.
ShellReadsOwnInput ==
    \A t \in Terms : IsPrefix(delivered[t], typed[t])

=============================================================================
