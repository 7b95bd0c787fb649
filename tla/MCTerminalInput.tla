--------------------------- MODULE MCTerminalInput ---------------------------
(* TerminalInput with three terminals and a three-key buffer; four keys  *)
(* let a character follow a full line.                                    *)
EXTENDS TerminalInput

\* NUM_TERM as in the code
MCNumTerm == 3
\* KEYBOARD_BUFFER_SIZE cut to 3: two characters and the newline fill it,
\* so both full-buffer checks of process_char are reached
MCSize == 3
\* the shell reads a whole buffer
MCNbytes == 3
\* enough keys for a line on one terminal and a key on another
MCMaxKeys == 4
MCMaxDelivered == 3
=============================================================================
