\* Does each terminal's shell read exactly the input typed at it, with
\* keys, Alt+Fn switches and timer ticks at every point interrupts allow?
CONSTANTS
    NUM_TERM <- MCNumTerm
    SIZE <- MCSize
    NBYTES <- MCNbytes
    MAX_KEYS <- MCMaxKeys
    MAX_DELIVERED <- MCMaxDelivered
SPECIFICATION Spec
INVARIANT
    ShellReadsOwnInput
