\* Offset continuity of file_read when an unused inode entry may name no block.
CONSTANTS
    BLOCK <- MCBlock
    NUM_DATA_BLOCKS <- MCNumDataBlocks
    MAX_LEN <- MCMaxLen
    Bytes <- MCBytes
    MAX_READ <- MCMaxRead
    PadEntries <- MCPadAny
    MAX_DELIVERED <- MCMaxDelivered
    MAX_DIR_ENTRIES <- MCMaxDirEntries
    WORD <- MCWord
    NAME_LEN <- MCNameLen
    NameChars <- MCNameChars
    DentryTypes <- MCDentryTypes
SPECIFICATION Spec
INVARIANTS
    OffsetContinuity
