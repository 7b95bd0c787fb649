\* read_data against the flat file, whatever the inode's unused entries hold.
CONSTANTS
    BLOCK <- MCBlock
    NUM_DATA_BLOCKS <- MCNumDataBlocks
    MAX_LEN <- MCMaxLen
    Bytes <- MCBytes
    MAX_READ <- MCMaxRead
    PadEntries <- MCPadAny
    MAX_DELIVERED <- MCMaxDelivered
    MAX_DIR_ENTRIES <- MCMaxDirEntries
    WORD <- MCWord
    NAME_LEN <- MCNameLen
    NameChars <- MCNameChars
    DentryTypes <- MCDentryTypes
SPECIFICATION Spec
INVARIANTS
    TypeOK
    ReadDataCorrect
    LookupSound
