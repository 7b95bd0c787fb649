----------------------------- MODULE MCFileSystem -----------------------------
(* FileSystem with 2-byte blocks: files of up to two blocks, a block       *)
(* boundary inside the file and at its end, and reads that cross it; and   *)
(* directories of one and two entries, read by successive ls runs.        *)
EXTENDS FileSystem

MCBlock == 2
MCNumDataBlocks == 2
MCMaxLen == 4
MCBytes == {0, 1}
\* reads shorter than, equal to and longer than a block
MCMaxRead == 3
\* enough for a whole file and a re-read after a step back
MCMaxDelivered == 6
\* inode entries past the file: zero-filled (block 0 exists), or also a
\* value naming no data block
\* uint32_t is 2^32 wide; TLC integers are 32-bit signed.  A position of
\* WORD - 1 lies past every file for any WORD > MAX_LEN + MAX_READ, so
\* the reads behave as with 2^32.
\* directories of one and two entries: a first and a last entry
MCMaxDirEntries == 2
MCWord == 2^16
\* MAX_NAME_LENGTH cut to 2: a name shorter than the array that is a
\* prefix of one filling it, and lookups of names one byte longer; rtc
\* (type 0, no non-NUL byte after a full name) and regular files
MCNameLen == 2
MCNameChars == {1}
MCDentryTypes == {0, 2}
MCPadZero == {0}
MCPadAny == {0, 2}
=============================================================================
