------------------------------ MODULE FileSystem ------------------------------
(***************************************************************************)
(* read_data and file_read (file_system.c): a process reads an open        *)
(* regular file through successive read calls, each starting at the        *)
(* descriptor's file_position.  dir_read: a program (ls) reads an open     *)
(* directory one file name per call until the call returns 0.              *)
(*                                                                         *)
(* The image holds one regular file: its inode's length and data_block     *)
(* entries, and the contents of the data blocks.  The block size FOUR_KB   *)
(* is the constant BLOCK.  The inode entries past the file's last block    *)
(* are not defined by the image format: they hold whatever the image       *)
(* builder wrote, any value of PadEntries.                                 *)
(*                                                                         *)
(* The boot block holds num_dir_entries directory entries, each a name of  *)
(* NAME_LEN bytes and a file type; the names are distinct.  dir_read       *)
(* returns the entries by index.  read_dentry_by_name, which open and      *)
(* execute resolve names with, is an operator over the entries, checked    *)
(* for every name of up to NAME_LEN + 1 characters in every boot block.    *)
(***************************************************************************)
EXTENDS Integers, Sequences, SequencesExt

CONSTANTS
    BLOCK,            \* FOUR_KB: bytes per data block
    NUM_DATA_BLOCKS,  \* bootBlock->num_data_blocks
    MAX_LEN,          \* largest file length in the images considered
    Bytes,            \* byte values
    MAX_READ,         \* largest nbytes a read call passes
    PadEntries,       \* values an inode entry past the file may hold
    MAX_DELIVERED,    \* bound on the bytes a reader consumes in total
    MAX_DIR_ENTRIES,  \* largest num_dir_entries in the images considered
    WORD,             \* 2^32: the range of uint32_t file_position and of
                      \* read_data's return value stored in it
    NAME_LEN,         \* MAX_NAME_LENGTH: bytes of dentry_t's file_name
    NameChars,        \* the non-NUL bytes names are made of
    DentryTypes       \* the file types entries of the images have

ASSUME BLOCK \in Nat \ {0} /\ NUM_DATA_BLOCKS \in Nat \ {0}
ASSUME PadEntries \subseteq Nat /\ WORD > MAX_LEN + MAX_READ
ASSUME NAME_LEN \in Nat \ {0} /\ NameChars \subseteq 1 .. 255
\* the file types of the image format: rtc, directory, regular file
ASSUME DentryTypes \subseteq {0, 1, 2}

\* inode entries the walk can touch: the file's blocks and the next one
Entries == 0 .. MAX_LEN \div BLOCK
BlockIds == 0 .. NUM_DATA_BLOCKS - 1

\* index_node_t: entries below this count hold the file's data
UsedBlocks(len) == (len + BLOCK - 1) \div BLOCK

VARIABLES
    length,         \* inode_block->length
    data_block,     \* inode_block->data_block[k], k \in Entries
    blocks,         \* blocks[b][j]: byte j of data block b
    file_position,  \* fd_table[fd].file_position
    delivered,      \* the bytes the reader has consumed, in order
    last,           \* the last read: offset, nbytes, return value, buf
    dentries,       \* bootBlock->dir_entries[0 .. num_dir_entries - 1]
    dir_number,     \* the global dir_number
    listing         \* the names the current ls has read, in order

vars == << length, data_block, blocks, file_position, delivered, last,
           dentries, dir_number, listing >>
fileVars == << length, data_block, blocks, file_position, delivered, last >>
dirVars  == << dentries, dir_number, listing >>

-----------------------------------------------------------------------------
(* The boot block                                                          *)

\* dentry_t: file_name[MAX_NAME_LENGTH], NUL-padded when the name is
\* shorter and unterminated when it fills the array, then file_type
Dentries ==
    { [name |-> n \o [k \in 1 .. NAME_LEN - Len(n) |-> 0], type |-> ty] :
        n \in BoundedSeq(NameChars, NAME_LEN) \ {<< >>}, ty \in DentryTypes }

\* the uint32_t file_type as the four bytes that follow file_name
TypeBytes(ty) == [k \in 1 .. 4 |-> (ty \div 256^(k - 1)) % 256]

\* strlen(dentry.file_name): counts up to the first NUL, which for a
\* name filling the array lies in file_type (none of it for rtc, type 0)
EntryStrlen(e) ==
    SelectInSeq(e.name \o TypeBytes(e.type), LAMBDA b : b = 0) - 1

\* The name an entry has (spec: a name of up to 32 characters, not
\* necessarily 0-terminated): its bytes before the first NUL.
NameOf(e) ==
    LET nul == SelectInSeq(e.name, LAMBDA b : b = 0)
    IN  SubSeq(e.name, 1, IF nul = 0 THEN NAME_LEN ELSE nul - 1)

\* The boot blocks of the images considered: one to MAX_DIR_ENTRIES
\* entries with distinct names.
BootBlocks ==
    { d \in BoundedSeq(Dentries, MAX_DIR_ENTRIES) \ {<< >>} :
        \A i, j \in DOMAIN d : i # j => NameOf(d[i]) # NameOf(d[j]) }

\* bootBlock->num_dir_entries
num_dir_entries == Len(dentries)

-----------------------------------------------------------------------------
(* read_data                                                               *)

\* the byte data_ptr points at: data block data_block[dbi], line dli
ByteAt(dbi, dli) == blocks[data_block[dbi]][dli % BLOCK]

\* mutant: crossing into the next block forgets data_block_index++
CopyNoAdvance(offset, n, i, dbi, dli, buf) ==
    LET nb == Append(buf, ByteAt(dbi, dli)) IN
    IF (dli + 1) % BLOCK = 0
    THEN IF data_block[dbi + 1] >= NUM_DATA_BLOCKS
         THEN [ret |-> -1, buf |-> nb, next |-> << >>]
         ELSE [ret |-> i, buf |-> nb, next |-> << i + 1, dbi, dli + 1 >>]
    ELSE [ret |-> i, buf |-> nb, next |-> << i + 1, dbi, dli + 1 >>]

\* One iteration of read_data's loop with i, data_block_index and
\* data_line_index: stop at nbytes or at the end of the file, otherwise
\* copy a byte and, when data_line_index reaches a block boundary, move
\* to the next entry, failing if it names no data block.  ret is the
\* return value when the loop stops here; next the loop counters after.
Copy(offset, n, i, dbi, dli, buf) ==
    LET nb == Append(buf, ByteAt(dbi, dli)) IN
    IF (dli + 1) % BLOCK = 0
    THEN IF data_block[dbi + 1] >= NUM_DATA_BLOCKS
         THEN [ret |-> -1, buf |-> nb, next |-> << >>]
         ELSE [ret |-> i, buf |-> nb, next |-> << i + 1, dbi + 1, dli + 1 >>]
    ELSE [ret |-> i, buf |-> nb, next |-> << i + 1, dbi, dli + 1 >>]

RECURSIVE Walk(_, _, _, _, _, _)
Walk(offset, n, i, dbi, dli, buf) ==
    IF i >= n THEN [ret |-> n, buf |-> buf]
    ELSE IF (i + offset) % WORD >= length THEN [ret |-> i, buf |-> buf]
    ELSE LET s == Copy(offset, n, i, dbi, dli, buf) IN
         IF s.next = << >> THEN [ret |-> s.ret, buf |-> s.buf]
         ELSE Walk(offset, n, s.next[1], s.next[2], s.next[3], s.buf)

\* read_data(inode, offset, buf, n) for the file's (valid) inode: the
\* walk starts at block offset / FOUR_KB, line offset % FOUR_KB
ReadDataOf(offset, n) ==
    Walk(offset, n, 0, offset \div BLOCK, offset % BLOCK, << >>)

-----------------------------------------------------------------------------
(* The reader                                                              *)

\* An image: a file of length len whose used entries name data blocks,
\* the entries past it any pad value.
Images ==
    { img \in [len : 0 .. MAX_LEN,
               db  : [Entries -> BlockIds \cup PadEntries]] :
         \A k \in Entries : k < UsedBlocks(img.len) => img.db[k] \in BlockIds }

\* init_file_system sets dir_number to 0; open_func sets file_position
\* to 0.
Init ==
    /\ \E img \in Images : length = img.len /\ data_block = img.db
    /\ blocks \in [BlockIds -> [0 .. BLOCK - 1 -> Bytes]]
    /\ file_position = 0
    /\ delivered = << >>
    /\ last = [offset |-> 0, n |-> 0, ret |-> 0, buf |-> << >>]
    /\ dentries \in BootBlocks
    /\ dir_number = 0
    /\ listing = << >>

\* file_read(fd, buf, n): read_data from file_position, then
\* file_position += num_data (uint32_t, so a -1 steps back by one).  The
\* reader consumes the first num_data bytes of buf; -1 is an error.
FileRead(n) ==
    LET r == ReadDataOf(file_position, n) IN
    /\ Len(delivered) + n <= MAX_DELIVERED
    /\ file_position' = (file_position + r.ret) % WORD
    /\ delivered' = IF r.ret >= 0 THEN delivered \o SubSeq(r.buf, 1, r.ret)
                    ELSE delivered
    /\ last' = [offset |-> file_position, n |-> n, ret |-> r.ret, buf |-> r.buf]
    /\ UNCHANGED << length, data_block, blocks >>
    /\ UNCHANGED dirVars

-----------------------------------------------------------------------------
(* The directory reader                                                    *)

\* mutant: the bound check is index > num_dir_entries
DentryByIndexPastEnd(index) == IF index > num_dir_entries THEN -1 ELSE index

\* read_dentry_by_index(index, dentry): -1 for an index past the entries
\* (index < 0 never holds for the uint32_t), otherwise the entry's name
DentryByIndex(index) == IF index >= num_dir_entries THEN -1 ELSE index

\* dir_read(fd, buf, nbytes): the entry at dir_number, if there is one, is
\* copied into buf and dir_number++; otherwise dir_number = 0 and 0 is
\* returned, which ends ls's loop and starts the next ls's listing.
DirRead ==
    LET d == DentryByIndex(dir_number) IN
    /\ IF d # -1
       THEN /\ listing' = Append(listing, d)
            /\ dir_number' = dir_number + 1
       ELSE /\ listing' = << >>
            /\ dir_number' = 0
    /\ UNCHANGED dentries
    /\ UNCHANGED fileVars

-----------------------------------------------------------------------------
(* read_dentry_by_name                                                     *)

\* mutant: the strlen comparison is left out, only strncmp decides
ReadDentryByNameNoLength(fname, dir) ==
    LET len == Len(fname)
        i == SelectInSeq(dir, LAMBDA e : SubSeq(e.name, 1, len) = fname)
    IN  IF len > NAME_LEN \/ len = 0 \/ i = 0 THEN -1 ELSE i - 1

\* read_dentry_by_name(fname, &dentry) over the entries dir of the boot
\* block: -1 for a name of length 0 or over MAX_NAME_LENGTH; otherwise
\* the index of the first entry whose strlen is length (length + 1 for
\* a full-length name) and whose first length bytes strncmp equal to
\* fname, or -1.
ReadDentryByName(fname, dir) ==
    LET len == Len(fname)
        true_length == IF len = NAME_LEN THEN len + 1 ELSE len
        Match(e) == /\ EntryStrlen(e) = true_length
                    /\ SubSeq(e.name, 1, len) = fname
        i == SelectInSeq(dir, Match)
    IN  IF len > NAME_LEN \/ len = 0 \/ i = 0 THEN -1 ELSE i - 1

-----------------------------------------------------------------------------

Next == \/ \E n \in 0 .. MAX_READ : FileRead(n)
        \/ DirRead

Spec == Init /\ [][Next]_vars

-----------------------------------------------------------------------------
(* Reference                                                               *)

\* The file's bytes: its data blocks in entry order, cut at its length.
FileBytes ==
    LET chunks == [k \in 1 .. UsedBlocks(length) |->
                     [j \in 1 .. BLOCK |-> blocks[data_block[k - 1]][j - 1]]]
    IN  SubSeq(FlattenSeq(chunks), 1, length)

\* What read(fd, buf, n) at offset returns: the bytes from offset, at
\* most n, none past the end of the file.
Expected(offset, n) ==
    IF offset >= length THEN << >>
    ELSE SubSeq(FileBytes, offset + 1, IF offset + n < length
                                       THEN offset + n ELSE length)

-----------------------------------------------------------------------------
(* Properties                                                              *)

\* The reader's and the directory reader's variables keep their types:
\* file_position in uint32_t, read_data's return value -1 or a count, and
\* dir_number and the listed indices within the boot block's entries.
TypeOK ==
    /\ file_position \in 0 .. WORD - 1
    /\ delivered \in Seq(Bytes)
    /\ last.ret \in -1 .. MAX_READ
    /\ dir_number \in 0 .. num_dir_entries
    /\ listing \in Seq(0 .. num_dir_entries - 1)

\* read_data copies exactly the file's bytes from offset into buf, and
\* when it does not fail it returns how many: n, or fewer at the end of
\* the file (spec: readBytes(inode, offset, length)).
ReadDataCorrect ==
    LET exp == Expected(last.offset, last.n) IN
    /\ IsPrefix(last.buf, exp)
    /\ last.ret # -1 => last.buf = exp /\ last.ret = Len(exp)

\* Offset continuity (file_read, read_data): successive reads deliver the
\* file's bytes in order with nothing skipped or repeated, so read(10)
\* then read(10) yields what read(20) does, and file_position is the
\* number of bytes delivered.
OffsetContinuity ==
    /\ IsPrefix(delivered, FileBytes)
    /\ file_position = Len(delivered)

\* read_dentry_by_name resolves a name only to an entry of that name
\* (open_func, execute_func): for every boot block and every name, the
\* entry it returns is named exactly fname, not a longer name it is a
\* prefix of, nor a full-length name read on into its file_type.
LookupSound ==
    \A f \in BoundedSeq(NameChars, NAME_LEN + 1) :
        LET i == ReadDentryByName(f, dentries)
        IN  i # -1 => NameOf(dentries[i + 1]) = f

=============================================================================
