----------------------------- MODULE FileSystem ------------------------------
(***************************************************************************)
(* totw_p6: the file system of fs.c and fsutil.c on the virtual disk of    *)
(* disk.c.  The program is sequential, but its process may be killed       *)
(* between two block_writes: fs_read and fs_write go block by block, and   *)
(* save_file_meta writes the info block and then the two list blocks.      *)
(* make_fs is one step: a process killed in it leaves a disk too short to  *)
(* mount.                                                                  *)
(*                                                                         *)
(* A disk block is named by its number, from MetaBlocks on for the data    *)
(* blocks.  Block 0, the usage map, is not modelled: make_fs zeroes it and *)
(* nothing writes it again.  A call whose list entry is no data block, or  *)
(* whose index is outside an array, ends the model with proc = "stray".    *)
(***************************************************************************)
EXTENDS Integers, Sequences, FiniteSets, FiniteSetsExt

CONSTANTS
    NumFiles,     \* NUM_FILES
    OpenFiles,    \* OPEN_FILES
    MetaBlocks,   \* DISK_BLOCKS / 2, the number of the first data block
    DataBlocks,   \* DISK_BLOCKS / 2
    BlockSize,    \* BLOCK_SIZE
    ByteBase,     \* 256: one more than the largest value of a byte
    Names,        \* file names the clients use
    Values,       \* bytes the clients write
    MaxBytes,     \* bound: the largest nbyte of a call
    Calls         \* what the clients may do beside the plain calls

ASSUME FsConstants ==
    /\ {NumFiles, OpenFiles, MetaBlocks, DataBlocks, BlockSize, MaxBytes} \subseteq Nat \ {0}
    /\ ByteBase \in Nat \ {0} /\ ByteBase % 2 = 0 /\ DataBlocks % 2 = 0 /\ 0 \notin Values
    /\ Calls \subseteq {"make_mounted", "remount", "truncate", "straddle", "delete_open", "kill"}

Files == 1 .. NumFiles
NoFile == 0                            \* -1
Fds == 1 .. OpenFiles
DataIndex == 0 .. DataBlocks - 1
FirstList == 0 .. DataBlocks \div 2 - 1  \* the entries of the first list block
NoName == "none"

VARIABLES
    diskMeta,      \* the info and list blocks of each file, on the disk
    diskData,      \* the data blocks, on the disk
    active,        \* the disk is open and the file system mounted
    usage,         \* the data blocks usage[] marks as in use
    file_metas,
    descriptors,
    call,          \* the call in progress: [pc, fd, file, val, left, got]
    proc           \* running, or stray

diskVars == <<diskMeta, diskData>>
memVars == <<active, usage, file_metas, descriptors>>
vars == <<diskVars, memVars, call, proc>>

EmptyMeta ==
    [in_use |-> FALSE, name |-> NoName, num_blocks |-> 0, size_last |-> 0,
     blocks |-> [k \in DataIndex |-> 0]]
BlankData == [b \in DataIndex |-> [o \in 0 .. BlockSize - 1 |-> 0]]
Idle == [pc |-> "idle", fd |-> 0, file |-> NoFile, val |-> 0, left |-> 0, got |-> <<>>]
ClosedFds == [d \in Fds |-> [file |-> NoFile, cursor |-> 0]]
EmptyMetas == [f \in Files |-> EmptyMeta]

Init ==
    /\ diskMeta = EmptyMetas /\ diskData = BlankData
    /\ active = FALSE /\ usage = {} /\ file_metas = EmptyMetas
    /\ descriptors = ClosedFds /\ call = Idle /\ proc = "running"

Ready == proc = "running" /\ call.pc = "idle"
Mounted == Ready /\ active

Stray == proc' = "stray" /\ UNCHANGED <<diskVars, memVars, call>>

-----------------------------------------------------------------------------
(* Helpers                                                                 *)

\* C's division, and the value a signed char keeps of a number.
CDiv(n) == IF n >= 0 THEN n \div ByteBase ELSE -((-n) \div ByteBase)
Signed(n) == ((n + ByteBase \div 2) % ByteBase) - ByteBase \div 2

\* A short written as n / 256 and n % 256 and read as 256 * data[0] + data[1].
Reload(n) == ByteBase * Signed(CDiv(n)) + Signed(n - ByteBase * CDiv(n))

SizeOf(m) == IF m.num_blocks = 0 THEN 0 ELSE (m.num_blocks - 1) * BlockSize + m.size_last
IsOpen(d) == descriptors[d].file # NoFile
FileOf(d) == file_metas[descriptors[d].file]
fs_get_filesize(d) == IF active /\ IsOpen(d) THEN SizeOf(FileOf(d)) ELSE -1

IsData(block) == block \in MetaBlocks .. MetaBlocks + DataBlocks - 1

\* find_empty_block; NoBlock for -1.
NoBlock == -1
EmptyBlock ==
    IF DataIndex \subseteq usage THEN NoBlock ELSE Min(DataIndex \ usage)

\* From here on the call runs save_file_meta and returns.
ThenSave(file) == call' = [call EXCEPT !.pc = "save_info", !.file = file]

-----------------------------------------------------------------------------
(* Mounting                                                                *)

\* make_disk truncates and zeroes the file whether or not it is mounted.
make_fs ==
    /\ Ready /\ (active => "make_mounted" \in Calls)
    /\ diskMeta' = EmptyMetas /\ diskData' = BlankData
    /\ UNCHANGED <<memVars, call, proc>>

\* A number is reloaded from its two bytes; an unused file is zeroed.  The memset of
\* its list misses the second half, of which nothing is read before it is set but
\* by fs_truncate, whose step past the list's end is stray as with a zero.
Loaded(m) ==
    IF m.in_use
    THEN [m EXCEPT !.num_blocks = Reload(@), !.size_last = Reload(@),
                   !.blocks = [k \in DataIndex |-> Reload(m.blocks[k])]]
    ELSE EmptyMeta

mount_fs ==
    /\ Ready /\ ~active
    /\ "remount" \in Calls \/ \A f \in Files : ~diskMeta[f].in_use
    /\ active' = TRUE
    /\ usage' = {}                     \* what block 0 holds
    /\ file_metas' = [f \in Files |-> Loaded(diskMeta[f])]
    /\ descriptors' = ClosedFds
    /\ UNCHANGED <<diskVars, call, proc>>

Forgotten ==
    /\ active' = FALSE /\ usage' = {} /\ file_metas' = EmptyMetas
    /\ descriptors' = ClosedFds /\ call' = Idle

umount_fs ==
    /\ Mounted /\ \A d \in Fds : ~IsOpen(d)
    /\ Forgotten
    /\ UNCHANGED <<diskVars, proc>>

\* The process ends without umount_fs, perhaps inside a call.
Kill ==
    /\ proc = "running" /\ active /\ "kill" \in Calls
    /\ Forgotten
    /\ UNCHANGED <<diskVars, proc>>

-----------------------------------------------------------------------------
(* Files and descriptors                                                   *)

fs_open(name) ==
    LET named == {f \in Files : file_metas[f].in_use /\ file_metas[f].name = name}
        free  == {d \in Fds : ~IsOpen(d)}
    IN  /\ Mounted /\ named # {} /\ free # {}
        /\ descriptors' = [descriptors EXCEPT ![Min(free)] =
                             [file |-> Min(named), cursor |-> 0]]
        /\ UNCHANGED <<diskVars, active, usage, file_metas, call, proc>>

fs_close(d) ==
    /\ Mounted /\ IsOpen(d)
    /\ descriptors' = [descriptors EXCEPT ![d].file = NoFile]
    /\ UNCHANGED <<diskVars, active, usage, file_metas, call, proc>>

\* No search for the name: a second file of the same name is created.
fs_create(name) ==
    LET unused == {f \in Files : ~file_metas[f].in_use}
        f == Min(unused)
    IN  /\ Mounted /\ unused # {}
        /\ file_metas' = [file_metas EXCEPT ![f].in_use = TRUE, ![f].name = name,
                            ![f].num_blocks = 0, ![f].size_last = 0]
        /\ ThenSave(f)
        /\ UNCHANGED <<diskVars, active, usage, descriptors, proc>>

\* Mutant of fs_delete: the last block is not freed.
fs_delete_short(name) ==
    LET used == {f \in Files : file_metas[f].in_use}
        f == Min(used)
        listed == {file_metas[f].blocks[k] : k \in {j \in DataIndex : j < file_metas[f].num_blocks - 1}}
    IN  /\ Mounted /\ used # {} /\ \A d \in Fds : ~IsOpen(d)
        /\ file_metas' = [file_metas EXCEPT ![f].in_use = FALSE]
        /\ usage' = usage \ {b - MetaBlocks : b \in listed}
        /\ ThenSave(f)
        /\ UNCHANGED <<diskVars, active, descriptors, proc>>

\* The first file in use goes, whatever its name.
fs_delete(name) ==
    LET used == {f \in Files : file_metas[f].in_use}
        f == Min(used)
        listed == {file_metas[f].blocks[k] : k \in {j \in DataIndex : j < file_metas[f].num_blocks}}
    IN  /\ Mounted /\ used # {}
        /\ "delete_open" \in Calls \/ \A d \in Fds : ~IsOpen(d)
        /\ \/ /\ \A b \in listed : IsData(b)
              /\ file_metas' = [file_metas EXCEPT ![f].in_use = FALSE]
              /\ usage' = usage \ {b - MetaBlocks : b \in listed}
              /\ ThenSave(f)
              /\ UNCHANGED <<diskVars, active, descriptors, proc>>
           \/ (\E b \in listed : ~IsData(b)) /\ Stray

\* The info block, and then the two list blocks.
SaveInfo ==
    /\ proc = "running" /\ call.pc = "save_info"
    /\ diskMeta' = [diskMeta EXCEPT ![call.file] =
          [file_metas[call.file] EXCEPT !.blocks = diskMeta[call.file].blocks]]
    /\ call' = [call EXCEPT !.pc = "save_list"]
    /\ UNCHANGED <<diskData, memVars, proc>>

\* The block list of the call's file on the disk once these entries are written.
Listing(entries) ==
    [k \in DataIndex |-> IF k \in entries THEN file_metas[call.file].blocks[k]
                                          ELSE diskMeta[call.file].blocks[k]]

SaveFirst ==
    /\ proc = "running" /\ call.pc = "save_list"
    /\ diskMeta' = [diskMeta EXCEPT ![call.file].blocks = Listing(FirstList)]
    /\ call' = [call EXCEPT !.pc = "save_rest"]
    /\ UNCHANGED <<diskData, memVars, proc>>

\* Mutant of SaveSecond: the second list block is never written.
SaveHalf ==
    /\ proc = "running" /\ call.pc = "save_rest"
    /\ call' = Idle
    /\ UNCHANGED <<diskVars, memVars, proc>>

SaveSecond ==
    /\ proc = "running" /\ call.pc = "save_rest"
    /\ diskMeta' = [diskMeta EXCEPT ![call.file].blocks = Listing(DataIndex \ FirstList)]
    /\ call' = Idle
    /\ UNCHANGED <<diskData, memVars, proc>>

-----------------------------------------------------------------------------
(* Reading and writing                                                     *)

fs_lseek(d, offset) ==
    /\ Mounted /\ IsOpen(d) /\ offset <= fs_get_filesize(d)
    /\ descriptors' = [descriptors EXCEPT ![d].cursor = offset]
    /\ UNCHANGED <<diskVars, active, usage, file_metas, call, proc>>

fs_read(d, nbyte) ==
    /\ Mounted /\ IsOpen(d)
    /\ call' = [Idle EXCEPT !.pc = "read", !.fd = d, !.left = nbyte]
    /\ UNCHANGED <<diskVars, memVars, proc>>

\* Without "straddle" no client writes across the end of a file.
fs_write(d, val, nbyte) ==
    /\ Mounted /\ IsOpen(d)
    /\ \/ "straddle" \in Calls
       \/ descriptors[d].cursor >= fs_get_filesize(d)
       \/ descriptors[d].cursor + nbyte <= fs_get_filesize(d)
    /\ call' = [Idle EXCEPT !.pc = "write", !.fd = d, !.val = val, !.left = nbyte]
    /\ UNCHANGED <<diskVars, memVars, proc>>

InCall(pcs) == proc = "running" /\ call.pc \in pcs
Cursor == descriptors[call.fd].cursor
Offset == Cursor % BlockSize
AtBlock == Cursor \div BlockSize
BeforeEnd == Cursor < fs_get_filesize(call.fd)
MoveOn(dist) == descriptors' = [descriptors EXCEPT ![call.fd].cursor = @ + dist]

\* Mutant of ReadPiece: the offset in the block is forgotten.
ReadFromStart ==
    LET dist == Min({BlockSize - Offset, fs_get_filesize(call.fd) - Cursor, call.left})
        m == FileOf(call.fd)
    IN  /\ InCall({"read"}) /\ BeforeEnd /\ call.left > 0
        /\ call' = [call EXCEPT !.left = @ - dist,
                      !.got = @ \o [i \in 1 .. dist |->
                          diskData[m.blocks[AtBlock] - MetaBlocks][i - 1]]]
        /\ MoveOn(dist)
        /\ UNCHANGED <<diskVars, active, usage, file_metas, proc>>

ReadPiece ==
    LET dist == Min({BlockSize - Offset, fs_get_filesize(call.fd) - Cursor, call.left})
        m == FileOf(call.fd)
    IN  /\ InCall({"read"}) /\ BeforeEnd /\ call.left > 0
        /\ \/ /\ AtBlock \in DataIndex /\ IsData(m.blocks[AtBlock])
              /\ call' = [call EXCEPT !.left = @ - dist,
                            !.got = @ \o [i \in 1 .. dist |->
                                diskData[m.blocks[AtBlock] - MetaBlocks][Offset + i - 1]]]
              /\ MoveOn(dist)
              /\ UNCHANGED <<diskVars, active, usage, file_metas, proc>>
           \/ ~(AtBlock \in DataIndex /\ IsData(m.blocks[AtBlock])) /\ Stray

ReadEnd ==
    /\ InCall({"read"}) /\ ~(BeforeEnd /\ call.left > 0)
    /\ call' = Idle
    /\ UNCHANGED <<diskVars, memVars, proc>>

\* One turn of either loop of fs_write, on the metadata m and the map used: the
\* block at the cursor is read, changed and written, and the size grows by all
\* of dist when the cursor has passed the end.
PutPiece(m, used, pc) ==
    LET dist == Min({BlockSize - Offset, call.left})
        size == IF Cursor + dist > SizeOf(m) THEN m.size_last + dist ELSE m.size_last
    IN  \/ /\ AtBlock \in DataIndex /\ IsData(m.blocks[AtBlock])
           /\ diskData' = [diskData EXCEPT ![m.blocks[AtBlock] - MetaBlocks] =
                             [o \in DOMAIN @ |-> IF o \in Offset .. Offset + dist - 1
                                                 THEN call.val ELSE @[o]]]
           /\ file_metas' = [file_metas EXCEPT ![descriptors[call.fd].file] =
                               [m EXCEPT !.size_last = size]]
           /\ usage' = used
           /\ MoveOn(dist)
           /\ call' = [call EXCEPT !.pc = pc, !.left = @ - dist]
           /\ UNCHANGED <<diskMeta, active, proc>>
        \/ ~(AtBlock \in DataIndex /\ IsData(m.blocks[AtBlock])) /\ Stray

WriteInside ==
    /\ InCall({"write"}) /\ BeforeEnd /\ call.left > 0
    /\ PutPiece(FileOf(call.fd), usage, "write")

\* The second loop: it does not look at the first loop's condition again.
InSecondLoop == InCall({"append"}) \/ (InCall({"write"}) /\ ~BeforeEnd)
NeedsBlock(m) == m.size_last = BlockSize \/ m.num_blocks = 0

WritePast ==
    /\ InSecondLoop /\ call.left > 0 /\ ~NeedsBlock(FileOf(call.fd))
    /\ PutPiece(FileOf(call.fd), usage, "append")

\* Mutant of WriteNewBlock: the number of the block on the disk is marked.
WriteNewAbsolute ==
    LET m == FileOf(call.fd)
        n == m.num_blocks
    IN  /\ InSecondLoop /\ call.left > 0 /\ NeedsBlock(m) /\ EmptyBlock # NoBlock
        /\ n \in DataIndex
        /\ PutPiece([m EXCEPT !.blocks[n] = EmptyBlock + MetaBlocks,
                              !.num_blocks = n + 1, !.size_last = 0],
                    usage \cup {EmptyBlock + MetaBlocks}, "append")

WriteNewBlock ==
    LET m == FileOf(call.fd)
        n == m.num_blocks
    IN  /\ InSecondLoop /\ call.left > 0 /\ NeedsBlock(m) /\ EmptyBlock # NoBlock
        /\ \/ /\ n \in DataIndex
              /\ PutPiece([m EXCEPT !.blocks[n] = EmptyBlock + MetaBlocks,
                                    !.num_blocks = n + 1, !.size_last = 0],
                          usage \cup {EmptyBlock}, "append")
           \/ n \notin DataIndex /\ Stray

\* All is written, or no block is free.
WriteEnd ==
    /\ \/ InCall({"write", "append"}) /\ call.left = 0
       \/ InSecondLoop /\ NeedsBlock(FileOf(call.fd)) /\ EmptyBlock = NoBlock
    /\ ThenSave(descriptors[call.fd].file)
    /\ UNCHANGED <<diskVars, memVars, proc>>

\* Each turn of the loop frees the entry after the last one.  An entry that was
\* never set clears a byte outside usage[], unnoticed or not.
fs_truncate(d, length) ==
    LET m == FileOf(d)
        target == (length + BlockSize - 1) \div BlockSize
        dropped == {k \in 1 .. DataBlocks : target < k /\ k <= m.num_blocks}
        freed == {m.blocks[k] : k \in dropped \cap DataIndex}
    IN  /\ Mounted /\ IsOpen(d) /\ "truncate" \in Calls
        /\ length <= fs_get_filesize(d)
        /\ \/ /\ file_metas' = [file_metas EXCEPT ![descriptors[d].file] =
                    [m EXCEPT !.num_blocks = IF target < m.num_blocks THEN target ELSE m.num_blocks,
                              !.size_last = length % BlockSize]]
              /\ usage' = usage \ {b - MetaBlocks : b \in freed}
              /\ ThenSave(descriptors[d].file)
              /\ UNCHANGED <<diskVars, active, descriptors, proc>>
           \/ /\ \E k \in dropped : ~(k \in DataIndex /\ IsData(m.blocks[k]))
              /\ Stray

-----------------------------------------------------------------------------
MaxSize == DataBlocks * BlockSize

Next ==
    \/ make_fs \/ mount_fs \/ umount_fs \/ Kill \/ SaveInfo \/ SaveFirst \/ SaveSecond
    \/ \E name \in Names : fs_open(name) \/ fs_create(name) \/ fs_delete(name)
    \/ \E d \in Fds :
          \/ fs_close(d)
          \/ \E n \in 0 .. MaxSize : fs_lseek(d, n) \/ fs_truncate(d, n)
          \/ \E n \in 1 .. MaxBytes : fs_read(d, n) \/ \E v \in Values : fs_write(d, v, n)
    \/ ReadPiece \/ ReadEnd \/ WriteInside \/ WritePast \/ WriteNewBlock \/ WriteEnd

Spec == Init /\ [][Next]_vars

-----------------------------------------------------------------------------
(* Correctness                                                             *)

\* The types of the variables.
MetaType ==
    [in_use : BOOLEAN, name : Names \cup {NoName}, num_blocks : Int, size_last : Int,
     blocks : [DataIndex -> Int]]
TypeOK ==
    /\ diskMeta \in [Files -> MetaType] /\ file_metas \in [Files -> MetaType]
    /\ diskData \in [DataIndex -> [0 .. BlockSize - 1 -> Values \cup {0}]]
    /\ active \in BOOLEAN /\ usage \in SUBSET DataIndex
    /\ descriptors \in [Fds -> [file : Files \cup {NoFile}, cursor : Nat]]
    /\ call.pc \in {"idle", "read", "write", "append", "save_info", "save_list", "save_rest"}
    /\ proc \in {"running", "stray"}

Owned(f) ==
    IF file_metas[f].in_use
    THEN {file_metas[f].blocks[k] - MetaBlocks : k \in 0 .. file_metas[f].num_blocks - 1}
    ELSE {}

\* No two files, and no two places of one file, share a data block, and usage[]
\* marks exactly the blocks of the existing files: find_empty_block hands out no
\* block twice, and deleting a file gives back all it had.
BlocksOwned ==
    /\ \A f \in Files : file_metas[f].in_use =>
          Cardinality(Owned(f)) = file_metas[f].num_blocks
    /\ \A f, g \in Files : f # g => Owned(f) \cap Owned(g) = {}
    /\ usage = UNION {Owned(f) : f \in Files}

\* At every moment the disk holds of every file but the one the call in progress
\* writes what memory holds of it, or what the mount made this memory from: a kill
\* then, or inside the save of save_file_meta, can harm no other file.
BeingWritten ==
    IF call.pc \in {"write", "append"} THEN {descriptors[call.fd].file}
    ELSE IF call.pc \in {"save_info", "save_list", "save_rest"} THEN {call.file} ELSE {}
WriteThrough ==
    active /\ proc = "running" => \A f \in Files \ BeingWritten :
        /\ diskMeta[f].in_use = file_metas[f].in_use
        /\ file_metas[f].in_use => file_metas[f] \in {diskMeta[f], Loaded(diskMeta[f])}

\* The block lists, the sizes and the cursors together are a store of byte
\* sequences.
ByteAt(m, p) == diskData[m.blocks[p \div BlockSize] - MetaBlocks][p % BlockSize]
BytesOf(f) == [i \in 1 .. SizeOf(file_metas[f]) |-> ByteAt(file_metas[f], i - 1)]
Store == INSTANCE FileStore
            WITH Slots <- Files, Descs <- Fds, NoSlot <- NoFile, MaxRun <- BlockSize,
                 bytes <- [f \in {g \in Files : file_metas[g].in_use} |-> BytesOf(f)],
                 open <- [d \in Fds |->
                            [file |-> descriptors[d].file,
                             pos |-> IF IsOpen(d) THEN descriptors[d].cursor ELSE 0]],
                 heard <- call.got
StoreSpec == Store!StoreSpec

-----------------------------------------------------------------------------
(* What the comments say of the program                                    *)

\* fs.h:30-31, block 0 represents "which data blocks are currently in use": the
\* map loaded from it marks the blocks of every file.
UsageLoaded == active => \A f \in Files : Owned(f) \subseteq usage
=============================================================================
