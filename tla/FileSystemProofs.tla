-------------------------- MODULE FileSystemProofs ---------------------------
(***************************************************************************)
(* Theorems about FileSystem for every size of the disk and of the tables. *)
(***************************************************************************)
EXTENDS FileSystem, FiniteSetTheorems, NaturalsInduction, SequenceTheorems,
        WellFoundedInduction, TLAPS

Pcs == {"idle", "read", "write", "append", "save_info", "save_list", "save_rest"}
Bytes == Values \cup {0}
Block == [0 .. BlockSize - 1 -> Bytes]
Descriptor == [file : Files \cup {NoFile}, cursor : Nat]
CallType ==
    [pc : Pcs, fd : Fds \cup {0}, file : Files \cup {NoFile}, val : Bytes, left : Nat,
     got : Seq(Bytes)]

Types ==
    /\ diskMeta \in [Files -> MetaType] /\ file_metas \in [Files -> MetaType]
    /\ diskData \in [DataIndex -> Block]
    /\ active \in BOOLEAN /\ usage \in SUBSET DataIndex
    /\ descriptors \in [Fds -> Descriptor]
    /\ call \in CallType /\ proc \in {"running", "stray"}

\* A call that goes block by block has an open descriptor, and one that saves a file.
Reading == call.pc = "read"
Writing == call.pc \in {"write", "append"}
Saving == call.pc \in {"save_info", "save_list", "save_rest"}
CallRuns ==
    /\ Reading \/ Writing => active /\ call.fd \in Fds /\ IsOpen(call.fd)
    /\ Saving => active /\ call.file \in Files

TypeInv == Types /\ CallRuns

\* What the disk holds of a file, and what of a file that is half saved.
Same(f) ==
    /\ diskMeta[f].in_use = file_metas[f].in_use
    /\ file_metas[f].in_use => file_metas[f] \in {diskMeta[f], Loaded(diskMeta[f])}
Saved ==
    active /\ proc = "running" =>
        /\ \A f \in Files \ BeingWritten : Same(f)
        /\ call.pc \in {"save_list", "save_rest"} =>
              diskMeta[call.file] =
                  [file_metas[call.file] EXCEPT !.blocks = diskMeta[call.file].blocks]
        /\ call.pc = "save_rest" =>
              \A k \in FirstList :
                  diskMeta[call.file].blocks[k] = file_metas[call.file].blocks[k]

SavedInv == TypeInv /\ Saved

\* Without remount, truncate and delete_open.
OwnedInv ==
    /\ TypeInv /\ BlocksOwned
    /\ \A f \in Files : file_metas[f].num_blocks \in 0 .. DataBlocks
    /\ \A d \in Fds : IsOpen(d) => file_metas[descriptors[d].file].in_use

-----------------------------------------------------------------------------
(* Lemmas                                                                  *)

LEMMA Sizes ==
    /\ NumFiles \in Nat \ {0} /\ OpenFiles \in Nat \ {0} /\ MetaBlocks \in Nat \ {0}
    /\ DataBlocks \in Nat \ {0} /\ BlockSize \in Nat \ {0} /\ MaxBytes \in Nat \ {0}
    /\ ByteBase \in Nat \ {0}
    /\ 0 \in DataIndex /\ DataIndex \subseteq Nat /\ NoFile \notin Files /\ Files \subseteq Nat
    /\ 0 \notin Fds /\ Fds \subseteq Nat
    /\ NoFile = 0
BY FsConstants DEF DataIndex, Files, NoFile, Fds

\* A set of natural numbers that is not empty has a least element.
LEMMA LeastNumber ==
    ASSUME NEW S \in SUBSET Nat, S # {}
    PROVE  \E m \in S : \A n \in S : m <= n
<1>1. PICK x \in S : \A y \in S : ~(<<y, x>> \in OpToRel(<, Nat))
  BY NatLessThanWellFounded, WFMin
<1>2. \A y \in S : ~(y < x)
  BY <1>1 DEF OpToRel
<1> QED BY <1>2

LEMMA LeastPlace ==
    ASSUME NEW S \in SUBSET Nat, S # {}
    PROVE  Min(S) \in S
BY LeastNumber DEF Min

\* The smallest of two and of three numbers.
LEMMA LeastOfThree ==
    ASSUME NEW a \in Int, NEW b \in Int, NEW c \in Int
    PROVE  LET m == Min({a, b, c}) IN m \in {a, b, c} /\ m <= a /\ m <= b /\ m <= c
<1>1. \E x \in {a, b, c} : \A y \in {a, b, c} : x <= y
  OBVIOUS
<1> QED BY <1>1 DEF Min

LEMMA LeastOfTwo ==
    ASSUME NEW a \in Int, NEW b \in Int
    PROVE  LET m == Min({a, b}) IN m \in {a, b} /\ m <= a /\ m <= b
<1>1. \E x \in {a, b} : \A y \in {a, b} : x <= y
  OBVIOUS
<1> QED BY <1>1 DEF Min

LEMMA ReloadTyped == ASSUME NEW n \in Int PROVE Reload(n) \in Int
<1>1. CDiv(n) \in Int
  BY Sizes DEF CDiv
<1>2. \A k \in Int : Signed(k) \in Int
  BY Sizes DEF Signed
<1> QED BY <1>1, <1>2, Sizes DEF Reload

LEMMA EmptyTyped == EmptyMeta \in MetaType
BY DEF EmptyMeta, MetaType

LEMMA LoadedTyped == ASSUME NEW m \in MetaType PROVE Loaded(m) \in MetaType
<1>1. CASE ~m.in_use
  BY <1>1, EmptyTyped DEF Loaded
<1>2. CASE m.in_use
  <2>1. PICK n \in Int : n = Reload(m.num_blocks)
    BY ReloadTyped DEF MetaType
  <2>2. PICK s \in Int : s = Reload(m.size_last)
    BY ReloadTyped DEF MetaType
  <2> DEFINE list == [k \in DataIndex |-> Reload(m.blocks[k])]
  <2>3. list \in [DataIndex -> Int]
    BY ReloadTyped DEF MetaType
  <2>4. Loaded(m) = [m EXCEPT !.num_blocks = n, !.size_last = s, !.blocks = list]
    BY <1>2, <2>1, <2>2 DEF Loaded
  <2> HIDE DEF list
  <2> QED BY <2>3, <2>4 DEF MetaType
<1> QED BY <1>1, <1>2

\* The two changes of a file's metadata that set many fields.
LEMMA MetaChanged ==
    /\ \A m \in MetaType, name \in Names, n, last \in Int :
          [m EXCEPT !.in_use = TRUE, !.name = name, !.num_blocks = n, !.size_last = last]
             \in MetaType
    /\ \A m \in MetaType, list \in [DataIndex -> Int], n, last \in Int :
          [m EXCEPT !.blocks = list, !.num_blocks = n, !.size_last = last] \in MetaType
BY DEF MetaType

LEMMA IdleTyped == Idle \in CallType /\ Idle.pc = "idle" /\ Idle.got = <<>>
<1>1. <<>> \in Seq(Bytes)
  OBVIOUS
<1> QED BY <1>1 DEF Idle, CallType, Pcs, Bytes

LEMMA SizeTyped == ASSUME NEW m \in MetaType PROVE SizeOf(m) \in Int
<1>1. m.num_blocks \in Int /\ m.size_last \in Int /\ BlockSize \in Nat
  BY Sizes DEF MetaType
<1>2. (m.num_blocks - 1) * BlockSize \in Int
  BY <1>1
<1> QED BY <1>1, <1>2 DEF SizeOf

\* The descriptor of a call that goes block by block.
LEMMA CallDescriptor ==
    ASSUME TypeInv, Reading \/ Writing
    PROVE  /\ active /\ call.fd \in Fds
           /\ descriptors[call.fd] \in Descriptor /\ descriptors[call.fd].file \in Files
           /\ Cursor \in Nat /\ Offset \in 0 .. BlockSize - 1 /\ AtBlock \in Nat
           /\ FileOf(call.fd) \in MetaType
           /\ fs_get_filesize(call.fd) = SizeOf(FileOf(call.fd))
           /\ call.left \in Nat /\ call.val \in Bytes /\ call.got \in Seq(Bytes)
<1>1. /\ active /\ call.fd \in Fds /\ IsOpen(call.fd)
      /\ descriptors[call.fd] \in Descriptor
      /\ call.left \in Nat /\ call.val \in Bytes /\ call.got \in Seq(Bytes)
  BY DEF TypeInv, Types, CallRuns, CallType
<1>2. descriptors[call.fd].file \in Files /\ Cursor \in Nat
  BY <1>1 DEF Descriptor, IsOpen, Cursor
<1>3. Offset \in 0 .. BlockSize - 1 /\ AtBlock \in Nat
  BY <1>2, Sizes DEF Offset, AtBlock
<1>4. FileOf(call.fd) \in MetaType
  BY <1>2 DEF FileOf, TypeInv, Types
<1> QED BY <1>1, <1>2, <1>3, <1>4 DEF fs_get_filesize

\* What one turn of a write loop does when the block at the cursor is in the list.
Put(m, used, pc, dist, size) ==
    /\ AtBlock \in DataIndex /\ IsData(m.blocks[AtBlock])
    /\ dist <= BlockSize - Offset /\ dist <= call.left
    /\ size = IF Cursor + dist > SizeOf(m) THEN m.size_last + dist ELSE m.size_last
    /\ diskData' = [diskData EXCEPT ![m.blocks[AtBlock] - MetaBlocks] =
                      [o \in 0 .. BlockSize - 1 |->
                         IF o \in Offset .. Offset + dist - 1 THEN call.val
                         ELSE diskData[m.blocks[AtBlock] - MetaBlocks][o]]]
    /\ file_metas' = [file_metas EXCEPT ![descriptors[call.fd].file] =
                        [m EXCEPT !.size_last = size]]
    /\ usage' = used
    /\ descriptors' = [descriptors EXCEPT ![call.fd] =
                         [descriptors[call.fd] EXCEPT !.cursor = Cursor + dist]]
    /\ call' = [call EXCEPT !.pc = pc, !.left = call.left - dist]
    /\ UNCHANGED <<diskMeta, active, proc>>

LEMMA PutEffect ==
    ASSUME TypeInv, Writing, call.left > 0, NEW m \in MetaType, NEW used, NEW pc,
           PutPiece(m, used, pc)
    PROVE  Stray \/ \E dist \in 1 .. BlockSize, size \in Int : Put(m, used, pc, dist, size)
<1>1. CASE ~(AtBlock \in DataIndex /\ IsData(m.blocks[AtBlock]))
  BY <1>1 DEF PutPiece
<1>2. CASE AtBlock \in DataIndex /\ IsData(m.blocks[AtBlock])
  <2> DEFINE d == Min({BlockSize - Offset, call.left})
             s == IF Cursor + d > SizeOf(m) THEN m.size_last + d ELSE m.size_last
  <2>1. /\ call.fd \in Fds /\ descriptors[call.fd] \in Descriptor
        /\ Cursor \in Nat /\ Offset \in 0 .. BlockSize - 1 /\ call.left \in Nat
        /\ BlockSize \in Nat /\ descriptors \in [Fds -> Descriptor]
    BY CallDescriptor, Sizes DEF TypeInv, Types
  <2>2. d \in 1 .. BlockSize /\ d <= BlockSize - Offset /\ d <= call.left
    <3>1. PICK room \in 1 .. BlockSize : room = BlockSize - Offset
      BY <2>1
    <3>2. PICK left \in Nat \ {0} : left = call.left
      BY <2>1
    <3>3. d = Min({room, left})
      BY <3>1, <3>2
    <3>4. Min({room, left}) \in {room, left} /\ Min({room, left}) <= room /\ Min({room, left}) <= left
      BY LeastOfTwo
    <3> HIDE DEF d
    <3> QED BY <2>1, <3>1, <3>2, <3>3, <3>4
  <2>3. m.size_last \in Int /\ SizeOf(m) \in Int
    BY SizeTyped DEF MetaType
  <2> HIDE DEF d
  <2>4. s \in Int
    BY <2>1, <2>2, <2>3
  <2>5. m.blocks[AtBlock] - MetaBlocks \in DataIndex
    BY <1>2, Sizes DEF IsData, DataIndex, MetaType
  <2>6. /\ diskData' = [diskData EXCEPT ![m.blocks[AtBlock] - MetaBlocks] =
                          [o \in DOMAIN diskData[m.blocks[AtBlock] - MetaBlocks] |->
                             IF o \in Offset .. Offset + d - 1 THEN call.val
                             ELSE diskData[m.blocks[AtBlock] - MetaBlocks][o]]]
        /\ file_metas' = [file_metas EXCEPT ![descriptors[call.fd].file] =
                            [m EXCEPT !.size_last = s]]
        /\ usage' = used
        /\ MoveOn(d)
        /\ call' = [call EXCEPT !.pc = pc, !.left = call.left - d]
        /\ UNCHANGED <<diskMeta, active, proc>>
    BY <1>2 DEF PutPiece, d
  <2>7. DOMAIN diskData[m.blocks[AtBlock] - MetaBlocks] = 0 .. BlockSize - 1
    BY <2>5 DEF TypeInv, Types, Block
  <2>8. descriptors' = [descriptors EXCEPT ![call.fd] =
                          [descriptors[call.fd] EXCEPT !.cursor = Cursor + d]]
    BY <2>1, <2>6 DEF MoveOn, Cursor
  <2> HIDE DEF s
  <2>9. s = IF Cursor + d > SizeOf(m) THEN m.size_last + d ELSE m.size_last
    BY DEF s
  <2>10. Put(m, used, pc, d, s)
    BY <1>2, <2>2, <2>6, <2>7, <2>8, <2>9 DEF Put
  <2> QED BY <2>2, <2>4, <2>10
<1> QED BY <1>1, <1>2

LEMMA PutTyped ==
    ASSUME TypeInv, Writing, NEW m \in MetaType, NEW used \in SUBSET DataIndex,
           NEW pc \in {"write", "append"}, NEW dist \in 1 .. BlockSize, NEW size \in Int,
           Put(m, used, pc, dist, size)
    PROVE  /\ TypeInv' /\ [m EXCEPT !.size_last = size] \in MetaType
           /\ call'.fd = call.fd /\ call'.pc = pc /\ call'.left = call.left - dist
           /\ call'.got = call.got /\ call'.val = call.val
<1>1. /\ call.fd \in Fds /\ descriptors[call.fd] \in Descriptor
      /\ descriptors[call.fd].file \in Files /\ active
      /\ Cursor \in Nat /\ Offset \in 0 .. BlockSize - 1 /\ call.left \in Nat /\ call.val \in Bytes
      /\ BlockSize \in Nat /\ descriptors \in [Fds -> Descriptor] /\ call \in CallType
  BY CallDescriptor, Sizes DEF TypeInv, Types
<1>2. PICK left \in Nat : left = call.left - dist
  BY <1>1 DEF Put
<1>3. call' = [call EXCEPT !.pc = pc, !.left = left]
  BY <1>2 DEF Put
<1>4. /\ call' \in CallType /\ call'.fd = call.fd /\ call'.pc = pc /\ call'.left = left
      /\ call'.got = call.got /\ call'.val = call.val
  BY <1>1, <1>3 DEF CallType, Pcs
<1>5. PICK next \in Nat : next = Cursor + dist
  BY <1>1
<1>6. descriptors' = [descriptors EXCEPT ![call.fd] = [descriptors[call.fd] EXCEPT !.cursor = next]]
  BY <1>5 DEF Put
<1>7. descriptors' \in [Fds -> Descriptor] /\ IsOpen(call.fd)'
  <2>1. /\ [descriptors[call.fd] EXCEPT !.cursor = next] \in Descriptor
        /\ [descriptors[call.fd] EXCEPT !.cursor = next].file = descriptors[call.fd].file
    BY <1>1 DEF Descriptor
  <2> QED BY <1>1, <1>4, <1>6, <2>1, Sizes DEF IsOpen
<1>8. [m EXCEPT !.size_last = size] \in MetaType
  BY DEF MetaType
<1>9. file_metas' \in [Files -> MetaType]
  BY <1>1, <1>8 DEF Put, TypeInv, Types
<1>10. diskData' \in [DataIndex -> Block]
  <2>1. m.blocks[AtBlock] - MetaBlocks \in DataIndex
    <3>1. AtBlock \in DataIndex /\ IsData(m.blocks[AtBlock])
      BY DEF Put
    <3> QED BY <3>1, Sizes DEF IsData, DataIndex, MetaType
  <2>2. diskData[m.blocks[AtBlock] - MetaBlocks] \in Block
    BY <2>1 DEF TypeInv, Types
  <2>3. [o \in 0 .. BlockSize - 1 |->
           IF o \in Offset .. Offset + dist - 1 THEN call.val
           ELSE diskData[m.blocks[AtBlock] - MetaBlocks][o]] \in Block
    BY <1>1, <2>2 DEF Block
  <2> QED BY <2>1, <2>3 DEF Put, TypeInv, Types
<1>11. Types'
  BY <1>4, <1>7, <1>9, <1>10 DEF Put, TypeInv, Types
<1>12. CallRuns'
  BY <1>1, <1>4, <1>7 DEF CallRuns, Reading, Writing, Saving, Put
<1> QED BY <1>2, <1>4, <1>8, <1>11, <1>12 DEF TypeInv

-----------------------------------------------------------------------------
(* The types                                                               *)

LEMMA StrayTyped == ASSUME TypeInv, Stray PROVE TypeInv'
BY DEF TypeInv, Types, CallRuns, Reading, Writing, Saving, IsOpen, Stray, diskVars,
    memVars

\* A call begins or goes on; the rest of its record stays.
LEMMA CallBegins ==
    ASSUME call \in CallType, NEW f \in Files, ThenSave(f)
    PROVE  call' \in CallType /\ call'.pc = "save_info" /\ call'.file = f /\ call'.got = call.got
BY DEF ThenSave, CallType, Pcs

LEMMA IdleStep ==
    ASSUME TypeInv, call' = Idle, active' \in BOOLEAN,
           diskMeta' \in [Files -> MetaType], file_metas' \in [Files -> MetaType],
           diskData' \in [DataIndex -> Block], usage' \in SUBSET DataIndex,
           descriptors' \in [Fds -> Descriptor], UNCHANGED proc
    PROVE  TypeInv'
BY IdleTyped DEF TypeInv, Types, CallRuns, Reading, Writing, Saving

LEMMA BlankTyped ==
    /\ EmptyMetas \in [Files -> MetaType] /\ BlankData \in [DataIndex -> Block]
    /\ ClosedFds \in [Fds -> Descriptor] /\ \A d \in Fds : ClosedFds[d].file = NoFile
BY EmptyTyped DEF EmptyMetas, BlankData, Block, Bytes, ClosedFds, Descriptor

LEMMA InitTyped == Init => TypeInv
BY BlankTyped, IdleTyped
DEF Init, TypeInv, Types, CallRuns, Reading, Writing, Saving

LEMMA MountTyped ==
    ASSUME TypeInv, make_fs \/ mount_fs \/ umount_fs \/ Kill
    PROVE  TypeInv'
<1>1. CASE make_fs
  BY <1>1, BlankTyped
  DEF make_fs, Ready, TypeInv, Types, CallRuns, Reading, Writing, Saving, memVars
<1>2. CASE mount_fs
  <2>1. file_metas' \in [Files -> MetaType]
    BY <1>2, LoadedTyped DEF mount_fs, TypeInv, Types
  <2> QED
    BY <1>2, <2>1, BlankTyped
    DEF mount_fs, Ready, TypeInv, Types, CallRuns, Reading, Writing, Saving, diskVars
<1>3. CASE umount_fs
  BY <1>3, BlankTyped, IdleStep DEF umount_fs, Forgotten, TypeInv, Types, diskVars
<1>4. CASE Kill
  BY <1>4, BlankTyped, IdleStep DEF Kill, Forgotten, TypeInv, Types, diskVars
<1> QED BY <1>1, <1>2, <1>3, <1>4

LEMMA OpenTyped ==
    ASSUME TypeInv, NEW name \in Names, fs_open(name)
    PROVE  \E d \in Fds, f \in Files :
              /\ ~IsOpen(d) /\ file_metas[f].in_use
              /\ descriptors' = [descriptors EXCEPT ![d] = [file |-> f, cursor |-> 0]]
<1> DEFINE named == {f \in Files : file_metas[f].in_use /\ file_metas[f].name = name}
           free == {d \in Fds : ~IsOpen(d)}
<1>1. named # {} /\ free # {}
      /\ descriptors' = [descriptors EXCEPT ![Min(free)] = [file |-> Min(named), cursor |-> 0]]
  BY DEF fs_open
<1>2. named \in SUBSET Nat /\ free \in SUBSET Nat
  BY Sizes
<1> HIDE DEF named, free
<1>3. Min(named) \in named /\ Min(free) \in free
  BY <1>1, <1>2, LeastPlace
<1> QED BY <1>1, <1>3 DEF named, free

LEMMA CreateEffect ==
    ASSUME TypeInv, NEW name \in Names, fs_create(name)
    PROVE  \E f \in Files :
              /\ ~file_metas[f].in_use
              /\ file_metas' = [file_metas EXCEPT ![f] =
                    [file_metas[f] EXCEPT !.in_use = TRUE, !.name = name,
                                          !.num_blocks = 0, !.size_last = 0]]
              /\ ThenSave(f)
<1> DEFINE unused == {f \in Files : ~file_metas[f].in_use}
           f == Min(unused)
<1>1. unused # {} /\ ThenSave(f)
      /\ file_metas' = [file_metas EXCEPT ![f].in_use = TRUE, ![f].name = name,
                          ![f].num_blocks = 0, ![f].size_last = 0]
  BY DEF fs_create
<1>2. unused \in SUBSET Nat
  BY Sizes
<1> HIDE DEF unused
<1>3. f \in unused
  BY <1>1, <1>2, LeastPlace
<1>4. f \in Files /\ ~file_metas[f].in_use
  BY <1>3 DEF unused
<1> HIDE DEF f
<1>5. file_metas' = [file_metas EXCEPT ![f] =
         [file_metas[f] EXCEPT !.in_use = TRUE, !.name = name,
                               !.num_blocks = 0, !.size_last = 0]]
  BY <1>1, <1>4 DEF TypeInv, Types
<1> QED BY <1>1, <1>4, <1>5

\* The entries of the list that fs_delete goes through.
Listed(m) == {m.blocks[k] : k \in {j \in DataIndex : j < m.num_blocks}}

LEMMA DeleteEffect ==
    ASSUME TypeInv, NEW name \in Names, fs_delete(name), ~Stray
    PROVE  \E f \in Files :
              /\ file_metas[f].in_use /\ \A b \in Listed(file_metas[f]) : IsData(b)
              /\ file_metas' = [file_metas EXCEPT ![f] = [file_metas[f] EXCEPT !.in_use = FALSE]]
              /\ usage' = usage \ {b - MetaBlocks : b \in Listed(file_metas[f])}
              /\ ThenSave(f)
              /\ UNCHANGED <<diskVars, active, descriptors, proc>>
<1> DEFINE used == {f \in Files : file_metas[f].in_use}
           f == Min(used)
           listed == Listed(file_metas[f])
<1>1. used # {} /\ ThenSave(f) /\ (\A b \in listed : IsData(b))
      /\ file_metas' = [file_metas EXCEPT ![f].in_use = FALSE]
      /\ usage' = usage \ {b - MetaBlocks : b \in listed}
      /\ UNCHANGED <<diskVars, active, descriptors, proc>>
  BY DEF fs_delete, Listed
<1>2. used \in SUBSET Nat
  BY Sizes
<1> HIDE DEF used
<1>3. f \in used
  BY <1>1, <1>2, LeastPlace
<1>4. f \in Files /\ file_metas[f].in_use
  BY <1>3 DEF used
<1> HIDE DEF f
<1>5. file_metas' = [file_metas EXCEPT ![f] = [file_metas[f] EXCEPT !.in_use = FALSE]]
  BY <1>1, <1>4 DEF TypeInv, Types
<1> QED BY <1>1, <1>4, <1>5

LEMMA DescriptorsTyped ==
    ASSUME TypeInv, Mounted, UNCHANGED <<diskVars, active, usage, file_metas, call, proc>>,
           descriptors' \in [Fds -> Descriptor]
    PROVE  TypeInv'
BY DEF Mounted, Ready, TypeInv, Types, CallRuns, Reading, Writing, Saving, diskVars

LEMMA MetasTyped ==
    ASSUME TypeInv, Mounted, UNCHANGED <<diskVars, active, descriptors, proc>>,
           file_metas' \in [Files -> MetaType], usage' \in SUBSET DataIndex,
           NEW f \in Files, ThenSave(f)
    PROVE  TypeInv'
BY CallBegins
DEF Mounted, Ready, TypeInv, Types, CallRuns, Reading, Writing, Saving, diskVars

LEMMA CallTyped ==
    ASSUME TypeInv, NEW name \in Names, fs_open(name) \/ fs_create(name) \/ fs_delete(name)
    PROVE  TypeInv'
<1>1. CASE fs_open(name)
  <2>1. PICK d \in Fds, f \in Files :
           descriptors' = [descriptors EXCEPT ![d] = [file |-> f, cursor |-> 0]]
    BY <1>1, OpenTyped
  <2>2. descriptors' \in [Fds -> Descriptor]
    BY <2>1 DEF TypeInv, Types, Descriptor
  <2> QED BY <1>1, <2>2, DescriptorsTyped DEF fs_open
<1>2. CASE fs_create(name)
  <2>1. PICK f \in Files :
              /\ file_metas' = [file_metas EXCEPT ![f] =
                    [file_metas[f] EXCEPT !.in_use = TRUE, !.name = name,
                                          !.num_blocks = 0, !.size_last = 0]]
              /\ ThenSave(f)
    BY <1>2, CreateEffect
  <2>2. file_metas \in [Files -> MetaType] /\ file_metas[f] \in MetaType
    BY DEF TypeInv, Types
  <2>3. [file_metas[f] EXCEPT !.in_use = TRUE, !.name = name, !.num_blocks = 0,
                              !.size_last = 0] \in MetaType
    <3>1. 0 \in Int
      OBVIOUS
    <3>2. PICK m \in MetaType : m = file_metas[f]
      BY <2>2
    <3>3. [m EXCEPT !.in_use = TRUE, !.name = name, !.num_blocks = 0, !.size_last = 0]
             \in MetaType
      BY <3>1, MetaChanged, Zenon
    <3> QED BY <3>2, <3>3
  <2>4. file_metas' \in [Files -> MetaType]
    BY <2>1, <2>2, <2>3
  <2>5. usage' \in SUBSET DataIndex
    BY <1>2 DEF fs_create, TypeInv, Types
  <2> QED BY <1>2, <2>1, <2>4, <2>5, MetasTyped DEF fs_create
<1>3. CASE fs_delete(name) /\ ~Stray
  <2>1. PICK f \in Files :
              /\ file_metas' = [file_metas EXCEPT ![f] = [file_metas[f] EXCEPT !.in_use = FALSE]]
              /\ usage' \subseteq usage
              /\ ThenSave(f)
              /\ UNCHANGED <<diskVars, active, descriptors, proc>>
    BY <1>3, DeleteEffect
  <2>2. file_metas' \in [Files -> MetaType] /\ usage' \in SUBSET DataIndex
    BY <2>1 DEF TypeInv, Types, MetaType
  <2>3. Mounted
    BY <1>3 DEF fs_delete
  <2> QED BY <2>1, <2>2, <2>3, MetasTyped
<1>4. CASE Stray
  BY <1>4, StrayTyped
<1> QED BY <1>1, <1>2, <1>3, <1>4

LEMMA ListingTyped ==
    ASSUME TypeInv, call.file \in Files, NEW S
    PROVE  Listing(S) \in [DataIndex -> Int]
BY DEF TypeInv, Types, MetaType, Listing

LEMMA SaveTyped == ASSUME TypeInv, SaveInfo \/ SaveFirst \/ SaveSecond PROVE TypeInv'
<1>1. call.file \in Files /\ active /\ call \in CallType
  BY DEF SaveInfo, SaveFirst, SaveSecond, TypeInv, Types, CallRuns, Saving
<1>2. diskMeta[call.file] \in MetaType /\ file_metas[call.file] \in MetaType
  BY <1>1 DEF TypeInv, Types
<1>3. CASE SaveInfo
  <2>1. [file_metas[call.file] EXCEPT !.blocks = diskMeta[call.file].blocks] \in MetaType
    BY <1>2 DEF MetaType
  <2>2. call' \in CallType /\ call'.pc = "save_list" /\ call'.file = call.file
    BY <1>1, <1>3 DEF SaveInfo, CallType, Pcs
  <2>3. diskMeta' \in [Files -> MetaType]
    BY <1>1, <1>3, <2>1 DEF SaveInfo, TypeInv, Types
  <2> QED
    BY <1>1, <1>3, <2>2, <2>3
    DEF SaveInfo, TypeInv, Types, CallRuns, Reading, Writing, Saving, memVars
<1>4. ASSUME NEW S, diskMeta' = [diskMeta EXCEPT ![call.file].blocks = Listing(S)]
      PROVE  diskMeta' \in [Files -> MetaType]
  <2>1. PICK list \in [DataIndex -> Int] : list = Listing(S)
    BY <1>1, ListingTyped
  <2>2. [diskMeta[call.file] EXCEPT !.blocks = list] \in MetaType
    BY <1>2, <2>1 DEF MetaType
  <2> QED BY <1>1, <1>4, <2>1, <2>2 DEF TypeInv, Types
<1>5. CASE SaveFirst
  <2>1. call' \in CallType /\ call'.pc = "save_rest" /\ call'.file = call.file
    BY <1>1, <1>5 DEF SaveFirst, CallType, Pcs
  <2>2. diskMeta' \in [Files -> MetaType]
    BY <1>4, <1>5 DEF SaveFirst
  <2> QED
    BY <1>1, <1>5, <2>1, <2>2
    DEF SaveFirst, TypeInv, Types, CallRuns, Reading, Writing, Saving, memVars
<1>6. CASE SaveSecond
  <2>1. diskMeta' \in [Files -> MetaType]
    BY <1>4, <1>6 DEF SaveSecond
  <2> QED BY <1>6, <2>1, IdleStep DEF SaveSecond, TypeInv, Types, memVars
<1> QED BY <1>3, <1>5, <1>6

LEMMA DescTyped ==
    ASSUME TypeInv, NEW d \in Fds, IsOpen(d)
    PROVE  /\ descriptors[d] \in Descriptor /\ descriptors[d].file \in Files
           /\ FileOf(d) \in MetaType
BY DEF TypeInv, Types, IsOpen, Descriptor, FileOf

LEMMA CloseSeekTyped ==
    ASSUME TypeInv, NEW d \in Fds,
           fs_close(d) \/ \E n \in 0 .. MaxSize : fs_lseek(d, n)
    PROVE  TypeInv'
<1>1. descriptors[d] \in Descriptor
  BY DEF TypeInv, Types
<1>2. CASE fs_close(d)
  <2>1. [descriptors[d] EXCEPT !.file = NoFile] \in Descriptor
    BY <1>1 DEF Descriptor
  <2>2. descriptors' \in [Fds -> Descriptor]
    BY <1>2, <2>1 DEF fs_close, TypeInv, Types
  <2> QED BY <1>2, <2>2, DescriptorsTyped DEF fs_close
<1>3. ASSUME NEW n \in 0 .. MaxSize, fs_lseek(d, n) PROVE TypeInv'
  <2>1. n \in Nat
    OBVIOUS
  <2>2. [descriptors[d] EXCEPT !.cursor = n] \in Descriptor
    BY <1>1, <2>1 DEF Descriptor
  <2>3. descriptors' \in [Fds -> Descriptor]
    BY <1>3, <2>2 DEF fs_lseek, TypeInv, Types
  <2> QED BY <1>3, <2>3, DescriptorsTyped DEF fs_lseek
<1> QED BY <1>2, <1>3

LEMMA BeginTyped ==
    ASSUME TypeInv, NEW d \in Fds, NEW n \in 1 .. MaxBytes,
           fs_read(d, n) \/ \E v \in Values : fs_write(d, v, n)
    PROVE  TypeInv' /\ call'.got = <<>> /\ (Reading \/ Writing)' /\ call'.fd = d
<1>1. n \in Nat
  OBVIOUS
<1> DEFINE Begun == /\ call' \in CallType /\ call'.pc \in {"read", "write"}
                    /\ call'.fd = d /\ call'.got = <<>>
<1>2. ASSUME fs_read(d, n) PROVE Begun
  <2>1. call' = [Idle EXCEPT !.pc = "read", !.fd = d, !.left = n]
    BY <1>2 DEF fs_read
  <2> QED BY <1>1, <2>1, IdleTyped DEF CallType, Pcs
<1>3. ASSUME \E v \in Values : fs_write(d, v, n) PROVE Begun
  <2>1. PICK v \in Bytes : call' = [Idle EXCEPT !.pc = "write", !.fd = d, !.val = v, !.left = n]
    BY <1>3 DEF fs_write, Bytes
  <2> QED BY <1>1, <2>1, IdleTyped DEF CallType, Pcs
<1>4. Begun
  BY <1>2, <1>3
<1>5. active /\ IsOpen(d) /\ UNCHANGED <<diskVars, memVars, proc>>
  BY DEF fs_read, fs_write, Mounted
<1> QED
  BY <1>4, <1>5
  DEF TypeInv, Types, CallRuns, Reading, Writing, Saving, IsOpen, diskVars, memVars

LEMMA TruncateTyped ==
    ASSUME TypeInv, NEW d \in Fds, NEW n \in 0 .. MaxSize, fs_truncate(d, n), ~Stray
    PROVE  \E target \in Nat, last \in 0 .. BlockSize - 1 :
              LET m == FileOf(d)
              IN  /\ file_metas' = [file_metas EXCEPT ![descriptors[d].file] =
                        [m EXCEPT !.num_blocks =
                                      IF target < m.num_blocks THEN target ELSE m.num_blocks,
                                  !.size_last = last]]
                  /\ usage' \subseteq usage
                  /\ ThenSave(descriptors[d].file)
                  /\ UNCHANGED <<diskVars, active, descriptors, proc>>
                  /\ TypeInv'
<1> DEFINE t == (n + BlockSize - 1) \div BlockSize
           l == n % BlockSize
           m == FileOf(d)
           nb == IF t < m.num_blocks THEN t ELSE m.num_blocks
<1>1. t \in Nat /\ l \in 0 .. BlockSize - 1
  BY Sizes
<1>2. /\ Mounted /\ IsOpen(d)
      /\ file_metas' = [file_metas EXCEPT ![descriptors[d].file] =
                          [m EXCEPT !.num_blocks = nb, !.size_last = l]]
      /\ usage' \subseteq usage
      /\ ThenSave(descriptors[d].file)
      /\ UNCHANGED <<diskVars, active, descriptors, proc>>
  BY DEF fs_truncate
<1> HIDE DEF t, l
<1>3. m \in MetaType /\ descriptors[d].file \in Files
  BY <1>2, DescTyped
<1>4. nb \in Int /\ l \in Int
  BY <1>1, <1>3, Sizes DEF MetaType
<1> HIDE DEF m, nb
<1>5. [m EXCEPT !.num_blocks = nb, !.size_last = l] \in MetaType
  BY <1>3, <1>4 DEF MetaType
<1>6. file_metas' \in [Files -> MetaType] /\ usage' \in SUBSET DataIndex
  BY <1>2, <1>3, <1>5 DEF TypeInv, Types
<1>7. TypeInv'
  BY <1>2, <1>3, <1>6, MetasTyped
<1> QED BY <1>1, <1>2, <1>7 DEF m, nb

LEMMA ReadTyped == ASSUME TypeInv, ReadPiece \/ ReadEnd PROVE TypeInv'
<1>1. CASE ReadEnd
  BY <1>1, IdleStep DEF ReadEnd, diskVars, memVars, TypeInv, Types
<1>2. CASE Stray
  BY <1>2, StrayTyped
<1>3. CASE ReadPiece /\ ~Stray
  <2> DEFINE m == FileOf(call.fd)
             room == BlockSize - Offset
             rest == SizeOf(m) - Cursor
             d == Min({room, rest, call.left})
             piece == [i \in 1 .. d |-> diskData[m.blocks[AtBlock] - MetaBlocks][Offset + i - 1]]
  <2>1. Reading /\ call.left > 0
    BY <1>3 DEF ReadPiece, InCall, Reading
  <2>2. /\ call.fd \in Fds /\ descriptors[call.fd] \in Descriptor /\ active
        /\ descriptors[call.fd].file \in Files
        /\ Cursor \in Nat /\ Offset \in 0 .. BlockSize - 1 /\ call.left \in Nat
        /\ m \in MetaType /\ call.got \in Seq(Bytes) /\ BlockSize \in Nat
        /\ fs_get_filesize(call.fd) = SizeOf(m)
    BY <2>1, CallDescriptor, Sizes
  <2>3. /\ Cursor < SizeOf(m)
        /\ AtBlock \in DataIndex /\ IsData(m.blocks[AtBlock])
        /\ call' = [call EXCEPT !.left = call.left - d, !.got = call.got \o piece]
        /\ MoveOn(d)
        /\ UNCHANGED <<diskVars, active, usage, file_metas, proc>>
    BY <1>3, <2>2 DEF ReadPiece, BeforeEnd
  <2>4. m.blocks[AtBlock] - MetaBlocks \in DataIndex
    <3> HIDE DEF m
    <3>1. m.blocks[AtBlock] \in Int /\ IsData(m.blocks[AtBlock])
      BY <2>2, <2>3 DEF MetaType
    <3> QED BY <3>1, Sizes DEF IsData, DataIndex
  <2>5. diskData[m.blocks[AtBlock] - MetaBlocks] \in Block
    BY <2>4 DEF TypeInv, Types
  <2>6. SizeOf(m) \in Int
    BY <2>2, SizeTyped
  <2> HIDE DEF m
  <2>7. room \in Nat \ {0} /\ rest \in Nat \ {0} /\ call.left \in Nat \ {0}
    BY <2>1, <2>2, <2>3, <2>6
  <2>8. d \in Nat \ {0} /\ d <= room /\ d <= call.left
    <3>1. PICK left \in Nat \ {0} : left = call.left
      BY <2>7
    <3>2. PICK a \in Nat \ {0} : a = room
      BY <2>7
    <3>3. PICK b \in Nat \ {0} : b = rest
      BY <2>7
    <3>4. d = Min({a, b, left})
      BY <3>1, <3>2, <3>3
    <3>5. /\ Min({a, b, left}) \in {a, b, left}
          /\ Min({a, b, left}) <= a /\ Min({a, b, left}) <= left
      <4> HIDE DEF d, piece
      <4>1. a \in Int /\ b \in Int /\ left \in Int
        OBVIOUS
      <4> QED BY <4>1, LeastOfThree
    <3> HIDE DEF d, room, rest
    <3> QED BY <3>1, <3>2, <3>4, <3>5
  <2> HIDE DEF d
  <2>9. piece \in Seq(Bytes)
    <3>1. \A i \in 1 .. d : Offset + i - 1 \in 0 .. BlockSize - 1
      BY <2>2, <2>8
    <3>2. \A i \in 1 .. d : piece[i] \in Bytes
      BY <2>5, <3>1 DEF Block
    <3> QED BY <2>8, <3>2
  <2> HIDE DEF piece
  <2>10. PICK got \in Seq(Bytes) : got = call.got \o piece
    <3>1. PICK old \in Seq(Bytes) : old = call.got
      BY <2>2
    <3>2. old \o piece \in Seq(Bytes)
      BY <2>9, ConcatProperties
    <3> QED BY <3>1, <3>2
  <2>11. PICK left \in Nat : left = call.left - d
    BY <2>7, <2>8
  <2>12. call' = [call EXCEPT !.left = left, !.got = got]
    BY <2>3, <2>10, <2>11
  <2>13. call' \in CallType /\ call'.pc = call.pc /\ call'.fd = call.fd
    BY <2>12 DEF TypeInv, Types, CallType
  <2>14. PICK next \in Nat : next = Cursor + d
    BY <2>2, <2>8
  <2>15. descriptors' = [descriptors EXCEPT ![call.fd] = [descriptors[call.fd] EXCEPT !.cursor = next]]
    BY <2>2, <2>3, <2>14 DEF MoveOn, Cursor, TypeInv, Types
  <2>16. /\ [descriptors[call.fd] EXCEPT !.cursor = next] \in Descriptor
         /\ [descriptors[call.fd] EXCEPT !.cursor = next].file = descriptors[call.fd].file
    BY <2>2 DEF Descriptor
  <2>17. descriptors' \in [Fds -> Descriptor] /\ IsOpen(call.fd)'
    BY <2>2, <2>13, <2>15, <2>16, Sizes DEF IsOpen, TypeInv, Types
  <2> QED
    BY <2>1, <2>2, <2>3, <2>13, <2>17
    DEF TypeInv, Types, CallRuns, Reading, Writing, Saving, diskVars
<1> QED BY <1>1, <1>2, <1>3

\* One turn of a write loop, with the metadata and the usage map it starts from.
LEMMA NewBlock ==
    ASSUME TypeInv, EmptyBlock # NoBlock
    PROVE  EmptyBlock \in DataIndex \ usage
<1>1. DataIndex \ usage # {} /\ DataIndex \ usage \in SUBSET Nat
  BY Sizes DEF EmptyBlock
<1>2. Min(DataIndex \ usage) \in DataIndex \ usage
  BY <1>1, LeastPlace
<1> QED BY <1>1, <1>2 DEF EmptyBlock

\* The metadata of a file that has got a block.
Grown(m, block) ==
    [m EXCEPT !.blocks = [m.blocks EXCEPT ![m.num_blocks] = block + MetaBlocks],
              !.num_blocks = m.num_blocks + 1, !.size_last = 0]

LEMMA GrownTyped ==
    ASSUME NEW m \in MetaType, NEW block \in DataIndex, m.num_blocks \in DataIndex
    PROVE  Grown(m, block) \in MetaType
<1>1. PICK list \in [DataIndex -> Int] :
         list = [m.blocks EXCEPT ![m.num_blocks] = block + MetaBlocks]
  <2>1. block + MetaBlocks \in Int
    BY Sizes
  <2> QED BY <2>1 DEF MetaType
<1>2. PICK n \in Int : n = m.num_blocks + 1
  BY DEF MetaType
<1>3. [m EXCEPT !.blocks = list, !.num_blocks = n, !.size_last = 0] \in MetaType
  <2>1. 0 \in Int
    OBVIOUS
  <2> QED BY <2>1, MetaChanged, Zenon
<1> QED BY <1>1, <1>2, <1>3 DEF Grown

LEMMA WriteEffect ==
    ASSUME TypeInv, WriteInside \/ WritePast \/ WriteNewBlock, ~Stray
    PROVE  \E m \in MetaType, used \in SUBSET DataIndex, pc \in {"write", "append"},
              dist \in 1 .. BlockSize, size \in Int :
              /\ Writing /\ Put(m, used, pc, dist, size)
              /\ \/ /\ m = FileOf(call.fd) /\ used = usage
                    /\ \/ WriteInside /\ pc = "write"
                       \/ WritePast /\ pc = "append"
                 \/ /\ WriteNewBlock /\ pc = "append"
                    /\ NeedsBlock(FileOf(call.fd)) /\ EmptyBlock \in DataIndex \ usage
                    /\ FileOf(call.fd).num_blocks \in DataIndex
                    /\ m = Grown(FileOf(call.fd), EmptyBlock)
                    /\ used = usage \cup {EmptyBlock}
<1>1. Writing /\ call.left > 0
  BY DEF WriteInside, WritePast, WriteNewBlock, InSecondLoop, InCall, Writing
<1>2. FileOf(call.fd) \in MetaType /\ usage \in SUBSET DataIndex
  BY <1>1, CallDescriptor DEF TypeInv, Types
<1>3. CASE WriteInside
  <2>1. PutPiece(FileOf(call.fd), usage, "write")
    BY <1>3 DEF WriteInside
  <2>2. PICK dist \in 1 .. BlockSize, size \in Int :
           Put(FileOf(call.fd), usage, "write", dist, size)
    BY <1>1, <1>2, <2>1, PutEffect
  <2> QED BY <1>1, <1>2, <1>3, <2>2
<1>4. CASE WritePast
  <2>1. PutPiece(FileOf(call.fd), usage, "append")
    BY <1>4 DEF WritePast
  <2>2. PICK dist \in 1 .. BlockSize, size \in Int :
           Put(FileOf(call.fd), usage, "append", dist, size)
    BY <1>1, <1>2, <2>1, PutEffect
  <2> QED BY <1>1, <1>2, <1>4, <2>2
<1>5. CASE WriteNewBlock
  <2> DEFINE m == FileOf(call.fd)
  <2>1. /\ m.num_blocks \in DataIndex /\ NeedsBlock(m) /\ EmptyBlock # NoBlock
        /\ PutPiece([m EXCEPT !.blocks[m.num_blocks] = EmptyBlock + MetaBlocks,
                              !.num_blocks = m.num_blocks + 1, !.size_last = 0],
                    usage \cup {EmptyBlock}, "append")
    BY <1>5 DEF WriteNewBlock
  <2>2. EmptyBlock \in DataIndex \ usage
    BY <2>1, NewBlock
  <2> HIDE DEF m
  <2>3. m \in MetaType
    BY <1>2 DEF m
  <2>4. [m EXCEPT !.blocks[m.num_blocks] = EmptyBlock + MetaBlocks,
                  !.num_blocks = m.num_blocks + 1, !.size_last = 0] = Grown(m, EmptyBlock)
    BY DEF Grown
  <2>5. Grown(m, EmptyBlock) \in MetaType
    BY <2>1, <2>2, <2>3, GrownTyped
  <2>6. PutPiece(Grown(m, EmptyBlock), usage \cup {EmptyBlock}, "append")
    BY <2>1, <2>4
  <2>7. PICK dist \in 1 .. BlockSize, size \in Int :
           Put(Grown(m, EmptyBlock), usage \cup {EmptyBlock}, "append", dist, size)
    BY <1>1, <2>5, <2>6, PutEffect
  <2>8. usage \cup {EmptyBlock} \in SUBSET DataIndex
    BY <1>2, <2>2
  <2> QED BY <1>1, <1>5, <2>1, <2>2, <2>5, <2>7, <2>8 DEF m
<1> QED BY <1>3, <1>4, <1>5

LEMMA WriteTyped ==
    ASSUME TypeInv, WriteInside \/ WritePast \/ WriteNewBlock \/ WriteEnd
    PROVE  TypeInv'
<1>1. CASE Stray
  BY <1>1, StrayTyped
<1>2. CASE (WriteInside \/ WritePast \/ WriteNewBlock) /\ ~Stray
  BY <1>2, WriteEffect, PutTyped
<1>3. CASE WriteEnd
  <2>1. Writing
    BY <1>3 DEF WriteEnd, InSecondLoop, InCall, Writing
  <2>2. active /\ descriptors[call.fd].file \in Files /\ call \in CallType
    BY <2>1, CallDescriptor DEF TypeInv, Types
  <2>3. call' \in CallType /\ call'.pc = "save_info" /\ call'.file \in Files
    BY <1>3, <2>2, CallBegins DEF WriteEnd
  <2> QED
    BY <1>3, <2>2, <2>3
    DEF WriteEnd, TypeInv, Types, CallRuns, Reading, Writing, Saving, diskVars, memVars
<1> QED BY <1>1, <1>2, <1>3

LEMMA NextTyped == TypeInv /\ [Next]_vars => TypeInv'
<1> SUFFICES ASSUME TypeInv, [Next]_vars PROVE TypeInv'
  OBVIOUS
<1>1. CASE UNCHANGED vars
  BY <1>1 DEF vars, diskVars, memVars, TypeInv, Types, CallRuns, Reading, Writing,
      Saving, IsOpen
<1>2. CASE make_fs \/ mount_fs \/ umount_fs \/ Kill
  BY <1>2, MountTyped
<1>3. CASE SaveInfo \/ SaveFirst \/ SaveSecond
  BY <1>3, SaveTyped
<1>4. CASE \E name \in Names : fs_open(name) \/ fs_create(name) \/ fs_delete(name)
  BY <1>4, CallTyped
<1>5. ASSUME NEW d \in Fds, NEW n \in 0 .. MaxSize, fs_truncate(d, n) PROVE TypeInv'
  BY <1>5, TruncateTyped, StrayTyped
<1>6. ASSUME NEW d \in Fds,
             \/ fs_close(d)
             \/ \E n \in 0 .. MaxSize : fs_lseek(d, n) \/ fs_truncate(d, n)
             \/ \E n \in 1 .. MaxBytes : fs_read(d, n) \/ \E v \in Values : fs_write(d, v, n)
      PROVE  TypeInv'
  BY <1>5, <1>6, CloseSeekTyped, BeginTyped
<1>7. CASE ReadPiece \/ ReadEnd
  BY <1>7, ReadTyped
<1>8. CASE WriteInside \/ WritePast \/ WriteNewBlock \/ WriteEnd
  BY <1>8, WriteTyped
<1> QED BY <1>1, <1>2, <1>3, <1>4, <1>6, <1>7, <1>8 DEF Next

LEMMA TypeInvariant == Spec => []TypeInv
<1>1. TypeInv /\ [Next]_vars => TypeInv'
  BY NextTyped
<1> QED BY InitTyped, <1>1, PTL DEF Spec

\* Whatever the clients call and wherever the process is killed, the tables,
\* the disk, the usage map and the call in progress have their types, and the usage
\* map marks data blocks only.
THEOREM TypeCorrect == Spec => []TypeOK
<1>1. TypeInv => TypeOK
  <2> SUFFICES ASSUME TypeInv PROVE TypeOK
    OBVIOUS
  <2>1. call \in CallType
    BY DEF TypeInv, Types
  <2>2. call.pc \in Pcs
    BY <2>1 DEF CallType
  <2> QED BY <2>2 DEF TypeInv, Types, TypeOK, Block, Bytes, Descriptor, Pcs
<1> QED BY <1>1, TypeInvariant, PTL

-----------------------------------------------------------------------------
(* What the disk holds                                                     *)

LEMMA ModSmall ==
    ASSUME NEW a \in Nat, NEW b \in Nat, a < b
    PROVE  a % b = a /\ a \div b = 0
OBVIOUS

LEMMA Product ==
    ASSUME NEW a \in Nat, NEW b \in Nat, NEW c \in Nat, a <= b
    PROVE  a * c <= b * c
<1>1. PICK d \in Nat : b = a + d
  <2>1. b - a \in Nat /\ b = a + (b - a)
    OBVIOUS
  <2> QED BY <2>1
<1>2. b * c = a * c + d * c
  BY <1>1
<1>3. d * c \in Nat /\ a * c \in Nat
  OBVIOUS
<1> QED BY <1>2, <1>3

LEMMA QuotientRest ==
    ASSUME NEW n \in Nat, NEW b \in Nat \ {0}, NEW q \in Nat, NEW r \in Nat,
           q = n \div b, r = n % b
    PROVE  n = b * q + r
BY Z3

LEMMA Divided ==
    ASSUME NEW n \in Nat
    PROVE  /\ n \div BlockSize \in Nat /\ n % BlockSize \in 0 .. BlockSize - 1
           /\ n = (n \div BlockSize) * BlockSize + (n % BlockSize)
<1>1. PICK b \in Nat \ {0} : b = BlockSize
  BY Sizes
<1>2. PICK q \in Nat, r \in 0 .. b - 1 : q = n \div b /\ r = n % b
  <2>1. n \div b \in Nat /\ n % b \in 0 .. b - 1
    OBVIOUS
  <2> QED BY <2>1
<1>3. n = b * q + r
  <2>1. r \in Nat
    BY <1>2
  <2> QED BY <1>2, <2>1, QuotientRest
<1> QED BY <1>1, <1>2, <1>3

\* A signed char keeps a number below half of ByteBase and takes ByteBase off the others.
LEMMA SignedByte ==
    ASSUME NEW k \in Nat, k < ByteBase
    PROVE  Signed(k) = IF k < ByteBase \div 2 THEN k ELSE k - ByteBase
<1>1. PICK h \in Nat \ {0} : ByteBase = 2 * h /\ ByteBase \div 2 = h
  <2>1. ByteBase \in Nat \ {0} /\ ByteBase % 2 = 0
    BY FsConstants
  <2>2. ByteBase = 2 * (ByteBase \div 2) /\ ByteBase \div 2 \in Nat
    BY <2>1
  <2> QED BY <2>1, <2>2
<1>2. PICK s \in Nat : s = k + h
  BY <1>1
<1>3. Signed(k) = (s % ByteBase) - h
  BY <1>1, <1>2 DEF Signed
<1>4. CASE k < h
  <2>1. s < ByteBase /\ ByteBase \in Nat
    BY <1>1, <1>2, <1>4
  <2>2. s % ByteBase = s
    BY <2>1, ModSmall
  <2> QED BY <1>1, <1>2, <1>3, <1>4, <2>2
<1>5. CASE ~(k < h)
  <2>1. PICK r \in Nat : r = s - ByteBase
    BY <1>1, <1>2, <1>5
  <2>2. r < ByteBase /\ s = r + ByteBase /\ ByteBase \in Nat \ {0}
    BY <1>1, <1>2, <2>1
  <2>3. s % ByteBase = r
    BY <2>1, <2>2
  <2> QED BY <1>1, <1>2, <1>3, <1>5, <2>1, <2>3
<1> QED BY <1>4, <1>5

\* Every number that fits two bytes (fsutil.c:16-19, fs.c:64-65) is read back as it
\* was written if its low byte is below half of ByteBase, 128 of 256, and otherwise
\* as ByteBase less: 200 comes back as -56, and 4096 + 128 as 4096 - 128.
THEOREM NumbersReadBack ==
    ASSUME NEW n \in Nat, n \div ByteBase < ByteBase \div 2
    PROVE  Reload(n) = IF n % ByteBase < ByteBase \div 2 THEN n ELSE n - ByteBase
<1>1. PICK b \in Nat \ {0} : b = ByteBase
  BY Sizes
<1>2. PICK h \in Nat : h = b \div 2 /\ h <= b
  <2>1. b \div 2 \in Nat /\ b \div 2 <= b
    OBVIOUS
  <2> QED BY <2>1
<1>3. PICK q \in Nat, r \in 0 .. b - 1 : q = n \div b /\ r = n % b
  <2>1. n \div b \in Nat /\ n % b \in 0 .. b - 1
    OBVIOUS
  <2> QED BY <2>1
<1>4. n = b * q + r
  <2>1. r \in Nat
    BY <1>3
  <2> QED BY <1>3, <2>1, QuotientRest
<1>5. CDiv(n) = q
  BY <1>1, <1>3 DEF CDiv
<1>6. Signed(q) = q
  <2>1. q < h /\ q < ByteBase /\ h = ByteBase \div 2
    BY <1>1, <1>2, <1>3
  <2>2. Signed(q) = IF q < ByteBase \div 2 THEN q ELSE q - ByteBase
    BY <2>1, SignedByte
  <2> QED BY <2>1, <2>2
<1>7. PICK p \in Nat : p = b * q
  BY <1>1
<1>8. n - b * q = r
  BY <1>3, <1>4, <1>7
<1>9. Reload(n) = p + Signed(r)
  BY <1>1, <1>5, <1>6, <1>7, <1>8 DEF Reload
<1>10. Signed(r) = IF r < h THEN r ELSE r - b
  <2>1. r \in Nat /\ r < ByteBase
    BY <1>1, <1>3
  <2> QED BY <1>1, <1>2, <2>1, SignedByte
<1>11. n = p + r
  BY <1>4, <1>7
<1>12. CASE r < h
  <2>1. Reload(n) = n
    BY <1>3, <1>7, <1>9, <1>10, <1>11, <1>12
  <2> QED BY <1>1, <1>2, <1>3, <1>12, <2>1
<1>13. CASE ~(r < h)
  <2>1. Reload(n) = n - b
    BY <1>3, <1>7, <1>9, <1>10, <1>11, <1>13
  <2> QED BY <1>1, <1>2, <1>3, <1>13, <2>1
<1> QED BY <1>12, <1>13

\* Steps that leave the info and list blocks on the disk alone.
LEMMA SavedKept ==
    ASSUME Saved, UNCHANGED diskMeta, proc' = "running" => proc = "running", active' => active,
           call'.pc \notin {"save_list", "save_rest"}, BeingWritten \subseteq BeingWritten',
           \A f \in Files \ BeingWritten' : file_metas'[f] = file_metas[f]
    PROVE  Saved'
<1> SUFFICES ASSUME active', proc' = "running"
             PROVE  \A f \in Files \ BeingWritten' : Same(f)'
  BY DEF Saved
<1>1. \A f \in Files \ BeingWritten : Same(f)
  BY DEF Saved
<1>2. \A m : Loaded(m)' = Loaded(m)
  OBVIOUS
<1> QED BY <1>1, <1>2 DEF Same

LEMMA MountSaved ==
    ASSUME SavedInv, make_fs \/ mount_fs \/ umount_fs \/ Kill, "make_mounted" \notin Calls
    PROVE  Saved'
<1>1. CASE make_fs
  <2>1. ~active'
    BY <1>1 DEF make_fs, memVars
  <2> QED BY <2>1 DEF Saved
<1>2. CASE mount_fs
  <2>1. call'.pc = "idle"
    BY <1>2 DEF mount_fs, Ready
  <2>2. \A f \in Files : Same(f)'
    <3> SUFFICES ASSUME NEW f \in Files PROVE Same(f)'
      OBVIOUS
    <3>1. file_metas'[f] = Loaded(diskMeta[f]) /\ diskMeta'[f] = diskMeta[f]
      BY <1>2 DEF mount_fs, diskVars
    <3>2. diskMeta[f] \in MetaType
      BY DEF SavedInv, TypeInv, Types
    <3>3. Loaded(diskMeta[f]).in_use = diskMeta[f].in_use
      BY <3>2 DEF Loaded, EmptyMeta, MetaType
    <3> QED BY <3>1, <3>3 DEF Same
  <2> QED BY <2>1, <2>2 DEF Saved
<1>3. CASE umount_fs \/ Kill
  <2>1. ~active'
    BY <1>3 DEF umount_fs, Kill, Forgotten
  <2> QED BY <2>1 DEF Saved
<1> QED BY <1>1, <1>2, <1>3

\* A call that changes a file and goes on to save it.
LEMMA ChangeSaved ==
    ASSUME SavedInv, Mounted, NEW f \in Files, NEW m, UNCHANGED <<diskVars, active, proc>>,
           file_metas' = [file_metas EXCEPT ![f] = m], ThenSave(f)
    PROVE  Saved'
<1>1. \A g \in Files \ {f} : file_metas'[g] = file_metas[g]
  BY DEF SavedInv, TypeInv, Types
<1>2. call'.pc = "save_info" /\ call'.file = f
  BY CallBegins DEF SavedInv, TypeInv, Types
<1>3. BeingWritten = {} /\ BeingWritten' = {f}
  BY <1>2 DEF BeingWritten, Mounted, Ready
<1> QED BY <1>1, <1>2, <1>3, SavedKept DEF SavedInv, diskVars

LEMMA CallSaved ==
    ASSUME SavedInv, NEW name \in Names, fs_open(name) \/ fs_create(name) \/ fs_delete(name), ~Stray
    PROVE  Saved'
<1>1. Mounted
  BY DEF fs_open, fs_create, fs_delete, Stray
<1>2. TypeInv
  BY DEF SavedInv
<1>3. CASE fs_open(name)
  <2>1. UNCHANGED <<diskMeta, active, file_metas, call, proc>>
    BY <1>3 DEF fs_open, diskVars
  <2>2. BeingWritten = {} /\ BeingWritten' = {} /\ call'.pc = "idle"
    BY <1>1, <2>1 DEF BeingWritten, Mounted, Ready
  <2> QED BY <2>1, <2>2, SavedKept DEF SavedInv
<1>4. CASE fs_create(name)
  <2>1. PICK f \in Files :
              /\ file_metas' = [file_metas EXCEPT ![f] =
                    [file_metas[f] EXCEPT !.in_use = TRUE, !.name = name,
                                          !.num_blocks = 0, !.size_last = 0]]
              /\ ThenSave(f)
    BY <1>2, <1>4, CreateEffect
  <2> QED BY <1>1, <1>4, <2>1, ChangeSaved DEF fs_create
<1>5. CASE fs_delete(name)
  <2>1. PICK f \in Files :
              /\ file_metas' = [file_metas EXCEPT ![f] = [file_metas[f] EXCEPT !.in_use = FALSE]]
              /\ ThenSave(f)
              /\ UNCHANGED <<diskVars, active, descriptors, proc>>
    BY <1>2, <1>5, DeleteEffect
  <2> QED BY <1>1, <2>1, ChangeSaved
<1> QED BY <1>3, <1>4, <1>5

\* The three block_writes of save_file_meta make the disk's file that of memory.
LEMMA SaveSaved ==
    ASSUME SavedInv, SaveInfo \/ SaveFirst \/ SaveSecond
    PROVE  Saved'
<1> DEFINE f == call.file
<1>1. f \in Files /\ active /\ proc = "running"
  BY DEF SaveInfo, SaveFirst, SaveSecond, SavedInv, TypeInv, CallRuns, Saving
<1>2. /\ diskMeta \in [Files -> MetaType] /\ diskMeta[f] \in MetaType
      /\ file_metas \in [Files -> MetaType] /\ file_metas[f] \in MetaType
      /\ call \in CallType
  BY <1>1 DEF SavedInv, TypeInv, Types
<1>3. BeingWritten = {f}
  BY DEF SaveInfo, SaveFirst, SaveSecond, BeingWritten
<1>4. \A g \in Files \ {f} : Same(g)
  BY <1>1, <1>3 DEF SavedInv, Saved
<1>5. ASSUME NEW m, diskMeta' = [diskMeta EXCEPT ![f] = m], UNCHANGED file_metas
      PROVE  diskMeta'[f] = m /\ \A g \in Files \ {f} : Same(g)'
  BY <1>1, <1>2, <1>4, <1>5 DEF Same
<1>6. CASE SaveInfo
  <2>1. PICK m : m = [file_metas[f] EXCEPT !.blocks = diskMeta[f].blocks]
    OBVIOUS
  <2>2. diskMeta' = [diskMeta EXCEPT ![f] = m] /\ UNCHANGED file_metas
    BY <1>6, <2>1 DEF SaveInfo, memVars
  <2>3. call'.pc = "save_list" /\ call'.file = f
    BY <1>2, <1>6 DEF SaveInfo, CallType
  <2>4. m.blocks = diskMeta[f].blocks
    BY <1>2, <2>1 DEF MetaType
  <2>5. diskMeta'[f] = m /\ \A g \in Files \ {f} : Same(g)'
    BY <1>5, <2>2
  <2>6. BeingWritten' = {f}
    BY <2>3 DEF BeingWritten
  <2>7. diskMeta'[f] = [file_metas'[f] EXCEPT !.blocks = diskMeta'[f].blocks]
    BY <2>1, <2>2, <2>4, <2>5
  <2> QED BY <2>3, <2>5, <2>6, <2>7 DEF Saved
<1>7. ASSUME NEW list \in [DataIndex -> Int],
             diskMeta' = [diskMeta EXCEPT ![f].blocks = list], UNCHANGED file_metas,
             call.pc \in {"save_list", "save_rest"}
      PROVE  /\ diskMeta'[f] = [file_metas[f] EXCEPT !.blocks = list]
             /\ diskMeta'[f].blocks = list
             /\ \A g \in Files \ {f} : Same(g)'
  <2>1. PICK m : m = [diskMeta[f] EXCEPT !.blocks = list]
    OBVIOUS
  <2>2. diskMeta' = [diskMeta EXCEPT ![f] = m]
    BY <1>7, <2>1
  <2>3. diskMeta'[f] = m /\ \A g \in Files \ {f} : Same(g)'
    BY <1>5, <1>7, <2>2
  <2>4. diskMeta[f] = [file_metas[f] EXCEPT !.blocks = diskMeta[f].blocks]
    BY <1>1, <1>7 DEF SavedInv, Saved
  <2>5. m = [file_metas[f] EXCEPT !.blocks = list]
    BY <1>2, <2>1, <2>4 DEF MetaType
  <2>6. m.blocks = list
    BY <1>2, <2>1 DEF MetaType
  <2> QED BY <2>3, <2>5, <2>6
<1>8. CASE SaveFirst
  <2>1. PICK list \in [DataIndex -> Int] : list = Listing(FirstList)
    BY <1>1, ListingTyped DEF SavedInv
  <2>2. diskMeta' = [diskMeta EXCEPT ![f].blocks = list] /\ UNCHANGED file_metas
    BY <1>8, <2>1 DEF SaveFirst, memVars
  <2>3. call'.pc = "save_rest" /\ call'.file = f /\ call.pc = "save_list"
    BY <1>2, <1>8 DEF SaveFirst, CallType
  <2>4. /\ diskMeta'[f] = [file_metas[f] EXCEPT !.blocks = list]
        /\ diskMeta'[f].blocks = list
        /\ \A g \in Files \ {f} : Same(g)'
    BY <1>7, <2>2, <2>3
  <2>5. BeingWritten' = {f}
    BY <2>3 DEF BeingWritten
  <2>6. \A k \in FirstList : list[k] = file_metas[f].blocks[k]
    BY <2>1, Sizes DEF Listing, FirstList, DataIndex
  <2> QED BY <2>2, <2>3, <2>4, <2>5, <2>6 DEF Saved
<1>9. CASE SaveSecond
  <2>1. PICK list \in [DataIndex -> Int] : list = Listing(DataIndex \ FirstList)
    BY <1>1, ListingTyped DEF SavedInv
  <2>2. diskMeta' = [diskMeta EXCEPT ![f].blocks = list] /\ UNCHANGED file_metas
    BY <1>9, <2>1 DEF SaveSecond, memVars
  <2>3. call.pc = "save_rest" /\ call'.pc = "idle"
    BY <1>9, IdleTyped DEF SaveSecond
  <2>4. \A k \in FirstList : diskMeta[f].blocks[k] = file_metas[f].blocks[k]
    BY <1>1, <2>3 DEF SavedInv, Saved
  <2>5. list = file_metas[f].blocks
    <3>1. \A k \in DataIndex : list[k] = file_metas[f].blocks[k]
      BY <2>1, <2>4 DEF Listing
    <3>2. file_metas[f].blocks \in [DataIndex -> Int]
      BY <1>2 DEF MetaType
    <3> QED BY <3>1, <3>2
  <2>6. /\ diskMeta'[f] = [file_metas[f] EXCEPT !.blocks = list]
        /\ \A g \in Files \ {f} : Same(g)'
    BY <1>7, <2>2, <2>3
  <2>7. diskMeta'[f] = file_metas'[f]
    BY <1>2, <2>2, <2>5, <2>6 DEF MetaType
  <2>8. \A g \in Files : Same(g)'
    BY <2>6, <2>7 DEF Same
  <2> QED BY <2>3, <2>8 DEF Saved
<1> QED BY <1>6, <1>8, <1>9

\* Steps that change no file's metadata and save nothing.
LEMMA QuietSaved ==
    ASSUME SavedInv, UNCHANGED <<diskMeta, active, file_metas, proc>>,
           call'.pc \notin {"save_list", "save_rest"}, BeingWritten \subseteq BeingWritten'
    PROVE  Saved'
BY SavedKept DEF SavedInv

LEMMA DescriptorSaved ==
    ASSUME SavedInv, NEW d \in Fds,
           \/ fs_close(d)
           \/ \E n \in 0 .. MaxSize : fs_lseek(d, n)
           \/ \E n \in 1 .. MaxBytes : fs_read(d, n) \/ \E v \in Values : fs_write(d, v, n)
    PROVE  Saved'
<1>1. Mounted /\ UNCHANGED <<diskMeta, active, file_metas, proc>>
  BY DEF fs_close, fs_lseek, fs_read, fs_write, diskVars, memVars
<1>2. BeingWritten = {}
  BY <1>1 DEF Mounted, Ready, BeingWritten
<1>3. call'.pc \notin {"save_list", "save_rest"}
  <2>1. CASE fs_close(d) \/ \E n \in 0 .. MaxSize : fs_lseek(d, n)
    BY <1>1, <2>1 DEF fs_close, fs_lseek, Mounted, Ready
  <2>2. ASSUME NEW n \in 1 .. MaxBytes, fs_read(d, n) \/ \E v \in Values : fs_write(d, v, n)
        PROVE  call'.pc \notin {"save_list", "save_rest"}
    <3>1. (Reading \/ Writing)'
      BY <2>2, BeginTyped DEF SavedInv
    <3> QED BY <3>1 DEF Reading, Writing
  <2> QED BY <2>1, <2>2
<1> QED BY <1>1, <1>2, <1>3, QuietSaved

LEMMA TruncateSaved ==
    ASSUME SavedInv, NEW d \in Fds, NEW n \in 0 .. MaxSize, fs_truncate(d, n), ~Stray
    PROVE  Saved'
<1> DEFINE m == FileOf(d)
<1>1. PICK target \in Nat, last \in 0 .. BlockSize - 1 :
              /\ file_metas' = [file_metas EXCEPT ![descriptors[d].file] =
                        [m EXCEPT !.num_blocks =
                                      IF target < m.num_blocks THEN target ELSE m.num_blocks,
                                  !.size_last = last]]
              /\ ThenSave(descriptors[d].file)
              /\ UNCHANGED <<diskVars, active, descriptors, proc>>
  BY TruncateTyped DEF SavedInv
<1>2. Mounted /\ IsOpen(d)
  BY DEF fs_truncate
<1>3. descriptors[d].file \in Files
  BY <1>2, DescTyped DEF SavedInv
<1> QED BY <1>1, <1>2, <1>3, ChangeSaved

LEMMA ReadSaved == ASSUME SavedInv, ReadPiece \/ ReadEnd, ~Stray PROVE Saved'
<1>1. UNCHANGED <<diskMeta, active, file_metas, proc>>
  BY DEF ReadPiece, ReadEnd, diskVars, memVars
<1>2. BeingWritten = {}
  BY DEF ReadPiece, ReadEnd, InCall, BeingWritten
<1>3. call'.pc \notin {"save_list", "save_rest"}
  <2>1. CASE ReadEnd
    BY <2>1, IdleTyped DEF ReadEnd
  <2>2. CASE ReadPiece
    BY <2>2 DEF ReadPiece, InCall, SavedInv, TypeInv, Types, CallType
  <2> QED BY <2>1, <2>2
<1> QED BY <1>1, <1>2, <1>3, QuietSaved

LEMMA WriteSaved ==
    ASSUME SavedInv, WriteInside \/ WritePast \/ WriteNewBlock, ~Stray
    PROVE  Saved'
<1> DEFINE f == descriptors[call.fd].file
<1>1. PICK m \in MetaType, used \in SUBSET DataIndex, pc \in {"write", "append"},
              dist \in 1 .. BlockSize, size \in Int :
              Writing /\ Put(m, used, pc, dist, size)
  BY WriteEffect DEF SavedInv
<1>2. TypeInv /\ f \in Files /\ call.fd \in Fds
  BY <1>1, CallDescriptor DEF SavedInv
<1>3. file_metas' = [file_metas EXCEPT ![f] = [m EXCEPT !.size_last = size]]
      /\ UNCHANGED <<diskMeta, active, proc>>
  BY <1>1 DEF Put
<1>4. \A g \in Files \ {f} : file_metas'[g] = file_metas[g]
  BY <1>2, <1>3 DEF TypeInv, Types
<1>5. call'.fd = call.fd /\ call'.pc = pc /\ TypeInv'
  BY <1>1, <1>2, PutTyped
<1>6. descriptors'[call.fd].file = f
  BY <1>1, <1>2 DEF Put, TypeInv, Types, Descriptor
<1>7. BeingWritten = {f} /\ BeingWritten' = {f}
  BY <1>1, <1>5, <1>6 DEF BeingWritten, Writing
<1> QED BY <1>1, <1>3, <1>4, <1>5, <1>7, SavedKept DEF SavedInv

LEMMA WriteEndSaved == ASSUME SavedInv, WriteEnd PROVE Saved'
<1>1. Writing /\ ThenSave(descriptors[call.fd].file) /\ UNCHANGED <<diskMeta, active, file_metas, proc>>
  BY DEF WriteEnd, InSecondLoop, InCall, Writing, diskVars, memVars
<1>2. descriptors[call.fd].file \in Files /\ call \in CallType
  BY <1>1, CallDescriptor DEF SavedInv, TypeInv, Types
<1>3. call'.pc = "save_info" /\ call'.file = descriptors[call.fd].file
  BY <1>1, <1>2, CallBegins
<1>4. BeingWritten = {descriptors[call.fd].file} /\ BeingWritten' = {descriptors[call.fd].file}
  BY <1>1, <1>3 DEF BeingWritten, Writing
<1> QED BY <1>1, <1>3, <1>4, QuietSaved

LEMMA StraySaved == ASSUME SavedInv, Stray PROVE Saved'
BY DEF Stray, Saved

LEMMA NextSaved ==
    ASSUME "make_mounted" \notin Calls
    PROVE  SavedInv /\ [Next]_vars => SavedInv'
<1> SUFFICES ASSUME SavedInv, [Next]_vars PROVE Saved'
  BY NextTyped DEF SavedInv
<1>1. CASE UNCHANGED vars
  BY <1>1 DEF vars, diskVars, memVars, SavedInv, Saved, Same, BeingWritten
<1>2. CASE Stray
  BY <1>2, StraySaved
<1>3. CASE make_fs \/ mount_fs \/ umount_fs \/ Kill
  BY <1>3, MountSaved
<1>4. CASE SaveInfo \/ SaveFirst \/ SaveSecond
  BY <1>4, SaveSaved
<1>5. CASE \E name \in Names : fs_open(name) \/ fs_create(name) \/ fs_delete(name)
  BY <1>2, <1>5, CallSaved
<1>6. ASSUME NEW d \in Fds,
             \/ fs_close(d)
             \/ \E n \in 0 .. MaxSize : fs_lseek(d, n) \/ fs_truncate(d, n)
             \/ \E n \in 1 .. MaxBytes : fs_read(d, n) \/ \E v \in Values : fs_write(d, v, n)
      PROVE  Saved'
  BY <1>2, <1>6, DescriptorSaved, TruncateSaved
<1>7. CASE ReadPiece \/ ReadEnd
  BY <1>2, <1>7, ReadSaved
<1>8. CASE WriteInside \/ WritePast \/ WriteNewBlock \/ WriteEnd
  BY <1>2, <1>8, WriteSaved, WriteEndSaved
<1> QED BY <1>1, <1>3, <1>4, <1>5, <1>6, <1>7, <1>8 DEF Next

LEMMA InitSaved == Init => SavedInv
BY InitTyped DEF Init, Saved, SavedInv

\* At every moment, inside a call and out of it, the disk holds of each file but the
\* one the call is writing what memory holds of it, or what the mount made that
\* memory from: so a kill harms no other file.  For every size of the disk, the
\* tables and the bytes, after any kills and mounts, and with every call but a
\* make_fs of the mounted disk.
THEOREM SavesAreWritten ==
    ASSUME "make_mounted" \notin Calls
    PROVE  Spec => []WriteThrough
<1>1. SavedInv /\ [Next]_vars => SavedInv'
  BY NextSaved
<1>2. SavedInv => WriteThrough
  BY DEF SavedInv, Saved, Same, WriteThrough
<1> QED BY InitSaved, <1>1, <1>2, PTL DEF Spec

-----------------------------------------------------------------------------
(* Whose blocks the usage map marks                                        *)

OwnedOf(m) == IF m.in_use THEN {m.blocks[k] - MetaBlocks : k \in 0 .. m.num_blocks - 1} ELSE {}

\* A step that gives one file another list, and keeps to the free blocks and its own.
LEMMA OneOwned ==
    ASSUME TypeInv, BlocksOwned, NEW f \in Files, NEW m,
           file_metas' = [file_metas EXCEPT ![f] = m],
           usage' = (usage \ Owned(f)) \cup OwnedOf(m),
           OwnedOf(m) \cap (usage \ Owned(f)) = {},
           m.in_use => Cardinality(OwnedOf(m)) = m.num_blocks
    PROVE  BlocksOwned'
<1>1. \A g \in Files : file_metas'[g] = IF g = f THEN m ELSE file_metas[g]
  BY DEF TypeInv, Types
<1>2. Owned(f)' = OwnedOf(m)
  BY <1>1 DEF Owned, OwnedOf
<1>3. \A g \in Files \ {f} : Owned(g)' = Owned(g)
  BY <1>1 DEF Owned
<1>4. \A g \in Files \ {f} : Owned(g) \subseteq usage \ Owned(f)
  BY DEF BlocksOwned
<1>5. (\A g \in Files : file_metas[g].in_use => Cardinality(Owned(g)) = file_metas[g].num_blocks)'
  BY <1>1, <1>2, <1>3 DEF BlocksOwned
<1>6. (\A g, h \in Files : g # h => Owned(g) \cap Owned(h) = {})'
  <2>1. \A g \in Files \ {f} : Owned(g)' \cap Owned(f)' = {}
    BY <1>2, <1>3, <1>4
  <2>2. \A g, h \in Files \ {f} : g # h => Owned(g)' \cap Owned(h)' = {}
    BY <1>3 DEF BlocksOwned
  <2> QED BY <2>1, <2>2
<1>7. usage' = UNION {Owned(g)' : g \in Files}
  <2>1. usage = UNION {Owned(g) : g \in Files}
    BY DEF BlocksOwned
  <2>2. ASSUME NEW b \in usage' PROVE \E g \in Files : b \in Owned(g)'
    BY <1>2, <1>3, <2>1, <2>2
  <2>3. ASSUME NEW g \in Files, NEW b \in Owned(g)' PROVE b \in usage'
    BY <1>2, <1>3, <1>4, <2>3
  <2> QED BY <2>2, <2>3
<1> QED BY <1>5, <1>6, <1>7 DEF BlocksOwned

LEMMA SameOwned ==
    ASSUME BlocksOwned, UNCHANGED <<file_metas, usage>>
    PROVE  BlocksOwned'
<1>1. \A f \in Files : Owned(f)' = Owned(f)
  BY DEF Owned
<1> QED BY <1>1 DEF BlocksOwned

\* The parts of OwnedInv beside the types and the blocks.
CountsFit == \A f \in Files : file_metas[f].num_blocks \in 0 .. DataBlocks
OpenInUse == \A d \in Fds : IsOpen(d) => file_metas[descriptors[d].file].in_use
OwnedParts == BlocksOwned /\ CountsFit /\ OpenInUse

LEMMA BlankOwned == file_metas = EmptyMetas /\ usage = {} => BlocksOwned /\ CountsFit
<1> SUFFICES ASSUME file_metas = EmptyMetas, usage = {} PROVE BlocksOwned /\ CountsFit
  OBVIOUS
<1>1. \A f \in Files : file_metas[f].in_use = FALSE /\ file_metas[f].num_blocks = 0
  BY DEF EmptyMetas, EmptyMeta
<1>2. \A f \in Files : Owned(f) = {}
  BY <1>1 DEF Owned
<1>3. UNION {Owned(f) : f \in Files} = {}
  BY <1>2
<1>4. BlocksOwned
  BY <1>1, <1>2, <1>3 DEF BlocksOwned
<1>5. CountsFit
  BY <1>1, Sizes DEF CountsFit
<1> QED BY <1>4, <1>5

LEMMA StayOwned ==
    ASSUME OwnedInv, UNCHANGED <<file_metas, usage, descriptors>>
    PROVE  OwnedParts'
BY SameOwned DEF OwnedInv, OwnedParts, CountsFit, OpenInUse, IsOpen

LEMMA MountOwned ==
    ASSUME OwnedInv, make_fs \/ mount_fs \/ umount_fs \/ Kill, "remount" \notin Calls
    PROVE  OwnedParts'
<1>1. CASE make_fs
  BY <1>1, StayOwned DEF make_fs, memVars
<1>2. CASE mount_fs \/ umount_fs \/ Kill
  <2>1. file_metas' = EmptyMetas /\ usage' = {} /\ descriptors' = ClosedFds
    <3>1. CASE mount_fs
      BY <3>1 DEF mount_fs, Loaded, EmptyMetas
    <3> QED BY <1>2, <3>1 DEF umount_fs, Kill, Forgotten
  <2>2. (file_metas = EmptyMetas /\ usage = {})'
    BY <2>1
  <2>3. BlocksOwned' /\ CountsFit'
    BY <2>2, BlankOwned, PTL
  <2> QED BY <2>1, <2>3, BlankTyped DEF OwnedParts, OpenInUse, IsOpen
<1> QED BY <1>1, <1>2

LEMMA CallOwned ==
    ASSUME OwnedInv, NEW name \in Names, fs_open(name) \/ fs_create(name) \/ fs_delete(name), ~Stray,
           "delete_open" \notin Calls
    PROVE  OwnedParts'
<1>1. /\ TypeInv /\ file_metas \in [Files -> MetaType] /\ descriptors \in [Fds -> Descriptor]
      /\ BlocksOwned /\ CountsFit /\ OpenInUse
  BY DEF OwnedInv, TypeInv, Types, CountsFit, OpenInUse
<1>2. CASE fs_open(name)
  <2>1. PICK d \in Fds, f \in Files :
              /\ ~IsOpen(d) /\ file_metas[f].in_use
              /\ descriptors' = [descriptors EXCEPT ![d] = [file |-> f, cursor |-> 0]]
    BY <1>1, <1>2, OpenTyped
  <2>2. \A e \in Fds : descriptors'[e] = IF e = d THEN [file |-> f, cursor |-> 0] ELSE descriptors[e]
    BY <1>1, <2>1
  <2>3. UNCHANGED <<file_metas, usage>>
    BY <1>2 DEF fs_open
  <2>4. OpenInUse'
    BY <1>1, <2>1, <2>2, <2>3 DEF OpenInUse, IsOpen
  <2> QED BY <1>1, <2>3, <2>4, SameOwned DEF OwnedParts, CountsFit
<1>3. CASE fs_create(name)
  <2>1. PICK f \in Files :
              /\ ~file_metas[f].in_use
              /\ file_metas' = [file_metas EXCEPT ![f] =
                    [file_metas[f] EXCEPT !.in_use = TRUE, !.name = name,
                                          !.num_blocks = 0, !.size_last = 0]]
    BY <1>1, <1>3, CreateEffect
  <2>2. PICK m : /\ m = [file_metas[f] EXCEPT !.in_use = TRUE, !.name = name,
                                              !.num_blocks = 0, !.size_last = 0]
    OBVIOUS
  <2>3. m.in_use = TRUE /\ m.num_blocks = 0
    BY <1>1, <2>2 DEF MetaType
  <2>4. OwnedOf(m) = {}
    BY <2>3 DEF OwnedOf
  <2>5. Owned(f) = {}
    BY <2>1 DEF Owned
  <2>6. file_metas' = [file_metas EXCEPT ![f] = m] /\ UNCHANGED <<usage, descriptors>>
    BY <1>3, <2>1, <2>2 DEF fs_create
  <2>7. BlocksOwned'
    BY <1>1, <2>3, <2>4, <2>5, <2>6, OneOwned, FS_EmptySet
  <2>8. \A g \in Files : file_metas'[g] = IF g = f THEN m ELSE file_metas[g]
    BY <1>1, <2>6
  <2>9. CountsFit' /\ OpenInUse'
    BY <1>1, <2>3, <2>6, <2>8, Sizes DEF CountsFit, OpenInUse, IsOpen, Descriptor
  <2> QED BY <2>7, <2>9 DEF OwnedParts
<1>4. CASE fs_delete(name)
  <2>1. PICK f \in Files :
              /\ file_metas[f].in_use /\ \A b \in Listed(file_metas[f]) : IsData(b)
              /\ file_metas' = [file_metas EXCEPT ![f] = [file_metas[f] EXCEPT !.in_use = FALSE]]
              /\ usage' = usage \ {b - MetaBlocks : b \in Listed(file_metas[f])}
              /\ UNCHANGED descriptors
    BY <1>1, <1>4, DeleteEffect
  <2>2. PICK m : m = [file_metas[f] EXCEPT !.in_use = FALSE]
    OBVIOUS
  <2>3. m.in_use = FALSE /\ m.num_blocks = file_metas[f].num_blocks
    BY <1>1, <2>2 DEF MetaType
  <2>4. {b - MetaBlocks : b \in Listed(file_metas[f])} = Owned(f)
    <3>1. file_metas[f].num_blocks \in 0 .. DataBlocks
      BY <1>1 DEF CountsFit
    <3>2. {j \in DataIndex : j < file_metas[f].num_blocks} = 0 .. file_metas[f].num_blocks - 1
      BY <3>1, Sizes DEF DataIndex
    <3> QED BY <2>1, <3>2 DEF Owned, Listed
  <2>5. OwnedOf(m) = {}
    BY <2>3 DEF OwnedOf
  <2>6. BlocksOwned'
    BY <1>1, <2>1, <2>2, <2>3, <2>4, <2>5, OneOwned
  <2>7. \A g \in Files : file_metas'[g] = IF g = f THEN m ELSE file_metas[g]
    BY <1>1, <2>1, <2>2
  <2>8. CountsFit'
    BY <1>1, <2>3, <2>7 DEF CountsFit
  <2>9. \A d \in Fds : ~IsOpen(d)
    BY <1>4 DEF fs_delete
  <2>10. OpenInUse'
    BY <2>1, <2>9 DEF OpenInUse, IsOpen
  <2> QED BY <2>6, <2>8, <2>10 DEF OwnedParts
<1> QED BY <1>2, <1>3, <1>4

\* The list of a file that has got a free block names one block more.
LEMMA GrownOwned ==
    ASSUME NEW m \in MetaType, m.in_use, m.num_blocks \in DataIndex,
           OwnedOf(m) \subseteq DataIndex, Cardinality(OwnedOf(m)) = m.num_blocks,
           NEW block \in DataIndex, block \notin OwnedOf(m)
    PROVE  LET g == Grown(m, block)
           IN  /\ g.in_use /\ g.num_blocks = m.num_blocks + 1
               /\ OwnedOf(g) = OwnedOf(m) \cup {block}
               /\ Cardinality(OwnedOf(g)) = g.num_blocks
<1>1. PICK n \in Nat : n = m.num_blocks
  BY Sizes
<1>2. PICK g : g = Grown(m, block)
  OBVIOUS
<1>3. PICK b \in Int : b = block + MetaBlocks /\ b - MetaBlocks = block
  <2>1. block \in Int /\ MetaBlocks \in Int
    BY Sizes
  <2> QED BY <2>1
<1>4. PICK list : list = [m.blocks EXCEPT ![n] = b]
  OBVIOUS
<1>5. \A k \in DataIndex : list[k] = IF k = n THEN b ELSE m.blocks[k]
  BY <1>1, <1>4 DEF MetaType
<1>6. PICK n1 \in Nat : n1 = n + 1
  OBVIOUS
<1>7. g = [m EXCEPT !.blocks = list, !.num_blocks = n1, !.size_last = 0]
  BY <1>1, <1>2, <1>3, <1>4, <1>6 DEF Grown
<1>8. g.in_use = m.in_use /\ g.num_blocks = n1 /\ g.blocks = list
  BY <1>7 DEF MetaType
<1>9. 0 .. n1 - 1 = (0 .. n - 1) \cup {n} /\ 0 .. n - 1 \subseteq DataIndex /\ n \in DataIndex
  BY <1>1, <1>6, Sizes DEF DataIndex
<1>10. OwnedOf(g) = {list[k] - MetaBlocks : k \in 0 .. n1 - 1}
  BY <1>8 DEF OwnedOf
<1>11. OwnedOf(m) = {m.blocks[k] - MetaBlocks : k \in 0 .. n - 1}
  BY <1>1 DEF OwnedOf
<1>12. \A k \in 0 .. n - 1 : list[k] = m.blocks[k]
  BY <1>5, <1>9
<1>13. list[n] - MetaBlocks = block
  BY <1>3, <1>5, <1>9
<1>14. OwnedOf(g) = OwnedOf(m) \cup {block}
  BY <1>9, <1>10, <1>11, <1>12, <1>13
<1>15. IsFiniteSet(OwnedOf(m))
  <2>1. IsFiniteSet(DataIndex)
    BY FS_Interval, Sizes DEF DataIndex
  <2> QED BY <2>1, FS_Subset
<1>16. Cardinality(OwnedOf(m) \cup {block}) = n + 1
  BY <1>1, <1>15, FS_AddElement
<1> QED BY <1>1, <1>2, <1>6, <1>8, <1>14, <1>16

LEMMA WriteOwned ==
    ASSUME OwnedInv, WriteInside \/ WritePast \/ WriteNewBlock, ~Stray
    PROVE  OwnedParts'
<1> DEFINE f == descriptors[call.fd].file
           old == FileOf(call.fd)
<1>1. PICK m \in MetaType, used \in SUBSET DataIndex, pc \in {"write", "append"},
              dist \in 1 .. BlockSize, size \in Int :
              /\ Writing /\ Put(m, used, pc, dist, size)
              /\ \/ m = old /\ used = usage
                 \/ /\ EmptyBlock \in DataIndex \ usage /\ old.num_blocks \in DataIndex
                    /\ m = Grown(old, EmptyBlock) /\ used = usage \cup {EmptyBlock}
  BY WriteEffect DEF OwnedInv
<1>2. /\ TypeInv /\ BlocksOwned /\ CountsFit /\ OpenInUse /\ f \in Files /\ call.fd \in Fds
      /\ old \in MetaType /\ file_metas \in [Files -> MetaType]
      /\ descriptors \in [Fds -> Descriptor] /\ usage \in SUBSET DataIndex
      /\ old = file_metas[f] /\ IsOpen(call.fd)
  BY <1>1, CallDescriptor
  DEF OwnedInv, TypeInv, Types, CallRuns, CountsFit, OpenInUse, FileOf
<1>3. old.in_use /\ OwnedOf(old) = Owned(f) /\ Cardinality(OwnedOf(old)) = old.num_blocks
      /\ Owned(f) \subseteq usage /\ old.num_blocks \in 0 .. DataBlocks
  <2>1. file_metas[f].in_use
    BY <1>2 DEF OpenInUse
  <2>2. OwnedOf(file_metas[f]) = Owned(f)
    BY DEF OwnedOf, Owned
  <2>3. Cardinality(Owned(f)) = file_metas[f].num_blocks /\ Owned(f) \subseteq usage
    BY <1>2, <2>1 DEF BlocksOwned
  <2>4. file_metas[f].num_blocks \in 0 .. DataBlocks
    BY <1>2 DEF CountsFit
  <2> HIDE DEF f
  <2> QED BY <1>2, <2>1, <2>2, <2>3, <2>4
<1> HIDE DEF f, old
<1>4. /\ m.in_use /\ OwnedOf(m) \cap (usage \ Owned(f)) = {}
      /\ used = (usage \ Owned(f)) \cup OwnedOf(m)
      /\ Cardinality(OwnedOf(m)) = m.num_blocks /\ m.num_blocks \in 0 .. DataBlocks
  <2>1. CASE m = old /\ used = usage
    BY <1>3, <2>1
  <2>2. CASE /\ EmptyBlock \in DataIndex \ usage /\ old.num_blocks \in DataIndex
             /\ m = Grown(old, EmptyBlock) /\ used = usage \cup {EmptyBlock}
    <3>1. OwnedOf(old) \subseteq DataIndex /\ EmptyBlock \notin OwnedOf(old)
      BY <1>2, <1>3, <2>2
    <3>2. /\ m.in_use /\ m.num_blocks = old.num_blocks + 1
          /\ OwnedOf(m) = OwnedOf(old) \cup {EmptyBlock}
          /\ Cardinality(OwnedOf(m)) = m.num_blocks
      BY <1>2, <1>3, <2>2, <3>1, GrownOwned
    <3>3. m.num_blocks \in 0 .. DataBlocks
      BY <2>2, <3>2, Sizes DEF DataIndex
    <3> QED BY <1>3, <2>2, <3>2, <3>3
  <2> QED BY <1>1, <2>1, <2>2
<1>5. PICK new : new = [m EXCEPT !.size_last = size]
  OBVIOUS
<1>6. new.in_use = m.in_use /\ new.blocks = m.blocks /\ new.num_blocks = m.num_blocks
  BY <1>5 DEF MetaType
<1>7. OwnedOf(new) = OwnedOf(m)
  BY <1>6 DEF OwnedOf
<1>8. file_metas' = [file_metas EXCEPT ![f] = new] /\ usage' = used
  BY <1>1, <1>5 DEF Put, f
<1>9. BlocksOwned'
  BY <1>2, <1>4, <1>6, <1>7, <1>8, OneOwned
<1>10. \A g \in Files : file_metas'[g] = IF g = f THEN new ELSE file_metas[g]
  BY <1>2, <1>8
<1>11. CountsFit'
  BY <1>2, <1>4, <1>6, <1>10 DEF CountsFit
<1>12. \A d \in Fds : descriptors'[d].file = descriptors[d].file
  <2>1. descriptors' = [descriptors EXCEPT ![call.fd] =
                          [descriptors[call.fd] EXCEPT !.cursor = Cursor + dist]]
    BY <1>1 DEF Put
  <2>2. [descriptors[call.fd] EXCEPT !.cursor = Cursor + dist].file = descriptors[call.fd].file
    BY <1>2 DEF Descriptor
  <2>3. \A d \in Fds : descriptors'[d] =
           IF d = call.fd THEN [descriptors[call.fd] EXCEPT !.cursor = Cursor + dist]
           ELSE descriptors[d]
    BY <1>2, <2>1
  <2>4. PICK moved : moved = [descriptors[call.fd] EXCEPT !.cursor = Cursor + dist]
    OBVIOUS
  <2> QED BY <2>2, <2>3, <2>4
<1>13. OpenInUse'
  <2> SUFFICES ASSUME NEW d \in Fds, descriptors'[d].file # NoFile
               PROVE  file_metas'[descriptors'[d].file].in_use
    BY DEF OpenInUse, IsOpen
  <2>1. PICK g \in Files : g = descriptors[d].file /\ g = descriptors'[d].file
    BY <1>2, <1>12 DEF Descriptor
  <2>2. file_metas[g].in_use
    BY <1>2, <1>12, <2>1 DEF OpenInUse, IsOpen
  <2> QED BY <1>4, <1>6, <1>10, <2>1, <2>2
<1> QED BY <1>9, <1>11, <1>13 DEF OwnedParts

\* Steps that move a descriptor or close it.
LEMMA MoveOwned ==
    ASSUME OwnedInv, UNCHANGED <<file_metas, usage>>,
           \A d \in Fds : descriptors'[d].file \in {NoFile, descriptors[d].file}
    PROVE  OwnedParts'
BY SameOwned DEF OwnedInv, OwnedParts, CountsFit, OpenInUse, IsOpen

LEMMA DescriptorOwned ==
    ASSUME OwnedInv, NEW d \in Fds,
           \/ fs_close(d)
           \/ \E n \in 0 .. MaxSize : fs_lseek(d, n)
           \/ \E n \in 1 .. MaxBytes : fs_read(d, n) \/ \E v \in Values : fs_write(d, v, n)
    PROVE  OwnedParts'
<1>1. descriptors \in [Fds -> Descriptor] /\ descriptors[d] \in Descriptor
  BY DEF OwnedInv, TypeInv, Types
<1>2. CASE fs_close(d)
  <2>1. [descriptors[d] EXCEPT !.file = NoFile].file = NoFile
    BY <1>1 DEF Descriptor
  <2> QED BY <1>1, <1>2, <2>1, MoveOwned DEF fs_close
<1>3. ASSUME NEW n \in 0 .. MaxSize, fs_lseek(d, n) PROVE OwnedParts'
  <2>1. [descriptors[d] EXCEPT !.cursor = n].file = descriptors[d].file
    BY <1>1 DEF Descriptor
  <2> QED BY <1>1, <1>3, <2>1, MoveOwned DEF fs_lseek
<1>4. ASSUME NEW n \in 1 .. MaxBytes, fs_read(d, n) \/ \E v \in Values : fs_write(d, v, n)
      PROVE  OwnedParts'
  BY <1>4, StayOwned DEF fs_read, fs_write, memVars
<1> QED BY <1>2, <1>3, <1>4

LEMMA QuietOwned ==
    ASSUME OwnedInv, SaveInfo \/ SaveFirst \/ SaveSecond \/ ReadPiece \/ ReadEnd \/ WriteEnd, ~Stray
    PROVE  OwnedParts'
<1>1. CASE SaveInfo \/ SaveFirst \/ SaveSecond \/ ReadEnd \/ WriteEnd
  BY <1>1, StayOwned DEF SaveInfo, SaveFirst, SaveSecond, ReadEnd, WriteEnd, memVars
<1>2. CASE ReadPiece
  <2>1. call.fd \in Fds
    BY <1>2 DEF ReadPiece, InCall, Reading, OwnedInv, TypeInv, CallRuns
  <2>2. PICK dist : MoveOn(dist) /\ UNCHANGED <<file_metas, usage>>
    BY <1>2 DEF ReadPiece
  <2>3. descriptors \in [Fds -> Descriptor] /\ descriptors[call.fd] \in Descriptor
    BY <2>1 DEF OwnedInv, TypeInv, Types
  <2>4. PICK next : next = descriptors[call.fd].cursor + dist
    OBVIOUS
  <2>5. descriptors' = [descriptors EXCEPT ![call.fd] = [descriptors[call.fd] EXCEPT !.cursor = next]]
    BY <2>2, <2>3, <2>4 DEF MoveOn
  <2>6. [descriptors[call.fd] EXCEPT !.cursor = next].file = descriptors[call.fd].file
    BY <2>3 DEF Descriptor
  <2> QED BY <2>2, <2>3, <2>5, <2>6, MoveOwned
<1> QED BY <1>1, <1>2

LEMMA NextOwned ==
    ASSUME Calls \cap {"remount", "truncate", "delete_open"} = {}
    PROVE  OwnedInv /\ [Next]_vars => OwnedInv'
<1>1. "remount" \notin Calls /\ "truncate" \notin Calls /\ "delete_open" \notin Calls
  OBVIOUS
<1> SUFFICES ASSUME OwnedInv, [Next]_vars PROVE OwnedParts'
  BY NextTyped DEF OwnedInv, OwnedParts, CountsFit, OpenInUse
<1>2. CASE UNCHANGED vars
  BY <1>2, StayOwned DEF vars, memVars
<1>3. CASE Stray
  BY <1>3, StayOwned DEF Stray, memVars
<1>4. CASE make_fs \/ mount_fs \/ umount_fs \/ Kill
  BY <1>1, <1>4, MountOwned
<1>5. CASE SaveInfo \/ SaveFirst \/ SaveSecond \/ ReadPiece \/ ReadEnd \/ WriteEnd
  BY <1>3, <1>5, QuietOwned
<1>6. CASE \E name \in Names : fs_open(name) \/ fs_create(name) \/ fs_delete(name)
  BY <1>1, <1>3, <1>6, CallOwned
<1>7. ASSUME NEW d \in Fds,
             \/ fs_close(d)
             \/ \E n \in 0 .. MaxSize : fs_lseek(d, n) \/ fs_truncate(d, n)
             \/ \E n \in 1 .. MaxBytes : fs_read(d, n) \/ \E v \in Values : fs_write(d, v, n)
      PROVE  OwnedParts'
  <2>1. \A n : ~fs_truncate(d, n)
    BY <1>1 DEF fs_truncate
  <2> QED BY <1>7, <2>1, DescriptorOwned
<1>8. CASE WriteInside \/ WritePast \/ WriteNewBlock
  BY <1>3, <1>8, WriteOwned
<1> QED BY <1>2, <1>4, <1>5, <1>6, <1>7, <1>8 DEF Next

\* find_empty_block hands out no block twice and deleting a file gives back all it
\* had, for every size of the disk and number of files, as long as no client cuts a
\* file, deletes one that is open, or mounts a disk that holds files: each of the
\* three breaks it.
THEOREM NoBlockShared ==
    ASSUME Calls \cap {"remount", "truncate", "delete_open"} = {}
    PROVE  Spec => []BlocksOwned
<1>1. OwnedInv /\ [Next]_vars => OwnedInv'
  BY NextOwned
<1>2. Init => OwnedInv
  <2> SUFFICES ASSUME Init PROVE OwnedInv
    OBVIOUS
  <2>1. BlocksOwned /\ CountsFit
    BY BlankOwned DEF Init
  <2>2. \A d \in Fds : ~IsOpen(d)
    BY BlankTyped DEF Init, IsOpen
  <2> QED BY <2>1, <2>2, InitTyped DEF OwnedInv, CountsFit
<1>3. OwnedInv => BlocksOwned
  BY DEF OwnedInv
<1> QED BY <1>1, <1>2, <1>3, PTL DEF Spec
-----------------------------------------------------------------------------
(* Bytes on the disk                                                       *)

\* The bytes of a file with metadata m on a disk.
ContentOf(m, data) ==
    [i \in 1 .. SizeOf(m) |->
        data[m.blocks[(i - 1) \div BlockSize] - MetaBlocks][(i - 1) % BlockSize]]

\* The last block of a file that has one is never empty.
SizedMeta(m) ==
    IF m.num_blocks = 0 THEN m.size_last = 0 ELSE m.size_last \in 1 .. BlockSize

\* Quotient and rest are unique.
LEMMA UniqueRest ==
    ASSUME NEW q \in Nat, NEW r \in Nat, r < BlockSize, NEW c \in Nat, c = q * BlockSize + r
    PROVE  c \div BlockSize = q /\ c % BlockSize = r
<1>1. PICK b \in Nat \ {0} : b = BlockSize
  BY Sizes
<1>2. PICK q2 \in Nat, r2 \in Nat :
         q2 = c \div b /\ r2 = c % b /\ r2 < b /\ c = q2 * b + r2
  <2>1. c \div b \in Nat /\ c % b \in 0 .. b - 1 /\ c = (c \div b) * b + (c % b)
    BY <1>1, Divided
  <2> QED BY <2>1
<1>3. ~(q < q2)
  <2> SUFFICES ASSUME q + 1 <= q2 PROVE FALSE
    OBVIOUS
  <2>1. (q + 1) * b <= q2 * b
    BY Product
  <2>2. (q + 1) * b = q * b + b
    OBVIOUS
  <2>3. q * b \in Nat /\ q2 * b \in Nat
    OBVIOUS
  <2> QED BY <1>1, <1>2, <2>1, <2>2, <2>3
<1>4. ~(q2 < q)
  <2> SUFFICES ASSUME q2 + 1 <= q PROVE FALSE
    OBVIOUS
  <2>1. (q2 + 1) * b <= q * b
    BY Product
  <2>2. (q2 + 1) * b = q2 * b + b
    OBVIOUS
  <2>3. q * b \in Nat /\ q2 * b \in Nat
    OBVIOUS
  <2> QED BY <1>1, <1>2, <2>1, <2>2, <2>3
<1>5. q = q2
  BY <1>3, <1>4
<1>6. r = r2
  <2>1. q * b \in Nat /\ c = q * b + r /\ c = q * b + r2
    BY <1>1, <1>2, <1>5
  <2> QED BY <2>1
<1> QED BY <1>1, <1>2, <1>5, <1>6

\* A run of bytes from c on that stays in the block of c.
LEMMA Run ==
    ASSUME NEW c \in Nat, NEW dist \in Nat, dist <= BlockSize - (c % BlockSize), NEW p \in Nat
    PROVE  p \in c .. c + dist - 1 <=>
              /\ p \div BlockSize = c \div BlockSize
              /\ p % BlockSize \in (c % BlockSize) .. (c % BlockSize) + dist - 1
<1>1. PICK b \in Nat \ {0} : b = BlockSize
  BY Sizes
<1>2. PICK q \in Nat, r \in Nat :
         q = c \div b /\ r = c % b /\ r < b /\ c = q * b + r
  <2>1. c \div b \in Nat /\ c % b \in 0 .. b - 1 /\ c = (c \div b) * b + (c % b)
    BY <1>1, Divided
  <2> QED BY <2>1
<1>3. PICK q2 \in Nat, r2 \in Nat :
         q2 = p \div b /\ r2 = p % b /\ r2 < b /\ p = q2 * b + r2
  <2>1. p \div b \in Nat /\ p % b \in 0 .. b - 1 /\ p = (p \div b) * b + (p % b)
    BY <1>1, Divided
  <2> QED BY <2>1
<1>4. PICK x \in Nat : x = q * b
  OBVIOUS
<1>5. ASSUME q2 = q, r2 \in r .. r + dist - 1 PROVE p \in c .. c + dist - 1
  BY <1>2, <1>3, <1>4, <1>5
<1>6. ASSUME p \in c .. c + dist - 1 PROVE q2 = q /\ r2 \in r .. r + dist - 1
  <2>1. PICK s \in Nat : s = p - x
    BY <1>2, <1>4, <1>6
  <2>2. s < b /\ s \in r .. r + dist - 1
    BY <1>1, <1>2, <1>4, <1>6, <2>1
  <2>3. p = q * b + s
    BY <1>4, <2>1
  <2>4. p \div b = q /\ p % b = s
    BY <1>1, <2>2, <2>3, UniqueRest
  <2> QED BY <1>3, <2>2, <2>4
<1> QED BY <1>1, <1>2, <1>3, <1>5, <1>6

\* The size of a file, and its blocks.
LEMMA SizedFile ==
    ASSUME NEW m \in MetaType, SizedMeta(m), m.num_blocks \in Nat
    PROVE  /\ SizeOf(m) \in Nat /\ SizeOf(m) <= m.num_blocks * BlockSize
           /\ \A p \in Nat : p < SizeOf(m) => p \div BlockSize \in 0 .. m.num_blocks - 1
<1>1. PICK b \in Nat \ {0} : b = BlockSize
  BY Sizes
<1>2. PICK n \in Nat : n = m.num_blocks
  OBVIOUS
<1>3. SizeOf(m) \in Nat /\ SizeOf(m) <= n * b
  <2>1. CASE n = 0
    BY <1>1, <1>2, <2>1 DEF SizeOf
  <2>2. CASE n > 0
    <3>1. PICK k \in Nat : n = k + 1
      <4>1. n - 1 \in Nat /\ n = (n - 1) + 1
        BY <2>2
      <4> QED BY <4>1
    <3>2. n * b = k * b + b /\ k * b \in Nat
      BY <3>1
    <3>3. m.size_last \in 1 .. b /\ SizeOf(m) = k * b + m.size_last
      BY <1>1, <1>2, <2>2, <3>1 DEF SizedMeta, SizeOf
    <3> QED BY <3>2, <3>3
  <2> QED BY <2>1, <2>2
<1>4. ASSUME NEW p \in Nat, p < SizeOf(m) PROVE p \div b \in 0 .. n - 1
  <2>1. PICK q \in Nat, r \in Nat : q = p \div b /\ p = q * b + r
    <3>1. p \div b \in Nat /\ p % b \in 0 .. b - 1 /\ p = (p \div b) * b + (p % b)
      BY <1>1, Divided
    <3> QED BY <3>1
  <2>2. ~(n <= q)
    <3> SUFFICES ASSUME n <= q PROVE FALSE
      OBVIOUS
    <3>1. n * b <= q * b
      BY Product
    <3>2. n * b \in Nat /\ q * b \in Nat
      OBVIOUS
    <3> QED BY <1>3, <1>4, <2>1, <3>1, <3>2
  <2> QED BY <2>1, <2>2
<1> QED BY <1>1, <1>2, <1>3, <1>4

\* The old content with a run of the value v.
Over(old, c, dist, v) ==
    [i \in 1 .. IF c + dist > Len(old) THEN c + dist ELSE Len(old) |->
        IF i \in c + 1 .. c + dist THEN v ELSE old[i]]

\* The number of a listed block, and different entries name different blocks.
LEMMA ListedApart ==
    ASSUME NEW m \in MetaType, m.in_use, m.num_blocks \in 0 .. DataBlocks,
           Cardinality(OwnedOf(m)) = m.num_blocks
    PROVE  \A j, k \in 0 .. m.num_blocks - 1 :
              m.blocks[j] = m.blocks[k] => j = k
<1>1. PICK n \in Nat : n = m.num_blocks /\ n <= DataBlocks
  BY Sizes
<1>2. PICK S : S = 0 .. n - 1
  OBVIOUS
<1>3. IsFiniteSet(S) /\ Cardinality(S) = n
  BY <1>2, FS_Interval
<1>4. OwnedOf(m) = {m.blocks[k] - MetaBlocks : k \in S}
  BY <1>1, <1>2 DEF OwnedOf
<1>5. PICK F : F = [k \in S |-> m.blocks[k] - MetaBlocks]
  OBVIOUS
<1>6. F \in Surjection(S, OwnedOf(m))
  BY <1>4, <1>5 DEF Surjection
<1>7. F \in Injection(S, OwnedOf(m))
  BY <1>1, <1>3, <1>6, FS_SurjSameCardinalityImpliesInj
<1>8. \A j, k \in S : F[j] = F[k] => j = k
  BY <1>7 DEF Injection, IsInjective
<1> QED BY <1>1, <1>2, <1>5, <1>8

LEMMA ContentLength ==
    ASSUME NEW m \in MetaType, SizeOf(m) \in Nat, NEW data
    PROVE  Len(ContentOf(m, data)) = SizeOf(m)
BY DEF ContentOf

\* How a turn of a write loop changes the metadata of its file.
Extended(old, new, c, dist) ==
    /\ SizedMeta(new)
    /\ SizeOf(new) = IF c + dist > SizeOf(old) THEN c + dist ELSE SizeOf(old)
    /\ new.in_use = old.in_use /\ old.num_blocks <= new.num_blocks
    /\ \A k \in 0 .. old.num_blocks - 1 : new.blocks[k] = old.blocks[k]

\* How it changes the disk: a run of the value v in the block at place.
Filled(data, place, c, dist, v) ==
    [data EXCEPT ![place] =
       [o \in 0 .. BlockSize - 1 |->
          IF o \in (c % BlockSize) .. (c % BlockSize) + dist - 1 THEN v
          ELSE data[place][o]]]

\* The listed blocks of a file are blocks of the disk, and different ones.
Apart(m) ==
    /\ \A j, k \in 0 .. m.num_blocks - 1 : m.blocks[j] = m.blocks[k] => j = k
    /\ \A k \in 0 .. m.num_blocks - 1 : m.blocks[k] - MetaBlocks \in DataIndex

\* What one turn of a write loop makes of the content of its file.
LEMMA PutContent ==
    ASSUME NEW old \in MetaType, NEW new \in MetaType,
           NEW data \in [DataIndex -> Block], NEW c \in Nat, NEW dist \in 1 .. BlockSize,
           NEW v, NEW next,
           SizedMeta(old), old.num_blocks \in 0 .. DataBlocks, new.num_blocks <= DataBlocks,
           new.num_blocks \in Int, Extended(old, new, c, dist), Apart(new),
           dist <= BlockSize - (c % BlockSize), c <= SizeOf(old),
           next = Filled(data, new.blocks[c \div BlockSize] - MetaBlocks, c, dist, v)
    PROVE  ContentOf(new, next) = Over(ContentOf(old, data), c, dist, v)
<1>1. /\ SizedMeta(new)
      /\ SizeOf(new) = IF c + dist > SizeOf(old) THEN c + dist ELSE SizeOf(old)
      /\ old.num_blocks <= new.num_blocks
      /\ \A k \in 0 .. old.num_blocks - 1 : new.blocks[k] = old.blocks[k]
  BY DEF Extended
<1>2. /\ \A j, k \in 0 .. new.num_blocks - 1 : new.blocks[j] = new.blocks[k] => j = k
      /\ \A k \in 0 .. new.num_blocks - 1 : new.blocks[k] - MetaBlocks \in DataIndex
  BY DEF Apart
<1>3. PICK b \in Nat \ {0}, base \in Nat : b = BlockSize /\ base = MetaBlocks
  BY Sizes
<1>4. PICK n \in Nat, n2 \in Nat : n = old.num_blocks /\ n2 = new.num_blocks /\ n <= n2
  <2>1. old.num_blocks \in Nat /\ new.num_blocks \in Nat /\ old.num_blocks <= new.num_blocks
    BY <1>1, Sizes
  <2> QED BY <2>1
<1>5. PICK size \in Nat, size2 \in Nat : size = SizeOf(old) /\ size2 = SizeOf(new)
  <2>1. SizeOf(old) \in Nat
    BY <1>4, SizedFile
  <2>2. SizeOf(new) \in Nat
    BY <1>1, <1>4, SizedFile
  <2> QED BY <2>1, <2>2
<1>6. size2 = IF c + dist > size THEN c + dist ELSE size
  BY <1>1, <1>5
<1>7. \A p \in Nat : p < size => p \div b \in 0 .. n - 1
  <2>1. \A p \in Nat : p < SizeOf(old) => p \div BlockSize \in 0 .. old.num_blocks - 1
    BY <1>4, SizedFile
  <2> QED BY <1>3, <1>4, <1>5, <2>1
<1>8. \A p \in Nat : p < size2 => p \div b \in 0 .. n2 - 1
  <2>1. \A p \in Nat : p < SizeOf(new) => p \div BlockSize \in 0 .. new.num_blocks - 1
    BY <1>1, <1>4, SizedFile
  <2> QED BY <1>3, <1>4, <1>5, <2>1
<1>9. \A p \in Nat : p % b \in 0 .. b - 1
  BY <1>3
<1>10. PICK q \in 0 .. n2 - 1, r \in 0 .. b - 1 : q = c \div b /\ r = c % b
  <2>1. c < size2
    BY <1>6
  <2>2. c \div b \in 0 .. n2 - 1
    BY <1>8, <2>1
  <2>3. c % b \in 0 .. b - 1
    BY <1>9
  <2> QED BY <2>2, <2>3
<1>11. PICK at \in DataIndex : at = new.blocks[q] - base
  BY <1>2, <1>3, <1>4, <1>10
<1>12. \A d \in DataIndex, o \in 0 .. b - 1 :
         next[d][o] = IF d = at /\ o \in r .. r + dist - 1 THEN v ELSE data[d][o]
  <2>1. PICK place : place = new.blocks[c \div BlockSize] - MetaBlocks
    OBVIOUS
  <2>2. place = at
    BY <1>3, <1>10, <1>11, <2>1
  <2>3. PICK chunk :
           chunk = [o \in 0 .. BlockSize - 1 |->
                      IF o \in (c % BlockSize) .. (c % BlockSize) + dist - 1 THEN v
                      ELSE data[place][o]]
    OBVIOUS
  <2>4. next = [data EXCEPT ![place] = chunk]
    BY <2>1, <2>3 DEF Filled
  <2>5. \A d \in DataIndex : next[d] = IF d = at THEN chunk ELSE data[d]
    BY <2>2, <2>4
  <2>6. \A o \in 0 .. b - 1 : chunk[o] = IF o \in r .. r + dist - 1 THEN v ELSE data[at][o]
    BY <1>3, <1>10, <2>1, <2>2, <2>3
  <2>7. ASSUME NEW d \in DataIndex, NEW o \in 0 .. b - 1
        PROVE  next[d][o] = IF d = at /\ o \in r .. r + dist - 1 THEN v ELSE data[d][o]
    <3>1. CASE d = at
      <4>1. next[d] = chunk /\ data[d] = data[at]
        BY <2>5, <3>1
      <4>2. next[d][o] = chunk[o] /\ data[d][o] = data[at][o]
        BY <4>1
      <4> QED BY <2>6, <3>1, <4>2
    <3>2. CASE d # at
      BY <2>5, <3>2
    <3> QED BY <3>1, <3>2
  <2> QED BY <2>7
<1>13. \A i \in 1 .. size2 :
         ContentOf(new, next)[i] =
            IF i \in c + 1 .. c + dist THEN v ELSE ContentOf(old, data)[i]
  <2> TAKE i \in 1 .. size2
  <2>1. PICK p \in Nat : p = i - 1
    OBVIOUS
  <2>2. PICK k \in 0 .. n2 - 1, o \in 0 .. b - 1 : k = p \div b /\ o = p % b
    <3>1. p < size2
      BY <2>1
    <3>2. p \div b \in 0 .. n2 - 1
      BY <1>8, <3>1
    <3>3. p % b \in 0 .. b - 1
      BY <1>9
    <3> QED BY <3>2, <3>3
  <2>3. PICK d \in DataIndex : d = new.blocks[k] - base
    BY <1>2, <1>3, <1>4, <2>2
  <2>4. ContentOf(new, next)[i] = next[d][o]
    <3>1. ContentOf(new, next)[i] =
             next[new.blocks[(i - 1) \div BlockSize] - MetaBlocks][(i - 1) % BlockSize]
      BY <1>5 DEF ContentOf
    <3> QED BY <1>3, <2>1, <2>2, <2>3, <3>1
  <2>5. d = at <=> k = q
    <3>1. new.num_blocks = n2 /\ n2 <= DataBlocks /\ DataBlocks \in Nat
      BY <1>4, Sizes
    <3>2. k \in DataIndex /\ q \in DataIndex
      BY <3>1 DEF DataIndex
    <3>3. PICK x \in Int, y \in Int : x = new.blocks[k] /\ y = new.blocks[q]
      BY <3>2 DEF MetaType
    <3>4. x = y => k = q
      BY <1>2, <1>4, <3>3
    <3>5. d = x - base /\ at = y - base
      BY <1>11, <2>3, <3>3
    <3>6. k = q => x = y
      BY <3>3
    <3> QED BY <3>4, <3>5, <3>6
  <2>6. p \in c .. c + dist - 1 <=> k = q /\ o \in r .. r + dist - 1
    <3>1. dist <= BlockSize - (c % BlockSize) /\ dist \in Nat
      BY Sizes
    <3>2. p \in c .. c + dist - 1 <=>
              /\ p \div BlockSize = c \div BlockSize
              /\ p % BlockSize \in (c % BlockSize) .. (c % BlockSize) + dist - 1
      BY <3>1, Run
    <3> QED BY <1>3, <1>10, <2>2, <3>2
  <2>7. i \in c + 1 .. c + dist <=> p \in c .. c + dist - 1
    BY <2>1
  <2>8. CASE i \in c + 1 .. c + dist
    BY <1>12, <2>2, <2>3, <2>4, <2>5, <2>6, <2>7, <2>8
  <2>9. CASE i \notin c + 1 .. c + dist
    <3>1. ContentOf(new, next)[i] = data[d][o]
      BY <1>12, <2>2, <2>3, <2>4, <2>5, <2>6, <2>7, <2>9
    <3>2. i \in 1 .. size /\ p < size
      BY <1>5, <1>6, <2>1, <2>9
    <3>3. k \in 0 .. n - 1
      BY <1>7, <2>2, <3>2
    <3>4. new.blocks[k] = old.blocks[k]
      BY <1>1, <1>4, <3>3
    <3>5. ContentOf(old, data)[i] =
             data[old.blocks[(i - 1) \div BlockSize] - MetaBlocks][(i - 1) % BlockSize]
      BY <1>5, <3>2 DEF ContentOf
    <3> QED BY <1>3, <2>1, <2>2, <2>3, <2>9, <3>1, <3>4, <3>5
  <2> QED BY <2>8, <2>9
<1>14. Len(ContentOf(old, data)) = size
  BY <1>5, ContentLength
<1>15. ContentOf(new, next) = [i \in 1 .. size2 |-> ContentOf(new, next)[i]]
  BY <1>5 DEF ContentOf
<1> HIDE DEF ContentOf
<1>16. PICK now, was : now = ContentOf(new, next) /\ was = ContentOf(old, data)
  OBVIOUS
<1>17. now = [i \in 1 .. size2 |-> IF i \in c + 1 .. c + dist THEN v ELSE was[i]]
  BY <1>13, <1>15, <1>16
<1> QED BY <1>6, <1>14, <1>16, <1>17 DEF Over

\* Bytes elsewhere on the disk do not matter.
LEMMA SameContent ==
    ASSUME NEW m \in MetaType, SizedMeta(m), m.num_blocks \in Nat,
           NEW data, NEW next,
           \A k \in 0 .. m.num_blocks - 1 :
              next[m.blocks[k] - MetaBlocks] = data[m.blocks[k] - MetaBlocks]
    PROVE  ContentOf(m, next) = ContentOf(m, data)
<1>1. \A i \in 1 .. SizeOf(m) : (i - 1) \div BlockSize \in 0 .. m.num_blocks - 1
  <2> TAKE i \in 1 .. SizeOf(m)
  <2>1. PICK p \in Nat : p = i - 1 /\ p < SizeOf(m)
    BY SizedFile
  <2> QED BY <2>1, SizedFile
<1> QED BY <1>1 DEF ContentOf

-----------------------------------------------------------------------------
(* Files are byte sequences                                                *)

\* The inductive invariant: where the cursors are, also while a call goes on, and
\* that no file and no descriptor is left when nothing is mounted.
Sized == \A f \in Files : file_metas[f].in_use => SizedMeta(file_metas[f])
Inside == \A d \in Fds : IsOpen(d) => descriptors[d].cursor <= SizeOf(FileOf(d))
Unmounted == ~active => (\A f \in Files : ~file_metas[f].in_use) /\ \A d \in Fds : ~IsOpen(d)
WriteFits ==
    Writing =>
        /\ call.val \in Values
        /\ \/ Cursor = SizeOf(FileOf(call.fd))
           \/ call.pc = "write" /\ Cursor + call.left <= SizeOf(FileOf(call.fd))
StoreInv == OwnedInv /\ Sized /\ Inside /\ Unmounted /\ WriteFits

\* A file whose last block has room grows by dist bytes.
LEMMA GrowLast ==
    ASSUME NEW m \in MetaType, SizedMeta(m), m.num_blocks \in Nat, ~NeedsBlock(m),
           NEW dist \in 1 .. BlockSize, dist <= BlockSize - (SizeOf(m) % BlockSize),
           NEW new, new = [m EXCEPT !.size_last = m.size_last + dist]
    PROVE  SizedMeta(new) /\ SizeOf(new) = SizeOf(m) + dist
<1>1. PICK b \in Nat \ {0} : b = BlockSize
  BY Sizes
<1>2. PICK n \in Nat \ {0} : n = m.num_blocks
  BY DEF NeedsBlock
<1>3. PICK last \in 1 .. b - 1 : last = m.size_last
  BY <1>1, <1>2 DEF NeedsBlock, SizedMeta
<1>4. PICK k \in Nat : k = n - 1
  BY <1>2
<1>5. SizeOf(m) = k * b + last /\ k * b \in Nat
  BY <1>1, <1>2, <1>3, <1>4 DEF SizeOf
<1>6. SizeOf(m) % b = last
  BY <1>1, <1>3, <1>5, UniqueRest
<1>7. PICK sum \in Int : sum = last + dist
  BY <1>1
<1>8. sum \in 1 .. b
  BY <1>1, <1>3, <1>6, <1>7
<1>9. new = [m EXCEPT !.size_last = sum]
  BY <1>3, <1>7
<1>10. new.num_blocks = n /\ new.size_last = sum
  BY <1>2, <1>9 DEF MetaType
<1>11. SizeOf(new) = k * b + sum
  BY <1>1, <1>2, <1>4, <1>10 DEF SizeOf
<1> QED BY <1>1, <1>2, <1>5, <1>7, <1>8, <1>10, <1>11 DEF SizedMeta

\* A file whose last block is full, or which has none, gets a block, and dist bytes
\* in it.
Enlarged(m, grown, new, dist) ==
    /\ SizeOf(grown) = SizeOf(m) /\ grown.size_last = 0 /\ new.in_use = m.in_use
    /\ SizedMeta(new) /\ SizeOf(new) = SizeOf(m) + dist
    /\ new.num_blocks = m.num_blocks + 1
    /\ \A k \in 0 .. m.num_blocks - 1 : new.blocks[k] = m.blocks[k]

LEMMA GrowBlock ==
    ASSUME NEW m \in MetaType, SizedMeta(m), m.num_blocks \in DataIndex, NeedsBlock(m),
           NEW block \in DataIndex, NEW dist \in 1 .. BlockSize,
           NEW grown \in MetaType, grown = Grown(m, block),
           NEW new, new = [grown EXCEPT !.size_last = dist]
    PROVE  Enlarged(m, grown, new, dist)
<1>1. PICK b \in Nat \ {0} : b = BlockSize
  BY Sizes
<1>2. PICK n \in Nat : n = m.num_blocks /\ n \in DataIndex
  BY Sizes
<1>3. PICK n1 \in Nat \ {0} : n1 = n + 1 /\ n1 - 1 = n
  <2>1. n + 1 \in Nat \ {0} /\ (n + 1) - 1 = n
    BY <1>2
  <2> QED BY <2>1
<1>4. PICK list : list = [m.blocks EXCEPT ![n] = block + MetaBlocks]
  OBVIOUS
<1>5. grown = [m EXCEPT !.blocks = list, !.num_blocks = n1, !.size_last = 0]
  BY <1>2, <1>3, <1>4 DEF Grown
<1>6. /\ grown.blocks = list /\ grown.num_blocks = n1 /\ grown.size_last = 0
      /\ grown.in_use = m.in_use
  BY <1>5 DEF MetaType
<1>7. SizeOf(m) = n * b /\ n * b \in Nat
  <2>1. CASE n = 0
    BY <1>1, <1>2, <2>1 DEF SizeOf
  <2>2. CASE n # 0
    <3>1. m.size_last = b
      BY <1>1, <1>2, <2>2 DEF NeedsBlock
    <3>2. PICK k \in Nat : k = n - 1 /\ n = k + 1
      <4>1. n - 1 \in Nat /\ n = (n - 1) + 1
        BY <2>2
      <4> QED BY <4>1
    <3>3. n * b = k * b + b
      BY <3>2
    <3> QED BY <1>1, <1>2, <2>2, <3>1, <3>2, <3>3 DEF SizeOf
  <2> QED BY <2>1, <2>2
<1>8. SizeOf(grown) = n * b + 0
  BY <1>1, <1>3, <1>6 DEF SizeOf
<1>9. /\ new.num_blocks = n1 /\ new.size_last = dist /\ new.blocks = list
      /\ new.in_use = m.in_use
  BY <1>6 DEF MetaType
<1>10. SizeOf(new) = n * b + dist
  BY <1>1, <1>3, <1>9 DEF SizeOf
<1>11. SizedMeta(new)
  BY <1>1, <1>3, <1>9 DEF SizedMeta
<1>12. \A k \in 0 .. n - 1 : list[k] = m.blocks[k]
  <2>1. \A k \in 0 .. n - 1 : k \in DataIndex /\ k # n
    BY <1>2, Sizes DEF DataIndex
  <2> QED BY <1>4, <2>1 DEF MetaType
<1> QED BY <1>2, <1>3, <1>6, <1>7, <1>8, <1>9, <1>10, <1>11, <1>12 DEF Enlarged

\* The second loop of fs_write starts at the end of the file.
LEMMA AtEnd ==
    ASSUME StoreInv, InSecondLoop
    PROVE  Cursor = SizeOf(FileOf(call.fd))
<1>1. Writing /\ TypeInv
  BY DEF InSecondLoop, InCall, Writing, StoreInv, OwnedInv
<1>2. /\ call.fd \in Fds /\ Cursor \in Nat /\ IsOpen(call.fd)
      /\ FileOf(call.fd) \in MetaType
      /\ fs_get_filesize(call.fd) = SizeOf(FileOf(call.fd))
  BY <1>1, CallDescriptor DEF TypeInv, CallRuns
<1>3. SizeOf(FileOf(call.fd)) \in Int
  BY <1>2, SizeTyped
<1>4. Cursor <= SizeOf(FileOf(call.fd))
  BY <1>2 DEF StoreInv, Inside, Cursor
<1>5. CASE call.pc = "append"
  BY <1>1, <1>5 DEF StoreInv, WriteFits
<1>6. CASE ~BeforeEnd
  BY <1>2, <1>3, <1>4, <1>6 DEF BeforeEnd
<1> QED BY <1>5, <1>6 DEF InSecondLoop, InCall

LEMMA WriteExtends ==
    ASSUME StoreInv, WriteInside \/ WritePast \/ WriteNewBlock, ~Stray
    PROVE  \E m \in MetaType, new \in MetaType, used \in SUBSET DataIndex,
              pc \in {"write", "append"}, dist \in 1 .. BlockSize, size \in Int :
              /\ Writing /\ Put(m, used, pc, dist, size)
              /\ new = [m EXCEPT !.size_last = size]
              /\ Extended(FileOf(call.fd), new, Cursor, dist)
              /\ pc = "write" => Cursor + call.left <= SizeOf(FileOf(call.fd))
              /\ pc = "append" => Cursor = SizeOf(FileOf(call.fd))
<1>1. TypeInv
  BY DEF StoreInv, OwnedInv
<1>2. PICK m \in MetaType, used \in SUBSET DataIndex, pc \in {"write", "append"},
              dist \in 1 .. BlockSize, size \in Int :
              /\ Writing /\ Put(m, used, pc, dist, size)
              /\ \/ /\ m = FileOf(call.fd) /\ used = usage
                    /\ \/ WriteInside /\ pc = "write"
                       \/ WritePast /\ pc = "append"
                 \/ /\ WriteNewBlock /\ pc = "append"
                    /\ NeedsBlock(FileOf(call.fd)) /\ EmptyBlock \in DataIndex \ usage
                    /\ FileOf(call.fd).num_blocks \in DataIndex
                    /\ m = Grown(FileOf(call.fd), EmptyBlock)
                    /\ used = usage \cup {EmptyBlock}
  BY <1>1, WriteEffect
<1>3. PICK old \in MetaType : old = FileOf(call.fd)
  BY <1>1, <1>2, CallDescriptor
<1>4. /\ call.fd \in Fds /\ Cursor \in Nat /\ IsOpen(call.fd) /\ call.left \in Nat
      /\ descriptors[call.fd].file \in Files
      /\ fs_get_filesize(call.fd) = SizeOf(old)
  BY <1>1, <1>2, <1>3, CallDescriptor DEF TypeInv, CallRuns
<1>5. old.in_use /\ SizedMeta(old) /\ old.num_blocks \in 0 .. DataBlocks
  BY <1>3, <1>4 DEF StoreInv, OwnedInv, Sized, FileOf
<1>6. old.num_blocks \in Nat
  BY <1>5, Sizes
<1>7. SizeOf(old) \in Nat
  BY <1>5, <1>6, SizedFile
<1>8. PICK c \in Nat, z \in Nat : c = Cursor /\ z = SizeOf(old)
  BY <1>4, <1>7
<1>9. /\ dist <= BlockSize - (c % BlockSize) /\ dist <= call.left
      /\ size = IF c + dist > SizeOf(m) THEN m.size_last + dist ELSE m.size_last
  BY <1>2, <1>8 DEF Put, Offset
<1>10. PICK new \in MetaType : new = [m EXCEPT !.size_last = size]
  <2>1. [m EXCEPT !.size_last = size] \in MetaType
    BY DEF MetaType
  <2> QED BY <2>1
<1> DEFINE Grows ==
             /\ Extended(old, new, c, dist)
             /\ pc = "write" => c + call.left <= z
             /\ pc = "append" => c = z
<1>11. ASSUME WriteInside, m = old, pc = "write" PROVE Grows
  <2>1. Cursor < SizeOf(old) /\ call.pc = "write"
    BY <1>4, <1>11 DEF WriteInside, BeforeEnd, InCall
  <2>2. c + call.left <= z
    BY <1>2, <1>3, <1>8, <2>1 DEF StoreInv, WriteFits
  <2>3. c + dist <= z
    BY <1>4, <1>9, <2>2
  <2>4. size = old.size_last
    BY <1>8, <1>9, <1>11, <2>3
  <2>5. new = old
    BY <1>10, <1>11, <2>4 DEF MetaType
  <2>6. Extended(old, new, c, dist)
    <3>1. SizeOf(old) = IF c + dist > SizeOf(old) THEN c + dist ELSE SizeOf(old)
      BY <1>8, <2>3
    <3>2. Extended(old, old, c, dist)
      BY <1>5, <1>6, <3>1 DEF Extended
    <3> QED BY <2>5, <3>2
  <2>7. pc # "append"
    BY <1>11
  <2> QED BY <2>2, <2>6, <2>7
<1>12. ASSUME WritePast, m = old, pc = "append" PROVE Grows
  <2>1. c = z /\ ~NeedsBlock(old)
    BY <1>3, <1>8, <1>12, AtEnd DEF WritePast
  <2>2. size = old.size_last + dist
    BY <1>8, <1>9, <1>12, <2>1
  <2>3. dist <= BlockSize - (SizeOf(old) % BlockSize)
    BY <1>8, <1>9, <2>1
  <2>4. new = [old EXCEPT !.size_last = old.size_last + dist]
    BY <1>10, <1>12, <2>2
  <2>5. SizedMeta(new) /\ SizeOf(new) = SizeOf(old) + dist
    BY <1>5, <1>6, <2>1, <2>3, <2>4, GrowLast
  <2>6. new.num_blocks = old.num_blocks /\ new.blocks = old.blocks /\ new.in_use = old.in_use
    BY <1>10, <1>12 DEF MetaType
  <2>7. Extended(old, new, c, dist)
    BY <1>6, <1>8, <2>1, <2>5, <2>6 DEF Extended
  <2> QED BY <1>12, <2>1, <2>7
<1>13. ASSUME WriteNewBlock, pc = "append", NeedsBlock(old), EmptyBlock \in DataIndex,
              old.num_blocks \in DataIndex, m = Grown(old, EmptyBlock)
       PROVE  Grows
  <2>1. c = z
    BY <1>3, <1>8, <1>13, AtEnd DEF WriteNewBlock
  <2>2. PICK plus : plus = [m EXCEPT !.size_last = dist]
    OBVIOUS
  <2>3. /\ SizeOf(m) = SizeOf(old) /\ m.size_last = 0
        /\ SizedMeta(plus) /\ SizeOf(plus) = SizeOf(old) + dist
        /\ plus.num_blocks = old.num_blocks + 1 /\ plus.in_use = old.in_use
        /\ \A k \in 0 .. old.num_blocks - 1 : plus.blocks[k] = old.blocks[k]
    <3>1. PICK block \in DataIndex : block = EmptyBlock
      BY <1>13
    <3>2. /\ m \in MetaType /\ m = Grown(old, block)
          /\ SizedMeta(old) /\ old.num_blocks \in DataIndex /\ NeedsBlock(old)
      BY <1>5, <1>13, <3>1
    <3>3. Enlarged(old, m, plus, dist)
      BY <2>2, <3>2, GrowBlock
    <3> QED BY <3>3 DEF Enlarged
  <2>4. size = dist
    BY <1>8, <1>9, <2>1, <2>3
  <2>5. new = plus
    BY <1>10, <2>2, <2>4
  <2>6. Extended(old, new, c, dist)
    BY <1>6, <1>8, <2>1, <2>3, <2>5 DEF Extended
  <2> QED BY <1>13, <2>1, <2>6
<1>14. Grows
  BY <1>2, <1>3, <1>11, <1>12, <1>13
<1> QED BY <1>2, <1>3, <1>8, <1>10, <1>14

\* One turn of a write loop, as the store sees it.
Turn(new, pc, dist) ==
    /\ Writing
    /\ Extended(FileOf(call.fd), new, Cursor, dist)
    /\ pc = "write" => Cursor + call.left <= SizeOf(FileOf(call.fd))
    /\ pc = "append" => Cursor = SizeOf(FileOf(call.fd))
    /\ dist <= BlockSize - (Cursor % BlockSize) /\ dist <= call.left
    /\ file_metas' = [file_metas EXCEPT ![descriptors[call.fd].file] = new]
    /\ descriptors' = [descriptors EXCEPT ![call.fd] =
                         [descriptors[call.fd] EXCEPT !.cursor = Cursor + dist]]
    /\ diskData' = Filled(diskData, new.blocks[Cursor \div BlockSize] - MetaBlocks,
                          Cursor, dist, call.val)
    /\ call'.fd = call.fd /\ call'.pc = pc /\ call'.left = call.left - dist
    /\ call'.got = call.got /\ call'.val = call.val
    /\ active' = active

LEMMA WriteTurn ==
    ASSUME StoreInv, WriteInside \/ WritePast \/ WriteNewBlock, ~Stray
    PROVE  \E new \in MetaType, pc \in {"write", "append"}, dist \in 1 .. BlockSize :
              Turn(new, pc, dist)
<1>1. TypeInv
  BY DEF StoreInv, OwnedInv
<1>2. PICK m \in MetaType, new \in MetaType, used \in SUBSET DataIndex,
           pc \in {"write", "append"}, dist \in 1 .. BlockSize, size \in Int :
              /\ Writing /\ Put(m, used, pc, dist, size)
              /\ new = [m EXCEPT !.size_last = size]
              /\ Extended(FileOf(call.fd), new, Cursor, dist)
              /\ pc = "write" => Cursor + call.left <= SizeOf(FileOf(call.fd))
              /\ pc = "append" => Cursor = SizeOf(FileOf(call.fd))
  BY WriteExtends
<1>3. /\ call'.fd = call.fd /\ call'.pc = pc /\ call'.left = call.left - dist
      /\ call'.got = call.got /\ call'.val = call.val
  BY <1>1, <1>2, PutTyped
<1>4. new.blocks = m.blocks
  BY <1>2 DEF MetaType
<1>5. diskData' = Filled(diskData, new.blocks[Cursor \div BlockSize] - MetaBlocks,
                         Cursor, dist, call.val)
  BY <1>2, <1>4 DEF Put, Offset, AtBlock, Filled
<1>6. /\ dist <= BlockSize - (Cursor % BlockSize) /\ dist <= call.left
      /\ file_metas' = [file_metas EXCEPT ![descriptors[call.fd].file] = new]
      /\ descriptors' = [descriptors EXCEPT ![call.fd] =
                         [descriptors[call.fd] EXCEPT !.cursor = Cursor + dist]]
      /\ active' = active
  BY <1>2 DEF Put, Offset
<1>7. Turn(new, pc, dist)
  BY <1>2, <1>3, <1>5, <1>6 DEF Turn
<1> QED BY <1>7

\* The invariant but for its first part.
StoreParts == Sized /\ Inside /\ Unmounted /\ WriteFits

\* The state in which a turn begins.
LEMMA TurnBegins ==
    ASSUME StoreInv, NEW new \in MetaType, NEW pc, NEW dist \in 1 .. BlockSize,
           Turn(new, pc, dist), NEW f, f = descriptors[call.fd].file
    PROVE  /\ TypeInv /\ f \in Files /\ call.fd \in Fds /\ IsOpen(call.fd) /\ active
           /\ file_metas \in [Files -> MetaType] /\ descriptors \in [Fds -> Descriptor]
           /\ diskData \in [DataIndex -> Block] /\ descriptors[call.fd] \in Descriptor
           /\ FileOf(call.fd) = file_metas[f] /\ file_metas[f] \in MetaType
           /\ Cursor \in Nat /\ call.left \in Nat /\ call.val \in Values
           /\ file_metas[f].in_use /\ SizedMeta(file_metas[f])
           /\ file_metas[f].num_blocks \in 0 .. DataBlocks
           /\ SizeOf(file_metas[f]) \in Nat /\ SizeOf(new) \in Nat
           /\ Cursor <= SizeOf(file_metas[f])
           /\ \A g \in Files : file_metas'[g] = IF g = f THEN new ELSE file_metas[g]
           /\ descriptors'[call.fd].file = f /\ descriptors'[call.fd].cursor = Cursor + dist
           /\ \A d \in Fds \ {call.fd} : descriptors'[d] = descriptors[d]
<1>1. TypeInv /\ Writing
  BY DEF StoreInv, OwnedInv, Turn
<1>2. /\ f \in Files /\ call.fd \in Fds /\ IsOpen(call.fd) /\ active
      /\ file_metas \in [Files -> MetaType] /\ descriptors \in [Fds -> Descriptor]
      /\ diskData \in [DataIndex -> Block] /\ descriptors[call.fd] \in Descriptor
      /\ FileOf(call.fd) = file_metas[f] /\ file_metas[f] \in MetaType
      /\ Cursor \in Nat /\ call.left \in Nat
  BY <1>1, CallDescriptor DEF TypeInv, Types, CallRuns, FileOf
<1>3. /\ call.val \in Values /\ file_metas[f].in_use /\ SizedMeta(file_metas[f])
      /\ file_metas[f].num_blocks \in 0 .. DataBlocks
      /\ Cursor <= SizeOf(file_metas[f])
  BY <1>1, <1>2 DEF StoreInv, OwnedInv, Sized, Inside, WriteFits, Cursor
<1>4. SizeOf(file_metas[f]) \in Nat
  <2>1. file_metas[f].num_blocks \in Nat
    BY <1>3, Sizes
  <2> QED BY <1>2, <1>3, <2>1, SizedFile
<1>5. SizeOf(new) \in Nat
  BY <1>2, <1>4 DEF Turn, Extended
<1>6. \A g \in Files : file_metas'[g] = IF g = f THEN new ELSE file_metas[g]
  BY <1>2 DEF Turn
<1>7. PICK next \in Nat : next = Cursor + dist
  BY <1>2
<1>8. PICK moved : moved = [descriptors[call.fd] EXCEPT !.cursor = next]
  OBVIOUS
<1>9. moved.file = f /\ moved.cursor = next
  BY <1>2, <1>8 DEF Descriptor
<1>10. descriptors' = [descriptors EXCEPT ![call.fd] = moved]
  BY <1>7, <1>8 DEF Turn
<1>11. \A d \in Fds : descriptors'[d] = IF d = call.fd THEN moved ELSE descriptors[d]
  BY <1>2, <1>10
<1>12. /\ descriptors'[call.fd].file = f /\ descriptors'[call.fd].cursor = Cursor + dist
       /\ \A d \in Fds \ {call.fd} : descriptors'[d] = descriptors[d]
  BY <1>2, <1>7, <1>9, <1>11
<1> QED BY <1>1, <1>2, <1>3, <1>4, <1>5, <1>6, <1>12

LEMMA TurnKeeps ==
    ASSUME StoreInv, NEW new \in MetaType, NEW pc \in {"write", "append"},
           NEW dist \in 1 .. BlockSize, Turn(new, pc, dist)
    PROVE  StoreParts'
<1>1. PICK f : f = descriptors[call.fd].file
  OBVIOUS
<1>2. PICK old \in MetaType, c \in Nat, left \in Nat, z \in Nat, z2 \in Nat :
         /\ old = file_metas[f] /\ c = Cursor /\ left = call.left
         /\ z = SizeOf(old) /\ z2 = SizeOf(new) /\ c <= z /\ FileOf(call.fd) = old
  BY <1>1, TurnBegins
<1>3. /\ call.fd \in Fds /\ f \in Files /\ IsOpen(call.fd) /\ active
      /\ \A g \in Files : file_metas'[g] = IF g = f THEN new ELSE file_metas[g]
      /\ descriptors'[call.fd].file = f /\ descriptors'[call.fd].cursor = c + dist
      /\ \A d \in Fds \ {call.fd} : descriptors'[d] = descriptors[d]
      /\ call.val \in Values /\ old.in_use /\ descriptors \in [Fds -> Descriptor]
  BY <1>1, <1>2, TurnBegins
<1>4. /\ SizedMeta(new) /\ new.in_use = old.in_use
      /\ z2 = IF c + dist > z THEN c + dist ELSE z
      /\ pc = "write" => c + left <= z
      /\ pc = "append" => c = z
      /\ call'.fd = call.fd /\ call'.pc = pc /\ call'.left = left - dist
      /\ call'.val = call.val /\ active' = active /\ dist <= left
  BY <1>2 DEF Turn, Extended
<1>5. Sized'
  BY <1>3, <1>4 DEF StoreInv, Sized, SizedMeta
<1>6. Inside'
  <2> SUFFICES ASSUME NEW d \in Fds, descriptors'[d].file # NoFile
               PROVE  descriptors'[d].cursor <= SizeOf(file_metas'[descriptors'[d].file])
    BY DEF Inside, IsOpen, FileOf, SizeOf
  <2>1. SizeOf(file_metas'[f]) = z2
    BY <1>2, <1>3
  <2>2. CASE d = call.fd
    BY <1>3, <1>4, <2>1, <2>2
  <2>3. CASE d # call.fd
    <3>1. PICK g \in Files, x \in Nat : g = descriptors[d].file /\ x = descriptors[d].cursor
      BY <1>3, <2>3 DEF Descriptor
    <3>2. x <= SizeOf(file_metas[g])
      BY <1>3, <2>3, <3>1 DEF StoreInv, Inside, IsOpen, FileOf
    <3>3. CASE g = f
      <4>1. x <= z
        BY <1>2, <3>2, <3>3
      <4>2. descriptors'[d].cursor = x /\ descriptors'[d].file = f
        BY <1>3, <2>3, <3>1, <3>3
      <4> QED BY <1>4, <2>1, <4>1, <4>2
    <3>4. CASE g # f
      BY <1>3, <2>3, <3>1, <3>2, <3>4
    <3> QED BY <3>3, <3>4
  <2> QED BY <2>2, <2>3
<1>7. Unmounted'
  BY <1>3, <1>4 DEF Unmounted
<1>8. WriteFits'
  <2>1. Cursor' = c + dist /\ SizeOf(FileOf(call.fd))' = z2
    BY <1>2, <1>3, <1>4 DEF Cursor, FileOf, SizeOf
  <2>2. call'.val \in Values
    BY <1>3, <1>4
  <2>3. CASE pc = "append"
    BY <1>4, <2>1, <2>2, <2>3 DEF WriteFits
  <2>4. CASE pc = "write"
    <3>1. c + dist + (left - dist) <= z2
      BY <1>4, <2>4
    <3> QED BY <1>4, <2>1, <2>2, <2>4, <3>1 DEF WriteFits
  <2> QED BY <2>3, <2>4
<1> QED BY <1>5, <1>6, <1>7, <1>8 DEF StoreParts

\* What FileSystem puts in the place of the variables of FileStore.
Content == [f \in {g \in Files : file_metas[g].in_use} |-> BytesOf(f)]
Opened ==
    [d \in Fds |-> [file |-> descriptors[d].file,
                    pos |-> IF IsOpen(d) THEN descriptors[d].cursor ELSE 0]]

LEMMA SameBytes == \A f : BytesOf(f) = ContentOf(file_metas[f], diskData)
BY DEF BytesOf, ByteAt, ContentOf

LEMMA ContentValues ==
    /\ \A f \in Files : file_metas[f].in_use => Content[f] = ContentOf(file_metas[f], diskData)
    /\ \A f \in Files : f \in DOMAIN Content <=> file_metas[f].in_use
    /\ DOMAIN Content = {f \in Files : file_metas[f].in_use}
BY SameBytes DEF Content

LEMMA WriteRuns ==
    ASSUME NEW d \in Fds, NEW n, NEW v,
           Opened[d].file \in DOMAIN Content,
           Content' = [Content EXCEPT ![Opened[d].file] =
                          Over(Content[Opened[d].file], Opened[d].pos, n, v)],
           Opened' = [Opened EXCEPT ![d].pos = Opened[d].pos + n],
           call'.got = call.got
    PROVE  Store!Write(d, n, v)
<1>1. \A s, p : Store!Overwritten(s, p, n, v) = Over(s, p, n, v)
  BY DEF Store!Overwritten, Over
<1>2. Opened' = [Opened EXCEPT ![d].pos = @ + n]
  BY DEF Opened
<1>3. Content' = [Content EXCEPT ![Opened[d].file] =
                          Store!Overwritten(@, Opened[d].pos, n, v)]
  BY <1>1
<1> QED BY <1>2, <1>3 DEF Store!Write, Content, Opened

LEMMA ReadRuns ==
    ASSUME NEW d \in Fds, NEW n,
           Opened[d].file \in DOMAIN Content,
           Opened[d].pos + n <= Len(Content[Opened[d].file]),
           call'.got = call.got \o
              SubSeq(Content[Opened[d].file], Opened[d].pos + 1, Opened[d].pos + n),
           Opened' = [Opened EXCEPT ![d].pos = Opened[d].pos + n],
           Content' = Content
    PROVE  Store!Read(d, n)
BY DEF Store!Read, Content, Opened

LEMMA TurnStores ==
    ASSUME StoreInv, OwnedInv', NEW new \in MetaType, NEW pc \in {"write", "append"},
           NEW dist \in 1 .. BlockSize, Turn(new, pc, dist)
    PROVE  \E d \in Fds, v \in Values : Store!Write(d, dist, v)
<1>1. PICK f : f = descriptors[call.fd].file
  OBVIOUS
<1>2. PICK old \in MetaType, c \in Nat, v \in Values :
         /\ old = file_metas[f] /\ c = Cursor /\ v = call.val
         /\ c <= SizeOf(old) /\ FileOf(call.fd) = old
  BY <1>1, TurnBegins
<1>3. /\ TypeInv /\ call.fd \in Fds /\ f \in Files /\ IsOpen(call.fd)
      /\ \A g \in Files : file_metas'[g] = IF g = f THEN new ELSE file_metas[g]
      /\ descriptors'[call.fd].file = f /\ descriptors'[call.fd].cursor = c + dist
      /\ \A d \in Fds \ {call.fd} : descriptors'[d] = descriptors[d]
      /\ old.in_use /\ SizedMeta(old) /\ old.num_blocks \in 0 .. DataBlocks
      /\ diskData \in [DataIndex -> Block] /\ file_metas \in [Files -> MetaType]
  BY <1>1, <1>2, TurnBegins
<1>4. /\ Extended(old, new, c, dist) /\ dist <= BlockSize - (c % BlockSize)
      /\ diskData' = Filled(diskData, new.blocks[c \div BlockSize] - MetaBlocks, c, dist, v)
      /\ call'.got = call.got
  BY <1>2 DEF Turn
<1>5. /\ SizedMeta(new) /\ new.in_use
      /\ SizeOf(new) = IF c + dist > SizeOf(old) THEN c + dist ELSE SizeOf(old)
      /\ old.num_blocks <= new.num_blocks
      /\ \A k \in 0 .. old.num_blocks - 1 : new.blocks[k] = old.blocks[k]
  BY <1>3, <1>4 DEF Extended
<1>6. new.num_blocks \in old.num_blocks .. DataBlocks
  <2>1. file_metas'[f].num_blocks \in 0 .. DataBlocks
    BY <1>3 DEF OwnedInv
  <2> QED BY <1>3, <1>5, <2>1, Sizes
<1>7. Owned(f)' = OwnedOf(new)
  <2>1. file_metas'[f] = new
    BY <1>3
  <2> QED BY <2>1 DEF Owned, OwnedOf
<1>8. /\ Cardinality(OwnedOf(new)) = new.num_blocks /\ OwnedOf(new) \subseteq DataIndex
      /\ \A g \in Files \ {f} : Owned(g)' \cap OwnedOf(new) = {}
  <2>1. BlocksOwned' /\ usage' \in SUBSET DataIndex
    BY DEF OwnedInv, TypeInv, Types
  <2>2. Cardinality(Owned(f)') = new.num_blocks /\ Owned(f)' \subseteq usage'
    BY <1>3, <1>5, <2>1 DEF BlocksOwned
  <2>3. \A g \in Files \ {f} : Owned(g)' \cap Owned(f)' = {}
    BY <1>3, <2>1 DEF BlocksOwned
  <2> QED BY <1>7, <2>1, <2>2, <2>3
<1>9. \A k \in 0 .. new.num_blocks - 1 : new.blocks[k] - MetaBlocks \in OwnedOf(new)
  BY <1>5 DEF OwnedOf
<1>10. ContentOf(new, diskData') = Over(ContentOf(old, diskData), c, dist, v)
  <2>1. new.num_blocks \in 0 .. DataBlocks
    BY <1>3, <1>6, Sizes
  <2>2. \A j, k \in 0 .. new.num_blocks - 1 : new.blocks[j] = new.blocks[k] => j = k
    BY <1>5, <1>8, <2>1, ListedApart
  <2>3. Apart(new)
    BY <1>8, <1>9, <2>2 DEF Apart
  <2>4. PICK data, next : data = diskData /\ next = diskData'
    OBVIOUS
  <2>5. next = Filled(data, new.blocks[c \div BlockSize] - MetaBlocks, c, dist, v)
    BY <1>4, <2>4
  <2>6. SizedMeta(old) /\ old.num_blocks \in 0 .. DataBlocks /\ c <= SizeOf(old)
    BY <1>2, <1>3
  <2>7. new.num_blocks <= DataBlocks /\ new.num_blocks \in Int
    BY <2>1
  <2>8. dist <= BlockSize - (c % BlockSize) /\ Extended(old, new, c, dist)
    BY <1>4
  <2>9. data \in [DataIndex -> Block]
    BY <1>3, <2>4
  <2>10. ContentOf(new, next) = Over(ContentOf(old, data), c, dist, v)
    BY <2>3, <2>5, <2>6, <2>7, <2>8, <2>9, PutContent
  <2> QED BY <2>4, <2>10
<1>11. PICK place : place = new.blocks[c \div BlockSize] - MetaBlocks
  OBVIOUS
<1>12. place \in OwnedOf(new)
  <2>1. old.num_blocks \in Nat /\ new.num_blocks \in Nat
    BY <1>3, <1>6, Sizes
  <2>2. SizeOf(old) \in Nat
    BY <1>3, <2>1, SizedFile
  <2>3. c < SizeOf(new)
    BY <1>5, <2>2
  <2>4. c \div BlockSize \in 0 .. new.num_blocks - 1
    BY <1>5, <2>1, <2>3, SizedFile
  <2> QED BY <1>9, <1>11, <2>4
<1>13. \A b : b # place => diskData'[b] = diskData[b]
  BY <1>3, <1>4, <1>11 DEF Filled
<1>14. \A g \in Files \ {f} :
          file_metas[g].in_use =>
             ContentOf(file_metas[g], diskData') = ContentOf(file_metas[g], diskData)
  <2> SUFFICES ASSUME NEW g \in Files \ {f}, file_metas[g].in_use
               PROVE  ContentOf(file_metas[g], diskData') = ContentOf(file_metas[g], diskData)
    OBVIOUS
  <2>1. PICK m \in MetaType : m = file_metas[g] /\ m = file_metas'[g]
    BY <1>3
  <2>2. SizedMeta(m) /\ m.num_blocks \in 0 .. DataBlocks /\ m.in_use
    BY <2>1 DEF StoreInv, OwnedInv, Sized
  <2>3. \A k \in 0 .. m.num_blocks - 1 : m.blocks[k] - MetaBlocks \in Owned(g)'
    BY <2>1, <2>2 DEF Owned
  <2>4. \A k \in 0 .. m.num_blocks - 1 : m.blocks[k] - MetaBlocks # place
    BY <1>8, <1>12, <2>3
  <2>5. m.num_blocks \in Nat
    BY <2>2, Sizes
  <2> QED BY <1>13, <2>1, <2>2, <2>4, <2>5, SameContent
<1>15. /\ Opened[call.fd].file = f /\ Opened[call.fd].pos = c
       /\ Opened' = [Opened EXCEPT ![call.fd].pos = Opened[call.fd].pos + dist]
  <2>1. Opened[call.fd].file = f /\ Opened[call.fd].pos = c
    BY <1>1, <1>2, <1>3 DEF Opened, Cursor
  <2>2. IsOpen(call.fd)'
    BY <1>1, <1>3 DEF IsOpen, Turn
  <2>3. call'.fd = call.fd
    BY DEF Turn
  <2>4. \A d \in Fds : Opened'[d] = [file |-> IF d = call.fd THEN f ELSE Opened[d].file,
                                     pos |-> IF d = call.fd THEN c + dist ELSE Opened[d].pos]
    BY <1>1, <1>3, <2>1, <2>2, <2>3, Sizes DEF Opened, IsOpen
  <2>5. PICK entry, moved : entry = Opened[call.fd] /\ moved = [entry EXCEPT !.pos = c + dist]
    OBVIOUS
  <2>6. entry = [file |-> f, pos |-> c]
    BY <1>1, <1>2, <1>3, <2>5 DEF Opened, Cursor
  <2>7. moved = [file |-> f, pos |-> c + dist]
    BY <2>5, <2>6
  <2>8. [Opened EXCEPT ![call.fd].pos = Opened[call.fd].pos + dist] =
           [Opened EXCEPT ![call.fd] = moved]
    BY <2>1, <2>5
  <2>9. \A d \in Fds : Opened'[d] = IF d = call.fd THEN moved ELSE Opened[d]
    BY <2>4, <2>7 DEF Opened
  <2>10. Opened' = [Opened EXCEPT ![call.fd] = moved]
    BY <2>9 DEF Opened
  <2> QED BY <2>1, <2>8, <2>10
<1>16. f \in DOMAIN Content /\ Content[f] = ContentOf(old, diskData)
  BY <1>2, <1>3, ContentValues
<1>17. Content' = [Content EXCEPT ![f] = Over(Content[f], c, dist, v)]
  <2>1. /\ DOMAIN Content = {g \in Files : file_metas[g].in_use}
        /\ DOMAIN Content' = {g \in Files : file_metas'[g].in_use}
    BY DEF Content
  <2>2. DOMAIN Content' = DOMAIN Content
    BY <1>2, <1>3, <1>5, <2>1
  <2>3. \A g \in DOMAIN Content : Content'[g] = ContentOf(file_metas'[g], diskData')
    BY <2>1, <2>2 DEF Content, BytesOf, ByteAt, ContentOf, SizeOf
  <2>4. \A g \in DOMAIN Content : Content[g] = ContentOf(file_metas[g], diskData)
    BY <2>1, ContentValues
  <2>5. Content'[f] = Over(Content[f], c, dist, v)
    BY <1>3, <1>10, <1>16, <2>3
  <2>6. \A g \in DOMAIN Content \ {f} : Content'[g] = Content[g]
    BY <1>3, <1>14, <2>1, <2>3, <2>4
  <2>7. /\ Content = [g \in DOMAIN Content |-> Content[g]]
        /\ Content' = [g \in DOMAIN Content' |-> Content'[g]]
    BY DEF Content
  <2> QED BY <1>16, <2>2, <2>5, <2>6, <2>7
<1>18. call.fd \in Fds /\ call'.got = call.got
  BY <1>3, <1>4
<1>19. PICK d \in Fds : d = call.fd
  BY <1>18
<1>20. /\ Opened[d].file = f /\ Opened[d].pos = c
       /\ Opened' = [Opened EXCEPT ![d].pos = Opened[d].pos + dist]
  BY <1>15, <1>19
<1>21. /\ Opened[d].file \in DOMAIN Content
       /\ Content' = [Content EXCEPT ![Opened[d].file] =
                         Over(Content[Opened[d].file], Opened[d].pos, dist, v)]
  BY <1>16, <1>17, <1>20
<1>22. Store!Write(d, dist, v)
  BY <1>18, <1>20, <1>21, WriteRuns
<1> QED BY <1>22

-----------------------------------------------------------------------------
\* One turn of fs_read's loop.
ReadTurn(dist) ==
    /\ Reading
    /\ dist <= BlockSize - (Cursor % BlockSize)
    /\ Cursor + dist <= SizeOf(FileOf(call.fd))
    /\ call'.got = call.got \o
          [i \in 1 .. dist |->
             diskData[FileOf(call.fd).blocks[Cursor \div BlockSize] - MetaBlocks]
                     [(Cursor % BlockSize) + i - 1]]
    /\ call'.pc = "read" /\ call'.fd = call.fd
    /\ descriptors' = [descriptors EXCEPT ![call.fd] =
                         [descriptors[call.fd] EXCEPT !.cursor = Cursor + dist]]
    /\ UNCHANGED <<diskData, active, file_metas>>

LEMMA ReadEffect ==
    ASSUME TypeInv, ReadPiece, ~Stray
    PROVE  \E dist \in 1 .. BlockSize : ReadTurn(dist)
<1> DEFINE m == FileOf(call.fd)
           room == BlockSize - Offset
           rest == SizeOf(m) - Cursor
           d == Min({room, rest, call.left})
           piece == [i \in 1 .. d |-> diskData[m.blocks[AtBlock] - MetaBlocks][Offset + i - 1]]
<1>1. Reading /\ call.left > 0
  BY DEF ReadPiece, InCall, Reading
<1>2. /\ call.fd \in Fds /\ descriptors[call.fd] \in Descriptor /\ active
      /\ Cursor \in Nat /\ Offset \in 0 .. BlockSize - 1 /\ call.left \in Nat
      /\ m \in MetaType /\ BlockSize \in Nat /\ call \in CallType
      /\ fs_get_filesize(call.fd) = SizeOf(m) /\ descriptors \in [Fds -> Descriptor]
  BY <1>1, CallDescriptor, Sizes DEF TypeInv, Types
<1>3. /\ Cursor < SizeOf(m)
      /\ call' = [call EXCEPT !.left = call.left - d, !.got = call.got \o piece]
      /\ MoveOn(d)
      /\ UNCHANGED <<diskVars, active, usage, file_metas, proc>>
  BY <1>2 DEF ReadPiece, BeforeEnd
<1>4. SizeOf(m) \in Int
  BY <1>2, SizeTyped
<1> HIDE DEF m
<1>5. room \in Nat \ {0} /\ rest \in Nat \ {0} /\ call.left \in Nat \ {0}
  BY <1>1, <1>2, <1>3, <1>4
<1>6. d \in Nat \ {0} /\ d <= room /\ d <= rest
  <2>1. PICK left \in Nat \ {0} : left = call.left
    BY <1>5
  <2>2. PICK a \in Nat \ {0} : a = room
    BY <1>5
  <2>3. PICK b \in Nat \ {0} : b = rest
    BY <1>5
  <2>4. d = Min({a, b, left})
    BY <2>1, <2>2, <2>3
  <2>5. /\ Min({a, b, left}) \in {a, b, left}
        /\ Min({a, b, left}) <= a /\ Min({a, b, left}) <= b
    <3> HIDE DEF d, piece
    <3>1. a \in Int /\ b \in Int /\ left \in Int
      OBVIOUS
    <3> QED BY <3>1, LeastOfThree
  <2> HIDE DEF d, room, rest
  <2> QED BY <2>1, <2>2, <2>3, <2>4, <2>5
<1> HIDE DEF d
<1>7. d \in 1 .. BlockSize /\ d <= BlockSize - Offset /\ Cursor + d <= SizeOf(m)
  BY <1>2, <1>4, <1>6
<1>8. piece = [i \in 1 .. d |->
                 diskData[m.blocks[Cursor \div BlockSize] - MetaBlocks]
                         [(Cursor % BlockSize) + i - 1]]
  BY DEF AtBlock, Offset
<1> HIDE DEF piece
<1>9. PICK got, left : got = call.got \o piece /\ left = call.left - d
  OBVIOUS
<1>10. call' = [call EXCEPT !.left = left, !.got = got]
  BY <1>3, <1>9
<1>11. call'.got = got /\ call'.pc = call.pc /\ call'.fd = call.fd
  BY <1>2, <1>10 DEF CallType
<1>12. descriptors' = [descriptors EXCEPT ![call.fd] =
                         [descriptors[call.fd] EXCEPT !.cursor = Cursor + d]]
  BY <1>2, <1>3 DEF MoveOn, Cursor
<1>13. ReadTurn(d)
  BY <1>1, <1>3, <1>7, <1>8, <1>9, <1>11, <1>12 DEF ReadTurn, Reading, Offset, m,
      diskVars
<1> QED BY <1>7, <1>13

\* Where a read begins, and what it does to its descriptor.
LEMMA ReadBegins ==
    ASSUME StoreInv, NEW dist \in 1 .. BlockSize, ReadTurn(dist),
           NEW f, f = descriptors[call.fd].file
    PROVE  /\ TypeInv /\ f \in Files /\ call.fd \in Fds /\ IsOpen(call.fd) /\ active
           /\ FileOf(call.fd) = file_metas[f] /\ file_metas[f] \in MetaType
           /\ descriptors \in [Fds -> Descriptor]
           /\ Cursor \in Nat /\ file_metas[f].in_use /\ SizedMeta(file_metas[f])
           /\ file_metas[f].num_blocks \in Nat
           /\ SizeOf(file_metas[f]) \in Nat /\ Cursor + dist <= SizeOf(file_metas[f])
           /\ descriptors'[call.fd].file = f /\ descriptors'[call.fd].cursor = Cursor + dist
           /\ \A d \in Fds \ {call.fd} : descriptors'[d] = descriptors[d]
<1>1. TypeInv /\ Reading
  BY DEF StoreInv, OwnedInv, ReadTurn
<1>2. /\ f \in Files /\ call.fd \in Fds /\ IsOpen(call.fd) /\ active
      /\ descriptors \in [Fds -> Descriptor] /\ descriptors[call.fd] \in Descriptor
      /\ FileOf(call.fd) = file_metas[f] /\ file_metas[f] \in MetaType
      /\ Cursor \in Nat
  BY <1>1, CallDescriptor DEF TypeInv, Types, CallRuns, FileOf
<1>3. /\ file_metas[f].in_use /\ SizedMeta(file_metas[f])
      /\ file_metas[f].num_blocks \in 0 .. DataBlocks
  BY <1>1, <1>2 DEF StoreInv, OwnedInv, Sized
<1>4. SizeOf(file_metas[f]) \in Nat /\ file_metas[f].num_blocks \in Nat
  <2>1. file_metas[f].num_blocks \in Nat
    BY <1>3, Sizes
  <2> QED BY <1>2, <1>3, <2>1, SizedFile
<1>5. Cursor + dist <= SizeOf(file_metas[f])
  BY <1>2 DEF ReadTurn
<1>6. PICK next \in Nat : next = Cursor + dist
  BY <1>2
<1>7. PICK moved : moved = [descriptors[call.fd] EXCEPT !.cursor = next]
  OBVIOUS
<1>8. moved.file = f /\ moved.cursor = next
  BY <1>2, <1>7 DEF Descriptor
<1>9. descriptors' = [descriptors EXCEPT ![call.fd] = moved]
  BY <1>6, <1>7 DEF ReadTurn
<1>10. \A d \in Fds : descriptors'[d] = IF d = call.fd THEN moved ELSE descriptors[d]
  BY <1>2, <1>9
<1>11. /\ descriptors'[call.fd].file = f /\ descriptors'[call.fd].cursor = Cursor + dist
       /\ \A d \in Fds \ {call.fd} : descriptors'[d] = descriptors[d]
  BY <1>2, <1>6, <1>8, <1>10
<1> QED BY <1>1, <1>2, <1>3, <1>4, <1>5, <1>11
\* A step that changes one descriptor, as the store sees it.
LEMMA OneOpened ==
    ASSUME NEW d \in Fds, NEW entry,
           entry = [file |-> descriptors'[d].file,
                    pos |-> IF descriptors'[d].file # NoFile THEN descriptors'[d].cursor ELSE 0],
           \A e \in Fds \ {d} : descriptors'[e] = descriptors[e]
    PROVE  Opened' = [Opened EXCEPT ![d] = entry]
<1>1. \A e \in Fds : Opened'[e] = IF e = d THEN entry ELSE Opened[e]
  BY DEF Opened, IsOpen
<1>2. Opened' = [e \in Fds |-> Opened'[e]] /\ Opened = [e \in Fds |-> Opened[e]]
  BY DEF Opened
<1> HIDE DEF Opened
<1>3. PICK was : was = Opened
  OBVIOUS
<1>4. was = [e \in Fds |-> was[e]]
  BY <1>2, <1>3
<1>5. [was EXCEPT ![d] = entry] = [e \in Fds |-> IF e = d THEN entry ELSE was[e]]
  BY <1>4
<1> QED BY <1>1, <1>2, <1>3, <1>5

LEMMA MovedTo ==
    ASSUME NEW d \in Fds, NEW p
    PROVE  [Opened EXCEPT ![d].pos = p] =
              [Opened EXCEPT ![d] = [file |-> descriptors[d].file, pos |-> p]]
<1>1. PICK entry : entry = Opened[d]
  OBVIOUS
<1>2. PICK f, x : entry = [file |-> f, pos |-> x] /\ f = descriptors[d].file
  BY <1>1 DEF Opened
<1>3. [entry EXCEPT !.pos = p] = [file |-> f, pos |-> p]
  BY <1>2
<1> QED BY <1>1, <1>2, <1>3

LEMMA ContentStays == UNCHANGED <<diskData, file_metas>> => Content' = Content
BY DEF Content, BytesOf, ByteAt, SizeOf

\* The piece a turn of fs_read's loop takes from its block is a run of the content.
LEMMA PieceRead ==
    ASSUME NEW m \in MetaType, NEW data, SizeOf(m) \in Nat, NEW c \in Nat,
           NEW dist \in 1 .. BlockSize,
           dist <= BlockSize - (c % BlockSize), c + dist <= SizeOf(m)
    PROVE  SubSeq(ContentOf(m, data), c + 1, c + dist) =
              [i \in 1 .. dist |->
                 data[m.blocks[c \div BlockSize] - MetaBlocks][(c % BlockSize) + i - 1]]
<1>1. PICK b \in Nat \ {0}, z \in Nat : b = BlockSize /\ z = SizeOf(m)
  BY Sizes
<1>2. PICK s : s = ContentOf(m, data)
  OBVIOUS
<1>3. PICK T : T = {s[i] : i \in 1 .. z}
  OBVIOUS
<1>4. s = [i \in 1 .. z |-> s[i]]
  BY <1>1, <1>2 DEF ContentOf
<1>5. s \in Seq(T) /\ Len(s) = z
  BY <1>3, <1>4
<1>6. PICK n \in Nat \ {0} : n = dist /\ c + n <= z
  BY <1>1
<1>7. PICK q \in Nat, r \in Nat : q = c \div b /\ r = c % b /\ r < b /\ c = q * b + r
  <2>1. c \div b \in Nat /\ c % b \in 0 .. b - 1 /\ c = (c \div b) * b + (c % b)
    BY <1>1, Divided
  <2> QED BY <2>1
<1>8. n <= b - r
  BY <1>1, <1>6, <1>7
<1>9. PICK u : u = SubSeq(s, c + 1, c + n)
  OBVIOUS
<1>10. u \in Seq(T) /\ Len(u) = n /\ \A i \in 1 .. n : u[i] = s[c + i]
  <2>1. PICK k \in Nat, l \in Nat : k = c + 1 /\ l = c + n
    OBVIOUS
  <2>2. k <= l /\ \A i \in k .. l : s[i] \in T
    BY <1>3, <1>6, <2>1
  <2>3. u = SubSeq(s, k, l)
    BY <1>9, <2>1
  <2>4. /\ u \in Seq(T) /\ Len(u) = l - k + 1
        /\ \A i \in 1 .. l - k + 1 : u[i] = s[k + i - 1]
    BY <2>2, <2>3, SubSeqProperties
  <2>5. l - k + 1 = n /\ \A i \in 1 .. n : k + i - 1 = c + i
    BY <2>1
  <2> QED BY <2>4, <2>5
<1>11. ASSUME NEW i \in 1 .. n
       PROVE  s[c + i] = data[m.blocks[q] - MetaBlocks][r + i - 1]
  <2>1. PICK o \in Nat, p \in Nat : o = r + i - 1 /\ p = c + i - 1
    BY <1>7
  <2>2. p = q * b + o /\ o < b
    <3>1. q * b \in Nat
      OBVIOUS
    <3> QED BY <1>7, <1>8, <2>1, <3>1
  <2>3. p \div b = q /\ p % b = o
    BY <1>1, <2>2, UniqueRest
  <2>4. c + i \in 1 .. z /\ (c + i) - 1 = p
    BY <1>6, <2>1
  <2>5. s[c + i] = data[m.blocks[((c + i) - 1) \div BlockSize] - MetaBlocks]
                       [((c + i) - 1) % BlockSize]
    BY <1>1, <1>2, <2>4 DEF ContentOf
  <2> QED BY <1>1, <2>1, <2>3, <2>4, <2>5
<1>12. u = [i \in 1 .. n |-> data[m.blocks[q] - MetaBlocks][r + i - 1]]
  <2>1. u = [i \in 1 .. n |-> u[i]]
    BY <1>10
  <2>2. \A i \in 1 .. n : u[i] = data[m.blocks[q] - MetaBlocks][r + i - 1]
    BY <1>10, <1>11
  <2> QED BY <2>1, <2>2
<1> QED BY <1>1, <1>2, <1>6, <1>7, <1>9, <1>12

LEMMA ReadStores ==
    ASSUME StoreInv, NEW dist \in 1 .. BlockSize, ReadTurn(dist)
    PROVE  StoreParts' /\ \E d \in Fds : Store!Read(d, dist)
<1>1. PICK f : f = descriptors[call.fd].file
  OBVIOUS
<1>2. PICK m \in MetaType, c \in Nat, d \in Fds :
         m = file_metas[f] /\ c = Cursor /\ d = call.fd /\ FileOf(d) = m
  BY <1>1, ReadBegins
<1>3. /\ f \in Files /\ active /\ m.in_use /\ SizeOf(m) \in Nat /\ c + dist <= SizeOf(m)
      /\ descriptors[d].file = f /\ descriptors[d].cursor = c
      /\ descriptors'[d].file = f /\ descriptors'[d].cursor = c + dist
      /\ \A e \in Fds \ {d} : descriptors'[e] = descriptors[e]
  BY <1>1, <1>2, ReadBegins DEF Cursor
<1>4. /\ dist <= BlockSize - (c % BlockSize)
      /\ call'.got = call.got \o
            [i \in 1 .. dist |->
               diskData[m.blocks[c \div BlockSize] - MetaBlocks][(c % BlockSize) + i - 1]]
      /\ call'.pc = "read" /\ UNCHANGED <<diskData, active, file_metas>>
  BY <1>2 DEF ReadTurn
<1>5. f # NoFile
  BY <1>3, Sizes
<1>6. StoreParts'
  <2>1. Sized'
    BY <1>4 DEF StoreInv, Sized
  <2>2. Inside'
    <3> SUFFICES ASSUME NEW e \in Fds, descriptors'[e].file # NoFile
                 PROVE  descriptors'[e].cursor <= SizeOf(file_metas[descriptors'[e].file])
      BY <1>4 DEF Inside, IsOpen, FileOf, SizeOf
    <3>1. CASE e = d
      BY <1>2, <1>3, <3>1
    <3>2. CASE e # d
      BY <1>3, <3>2 DEF StoreInv, Inside, IsOpen, FileOf
    <3> QED BY <3>1, <3>2
  <2>3. Unmounted' /\ WriteFits'
    BY <1>3, <1>4 DEF Unmounted, WriteFits, Writing
  <2> QED BY <2>1, <2>2, <2>3 DEF StoreParts
<1>7. f \in DOMAIN Content /\ Content[f] = ContentOf(m, diskData)
  BY <1>2, <1>3, ContentValues
<1>8. Opened[d].file = f /\ Opened[d].pos = c
  BY <1>3, <1>5 DEF Opened, IsOpen
<1>9. Opened' = [Opened EXCEPT ![d].pos = c + dist]
  <2>1. PICK p \in Nat : p = c + dist
    OBVIOUS
  <2>2. PICK entry : entry = [file |-> f, pos |-> p]
    OBVIOUS
  <2>3. Opened' = [Opened EXCEPT ![d] = entry]
    BY <1>3, <1>5, <2>1, <2>2, OneOpened
  <2>4. entry = [file |-> descriptors[d].file, pos |-> p]
    BY <1>3, <2>2
  <2>5. [Opened EXCEPT ![d].pos = p] = [Opened EXCEPT ![d] = entry]
    BY <2>4, MovedTo
  <2> QED BY <2>1, <2>3, <2>5
<1>10. Len(Content[f]) = SizeOf(m)
  BY <1>3, <1>7, ContentLength
<1>11. call'.got = call.got \o SubSeq(Content[f], c + 1, c + dist)
  <2>1. PICK data : data = diskData
    OBVIOUS
  <2>2. SubSeq(ContentOf(m, data), c + 1, c + dist) =
           [i \in 1 .. dist |->
              data[m.blocks[c \div BlockSize] - MetaBlocks][(c % BlockSize) + i - 1]]
    BY <1>3, <1>4, PieceRead
  <2>3. SubSeq(Content[f], c + 1, c + dist) =
           [i \in 1 .. dist |->
              diskData[m.blocks[c \div BlockSize] - MetaBlocks][(c % BlockSize) + i - 1]]
    BY <1>7, <2>1, <2>2
  <2> QED BY <1>4, <2>3
<1>12. Content' = Content
  BY <1>4, ContentStays
<1>13. Store!Read(d, dist)
  BY <1>3, <1>7, <1>8, <1>9, <1>10, <1>11, <1>12, ReadRuns
<1> QED BY <1>6, <1>13
-----------------------------------------------------------------------------
\* What a step shows: the invariant's parts are kept, and the store takes a step.
StoreStep == Store!StoreNext \/ UNCHANGED Store!storeVars

LEMMA StaysStored ==
    ASSUME Content' = Content, Opened' = Opened, call'.got \in {call.got, <<>>}
    PROVE  StoreStep
<1>1. CASE call'.got = call.got
  BY <1>1 DEF StoreStep, Store!storeVars, Content, Opened
<1>2. CASE call'.got = <<>>
  BY <1>2 DEF StoreStep, Store!StoreNext, Store!Forget, Content, Opened
<1> QED BY <1>1, <1>2

LEMMA QuietParts ==
    ASSUME StoreInv, UNCHANGED <<diskData, memVars>>, WriteFits'
    PROVE  StoreParts' /\ Content' = Content /\ Opened' = Opened
<1>1. UNCHANGED <<diskData, active, file_metas, descriptors>>
  BY DEF memVars
<1>2. Content' = Content
  BY <1>1, ContentStays
<1>3. Opened' = Opened
  BY <1>1 DEF Opened, IsOpen
<1>4. Sized' /\ Unmounted'
  BY <1>1 DEF StoreInv, Sized, Unmounted, IsOpen
<1>5. Inside'
  BY <1>1 DEF StoreInv, Inside, IsOpen, FileOf, SizeOf
<1> QED BY <1>2, <1>3, <1>4, <1>5 DEF StoreParts

\* No file and no open descriptor.
Nothing == (\A f \in Files : ~file_metas[f].in_use) /\ descriptors = ClosedFds
NothingShown ==
    Sized /\ Inside /\ Unmounted /\ Content = Store!NoFiles /\ Opened = Store!Closed

LEMMA NothingStored == Nothing => NothingShown
<1> SUFFICES ASSUME Nothing PROVE NothingShown
  OBVIOUS
<1>1. \A d \in Fds : ~IsOpen(d)
  BY DEF Nothing, ClosedFds, IsOpen
<1>2. Sized /\ Inside /\ Unmounted
  BY <1>1 DEF Nothing, Sized, Inside, Unmounted
<1>3. {g \in Files : file_metas[g].in_use} = {}
  BY DEF Nothing
<1>4. Content = Store!NoFiles
  BY <1>3 DEF Content, Store!NoFiles
<1>5. Opened = Store!Closed
  BY <1>1 DEF Opened, Store!Closed, IsOpen
<1> QED BY <1>2, <1>4, <1>5 DEF NothingShown

LEMMA MountStores ==
    ASSUME StoreInv, make_fs \/ mount_fs \/ umount_fs \/ Kill,
           "make_mounted" \notin Calls, "remount" \notin Calls
    PROVE  StoreParts' /\ StoreStep
<1>1. CASE make_fs
  <2>1. ~active /\ UNCHANGED <<memVars, call>> /\ ~Writing
    BY <1>1 DEF make_fs, Ready, Writing
  <2>2. UNCHANGED <<active, file_metas, descriptors, call>>
    BY <2>1 DEF memVars
  <2>3. Sized' /\ Unmounted'
    BY <2>2 DEF StoreInv, Sized, Unmounted, IsOpen
  <2>4. Inside'
    BY <2>2 DEF StoreInv, Inside, IsOpen, FileOf, SizeOf
  <2>5. WriteFits'
    BY <2>1, <2>2 DEF WriteFits, Writing
  <2>6. Content' = Content
    <3>1. {g \in Files : file_metas[g].in_use} = {}
      BY <2>1 DEF StoreInv, Unmounted
    <3> QED BY <2>2, <3>1 DEF Content
  <2>7. Opened' = Opened
    BY <2>2 DEF Opened, IsOpen
  <2> QED BY <2>2, <2>3, <2>4, <2>5, <2>6, <2>7, StaysStored DEF StoreParts
<1>2. CASE mount_fs
  <2>1. /\ ~active /\ ~Writing /\ UNCHANGED call
        /\ file_metas' = [f \in Files |-> Loaded(diskMeta[f])] /\ descriptors' = ClosedFds
        /\ \A f \in Files : ~diskMeta[f].in_use
    BY <1>2 DEF mount_fs, Ready, Writing
  <2>2. Nothing'
    BY <2>1 DEF Nothing, Loaded, EmptyMeta
  <2>3. Sized' /\ Inside' /\ Unmounted' /\ Content' = Store!NoFiles /\ Opened' = Store!Closed
    <3>1. NothingShown'
      BY <2>2, NothingStored, PTL
    <3> QED BY <3>1 DEF NothingShown
  <2>4. WriteFits'
    BY <2>1 DEF WriteFits, Writing
  <2>5. Content = Store!NoFiles
    <3>1. {g \in Files : file_metas[g].in_use} = {}
      BY <2>1 DEF StoreInv, Unmounted
    <3> QED BY <3>1 DEF Content, Store!NoFiles
  <2>6. Opened = Store!Closed
    BY <2>1 DEF StoreInv, Unmounted, Opened, Store!Closed, IsOpen
  <2>7. Content' = Content /\ Opened' = Opened /\ call'.got = call.got
    BY <2>1, <2>3, <2>5, <2>6
  <2> QED BY <2>3, <2>4, <2>7, StaysStored DEF StoreParts
<1>3. CASE umount_fs \/ Kill
  <2>1. file_metas' = EmptyMetas /\ descriptors' = ClosedFds /\ call' = Idle
    BY <1>3 DEF umount_fs, Kill, Forgotten
  <2>2. Nothing'
    BY <2>1 DEF Nothing, EmptyMetas, EmptyMeta
  <2>3. Sized' /\ Inside' /\ Unmounted' /\ Content' = Store!NoFiles /\ Opened' = Store!Closed
    <3>1. NothingShown'
      BY <2>2, NothingStored, PTL
    <3> QED BY <3>1 DEF NothingShown
  <2>4. WriteFits' /\ call'.got = <<>>
    BY <2>1, IdleTyped DEF WriteFits, Writing
  <2>5. Store!Reset
    BY <2>3, <2>4 DEF Store!Reset, Content, Opened
  <2> QED BY <2>3, <2>4, <2>5 DEF StoreParts, StoreStep, Store!StoreNext
<1> QED BY <1>1, <1>2, <1>3

LEMMA QuietStores ==
    ASSUME StoreInv, SaveInfo \/ SaveFirst \/ SaveSecond \/ ReadEnd \/ WriteEnd
    PROVE  StoreParts' /\ StoreStep
<1>1. UNCHANGED <<diskData, memVars>>
  BY DEF SaveInfo, SaveFirst, SaveSecond, ReadEnd, WriteEnd, diskVars
<1>2. call \in CallType
  BY DEF StoreInv, OwnedInv, TypeInv, Types
<1>3. call'.pc \notin {"write", "append"} /\ call'.got \in {call.got, <<>>}
  <2>1. CASE SaveInfo
    BY <1>2, <2>1 DEF SaveInfo, CallType
  <2>2. CASE SaveSecond \/ ReadEnd
    BY <2>2, IdleTyped DEF SaveSecond, ReadEnd
  <2>3. CASE WriteEnd
    BY <1>2, <2>3 DEF WriteEnd, ThenSave, CallType
  <2>4. CASE SaveFirst
    BY <1>2, <2>4 DEF SaveFirst, CallType
  <2> QED BY <2>1, <2>2, <2>3, <2>4
<1>4. WriteFits'
  BY <1>3 DEF WriteFits, Writing
<1> QED BY <1>1, <1>3, <1>4, QuietParts, StaysStored

\* A descriptor that is opened, closed or moved stays inside its file.
LEMMA OneMoved ==
    ASSUME StoreInv, Mounted, NEW d \in Fds,
           UNCHANGED <<diskVars, active, usage, file_metas, call, proc>>,
           \A e \in Fds \ {d} : descriptors'[e] = descriptors[e],
           descriptors'[d].file # NoFile =>
              /\ descriptors'[d].file \in Files
              /\ descriptors'[d].cursor <= SizeOf(file_metas[descriptors'[d].file])
    PROVE  StoreParts' /\ Content' = Content
<1>1. UNCHANGED <<diskData, active, file_metas, call>> /\ active /\ ~Writing
  BY DEF Mounted, Ready, Writing, diskVars
<1>2. Sized' /\ Unmounted'
  BY <1>1 DEF StoreInv, Sized, Unmounted
<1>3. Inside'
  <2> SUFFICES ASSUME NEW e \in Fds, descriptors'[e].file # NoFile
               PROVE  descriptors'[e].cursor <= SizeOf(file_metas[descriptors'[e].file])
    BY <1>1 DEF Inside, IsOpen, FileOf, SizeOf
  <2>1. CASE e = d
    BY <2>1
  <2>2. CASE e # d
    BY <2>2 DEF StoreInv, Inside, IsOpen, FileOf
  <2> QED BY <2>1, <2>2
<1>4. WriteFits'
  BY <1>1 DEF WriteFits, Writing
<1>5. Content' = Content
  BY <1>1, ContentStays
<1> QED BY <1>2, <1>3, <1>4, <1>5 DEF StoreParts

LEMMA OpenStores ==
    ASSUME StoreInv, NEW name \in Names, fs_open(name)
    PROVE  StoreParts' /\ StoreStep
<1>1. TypeInv /\ Mounted /\ UNCHANGED <<diskVars, active, usage, file_metas, call, proc>>
  BY DEF StoreInv, OwnedInv, fs_open
<1>2. PICK d \in Fds, f \in Files :
         /\ ~IsOpen(d) /\ file_metas[f].in_use
         /\ descriptors' = [descriptors EXCEPT ![d] = [file |-> f, cursor |-> 0]]
  BY <1>1, OpenTyped
<1>3. /\ descriptors'[d] = [file |-> f, cursor |-> 0]
      /\ \A e \in Fds \ {d} : descriptors'[e] = descriptors[e]
  BY <1>1, <1>2 DEF TypeInv, Types
<1>4. 0 <= SizeOf(file_metas[f])
  <2>1. PICK m \in MetaType : m = file_metas[f]
    BY <1>1 DEF TypeInv, Types
  <2>2. SizedMeta(m) /\ m.num_blocks \in 0 .. DataBlocks
    BY <1>2, <2>1 DEF StoreInv, OwnedInv, Sized
  <2>3. m.num_blocks \in Nat
    BY <2>2, Sizes
  <2>4. SizeOf(m) \in Nat
    BY <2>2, <2>3, SizedFile
  <2> QED BY <2>1, <2>4
<1>5. StoreParts' /\ Content' = Content
  BY <1>1, <1>3, <1>4, OneMoved
<1>6. PICK entry : entry = [file |-> f, pos |-> 0]
  OBVIOUS
<1>7. Opened' = [Opened EXCEPT ![d] = entry]
  <2>1. descriptors'[d].file = f /\ descriptors'[d].cursor = 0 /\ f # NoFile
    BY <1>3, Sizes
  <2> QED BY <1>3, <1>6, <2>1, OneOpened
<1>8. Opened[d].file = NoFile /\ f \in DOMAIN Content
  BY <1>2, ContentValues DEF Opened, IsOpen
<1>9. call'.got = call.got
  BY <1>1
<1>10. Store!Open(d, f)
  BY <1>5, <1>6, <1>7, <1>8, <1>9 DEF Store!Open, Opened, Content
<1> QED BY <1>5, <1>10 DEF StoreStep, Store!StoreNext

LEMMA CloseStores ==
    ASSUME StoreInv, NEW d \in Fds, fs_close(d)
    PROVE  StoreParts' /\ StoreStep
<1>1. TypeInv /\ Mounted /\ UNCHANGED <<diskVars, active, usage, file_metas, call, proc>>
  BY DEF StoreInv, OwnedInv, fs_close
<1>2. descriptors \in [Fds -> Descriptor] /\ descriptors[d] \in Descriptor
  BY <1>1 DEF TypeInv, Types
<1>3. PICK shut : shut = [descriptors[d] EXCEPT !.file = NoFile]
  OBVIOUS
<1>4. shut.file = NoFile /\ descriptors' = [descriptors EXCEPT ![d] = shut]
  BY <1>2, <1>3 DEF fs_close, Descriptor
<1>5. descriptors'[d].file = NoFile /\ \A e \in Fds \ {d} : descriptors'[e] = descriptors[e]
  BY <1>2, <1>4
<1>6. StoreParts' /\ Content' = Content
  BY <1>1, <1>5, OneMoved
<1>7. PICK entry : entry = [file |-> NoFile, pos |-> 0]
  OBVIOUS
<1>8. Opened' = [Opened EXCEPT ![d] = entry]
  BY <1>5, <1>7, OneOpened
<1>9. call'.got = call.got
  BY <1>1
<1>10. Store!Close(d)
  BY <1>6, <1>7, <1>8, <1>9 DEF Store!Close, Opened, Content
<1> QED BY <1>6, <1>10 DEF StoreStep, Store!StoreNext

LEMMA SeekStores ==
    ASSUME StoreInv, NEW d \in Fds, NEW n \in 0 .. MaxSize, fs_lseek(d, n)
    PROVE  StoreParts' /\ StoreStep
<1>1. /\ TypeInv /\ Mounted /\ UNCHANGED <<diskVars, active, usage, file_metas, call, proc>>
      /\ active /\ IsOpen(d) /\ n <= SizeOf(FileOf(d)) /\ n \in Nat
  BY DEF StoreInv, OwnedInv, fs_lseek, Mounted, fs_get_filesize
<1>2. /\ descriptors \in [Fds -> Descriptor] /\ descriptors[d] \in Descriptor
      /\ file_metas \in [Files -> MetaType]
  BY <1>1 DEF TypeInv, Types
<1>3. PICK f \in Files : f = descriptors[d].file
  BY <1>1, DescTyped
<1>4. PICK moved : moved = [descriptors[d] EXCEPT !.cursor = n]
  OBVIOUS
<1>5. moved.file = f /\ moved.cursor = n /\ descriptors' = [descriptors EXCEPT ![d] = moved]
  BY <1>2, <1>3, <1>4 DEF fs_lseek, Descriptor
<1>6. /\ descriptors'[d].file = f /\ descriptors'[d].cursor = n
      /\ \A e \in Fds \ {d} : descriptors'[e] = descriptors[e]
  BY <1>2, <1>5
<1>7. n <= SizeOf(file_metas[f])
  BY <1>1, <1>3 DEF FileOf
<1>8. StoreParts' /\ Content' = Content
  BY <1>1, <1>6, <1>7, OneMoved
<1>9. Opened' = [Opened EXCEPT ![d].pos = n]
  <2>1. PICK entry : entry = [file |-> f, pos |-> n]
    OBVIOUS
  <2>2. Opened' = [Opened EXCEPT ![d] = entry]
    BY <1>6, <2>1, OneOpened, Sizes
  <2>3. entry = [file |-> descriptors[d].file, pos |-> n]
    BY <1>3, <2>1
  <2>4. [Opened EXCEPT ![d].pos = n] = [Opened EXCEPT ![d] = entry]
    BY <2>3, MovedTo
  <2> QED BY <2>2, <2>4
<1>10. Opened[d].file \in DOMAIN Content /\ n \in 0 .. Len(Content[Opened[d].file])
  <2>1. PICK m \in MetaType : m = file_metas[f]
    BY <1>2
  <2>2. m.in_use
    BY <1>1, <1>3, <2>1 DEF StoreInv, OwnedInv
  <2>3. SizedMeta(m) /\ m.num_blocks \in 0 .. DataBlocks
    BY <2>1, <2>2 DEF StoreInv, OwnedInv, Sized
  <2>4. m.num_blocks \in Nat
    BY <2>3, Sizes
  <2>5. SizeOf(m) \in Nat
    BY <2>3, <2>4, SizedFile
  <2>6. f \in DOMAIN Content /\ Content[f] = ContentOf(m, diskData)
    BY <2>1, <2>2, ContentValues
  <2>7. PICK data : data = diskData
    OBVIOUS
  <2>8. Len(ContentOf(m, data)) = SizeOf(m)
    BY <2>5, ContentLength
  <2>9. Opened[d].file = f
    BY <1>3 DEF Opened
  <2> QED BY <1>1, <1>7, <2>1, <2>5, <2>6, <2>7, <2>8, <2>9
<1>11. call'.got = call.got
  BY <1>1
<1>12. Store!Seek(d)
  BY <1>8, <1>9, <1>10, <1>11 DEF Store!Seek, Opened, Content
<1> QED BY <1>8, <1>12 DEF StoreStep, Store!StoreNext

\* A call to fs_read or fs_write begins.
LEMMA BeginStores ==
    ASSUME StoreInv, "straddle" \notin Calls, NEW d \in Fds, NEW n \in 1 .. MaxBytes,
           fs_read(d, n) \/ \E v \in Values : fs_write(d, v, n)
    PROVE  StoreParts' /\ StoreStep
<1>1. TypeInv
  BY DEF StoreInv, OwnedInv
<1>2. call'.got = <<>> /\ call'.fd = d
  BY <1>1, BeginTyped
<1>3. /\ active /\ IsOpen(d) /\ UNCHANGED <<diskVars, memVars, proc>>
  BY DEF fs_read, fs_write, Mounted
<1>4. WriteFits'
  <2>1. ASSUME fs_read(d, n) PROVE WriteFits'
    <3>1. call' = [Idle EXCEPT !.pc = "read", !.fd = d, !.left = n]
      BY <2>1 DEF fs_read
    <3>2. call'.pc = "read"
      BY <3>1, IdleTyped DEF CallType
    <3> QED BY <3>2 DEF WriteFits, Writing
  <2>2. ASSUME NEW v \in Values, fs_write(d, v, n) PROVE WriteFits'
    <3>1. call' = [Idle EXCEPT !.pc = "write", !.fd = d, !.val = v, !.left = n]
      BY <2>2 DEF fs_write
    <3>2. call'.pc = "write" /\ call'.val = v /\ call'.left = n /\ call'.fd = d
      BY <3>1, IdleTyped DEF CallType
    <3>3. \/ descriptors[d].cursor >= SizeOf(FileOf(d))
          \/ descriptors[d].cursor + n <= SizeOf(FileOf(d))
      BY <1>3, <2>2 DEF fs_write, fs_get_filesize
    <3>4. descriptors[d].cursor <= SizeOf(FileOf(d))
      BY <1>3 DEF StoreInv, Inside
    <3>5. PICK c \in Nat, z \in Int : c = descriptors[d].cursor /\ z = SizeOf(FileOf(d))
      <4>1. descriptors[d] \in Descriptor /\ FileOf(d) \in MetaType
        BY <1>1, <1>3, DescTyped
      <4> QED BY <4>1, SizeTyped DEF Descriptor
    <3>6. c = z \/ c + n <= z
      BY <3>3, <3>4, <3>5
    <3>7. Cursor' = c /\ SizeOf(FileOf(call.fd))' = z
      BY <1>3, <3>2, <3>5 DEF Cursor, FileOf, SizeOf, memVars
    <3> QED BY <3>2, <3>6, <3>7 DEF WriteFits
  <2> QED BY <2>1, <2>2
<1> QED BY <1>2, <1>3, <1>4, QuietParts, StaysStored DEF diskVars
LEMMA CreateStores ==
    ASSUME StoreInv, NEW name \in Names, fs_create(name)
    PROVE  StoreParts' /\ StoreStep
<1>1. /\ TypeInv /\ Mounted /\ active /\ UNCHANGED <<diskData, active, descriptors>>
      /\ file_metas \in [Files -> MetaType]
  BY DEF StoreInv, OwnedInv, fs_create, Mounted, diskVars, TypeInv, Types
<1>2. PICK f \in Files :
         /\ ~file_metas[f].in_use /\ ThenSave(f)
         /\ file_metas' = [file_metas EXCEPT ![f] =
               [file_metas[f] EXCEPT !.in_use = TRUE, !.name = name,
                                     !.num_blocks = 0, !.size_last = 0]]
  BY <1>1, CreateEffect
<1>3. PICK m : m = [file_metas[f] EXCEPT !.in_use = TRUE, !.name = name,
                                         !.num_blocks = 0, !.size_last = 0]
  OBVIOUS
<1>4. m.in_use = TRUE /\ m.num_blocks = 0 /\ m.size_last = 0
  BY <1>1, <1>3 DEF MetaType
<1>5. \A g \in Files : file_metas'[g] = IF g = f THEN m ELSE file_metas[g]
  BY <1>1, <1>2, <1>3
<1>6. call'.pc = "save_info" /\ call'.got = call.got
  BY <1>1, <1>2, CallBegins DEF TypeInv, Types
<1>7. StoreParts'
  <2>1. Sized'
    BY <1>4, <1>5 DEF StoreInv, Sized, SizedMeta
  <2>2. \A d \in Fds : IsOpen(d) => descriptors[d].file \in Files \ {f}
    BY <1>1, <1>2, DescTyped DEF StoreInv, OwnedInv
  <2>3. Inside'
    BY <1>1, <1>5, <2>2 DEF StoreInv, Inside, IsOpen, FileOf, SizeOf
  <2>4. Unmounted' /\ WriteFits'
    BY <1>1, <1>6 DEF Unmounted, WriteFits, Writing
  <2> QED BY <2>1, <2>3, <2>4 DEF StoreParts
<1>8. f \notin DOMAIN Content
  BY <1>2, ContentValues
<1>9. Content' = [g \in DOMAIN Content \cup {f} |-> IF g = f THEN <<>> ELSE Content[g]]
  <2>1. DOMAIN Content' = DOMAIN Content \cup {f}
    BY <1>4, <1>5 DEF Content
  <2>2. \A g \in DOMAIN Content' : Content'[g] = ContentOf(file_metas'[g], diskData)
    BY <1>1 DEF Content, BytesOf, ByteAt, ContentOf, SizeOf
  <2>3. \A g \in DOMAIN Content : Content[g] = ContentOf(file_metas[g], diskData)
    BY ContentValues
  <2>4. \A g \in DOMAIN Content : g \in Files \ {f}
    BY <1>8, ContentValues
  <2>5. Content'[f] = <<>>
    <3>1. SizeOf(m) = 0
      BY <1>4 DEF SizeOf
    <3>2. ContentOf(m, diskData) = <<>>
      BY <3>1 DEF ContentOf
    <3> QED BY <1>5, <2>1, <2>2, <3>2
  <2>6. \A g \in DOMAIN Content : Content'[g] = Content[g]
    BY <1>5, <2>1, <2>2, <2>3, <2>4
  <2>7. Content' = [g \in DOMAIN Content' |-> Content'[g]]
    BY DEF Content
  <2> QED BY <2>1, <2>5, <2>6, <2>7
<1>10. Opened' = Opened
  BY <1>1 DEF Opened, IsOpen
<1>11. Store!Create(f)
  BY <1>6, <1>8, <1>9, <1>10 DEF Store!Create, Content, Opened
<1> QED BY <1>7, <1>11 DEF StoreStep, Store!StoreNext

LEMMA DeleteStores ==
    ASSUME StoreInv, NEW name \in Names, fs_delete(name), ~Stray, "delete_open" \notin Calls
    PROVE  StoreParts' /\ StoreStep
<1>1. /\ TypeInv /\ Mounted /\ active /\ file_metas \in [Files -> MetaType]
      /\ \A d \in Fds : ~IsOpen(d)
  BY DEF StoreInv, OwnedInv, fs_delete, Mounted, TypeInv, Types
<1>2. PICK f \in Files :
         /\ file_metas[f].in_use /\ ThenSave(f)
         /\ file_metas' = [file_metas EXCEPT ![f] = [file_metas[f] EXCEPT !.in_use = FALSE]]
         /\ UNCHANGED <<diskVars, active, descriptors, proc>>
  BY <1>1, DeleteEffect
<1>3. PICK m : m = [file_metas[f] EXCEPT !.in_use = FALSE]
  OBVIOUS
<1>4. m.in_use = FALSE
  BY <1>1, <1>3 DEF MetaType
<1>5. \A g \in Files : file_metas'[g] = IF g = f THEN m ELSE file_metas[g]
  BY <1>1, <1>2, <1>3
<1>6. call'.pc = "save_info" /\ call'.got = call.got
  BY <1>1, <1>2, CallBegins DEF TypeInv, Types
<1>7. UNCHANGED <<diskData, active, descriptors>>
  BY <1>2 DEF diskVars
<1>8. StoreParts'
  <2>1. Sized'
    BY <1>4, <1>5 DEF StoreInv, Sized
  <2>2. Inside' /\ Unmounted' /\ WriteFits'
    BY <1>1, <1>6, <1>7 DEF Inside, IsOpen, Unmounted, WriteFits, Writing
  <2> QED BY <2>1, <2>2 DEF StoreParts
<1>9. f \in DOMAIN Content
  BY <1>2, ContentValues
<1>10. Content' = [g \in DOMAIN Content \ {f} |-> Content[g]]
  <2>1. DOMAIN Content' = DOMAIN Content \ {f}
    BY <1>4, <1>5 DEF Content
  <2>2. \A g \in DOMAIN Content' : Content'[g] = ContentOf(file_metas'[g], diskData)
    BY <1>7 DEF Content, BytesOf, ByteAt, ContentOf, SizeOf
  <2>3. \A g \in DOMAIN Content : g \in Files /\ Content[g] = ContentOf(file_metas[g], diskData)
    BY ContentValues
  <2>4. \A g \in DOMAIN Content \ {f} : Content'[g] = Content[g]
    BY <1>5, <2>1, <2>2, <2>3
  <2>5. Content' = [g \in DOMAIN Content' |-> Content'[g]]
    BY DEF Content
  <2> QED BY <2>1, <2>4, <2>5
<1>11. Opened' = Opened
  BY <1>7 DEF Opened, IsOpen
<1>12. Store!Delete(f)
  BY <1>6, <1>9, <1>10, <1>11 DEF Store!Delete, Content, Opened
<1> QED BY <1>8, <1>12 DEF StoreStep, Store!StoreNext

LEMMA NextStores ==
    ASSUME Calls \subseteq {"kill"}
    PROVE  StoreInv /\ [Next]_vars => StoreInv' /\ StoreStep
<1>1. /\ "make_mounted" \notin Calls /\ "remount" \notin Calls /\ "truncate" \notin Calls
      /\ "straddle" \notin Calls /\ "delete_open" \notin Calls
      /\ Calls \cap {"remount", "truncate", "delete_open"} = {}
  OBVIOUS
<1> SUFFICES ASSUME StoreInv, [Next]_vars PROVE StoreInv' /\ StoreStep
  OBVIOUS
<1>2. OwnedInv'
  BY <1>1, NextOwned DEF StoreInv
<1> SUFFICES StoreParts' /\ StoreStep
  BY <1>2 DEF StoreInv, StoreParts
<1>3. TypeInv
  BY DEF StoreInv, OwnedInv
<1>4. ASSUME UNCHANGED <<diskVars, memVars, call>> PROVE StoreParts' /\ StoreStep
  <2>1. UNCHANGED <<diskData, memVars, call>>
    BY <1>4 DEF diskVars
  <2>2. WriteFits'
    BY <2>1 DEF StoreInv, WriteFits, Writing, Cursor, FileOf, SizeOf, memVars
  <2> QED BY <2>1, <2>2, QuietParts, StaysStored
<1>5. CASE UNCHANGED vars
  BY <1>4, <1>5 DEF vars
<1>6. CASE Stray
  BY <1>4, <1>6 DEF Stray
<1>7. CASE make_fs \/ mount_fs \/ umount_fs \/ Kill
  BY <1>1, <1>7, MountStores
<1>8. CASE SaveInfo \/ SaveFirst \/ SaveSecond \/ ReadEnd \/ WriteEnd
  BY <1>8, QuietStores
<1>9. CASE \E name \in Names : fs_open(name) \/ fs_create(name) \/ fs_delete(name)
  BY <1>1, <1>6, <1>9, OpenStores, CreateStores, DeleteStores
<1>10. ASSUME NEW d \in Fds,
              \/ fs_close(d)
              \/ \E n \in 0 .. MaxSize : fs_lseek(d, n) \/ fs_truncate(d, n)
              \/ \E n \in 1 .. MaxBytes : fs_read(d, n) \/ \E v \in Values : fs_write(d, v, n)
       PROVE  StoreParts' /\ StoreStep
  <2>1. \A n : ~fs_truncate(d, n)
    BY <1>1 DEF fs_truncate
  <2>2. CASE fs_close(d)
    BY <2>2, CloseStores
  <2>3. CASE \E n \in 0 .. MaxSize : fs_lseek(d, n) \/ fs_truncate(d, n)
    BY <2>1, <2>3, SeekStores
  <2>4. CASE \E n \in 1 .. MaxBytes : fs_read(d, n) \/ \E v \in Values : fs_write(d, v, n)
    BY <1>1, <2>4, BeginStores
  <2> QED BY <1>10, <2>2, <2>3, <2>4
<1>11. CASE ReadPiece
  <2> SUFFICES ASSUME ~Stray PROVE StoreParts' /\ StoreStep
    BY <1>6
  <2>1. PICK dist \in 1 .. BlockSize : ReadTurn(dist)
    BY <1>3, <1>11, ReadEffect
  <2>2. StoreParts' /\ \E d \in Fds : Store!Read(d, dist)
    BY <2>1, ReadStores
  <2> QED BY <2>2 DEF StoreStep, Store!StoreNext
<1>12. CASE WriteInside \/ WritePast \/ WriteNewBlock
  <2> SUFFICES ASSUME ~Stray PROVE StoreParts' /\ StoreStep
    BY <1>6
  <2>1. PICK new \in MetaType, pc \in {"write", "append"}, dist \in 1 .. BlockSize :
           Turn(new, pc, dist)
    BY <1>12, WriteTurn
  <2>2. StoreParts'
    BY <2>1, TurnKeeps
  <2>3. \E d \in Fds, v \in Values : Store!Write(d, dist, v)
    BY <1>2, <2>1, TurnStores
  <2> QED BY <2>2, <2>3 DEF StoreStep, Store!StoreNext
<1> QED BY <1>5, <1>7, <1>8, <1>9, <1>10, <1>11, <1>12 DEF Next

\* Files are sequences of bytes, whatever their blocks are and however the pieces
\* of the calls follow each other: fs.c implements FileStore for every size of the
\* disk and of the tables, as long as the clients make the plain calls only and
\* processes may be killed.
THEOREM FilesAreSequences ==
    ASSUME Calls \subseteq {"kill"}
    PROVE  Spec => StoreSpec
<1>1. StoreInv /\ [Next]_vars => StoreInv' /\ StoreStep
  BY NextStores
<1>2. Init => StoreInv /\ Store!StoreInit
  <2> SUFFICES ASSUME Init PROVE StoreInv /\ Store!StoreInit
    OBVIOUS
  <2>1. BlocksOwned /\ CountsFit
    BY BlankOwned DEF Init
  <2>2. \A d \in Fds : ~IsOpen(d)
    BY BlankTyped DEF Init, IsOpen
  <2>3. OwnedInv
    BY <2>1, <2>2, InitTyped DEF OwnedInv, CountsFit
  <2>4. Nothing
    BY DEF Init, Nothing, EmptyMetas, EmptyMeta
  <2>5. NothingShown
    BY <2>4, NothingStored
  <2>6. WriteFits /\ call.got = <<>>
    BY IdleTyped DEF Init, WriteFits, Writing
  <2> QED BY <2>3, <2>5, <2>6 DEF StoreInv, NothingShown, Store!StoreInit, Content,
      Opened
<1>3. StoreStep => [Store!StoreNext]_Store!storeVars
  BY DEF StoreStep
<1> QED BY <1>1, <1>2, <1>3, PTL DEF Spec, StoreSpec, Store!StoreSpec
=============================================================================
