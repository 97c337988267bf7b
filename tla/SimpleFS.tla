------------------------------ MODULE SimpleFS ------------------------------
(***************************************************************************)
(* Project06: the SimpleFS file system (fs.c) on its emulated disk         *)
(* (disk.c), driven by the commands of the shell (shell.c).                *)
(*                                                                         *)
(* A block is an array of words, read as a superblock, as inodes, as       *)
(* pointers or as data depending on who reads it, like the union of fs.h;  *)
(* a byte of data is as wide as a word here.  A step ends with at most one *)
(* disk_write, so that a crash can come between any two of them.           *)
(***************************************************************************)
EXTENDS Integers, FiniteSets, FiniteSetsExt

CONSTANTS
  NBLOCKS,             \* blocks of the disk
  INODES_PER_BLOCK,
  POINTERS_PER_INODE,
  FS_MAGIC,
  CHUNK,               \* bytes that copyin hands to one fs_write
  Values,              \* what the bytes of a file copied in can be
  Lengths,             \* how long such a file can be
  Inumbers,            \* the inode numbers typed at the shell
  Garbage,             \* what a word of an uninitialised block can be
  Habits,              \* what the user may do: records with the fields delete,
                       \* whether files are deleted, overwrite, whether files
                       \* that are not empty are copied into, reformat, whether
                       \* a disk is formatted once only ("never"), or again
                       \* unless files are where fs_format clears nothing
                       \* ("cleared"), or even then ("any"), maxFiles, how
                       \* many files there are at most, and maxLength, how long
                       \* a file copied in is at most
  MaxSize              \* bound on the size field of an inode

\* ceil(0.10 * nblocks) blocks hold inodes.
NInodeBlocks == (NBLOCKS + 9) \div 10
NInodes == NInodeBlocks * INODES_PER_BLOCK

\* isvalid, size, two words of ctime, the direct pointers and the indirect one.
InodeWords == POINTERS_PER_INODE + 5
BLOCK_SIZE == INODES_PER_BLOCK * InodeWords
POINTERS_PER_BLOCK == BLOCK_SIZE

BlockNumbers == 0..NBLOCKS - 1
Words == 0..BLOCK_SIZE - 1

ASSUME SimpleFSAssumption ==
  /\ NBLOCKS \in Nat /\ INODES_PER_BLOCK \in Nat \ {0}
  /\ POINTERS_PER_INODE \in Nat \ {0}
  /\ NBLOCKS > NInodeBlocks + 1
  /\ FS_MAGIC \in Nat \ {0}
  /\ CHUNK \in Nat \ {0} /\ CHUNK % BLOCK_SIZE = 0
  /\ Values \subseteq Nat
  /\ Lengths \subseteq
       1..(POINTERS_PER_INODE + POINTERS_PER_BLOCK) * BLOCK_SIZE
  /\ Inumbers \subseteq Nat /\ Garbage \subseteq Int /\ Garbage # {}
  /\ Habits \subseteq [delete : BOOLEAN, overwrite : BOOLEAN,
                       reformat : {"never", "cleared", "any"},
                       maxFiles : Nat, maxLength : Nat]
  /\ MaxSize \in Nat

VARIABLES
  disk,             \* the blocks of the disk image, which survive a crash
  isMounted,
  freeBitmapBlock,  \* 1 for a block in use, built by fs_mount
  call,             \* the locals of the call in progress
  habit             \* what the user may do, chosen once

vars == <<disk, isMounted, freeBitmapBlock, call, habit>>

ZeroBlock == [w \in Words |-> 0]
NoBitmap == [n \in BlockNumbers |-> 0]
Idle == [op |-> "none"]

Init ==
  /\ disk = [n \in BlockNumbers |-> ZeroBlock]
  /\ isMounted = FALSE
  /\ freeBitmapBlock = NoBitmap
  /\ call = Idle
  /\ habit \in Habits

-----------------------------------------------------------------------------
(* The union of fs.h: the words of block b as inode j.                     *)

At(j, w) == j * InodeWords + w
isvalid(b, j) == b[At(j, 0)]
size(b, j) == b[At(j, 1)]
direct(b, j, k) == b[At(j, 4 + k)]
indirect(b, j) == b[At(j, 4 + POINTERS_PER_INODE)]

\* Where an inode number leads.
InodeBlock(i) == i \div INODES_PER_BLOCK + 1
InodeOffset(i) == i % INODES_PER_BLOCK

Directs == 0..POINTERS_PER_INODE - 1

\* The files of the inode table (inumber 0 is never handed out), and whether some
\* are in its last block.
InodeOf(d, i, w) == d[InodeBlock(i)][At(InodeOffset(i), w)]
IsFile(d, i) == InodeOf(d, i, 0) # 0
Files(d) == { i \in 1..NInodes - 1 : IsFile(d, i) }
LastBlockUsed(d) == \E i \in Files(d) : InodeBlock(i) = NInodeBlocks

\* disk_read and disk_write abort the program on any other block.
OnDisk(n) == n \in BlockNumbers

\* Every positive pointer of inode j of block b, given what is on disk d, and
\* the positive words of its indirect block.
Pointers(d, b, j) ==
  LET ind == indirect(b, j)
      own == { direct(b, j, k) : k \in Directs } \cup {ind}
      far == IF ind > 0 /\ OnDisk(ind) THEN { d[ind][w] : w \in Words } ELSE {}
  IN { n \in own \cup far : n > 0 }

-----------------------------------------------------------------------------
(* A definition named Mut... is a plausible slip in the one after it.      *)

Return == call' = Idle

\* The program ends, by quit, a crash or an abort; the disk image is kept.
Restart ==
  /\ isMounted' = FALSE
  /\ freeBitmapBlock' = NoBitmap
  /\ call' = Idle
  /\ UNCHANGED disk
Crash == (isMounted \/ call # Idle) /\ Restart

\* fs_format writes the superblock, then the inode blocks up to the last but
\* one, from one image whose other words were never set.
FormatSuper ==
  /\ call = Idle /\ ~isMounted
  /\ habit.reformat = "never" => disk[0][0] # FS_MAGIC
  /\ habit.reformat = "any" \/ ~LastBlockUsed(disk)
  /\ \E g \in [Words -> Garbage] :
       LET super == [g EXCEPT ![0] = FS_MAGIC, ![1] = NBLOCKS,
                              ![2] = NInodeBlocks, ![3] = NInodes]
       IN /\ disk' = [disk EXCEPT ![0] = super]
          /\ call' = [op |-> "format", i |-> 1,
                      block |-> [w \in Words |->
                        IF w % InodeWords = 0 THEN 0 ELSE super[w]]]
  /\ UNCHANGED <<isMounted, freeBitmapBlock>>

FormatInodes ==
  /\ call.op = "format" /\ call.i < NInodeBlocks
  /\ disk' = [disk EXCEPT ![call.i] = call.block]
  /\ call' = [call EXCEPT !.i = @ + 1]
  /\ UNCHANGED <<isMounted, freeBitmapBlock>>

FormatReturn ==
  /\ call.op = "format" /\ call.i >= NInodeBlocks
  /\ Return
  /\ UNCHANGED <<disk, isMounted, freeBitmapBlock>>

\* The blocks fs_mount finds in use: the superblock, the inode blocks, and what
\* the inodes with isvalid = 1 point to.
InodeSlots == (1..NInodeBlocks) \X (0..INODES_PER_BLOCK - 1)
MutInUse(d) ==
  (0..NInodeBlocks) \cup
  UNION { { n \in {direct(d[s[1]], s[2], k) : k \in Directs} : n > 0 } :
            s \in { s \in InodeSlots : isvalid(d[s[1]], s[2]) = 1 } }
InUse(d) ==
  (0..NInodeBlocks) \cup
  UNION { Pointers(d, d[s[1]], s[2]) :
            s \in { s \in InodeSlots : isvalid(d[s[1]], s[2]) = 1 } }

\* fs_mount finds the superblock of fs_format and builds the bitmap.
Mount ==
  /\ call = Idle /\ ~isMounted
  /\ disk[0][0] = FS_MAGIC
  /\ IF \A s \in InodeSlots :
          isvalid(disk[s[1]], s[2]) = 1 =>
            indirect(disk[s[1]], s[2]) <= 0
              \/ OnDisk(indirect(disk[s[1]], s[2]))
     THEN /\ isMounted' = TRUE
          /\ freeBitmapBlock' =
               [n \in BlockNumbers |-> IF n \in InUse(disk) THEN 1 ELSE 0]
          /\ UNCHANGED <<disk, call>>
     ELSE Restart

-----------------------------------------------------------------------------
(* fs_create.                                                              *)

\* The inodes fs_create looks at, and those it finds free: the first inode is
\* skipped, and the block after the last inode block is looked at as well.
CreateSlots ==
  ((1..NInodeBlocks + 1) \X (0..INODES_PER_BLOCK - 1)) \ {<<1, 0>>}
FreeSlots == { s \in CreateSlots : isvalid(disk[s[1]], s[2]) = 0 }
Before(s, t) == s[1] < t[1] \/ (s[1] = t[1] /\ s[2] < t[2])
FirstFree == CHOOSE s \in FreeSlots : \A t \in FreeSlots : s = t \/ Before(s, t)

\* The files there are, and the bound on them.
FileSlots == { s \in InodeSlots : isvalid(disk[s[1]], s[2]) # 0 }
MayCreate == Cardinality(FileSlots) < habit.maxFiles

\* The positive words of the block that the free inode still points to are
\* cleared, whoever owns that block now ...
Cleared(b) == [w \in Words |-> IF b[w] > 0 THEN 0 ELSE b[w]]

CreateClear ==
  /\ call = Idle /\ isMounted /\ MayCreate /\ FreeSlots # {}
  /\ LET ind == indirect(disk[FirstFree[1]], FirstFree[2])
     IN /\ ind > 0
        /\ IF OnDisk(ind)
           THEN /\ disk' = [disk EXCEPT ![ind] = Cleared(@)]
                /\ call' = [op |-> "create", slot |-> FirstFree,
                            block |-> disk[FirstFree[1]]]
                /\ UNCHANGED <<isMounted, freeBitmapBlock>>
           ELSE Restart

\* An inode of block b with isvalid set, no size, the time (any will do, it is
\* never read) and no pointers.
MutFreshSize(b, j) ==
  [w \in Words |->
    IF w \in {At(j, 0), At(j, 2)} THEN 1
    ELSE IF w \in At(j, 3)..At(j, InodeWords - 1) THEN 0 ELSE b[w]]
Fresh(b, j) ==
  [w \in Words |->
    IF w \in {At(j, 0), At(j, 2)} THEN 1
    ELSE IF w \in At(j, 1)..At(j, InodeWords - 1) THEN 0 ELSE b[w]]

\* ... and the inode is written: when its indirect pointer was not positive,
\* as the only write of the call.
CreateWrite ==
  \/ /\ call = Idle /\ isMounted /\ MayCreate /\ FreeSlots # {}
     /\ indirect(disk[FirstFree[1]], FirstFree[2]) <= 0
     /\ disk' = [disk EXCEPT ![FirstFree[1]] = Fresh(@, FirstFree[2])]
     /\ UNCHANGED <<isMounted, freeBitmapBlock, call>>
  \/ /\ call.op = "create"
     /\ disk' = [disk EXCEPT ![call.slot[1]] =
                   Fresh(call.block, call.slot[2])]
     /\ Return
     /\ UNCHANGED <<isMounted, freeBitmapBlock>>

-----------------------------------------------------------------------------
(* fs_delete: the inode block is read before the number is checked.        *)

Deletable(i) == i <= NInodes /\ i >= 1

MutFreed(d, b, j) == { direct(b, j, k) : k \in Directs } \ {0}
Freed(d, b, j) == Pointers(d, b, j)

Delete(i) ==
  /\ call = Idle /\ isMounted /\ habit.delete
  /\ IF ~OnDisk(InodeBlock(i))
     THEN Restart
     ELSE LET b == disk[InodeBlock(i)]
              j == InodeOffset(i)
          IN /\ Deletable(i) /\ isvalid(b, j) # 0
             /\ disk' = [disk EXCEPT ![InodeBlock(i)][At(j, 0)] = 0]
             /\ IF indirect(b, j) > 0 /\ ~OnDisk(indirect(b, j))
                THEN isMounted' = FALSE /\ freeBitmapBlock' = NoBitmap
                ELSE /\ freeBitmapBlock' = [n \in BlockNumbers |->
                          IF n \in Freed(disk', b, j) THEN 0 ELSE freeBitmapBlock[n]]
                     /\ UNCHANGED isMounted
             /\ UNCHANGED call

-----------------------------------------------------------------------------
(* fs_write, as copyin calls it: for one chunk of the file after another,  *)
(* from the start.  A chunk is whole blocks, so dataOffset is always 0.    *)

getFreeBlock ==
  LET free == { n \in BlockNumbers : freeBitmapBlock[n] = 0 }
  IN IF free = {} THEN 0 ELSE Min(free)

MutMark(n) == UNCHANGED freeBitmapBlock
Mark(n) == freeBitmapBlock' = [freeBitmapBlock EXCEPT ![n] = 1]

CopyIn(i) ==
  /\ call = Idle /\ isMounted
  /\ IF ~OnDisk(InodeBlock(i))
     THEN Restart
     ELSE LET b == disk[InodeBlock(i)]
              j == InodeOffset(i)
          IN \E n \in Lengths, v \in Values :
               /\ isvalid(b, j) # 0
               /\ n <= habit.maxLength
               /\ habit.overwrite \/ size(b, j) = 0
               /\ size(b, j) + n <= MaxSize
               /\ call' = [op |-> "write", i |-> i, v |-> v, block |-> b,
                           ind |-> ZeroBlock, far |-> FALSE, bi |-> 0,
                           done |-> 0, todo |-> Min({CHUNK, n}),
                           left |-> n - Min({CHUNK, n})]
               /\ UNCHANGED <<disk, isMounted, freeBitmapBlock>>

Writing == call.op = "write" /\ call.todo > 0

\* The word of the inode block the next byte goes through, and the block the
\* byte goes to.
Word == At(InodeOffset(call.i), 4 + Min({call.bi, POINTERS_PER_INODE}))
Address == IF call.far THEN call.ind[call.bi - POINTERS_PER_INODE]
           ELSE call.block[Word]

\* A full disk ends fs_write at once, and with it copyin.
DiskFull ==
  getFreeBlock = 0 /\ Return /\ UNCHANGED <<disk, isMounted, freeBitmapBlock>>

\* The direct or the indirect pointer is set, and the inode block written.
AllocateInInode ==
  /\ Writing /\ ~call.far /\ Address = 0
  /\ \/ DiskFull
     \/ /\ getFreeBlock # 0
        /\ LET b == [call.block EXCEPT ![Word] = getFreeBlock]
           IN /\ disk' = [disk EXCEPT ![InodeBlock(call.i)] = b]
              /\ call' = [call EXCEPT !.block = b]
        /\ Mark(getFreeBlock) /\ UNCHANGED isMounted

\* The indirect block is read: as it is, when it was just allocated.
ReadIndirect ==
  /\ Writing /\ ~call.far /\ Address # 0 /\ call.bi >= POINTERS_PER_INODE
  /\ IF OnDisk(Address)
     THEN /\ call' = [call EXCEPT !.far = TRUE, !.ind = disk[Address]]
          /\ UNCHANGED <<disk, isMounted, freeBitmapBlock>>
     ELSE Restart

AllocateInIndirect ==
  /\ Writing /\ call.far /\ Address = 0
  /\ \/ DiskFull
     \/ /\ getFreeBlock # 0
        /\ LET p == [call.ind EXCEPT
                      ![call.bi - POINTERS_PER_INODE] = getFreeBlock]
           IN /\ disk' = [disk EXCEPT ![call.block[Word]] = p]
              /\ call' = [call EXCEPT !.ind = p]
        /\ Mark(getFreeBlock) /\ UNCHANGED isMounted

\* A block of data is read, filled and written; the size grows by as many
\* bytes in the copy of the inode, whether they are new or overwrite others.
\* The bytes of a file's block k are all the same, and differ from the next.
FileByte(v, k) == v + k
MutPiece == BLOCK_SIZE
Piece == Min({BLOCK_SIZE, call.todo})

WriteData ==
  /\ Writing /\ Address # 0 /\ (call.bi >= POINTERS_PER_INODE => call.far)
  /\ IF OnDisk(Address)
     THEN /\ disk' = [disk EXCEPT ![Address] = [w \in Words |->
                        IF w < Piece THEN FileByte(call.v, call.bi)
                        ELSE disk[Address][w]]]
          /\ call' = [call EXCEPT
               !.block[At(InodeOffset(call.i), 1)] = @ + Piece,
               !.bi = @ + 1, !.done = @ + Piece, !.todo = @ - Piece]
          /\ UNCHANGED <<isMounted, freeBitmapBlock>>
     ELSE Restart

\* The inode is written at the end, and copyin goes on to the next chunk.
MutRecorded(d) == d
Recorded(d) == [d EXCEPT ![InodeBlock(call.i)] = call.block]

FinishChunk ==
  /\ call.op = "write" /\ call.todo = 0
  /\ disk' = Recorded(disk)
  /\ IF call.left = 0
     THEN Return
     ELSE call' = [call EXCEPT !.far = FALSE, !.ind = ZeroBlock,
                    !.todo = Min({CHUNK, call.left}),
                    !.left = @ - Min({CHUNK, call.left})]
  /\ UNCHANGED <<isMounted, freeBitmapBlock>>

-----------------------------------------------------------------------------
Next ==
  /\ \/ FormatSuper \/ FormatInodes \/ FormatReturn
     \/ Mount \/ Crash
     \/ CreateClear \/ CreateWrite
     \/ \E i \in Inumbers : Delete(i) \/ CopyIn(i)
     \/ AllocateInInode \/ ReadIndirect \/ AllocateInIndirect
     \/ WriteData \/ FinishChunk
  /\ UNCHANGED habit

Spec == Init /\ [][Next]_vars

-----------------------------------------------------------------------------
(* fs_read, as copyout calls it until it returns nothing: the bytes of file *)
(* i on the disk d.  A byte whose block is not on the disk aborts (-1).    *)

BlockOf(d, i, k) ==
  IF k < POINTERS_PER_INODE THEN InodeOf(d, i, 4 + k)
  ELSE LET ind == InodeOf(d, i, 4 + POINTERS_PER_INODE)
       IN IF OnDisk(ind) THEN d[ind][k - POINTERS_PER_INODE] ELSE -1

Readable(d, i) ==
  LET far == IF InodeOf(d, i, 4 + POINTERS_PER_INODE) = 0
             THEN 0 ELSE POINTERS_PER_BLOCK
  IN Min({InodeOf(d, i, 1), (POINTERS_PER_INODE + far) * BLOCK_SIZE})

Contents(d, i) ==
  [o \in 0..Readable(d, i) - 1 |->
     LET n == BlockOf(d, i, o \div BLOCK_SIZE)
     IN IF OnDisk(n) THEN d[n][o % BLOCK_SIZE] ELSE -1]

\* fs_getsize of a mounted disk.
InTable(i) == i >= 1 /\ i <= NInodes
fs_getsize(d, i) ==
  IF InTable(i) /\ IsFile(d, i) THEN InodeOf(d, i, 1) ELSE -1

\* fs_debug.
Scan == INSTANCE FsDebug WITH
  FirstPointer <- 4, Skipped <- {<<1, 0>>}
fs_debug(d) == Scan!Report(d)

-----------------------------------------------------------------------------
(* Properties.                                                             *)

\* What the locals of a call in progress can be.
Block == [Words -> Int]
Calls ==
  {Idle}
  \cup [op : {"format"}, i : Nat \ {0}, block : Block]
  \cup [op : {"create"}, slot : CreateSlots, block : Block]
  \cup [op : {"write"}, i : { i \in Inumbers : OnDisk(InodeBlock(i)) },
        v : Values, block : Block, ind : Block, far : BOOLEAN, bi : Nat,
        done : Nat, todo : 0..CHUNK, left : Nat]

\* The variables hold what their declarations say, a call never has a negative
\* number of bytes left to write, and the bitmap has a bit for every block.
TypeOK ==
  /\ disk \in [BlockNumbers -> Block]
  /\ isMounted \in BOOLEAN
  /\ freeBitmapBlock \in [BlockNumbers -> {0, 1}]
  /\ call \in Calls
  /\ call.op \in {"create", "write"} => isMounted
  /\ habit \in Habits

\* Every place of an inode, or of its indirect block, that points somewhere.
Places(d, i) ==
  {<<i, k>> : k \in { k \in 0..POINTERS_PER_INODE : InodeOf(d, i, 4 + k) # 0 }}
  \cup {<<i, k>> :
         k \in { k \in POINTERS_PER_INODE + 1..POINTERS_PER_INODE +
                                                POINTERS_PER_BLOCK :
               LET ind == InodeOf(d, i, 4 + POINTERS_PER_INODE)
               IN ind > 0 /\ OnDisk(ind) /\
                  d[ind][k - POINTERS_PER_INODE - 1] # 0 }}
Target(d, p) ==
  IF p[2] <= POINTERS_PER_INODE THEN InodeOf(d, p[1], 4 + p[2])
  ELSE BlockOf(d, p[1], p[2] - 1)

\* No block is in two places: two files, or two places of one file, never share
\* a block, and none is in the superblock or the inode table, at any point of
\* any call and after any crash (getFreeBlock, fs_mount, fs_delete).
NoSharedBlock ==
  LET places == UNION { Places(disk, i) : i \in Files(disk) }
  IN /\ \A p \in places : Target(disk, p) \in NInodeBlocks + 1..NBLOCKS - 1
     /\ \A p, q \in places : Target(disk, p) = Target(disk, q) => p = q

\* While the disk is mounted the bitmap marks the superblock, the inode table and
\* what the files point to, and nothing else: no sequence of mounts, deletes and
\* writes that run out of disk loses a block, or gives out one that is in use.
BitmapExact ==
  isMounted => \A n \in BlockNumbers :
    freeBitmapBlock[n] = 1 <=>
      \/ n <= NInodeBlocks
      \/ \E i \in Files(disk) : \E p \in Places(disk, i) : Target(disk, p) = n

\* fs_debug, run between two commands on a mounted disk, reports no pointer out
\* of range, and lists exactly the blocks that the bitmap of fs_mount, kept up to
\* date by every allocation and delete since, has beyond the inode table.
DebugExact ==
  isMounted /\ call = Idle =>
    /\ ~fs_debug(disk).error
    /\ fs_debug(disk).blocks =
         { n \in BlockNumbers : n > NInodeBlocks /\ freeBitmapBlock[n] = 1 }

\* What the user of the shell sees: a file is what copyout gives, and the shell's
\* copyin copies into it, chunk by chunk.
FilesOf(d) == [i \in Files(d) |-> Contents(d, i)]
Data(v, n) == [o \in 0..n - 1 |-> FileByte(v, o \div BLOCK_SIZE)]
Operation ==
  CASE call.op = "format" -> [kind |-> "format"]
    [] call.op = "write" ->
         [kind |-> "copy", file |-> call.i,
          data |-> Data(call.v, call.done + call.todo + call.left),
          length |-> call.done + call.todo + call.left,
          left |-> call.todo + call.left]
    [] OTHER -> [kind |-> "idle"]

\* SimpleFS implements FileStore.
Store == INSTANCE FileStore WITH
  Inumbers <- 1..NInodes - 1, files <- FilesOf(disk), up <- isMounted,
  op <- Operation
StoreSpec == Store!Spec

\* fs.c:325: fs_create makes a new inode of zero length, and, as long as every
\* block is in one place, changes no file.
CreateSparesFiles ==
  [][NoSharedBlock /\ (CreateClear \/ CreateWrite) =>
       \A i \in Files(disk) : Contents(disk', i) = Contents(disk, i)]_vars

\* Every byte that fs_getsize counts lies in a block of the file's own: copyout
\* gives as many bytes, and reads none through a pointer that was never set
\* (block 0, the superblock).
SizeBacked ==
  \A i \in Files(disk) :
    LET blocks == (fs_getsize(disk, i) + BLOCK_SIZE - 1) \div BLOCK_SIZE
    IN /\ fs_getsize(disk, i) = Readable(disk, i)
       /\ \A k \in 0..blocks - 1 : BlockOf(disk, i, k) # 0

\* fs.c:47: when fs_format returns, the inode table is clear.
FormatClears == [][FormatReturn => Files(disk) = {}]_vars

\* fs.c:681: what fs_write writes goes to blocks allocated to the file, never
\* into the inode table or a block that is free.
WritesOwnBlocks ==
  [][WriteData /\ isMounted' =>
       Address > NInodeBlocks /\ freeBitmapBlock[Address] = 1]_vars

\* fs.c:681-683: when the disk becomes full, the bytes that fs_write says it has
\* written are in the file.
ShortCopyCounted ==
  [][Writing /\ DiskFull => fs_getsize(disk', call.i) >= call.done]_vars
=============================================================================
