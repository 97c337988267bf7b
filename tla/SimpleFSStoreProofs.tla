------------------------ MODULE SimpleFSStoreProofs ------------------------
(***************************************************************************)
(* Theorems about what the user of SimpleFS sees, for any size of the      *)
(* disk, of its blocks and of its inodes: fs_debug reports the bitmap, the *)
(* bytes that a size counts have blocks, and the calls, with the crashes   *)
(* between their disk writes, implement FileStore.                         *)
(***************************************************************************)
EXTENDS SimpleFSProofs

-----------------------------------------------------------------------------
(* What is read of a file.                                                 *)

\* The words of an inode that are read.
ReadWords == PointerWords \cup {0, 1, InodeWords - 1}
SameFile(d, s, e) == \A w \in ReadWords : FieldOf(e, s, w) = FieldOf(d, s, w)

\* The bytes of the inode in slot s that copyout gives, and byte o of them.
Visible(d, s) ==
  IF FieldOf(d, s, 1) <= POINTERS_PER_INODE * BLOCK_SIZE
  THEN FieldOf(d, s, 1) ELSE POINTERS_PER_INODE * BLOCK_SIZE
ByteOf(d, s, o) ==
  LET n == FieldOf(d, s, 4 + (o \div BLOCK_SIZE))
  IN IF OnDisk(n) THEN d[n][o % BLOCK_SIZE] ELSE -1

LEMMA ReadWordsAre ==
  /\ ReadWords \subseteq 0..InodeWords - 1 /\ PointerWords \subseteq ReadWords
  /\ 0 \in ReadWords /\ 1 \in ReadWords /\ InodeWords - 1 \in ReadWords
  /\ 2 \notin ReadWords /\ 3 \notin ReadWords
  /\ \A w \in PointerWords : w # 0 /\ w # 1 /\ w # InodeWords - 1
  /\ \A w \in ReadWords : w # 1 => w \in PointerWords \cup {0, InodeWords - 1}
  /\ \A k \in Directs : 4 + k \in ReadWords /\ 4 + k # 1
  /\ 0 # InodeWords - 1 /\ 1 # InodeWords - 1
BY Sizes, PointerWordsAre DEF ReadWords, PointerWords

LEMMA SameFileSlot ==
  ASSUME NEW d, NEW s, NEW e, SameFile(d, s, e)
  PROVE  SameSlot(d, s, e)
BY ReadWordsAre DEF SameFile, SameSlot, ReadWords

LEMMA DirectSpace == POINTERS_PER_INODE * BLOCK_SIZE \in Nat \ {0}
<1>1. \A a, b \in Nat \ {0} : a * b \in Nat \ {0}
  OBVIOUS
<1> QED
  BY <1>1, Sizes

\* A byte within the direct blocks is in one of them.
LEMMA BytePlace ==
  ASSUME NEW m \in Nat, NEW o \in Nat, o < m * BLOCK_SIZE
  PROVE  /\ o \div BLOCK_SIZE \in 0..m - 1 /\ o % BLOCK_SIZE \in Words
         /\ o = (o \div BLOCK_SIZE) * BLOCK_SIZE + (o % BLOCK_SIZE)
<1> DEFINE q == o \div BLOCK_SIZE
           r == o % BLOCK_SIZE
<1>1. q \in Nat /\ r \in 0..BLOCK_SIZE - 1 /\ o = q * BLOCK_SIZE + r
  BY Divided, Sizes
<1> HIDE DEF q, r
<1>2. q < m
  <2> SUFFICES ASSUME m <= q PROVE FALSE
    BY <1>1
  <2>1. m * BLOCK_SIZE <= q * BLOCK_SIZE
    BY <1>1, Sizes, ProductMonotone
  <2>2. m * BLOCK_SIZE \in Nat /\ q * BLOCK_SIZE \in Nat
    BY <1>1, Sizes
  <2> QED
    BY <1>1, <2>1, <2>2
<1>3. q \in 0..m - 1 /\ r \in Words
  BY <1>1, <1>2 DEF Words
<1> QED
  BY <1>1, <1>3 DEF q, r

\* What copyout gives of a file without an indirect block.
LEMMA ContentsAre ==
  ASSUME NEW d, TableOK(d), NEW i \in 0..NInodes - 1, FieldOf(d, SlotOf(i), 1) \in Nat
  PROVE  /\ Visible(d, SlotOf(i)) \in Nat
         /\ Visible(d, SlotOf(i)) <= POINTERS_PER_INODE * BLOCK_SIZE
         /\ Readable(d, i) = Visible(d, SlotOf(i))
         /\ Contents(d, i) = [o \in 0..Visible(d, SlotOf(i)) - 1 |->
                                ByteOf(d, SlotOf(i), o)]
         /\ \A o \in 0..Visible(d, SlotOf(i)) - 1 :
              o \div BLOCK_SIZE \in Directs /\ o % BLOCK_SIZE \in Words
<1> DEFINE s == SlotOf(i)
           space == POINTERS_PER_INODE * BLOCK_SIZE
<1>1. s \in InodeSlots /\ space \in Nat
  BY NumberToSlot, DirectSpace
<1>2. \A w : InodeOf(d, i, w) = FieldOf(d, s, w)
  BY DEF InodeOf, FieldOf, SlotOf
<1>3. InodeOf(d, i, 4 + POINTERS_PER_INODE) = 0
  <2>1. 4 + POINTERS_PER_INODE = InodeWords - 1
    BY Sizes
  <2> QED
    BY <1>1, <1>2, <2>1 DEF TableOK
<1>4. FieldOf(d, s, 1) \in Nat
  OBVIOUS
<1> HIDE DEF s
<1>5. Visible(d, s) \in Nat /\ Visible(d, s) <= space
  BY <1>1, <1>4 DEF Visible
<1>6. Readable(d, i) = Visible(d, s)
  <2>1. Readable(d, i) = Min({FieldOf(d, s, 1), (POINTERS_PER_INODE + 0) * BLOCK_SIZE})
    BY <1>2, <1>3 DEF Readable
  <2>2. (POINTERS_PER_INODE + 0) * BLOCK_SIZE = space
    BY Sizes
  <2> QED
    BY <1>1, <1>4, <2>1, <2>2, MinOfTwo DEF Visible
<1>7. ASSUME NEW o \in 0..Visible(d, s) - 1
      PROVE  o \div BLOCK_SIZE \in Directs /\ o % BLOCK_SIZE \in Words
  <2>1. o \in Nat /\ o < space
    BY <1>1, <1>5
  <2> QED
    BY <2>1, BytePlace, Sizes DEF Directs
<1>8. ASSUME NEW o \in 0..Visible(d, s) - 1
      PROVE  BlockOf(d, i, o \div BLOCK_SIZE) = FieldOf(d, s, 4 + (o \div BLOCK_SIZE))
  <2> DEFINE k == o \div BLOCK_SIZE
  <2>1. k \in Directs
    BY <1>7
  <2> HIDE DEF k
  <2>2. BlockOf(d, i, k) = FieldOf(d, s, 4 + k)
    BY <1>2, <2>1, Sizes DEF BlockOf, Directs
  <2> QED
    BY <2>2 DEF k
<1>9. Contents(d, i) = [o \in 0..Visible(d, s) - 1 |-> ByteOf(d, s, o)]
  BY <1>6, <1>8 DEF Contents, ByteOf
<1> QED
  BY <1>5, <1>6, <1>7, <1>9 DEF s

LEMMA ContentsDomain ==
  ASSUME NEW d, TableOK(d), NEW i \in 0..NInodes - 1, FieldOf(d, SlotOf(i), 1) \in Nat
  PROVE  /\ DOMAIN Contents(d, i) = 0..Visible(d, SlotOf(i)) - 1
         /\ \A o \in 0..Visible(d, SlotOf(i)) - 1 :
              Contents(d, i)[o] = ByteOf(d, SlotOf(i), o)
BY ContentsAre

\* The contents are the same when the inode and its blocks are.
LEMMA SameContents ==
  ASSUME NEW d, NEW e, TableOK(d), TableOK(e), NEW i \in 0..NInodes - 1,
         FieldOf(d, SlotOf(i), 1) \in Nat, SameFile(d, SlotOf(i), e),
         \A k \in Directs : LET n == FieldOf(d, SlotOf(i), 4 + k)
                            IN n \in BlockNumbers => e[n] = d[n]
  PROVE  Contents(e, i) = Contents(d, i)
<1> DEFINE s == SlotOf(i)
<1>1. FieldOf(e, s, 1) = FieldOf(d, s, 1)
      /\ \A k \in Directs : FieldOf(e, s, 4 + k) = FieldOf(d, s, 4 + k)
  BY ReadWordsAre DEF SameFile
<1>2. Visible(e, s) = Visible(d, s)
  BY <1>1 DEF Visible
<1>3. ASSUME NEW o \in 0..Visible(d, s) - 1
      PROVE  ByteOf(e, s, o) = ByteOf(d, s, o)
  <2>1. o \div BLOCK_SIZE \in Directs
    BY ContentsAre
  <2> QED
    BY <1>1, <2>1 DEF ByteOf, OnDisk
<1>4. /\ Contents(d, i) = [o \in 0..Visible(d, s) - 1 |-> ByteOf(d, s, o)]
      /\ Contents(e, i) = [o \in 0..Visible(e, s) - 1 |-> ByteOf(e, s, o)]
  BY <1>1, ContentsAre
<1> QED
  BY <1>2, <1>3, <1>4

-----------------------------------------------------------------------------
(***************************************************************************)
(* The inductive invariant: DirectInv, and what it leaves out, the         *)
(* superblock, the sizes of the files and their bytes.                     *)
(***************************************************************************)

Superblock == [ZeroBlock EXCEPT ![0] = FS_MAGIC, ![1] = NBLOCKS,
                                ![2] = NInodeBlocks, ![3] = NInodes]

\* Before the first format the disk has no file and is not mounted.
SuperInv ==
  \/ disk[0] = Superblock
  \/ /\ disk[0] = ZeroBlock /\ ~isMounted /\ call = Idle
     /\ \A s \in InodeSlots : ~Used(disk, s)

SizesInv == \A s \in InodeSlots : Used(disk, s) => FieldOf(disk, s, 1) \in Nat

\* The first bi blocks of the inode in slot s are allocated and hold the first
\* done bytes of a file of value v.
Written(d, s, v, bi, done) ==
  /\ bi <= POINTERS_PER_INODE /\ done <= bi * BLOCK_SIZE
  /\ \A k \in Directs : k < bi =>
       /\ FieldOf(d, s, 4 + k) # 0
       /\ \A w \in Words : k * BLOCK_SIZE + w < done =>
            d[FieldOf(d, s, 4 + k)][w] = FileByte(v, k)

\* The size in the copy of the inode: what it was, and what was written since.
Grown == size(call.block, InodeOffset(call.i))

\* The blocks before the next one are full while bytes are left; a file that was
\* empty shows no byte that was not written.
WriteInv ==
  /\ Written(disk, SlotOf(call.i), call.v, call.bi, call.done)
  /\ call.todo + call.left > 0 => call.done = call.bi * BLOCK_SIZE
  /\ Grown \in Nat /\ Grown >= call.done
  /\ Grown = call.done => FieldOf(disk, SlotOf(call.i), 1) <= call.done

StoreInv ==
  /\ DirectInv
  /\ SuperInv /\ SizesInv
  /\ call.op = "write" => WriteInv

LEMMA FileIs ==
  ASSUME NEW d, NEW i
  PROVE  i \in Files(d) <=> i \in 1..NInodes - 1 /\ Used(d, SlotOf(i))
BY DEF Files, IsFile, InodeOf, Used, FieldOf, SlotOf

LEMMA FileNumber ==
  ASSUME NEW i \in 1..NInodes - 1
  PROVE  i \in 0..NInodes - 1 /\ SlotOf(i) \in InodeSlots
<1>1. i \in 0..NInodes - 1
  BY Sizes DEF NInodes
<1> QED
  BY <1>1, NumberToSlot

LEMMA OneNumber ==
  ASSUME NEW i \in 1..NInodes - 1, NEW j \in 1..NInodes - 1, SlotOf(i) = SlotOf(j)
  PROVE  i = j
<1>1. InodeBlock(i) = InodeBlock(j) /\ InodeOffset(i) = InodeOffset(j)
  BY DEF SlotOf
<1> QED
  BY <1>1, FileNumber, NumberToSlot

\* Where the pointers of a file lead: nowhere, or beyond the inode table.
LEMMA PointerTargets ==
  ASSUME NEW d, PointersApart(d), NEW s \in InodeSlots, Used(d, s), NEW k \in Directs
  PROVE  /\ FieldOf(d, s, 4 + k) \notin 1..NInodeBlocks
         /\ FieldOf(d, s, 4 + k) # 0 => /\ FieldOf(d, s, 4 + k) \in BlockNumbers
                                        /\ FieldOf(d, s, 4 + k) > NInodeBlocks
<1>1. 4 + k \in PointerWords
  BY PointerWordsAre
<1>2. FieldOf(d, s, 4 + k) # 0 => FieldOf(d, s, 4 + k) \in NInodeBlocks + 1..NBLOCKS - 1
  BY <1>1 DEF PointersApart
<1> QED
  BY <1>2, Sizes DEF BlockNumbers

-----------------------------------------------------------------------------
(* The files that a change of one block leaves alone.                      *)

\* From disk d to disk e only block n changes.
OneBlock(d, e, n) == \A m \in BlockNumbers : m # n => e[m] = d[m]

\* Block n changes, and the inodes of the numbers outside of S neither change in
\* what is read of them nor point to n.
LEMMA OthersKept ==
  ASSUME NEW d, NEW e, TableOK(d), TableOK(e),
         NEW n, OneBlock(d, e, n),
         NEW i \in 1..NInodes - 1, SameFile(d, SlotOf(i), e),
         Used(d, SlotOf(i)) => /\ FieldOf(d, SlotOf(i), 1) \in Nat
                               /\ \A k \in Directs : FieldOf(d, SlotOf(i), 4 + k) # n
  PROVE  /\ i \in Files(e) <=> i \in Files(d)
         /\ i \in Files(d) => Contents(e, i) = Contents(d, i)
<1>1. Used(e, SlotOf(i)) <=> Used(d, SlotOf(i))
  BY ReadWordsAre DEF SameFile, Used
<1>2. ASSUME Used(d, SlotOf(i))
      PROVE  Contents(e, i) = Contents(d, i)
  <2>1. i \in 0..NInodes - 1
    BY FileNumber
  <2>2. \A k \in Directs : LET m == FieldOf(d, SlotOf(i), 4 + k)
                           IN m \in BlockNumbers => e[m] = d[m]
    BY <1>2 DEF OneBlock
  <2> QED
    BY <1>2, <2>1, <2>2, SameContents
<1> QED
  BY <1>1, <1>2, FileIs

LEMMA OnlyThese ==
  ASSUME NEW S,
         \A i \in 1..NInodes - 1 : i \notin S =>
           /\ i \in Files(disk') <=> i \in Files(disk)
           /\ i \in Files(disk) => Contents(disk', i) = Contents(disk, i)
  PROVE  Store!OnlyChanges(S)
<1>1. Files(disk) \subseteq 1..NInodes - 1 /\ Files(disk') \subseteq 1..NInodes - 1
  BY DEF Files
<1>2. DOMAIN FilesOf(disk) = Files(disk) /\ DOMAIN FilesOf(disk)' = Files(disk')
  BY DEF FilesOf
<1>3. \A i \in Files(disk) \ S : FilesOf(disk)'[i] = FilesOf(disk)[i]
  BY <1>1 DEF FilesOf
<1> QED
  BY <1>1, <1>2, <1>3 DEF Store!OnlyChanges

\* One block of the inode table changes.
LEMMA TableChange ==
  ASSUME DirectInv, SizesInv, TableOK(disk'),
         NEW n \in 1..NInodeBlocks,
         OneBlock(disk, disk', n),
         NEW S,
         \A i \in 1..NInodes - 1 : i \notin S => SameFile(disk, SlotOf(i), disk')
  PROVE  Store!OnlyChanges(S)
<1>1. ASSUME NEW i \in 1..NInodes - 1, i \notin S
      PROVE  /\ i \in Files(disk') <=> i \in Files(disk)
             /\ i \in Files(disk) => Contents(disk', i) = Contents(disk, i)
  <2>1. SlotOf(i) \in InodeSlots
    BY FileNumber
  <2>2. Used(disk, SlotOf(i)) => /\ FieldOf(disk, SlotOf(i), 1) \in Nat
                                 /\ \A k \in Directs : FieldOf(disk, SlotOf(i), 4 + k) # n
    BY <2>1, PointerTargets DEF DirectInv, SizesInv
  <2>3. TableOK(disk) /\ SameFile(disk, SlotOf(i), disk')
    BY <1>1 DEF DirectInv
  <2> QED
    BY <2>2, <2>3, OthersKept
<1> QED
  BY <1>1, OnlyThese

\* Of file i only, in the slot that changes.
LEMMA SlotChange ==
  ASSUME DirectInv, SizesInv, TableOK(disk'), NEW i \in 1..NInodes - 1,
         OneBlock(disk, disk', SlotOf(i)[1]),
         \A s \in InodeSlots : s # SlotOf(i) => SameFile(disk, s, disk')
  PROVE  Store!OnlyChanges({i})
<1>1. SlotOf(i)[1] \in 1..NInodeBlocks
  BY FileNumber, SlotsInRange
<1>2. \A j \in 1..NInodes - 1 : j \notin {i} => SameFile(disk, SlotOf(j), disk')
  BY FileNumber, OneNumber
<1> QED
  BY <1>1, <1>2, TableChange

-----------------------------------------------------------------------------
(* What the store sees of the call in progress.                            *)

LEMMA Operations ==
  /\ call.op \notin {"format", "write"} => Operation = Store!Idle
  /\ call.op = "format" => Operation = Store!Formatting
  /\ call.op = "write" => Operation =
       [kind |-> "copy", file |-> call.i,
        data |-> Data(call.v, call.done + call.todo + call.left),
        length |-> call.done + call.todo + call.left,
        left |-> call.todo + call.left]
BY DEF Operation, Store!Idle, Store!Formatting

LEMMA NextOperations ==
  /\ call'.op \notin {"format", "write"} => Operation' = Store!Idle
  /\ call'.op = "format" => Operation' = Store!Formatting
  /\ call'.op = "write" => Operation' =
       [kind |-> "copy", file |-> call'.i,
        data |-> Data(call'.v, call'.done + call'.todo + call'.left),
        length |-> call'.done + call'.todo + call'.left,
        left |-> call'.todo + call'.left]
BY DEF Operation, Store!Idle, Store!Formatting

LEMMA Formatted ==
  ASSUME StoreInv, isMounted \/ call # Idle
  PROVE  disk[0] = Superblock
BY DEF StoreInv, SuperInv

\* A step that leaves the disk alone and ends the call, or the program.
LEMMA RestKeeps ==
  ASSUME StoreInv, DirectInv', UNCHANGED disk, call' = Idle,
         isMounted' => isMounted
  PROVE  StoreInv'
<1>1. SuperInv'
  BY DEF StoreInv, SuperInv, Used, FieldOf
<1>2. SizesInv'
  BY DEF StoreInv, SizesInv, Used, FieldOf
<1>3. call'.op # "write"
  BY DEF Idle
<1> QED
  BY <1>1, <1>2, <1>3 DEF StoreInv

LEMMA RestartStore ==
  ASSUME StoreInv, Restart, DirectInv'
  PROVE  StoreInv' /\ Store!Crash
<1>1. StoreInv'
  BY RestKeeps DEF Restart
<1>2. Operation' = Store!Idle
  BY NextOperations DEF Restart, Idle
<1>3. FilesOf(disk)' = FilesOf(disk)
  BY DEF Restart
<1> QED
  BY <1>1, <1>2, <1>3 DEF Store!Crash, Restart

-----------------------------------------------------------------------------
(* What a step does to the inodes: each is unused after it, or empty, or as it *)
(* was, but for the file that is written, which may get a block, and the size  *)
(* of the copy of its inode.                                                   *)

KeptSlot(s) ==
  \/ ~Used(disk', s) \/ FieldOf(disk', s, 1) = 0
  \/ SameFile(disk, s, disk')
  \/ /\ call.op = "write" /\ s = SlotOf(call.i)
     /\ FieldOf(disk', s, 1) \in {FieldOf(disk, s, 1), Grown}
     /\ \A k \in Directs : FieldOf(disk, s, 4 + k) # 0 => FieldOf(disk', s, 4 + k) # 0
KeptSlots == \A s \in InodeSlots : KeptSlot(s)

\* What a write counts stays what it has written.
KeptGrown ==
  call.op = "write" /\ call'.op = "write" /\ Grown = call.done => Grown' = call'.done

LEMMA SameDiskKept ==
  ASSUME UNCHANGED disk
  PROVE  KeptSlots
BY DEF KeptSlots, KeptSlot, SameFile

-----------------------------------------------------------------------------
(* fs_format and fs_mount.                                                 *)

LEMMA FormatSuperStore ==
  ASSUME DirectUse, StoreInv, FormatSuper, DirectInv'
  PROVE  StoreInv' /\ KeptSlots /\ Store!BeginFormat /\ Files(disk') = Files(disk)
<1>1. /\ disk' = [disk EXCEPT ![0] = Superblock]
      /\ call'.op = "format" /\ call = Idle /\ ~isMounted /\ UNCHANGED isMounted
  <2>1. PICK g \in [Words -> Garbage] :
          LET super == [g EXCEPT ![0] = FS_MAGIC, ![1] = NBLOCKS,
                                 ![2] = NInodeBlocks, ![3] = NInodes]
          IN /\ disk' = [disk EXCEPT ![0] = super]
             /\ call' = [op |-> "format", i |-> 1,
                         block |-> [w \in Words |->
                           IF w % InodeWords = 0 THEN 0 ELSE super[w]]]
    BY DEF FormatSuper
  <2>2. g = ZeroBlock
    BY DEF DirectUse, ZeroBlock
  <2> QED
    BY <2>1, <2>2 DEF FormatSuper, Superblock
<1>2. disk \in [BlockNumbers -> Block] /\ 0 \in BlockNumbers
  BY Sizes DEF StoreInv, DirectInv, TypeOK, BlockNumbers
<1>3. \A s \in InodeSlots : \A w : FieldOf(disk', s, w) = FieldOf(disk, s, w)
  BY <1>1, <1>2, SlotsInRange DEF FieldOf
<1>4. SuperInv'
  BY <1>1, <1>2 DEF SuperInv
<1>5. SizesInv'
  BY <1>3 DEF StoreInv, SizesInv, Used
<1>6. StoreInv'
  BY <1>1, <1>4, <1>5 DEF StoreInv
<1>7. FilesOf(disk)' = FilesOf(disk)
  <2>1. CASE disk[0] = Superblock
    <3>1. disk' = disk
      BY <1>1, <1>2, <2>1
    <3> QED
      BY <3>1
  <2>2. CASE disk[0] # Superblock
    <3>1. \A s \in InodeSlots : ~Used(disk, s) /\ ~Used(disk', s)
      BY <1>3, <2>2 DEF StoreInv, SuperInv, Used
    <3>2. Files(disk) = {} /\ Files(disk') = {}
      BY <3>1, FileIs, FileNumber DEF Files
    <3> QED
      BY <3>2 DEF FilesOf
  <2> QED
    BY <2>1, <2>2
<1>8. Operation = Store!Idle /\ Operation' = Store!Formatting
  BY <1>1, Operations, NextOperations DEF Idle
<1>9. KeptSlots
  BY <1>3 DEF KeptSlots, KeptSlot, SameFile
<1>10. DOMAIN FilesOf(disk) = Files(disk) /\ DOMAIN FilesOf(disk)' = Files(disk')
  BY DEF FilesOf
<1> QED
  BY <1>1, <1>6, <1>7, <1>8, <1>9, <1>10 DEF Store!BeginFormat

LEMMA FormatInodesStore ==
  ASSUME StoreInv, FormatInodes, DirectInv'
  PROVE  /\ StoreInv' /\ KeptSlots /\ Store!Format
         /\ \A i \in Files(disk') : i \in Files(disk) /\ SlotOf(i)[1] # call.i
<1>1. /\ call.op = "format" /\ call.i \in 1..NInodeBlocks
      /\ disk' = [disk EXCEPT ![call.i] = call.block]
      /\ call'.op = "format" /\ UNCHANGED isMounted
  BY Sizes DEF FormatInodes, StoreInv, DirectInv, TypeOK, Calls, Idle
<1>2. /\ disk \in [BlockNumbers -> Block] /\ call.i \in BlockNumbers
      /\ 0 \in BlockNumbers /\ 0 # call.i
  BY <1>1, Sizes DEF StoreInv, DirectInv, TypeOK, BlockNumbers
<1>3. \A s \in InodeSlots : \A w : FieldOf(disk', s, w) =
        IF s[1] = call.i THEN call.block[At(s[2], w)] ELSE FieldOf(disk, s, w)
  BY <1>1, <1>2, SlotsInRange DEF FieldOf
<1>4. \A s \in InodeSlots : s[1] = call.i => ~Used(disk', s)
  BY <1>1, <1>3, SlotsInRange DEF StoreInv, DirectInv, FormatInv, Used
<1>5. \A s \in InodeSlots : s[1] # call.i => SameFile(disk, s, disk')
  BY <1>3 DEF SameFile
<1>6. SuperInv'
  <2>1. disk[0] = Superblock
    BY <1>1, Formatted DEF Idle
  <2> QED
    BY <1>1, <1>2, <2>1 DEF SuperInv
<1>7. SizesInv'
  BY <1>3, <1>4 DEF StoreInv, SizesInv, Used
<1>8. StoreInv'
  BY <1>1, <1>6, <1>7 DEF StoreInv
<1>9. ASSUME NEW i \in 1..NInodes - 1, i \in Files(disk')
      PROVE  /\ i \in Files(disk) /\ Contents(disk', i) = Contents(disk, i)
             /\ SlotOf(i)[1] # call.i
  <2>1. SlotOf(i) \in InodeSlots
    BY FileNumber
  <2>2. SlotOf(i)[1] # call.i
    BY <1>4, <1>9, <2>1, FileIs
  <2>3. SameFile(disk, SlotOf(i), disk')
    BY <1>5, <2>1, <2>2
  <2>4. Used(disk, SlotOf(i)) =>
          /\ FieldOf(disk, SlotOf(i), 1) \in Nat
          /\ \A k \in Directs : FieldOf(disk, SlotOf(i), 4 + k) # call.i
    BY <1>1, <2>1, PointerTargets DEF StoreInv, DirectInv, SizesInv
  <2>5. TableOK(disk) /\ TableOK(disk')
    BY DEF StoreInv, DirectInv
  <2>6. OneBlock(disk, disk', call.i)
    BY <1>1, <1>2 DEF OneBlock
  <2> QED
    BY <1>9, <2>2, <2>3, <2>4, <2>5, <2>6, OthersKept
<1>10. Files(disk') \subseteq Files(disk) /\ Files(disk') \subseteq 1..NInodes - 1
  BY <1>9 DEF Files
<1>11. Store!OnlyChanges(Files(disk) \ Files(disk'))
  BY <1>9, <1>10, OnlyThese
<1>12. DOMAIN FilesOf(disk) = Files(disk) /\ DOMAIN FilesOf(disk)' = Files(disk')
  BY DEF FilesOf
<1>13. Operation = Store!Formatting /\ Operation' = Store!Formatting
  BY <1>1, Operations, NextOperations
<1>14. KeptSlots
  BY <1>4, <1>5 DEF KeptSlots, KeptSlot
<1> QED
  BY <1>1, <1>8, <1>9, <1>10, <1>11, <1>12, <1>13, <1>14 DEF Store!Format, Files

LEMMA FormatReturnStore ==
  ASSUME StoreInv, FormatReturn, DirectInv'
  PROVE  StoreInv' /\ (Files(disk) = {} => Store!EndFormat)
<1>1. StoreInv'
  BY RestKeeps DEF FormatReturn, Return
<1>2. Operation = Store!Formatting /\ Operation' = Store!Idle
  BY Operations, NextOperations DEF FormatReturn, Return, Idle
<1>3. FilesOf(disk)' = FilesOf(disk) /\ DOMAIN FilesOf(disk) = Files(disk)
  BY DEF FormatReturn, FilesOf
<1> QED
  BY <1>1, <1>2, <1>3 DEF Store!EndFormat, FormatReturn

LEMMA MountStore ==
  ASSUME StoreInv, Mount, DirectInv'
  PROVE  StoreInv' /\ (Store!Mount \/ Store!Crash)
<1>1. CASE Restart
  BY <1>1, RestartStore
<1>2. CASE ~Restart
  <2>1. isMounted' = TRUE /\ UNCHANGED <<disk, call>> /\ call = Idle
    BY <1>2 DEF Mount
  <2>2. disk[0] = Superblock
    <3>1. disk[0][0] # 0
      BY SimpleFSAssumption DEF Mount
    <3>2. 0 \in Words
      BY Sizes DEF Words
    <3> QED
      BY <3>1, <3>2 DEF StoreInv, SuperInv, ZeroBlock
  <2>3. SuperInv' /\ SizesInv'
    BY <2>1, <2>2 DEF StoreInv, SuperInv, SizesInv, Used, FieldOf
  <2>4. StoreInv'
    BY <2>1, <2>3 DEF StoreInv, Idle
  <2>5. Operation = Store!Idle /\ Operation' = Store!Idle
    BY <2>1, Operations, NextOperations DEF Idle
  <2>6. FilesOf(disk)' = FilesOf(disk)
    BY <2>1
  <2> QED
    BY <2>1, <2>4, <2>5, <2>6 DEF Store!Mount
<1> QED
  BY <1>1, <1>2

-----------------------------------------------------------------------------
(* fs_create and fs_delete.                                                *)

\* An idle step that changes the slot of one file, to one unused or empty.
LEMMA SlotStep ==
  ASSUME StoreInv, call = Idle, call' = Idle, isMounted, DirectInv',
         NEW i \in 1..NInodes - 1,
         OneBlock(disk, disk', SlotOf(i)[1]),
         \A s \in InodeSlots : s # SlotOf(i) => SameFile(disk, s, disk'),
         ~Used(disk', SlotOf(i)) \/ FieldOf(disk', SlotOf(i), 1) = 0
  PROVE  StoreInv' /\ KeptSlots /\ Store!OnlyChanges({i})
<1>1. SuperInv'
  <2>1. disk[0] = Superblock
    BY Formatted
  <2>2. 0 \in BlockNumbers /\ 0 # SlotOf(i)[1]
    BY FileNumber, SlotsInRange, Sizes DEF BlockNumbers
  <2> QED
    BY <2>1, <2>2 DEF SuperInv, OneBlock
<1>2. SizesInv'
  <2> SUFFICES ASSUME NEW s \in InodeSlots, Used(disk', s)
               PROVE  FieldOf(disk', s, 1) \in Nat
    BY DEF SizesInv
  <2>1. CASE s = SlotOf(i)
    BY <2>1
  <2>2. CASE s # SlotOf(i)
    <3>1. SameFile(disk, s, disk')
      BY <2>2
    <3>2. Used(disk, s) /\ FieldOf(disk', s, 1) = FieldOf(disk, s, 1)
      BY <3>1, ReadWordsAre DEF SameFile, Used
    <3> QED
      BY <3>2 DEF StoreInv, SizesInv
  <2> QED
    BY <2>1, <2>2
<1>3. StoreInv'
  BY <1>1, <1>2 DEF StoreInv, Idle
<1>4. DirectInv /\ SizesInv /\ TableOK(disk')
  BY DEF StoreInv, DirectInv
<1>5. Store!OnlyChanges({i})
  BY <1>4, SlotChange
<1>6. KeptSlots
  BY DEF KeptSlots, KeptSlot
<1> QED
  BY <1>3, <1>5, <1>6

LEMMA CreateWriteStore ==
  ASSUME DirectUse, StoreInv, CreateWrite, DirectInv'
  PROVE  StoreInv' /\ KeptSlots /\ \E i \in 1..NInodes - 1 : Store!Create(i)
<1> DEFINE f == FirstFree
<1>1. /\ call = Idle /\ isMounted /\ MayCreate /\ FreeSlots # {}
      /\ disk' = [disk EXCEPT ![f[1]] = Fresh(@, f[2])]
      /\ UNCHANGED <<isMounted, call>>
  BY DEF CreateWrite, StoreInv, DirectInv
<1>2. f \in InodeSlots \ {<<1, 0>>} /\ ~Used(disk, f)
  BY <1>1, FirstFreeInTable DEF StoreInv
<1> HIDE DEF f
<1>3. PICK i \in 1..NInodes - 1 : SlotOf(i) = f
  <2>1. PICK i \in 0..NInodes - 1 : SlotOf(i) = f /\ (i = 0 <=> f = <<1, 0>>)
    BY <1>2, SlotToNumber
  <2> QED
    BY <1>2, <2>1
<1>4. disk \in [BlockNumbers -> Block]
  BY DEF StoreInv, DirectInv, TypeOK
<1>5. ASSUME NEW s \in InodeSlots, NEW w \in ReadWords
      PROVE  FieldOf(disk', s, w) = IF s # f THEN FieldOf(disk, s, w)
                                    ELSE IF w = 0 THEN 1 ELSE 0
  <2>1. /\ s[1] \in BlockNumbers /\ s[2] \in 0..INODES_PER_BLOCK - 1 /\ s = <<s[1], s[2]>>
        /\ f[1] \in BlockNumbers /\ f[2] \in 0..INODES_PER_BLOCK - 1 /\ f = <<f[1], f[2]>>
    BY <1>2, SlotsInRange
  <2>2. CASE s[1] = f[1]
    <3>1. disk[f[1]] \in Block /\ disk'[f[1]] = Fresh(disk[f[1]], f[2])
      BY <1>1, <1>4, <2>1
    <3>2. FieldOf(disk', s, w) = Fresh(disk[f[1]], f[2])[At(s[2], w)]
      BY <2>2, <3>1 DEF FieldOf
    <3>3. s = f <=> s[2] = f[2]
      BY <2>1, <2>2
    <3> QED
      BY <2>1, <2>2, <3>1, <3>2, <3>3, ReadWordsAre, FreshFields DEF FieldOf
  <2>3. CASE s[1] # f[1]
    BY <1>1, <1>4, <2>1, <2>3 DEF FieldOf
  <2> QED
    BY <2>2, <2>3
<1>6. \A s \in InodeSlots : s # SlotOf(i) => SameFile(disk, s, disk')
  BY <1>3, <1>5 DEF SameFile
<1>7. FieldOf(disk', f, 0) = 1 /\ FieldOf(disk', f, 1) = 0
  BY <1>2, <1>5, ReadWordsAre
<1>8. OneBlock(disk, disk', f[1])
  BY <1>1, <1>4 DEF OneBlock
<1>9. StoreInv' /\ KeptSlots /\ Store!OnlyChanges({i})
  <2>1. OneBlock(disk, disk', SlotOf(i)[1])
    BY <1>3, <1>8
  <2>2. FieldOf(disk', SlotOf(i), 1) = 0 /\ call' = Idle
    BY <1>1, <1>3, <1>7
  <2> QED
    BY <1>1, <1>6, <2>1, <2>2, SlotStep
<1>10. i \notin Files(disk) /\ i \in Files(disk')
  BY <1>2, <1>3, <1>7, FileIs DEF Used
<1>11. Contents(disk', i) = Store!Empty
  <2>1. i \in 0..NInodes - 1 /\ TableOK(disk')
    BY FileNumber DEF DirectInv
  <2>2. FieldOf(disk', SlotOf(i), 1) = 0
    BY <1>3, <1>7
  <2>3. Visible(disk', SlotOf(i)) = 0
    BY <2>2, DirectSpace DEF Visible
  <2>4. Contents(disk', i) = [o \in 0..0 - 1 |-> ByteOf(disk', SlotOf(i), o)]
    BY <2>1, <2>2, <2>3, ContentsAre
  <2>5. 0..0 - 1 = {}
    OBVIOUS
  <2> QED
    BY <2>4, <2>5 DEF Store!Empty
<1>12. /\ DOMAIN FilesOf(disk) = Files(disk) /\ DOMAIN FilesOf(disk)' = Files(disk')
       /\ FilesOf(disk)'[i] = Store!Empty
  BY <1>10, <1>11 DEF FilesOf
<1>13. Operation = Store!Idle /\ Operation' = Operation
  BY <1>1, Operations, NextOperations DEF Idle
<1>14. Store!Create(i)
  BY <1>1, <1>9, <1>10, <1>12, <1>13 DEF Store!Create
<1> QED
  BY <1>9, <1>14

LEMMA DeleteStore ==
  ASSUME DirectUse, StoreInv, NEW i \in Inumbers, Delete(i), DirectInv'
  PROVE  StoreInv' /\ KeptSlots /\
         (Store!Crash \/ \E j \in 1..NInodes - 1 : Store!Delete(j))
<1>1. CASE ~OnDisk(InodeBlock(i))
  BY <1>1, RestartStore, SameDiskKept DEF Delete, Restart
<1>2. CASE OnDisk(InodeBlock(i))
  <2> DEFINE f == SlotOf(i)
             b == disk[InodeBlock(i)]
             j == InodeOffset(i)
  <2>1. i \in 1..NInodes - 1 /\ f \in InodeSlots /\ f[1] = InodeBlock(i) /\ f[2] = j
    BY <1>2, NumberTyped
  <2>2. isvalid(b, j) = FieldOf(disk, f, 0)
    BY <2>1, Fields
  <2>3. Used(disk, f)
    BY <1>2, <2>2 DEF Delete, Used
  <2>4. indirect(b, j) = 0
    BY <2>1, <2>3, FilePointers DEF StoreInv
  <2>5. /\ disk' = [disk EXCEPT ![f[1]] = [@ EXCEPT ![At(f[2], 0)] = 0]]
        /\ call = Idle /\ isMounted /\ UNCHANGED <<isMounted, call>>
    BY <1>2, <2>1, <2>4 DEF Delete
  <2> HIDE DEF f
  <2>6. disk \in [BlockNumbers -> Block] /\ f[1] \in BlockNumbers
    BY <2>1, SlotsInRange DEF StoreInv, DirectInv, TypeOK
  <2>7. ASSUME NEW s \in InodeSlots, NEW w \in ReadWords
        PROVE  FieldOf(disk', s, w) = IF s = f /\ w = 0 THEN 0 ELSE FieldOf(disk, s, w)
    <3>1. w \in 0..InodeWords - 1 /\ 0 \in 0..InodeWords - 1
      BY ReadWordsAre, Sizes
    <3>2. OneWord(disk, disk', f, 0, 0)
      BY <2>5, <2>6 DEF OneWord, Block
    <3> QED
      BY <2>1, <2>6, <3>1, <3>2, WordReplaced
  <2>8. \A s \in InodeSlots : s # SlotOf(i) => SameFile(disk, s, disk')
    BY <2>7 DEF SameFile, f
  <2>9. ~Used(disk', f)
    BY <2>1, <2>7, ReadWordsAre DEF Used
  <2>10. OneBlock(disk, disk', f[1])
    BY <2>5, <2>6 DEF OneBlock
  <2>11. StoreInv' /\ KeptSlots /\ Store!OnlyChanges({i})
    BY <2>1, <2>5, <2>8, <2>9, <2>10, SlotStep DEF Idle, f
  <2>12. i \in Files(disk) /\ i \notin Files(disk')
    BY <2>1, <2>3, <2>9, FileIs DEF f
  <2>13. DOMAIN FilesOf(disk) = Files(disk) /\ DOMAIN FilesOf(disk)' = Files(disk')
    BY DEF FilesOf
  <2>14. Operation = Store!Idle /\ Operation' = Operation
    BY <2>5, Operations, NextOperations DEF Idle
  <2>15. Store!Delete(i)
    BY <2>5, <2>11, <2>12, <2>13, <2>14 DEF Store!Delete
  <2> QED
    BY <2>1, <2>11, <2>15
<1> QED
  BY <1>1, <1>2

-----------------------------------------------------------------------------
(* What a file in which bytes were written shows.                          *)

LEMMA WrittenKept ==
  ASSUME NEW d, NEW e, NEW s, NEW v, NEW bi, NEW done, Written(d, s, v, bi, done),
         \A k \in Directs : k < bi =>
           /\ FieldOf(e, s, 4 + k) = FieldOf(d, s, 4 + k)
           /\ e[FieldOf(d, s, 4 + k)] = d[FieldOf(d, s, 4 + k)]
  PROVE  Written(e, s, v, bi, done)
BY DEF Written

LEMMA WrittenContents ==
  ASSUME NEW d, TableOK(d), PointersApart(d), NEW i \in 1..NInodes - 1,
         Used(d, SlotOf(i)), FieldOf(d, SlotOf(i), 1) \in Nat,
         NEW v, NEW bi \in Nat, NEW done \in Nat, Written(d, SlotOf(i), v, bi, done),
         NEW o \in 0..Visible(d, SlotOf(i)) - 1, o < done
  PROVE  Contents(d, i)[o] = FileByte(v, o \div BLOCK_SIZE)
<1> DEFINE s == SlotOf(i)
           k == o \div BLOCK_SIZE
           w == o % BLOCK_SIZE
<1>1. i \in 0..NInodes - 1 /\ s \in InodeSlots
  BY FileNumber
<1>2. Contents(d, i)[o] = ByteOf(d, s, o) /\ Visible(d, s) \in Nat
  BY <1>1, ContentsAre, ContentsDomain
<1>3. o \in Nat
  BY <1>2
<1>4. bi * BLOCK_SIZE \in Nat /\ o < bi * BLOCK_SIZE
  <2>1. bi * BLOCK_SIZE \in Nat /\ done <= bi * BLOCK_SIZE
    BY Sizes DEF Written
  <2> QED
    BY <1>3, <2>1
<1>5. k \in 0..bi - 1 /\ w \in Words /\ o = k * BLOCK_SIZE + w
  BY <1>3, <1>4, BytePlace
<1>6. ByteOf(d, s, o) = LET n == FieldOf(d, s, 4 + k)
                        IN IF OnDisk(n) THEN d[n][w] ELSE -1
  BY DEF ByteOf
<1>7. Used(d, s)
  OBVIOUS
<1>8. Written(d, s, v, bi, done)
  OBVIOUS
<1> HIDE DEF s, k, w
<1>9. k \in Directs /\ k < bi /\ k * BLOCK_SIZE + w < done
  BY <1>5, Sizes DEF Written, Directs
<1>10. FieldOf(d, s, 4 + k) # 0 /\ d[FieldOf(d, s, 4 + k)][w] = FileByte(v, k)
  BY <1>5, <1>8, <1>9 DEF Written
<1>11. FieldOf(d, s, 4 + k) \in BlockNumbers
  BY <1>1, <1>7, <1>9, <1>10, PointerTargets
<1>12. Contents(d, i)[o] = FileByte(v, k)
  BY <1>2, <1>6, <1>10, <1>11 DEF OnDisk
<1> QED
  BY <1>12 DEF k

LEMMA DataIs ==
  ASSUME NEW v, NEW n
  PROVE  /\ DOMAIN Data(v, n) = 0..n - 1
         /\ \A o \in 0..n - 1 : Data(v, n)[o] = FileByte(v, o \div BLOCK_SIZE)
BY DEF Data

\* Contents c are a beginning of contents x.
Begins(c, x) == DOMAIN c \subseteq DOMAIN x /\ \A o \in DOMAIN c : c[o] = x[o]

\* A file that shows no more than was written shows a beginning of the data.
LEMMA ShowsBeginning ==
  ASSUME NEW d, TableOK(d), PointersApart(d), NEW i \in 1..NInodes - 1,
         Used(d, SlotOf(i)), FieldOf(d, SlotOf(i), 1) \in Nat,
         NEW v, NEW bi \in Nat, NEW done \in Nat, Written(d, SlotOf(i), v, bi, done),
         FieldOf(d, SlotOf(i), 1) <= done, NEW n \in Nat, done <= n
  PROVE  Begins(Contents(d, i), Data(v, n))
<1> DEFINE V == Visible(d, SlotOf(i))
<1>1. i \in 0..NInodes - 1
  BY FileNumber
<1>2. V \in Nat /\ V <= FieldOf(d, SlotOf(i), 1)
  BY <1>1, ContentsAre, DirectSpace DEF Visible
<1>3. DOMAIN Contents(d, i) = 0..V - 1
  BY <1>1, ContentsDomain
<1>4. \A o \in 0..V - 1 : o \in 0..n - 1 /\ o < done
  BY <1>2
<1>5. \A o \in 0..V - 1 : Contents(d, i)[o] = FileByte(v, o \div BLOCK_SIZE)
  BY <1>4, WrittenContents
<1> QED
  BY <1>3, <1>4, <1>5, DataIs DEF Begins

\* Of two beginnings of the data the longer is the shorter overlaid by itself.
LEMMA BeginningsOverlaid ==
  ASSUME NEW v, NEW n \in Nat, NEW m \in 0..n, NEW l \in 0..m, NEW c, NEW e,
         DOMAIN c = 0..l - 1, e = [o \in 0..m - 1 |-> e[o]],
         Begins(e, Data(v, n))
  PROVE  e = Store!Overlaid(Store!Beginning(Data(v, n), m), c)
<1> DEFINE x == Data(v, n)
           b == Store!Beginning(x, m)
<1>1. DOMAIN x = 0..n - 1
  BY DataIs
<1>2. \A o \in 0..m - 1 : e[o] = x[o]
  BY DEF Begins
<1> HIDE DEF x
<1>3. { o \in DOMAIN x : o < m } = 0..m - 1
  BY <1>1
<1>4. b = [o \in 0..m - 1 |-> x[o]]
  BY <1>3 DEF Store!Beginning
<1> HIDE DEF b
<1>5. DOMAIN b \cup DOMAIN c = 0..m - 1 /\ DOMAIN b = 0..m - 1
  BY <1>4
<1>6. Store!Overlaid(b, c) = [o \in 0..m - 1 |-> x[o]]
  BY <1>4, <1>5 DEF Store!Overlaid
<1> QED
  BY <1>2, <1>6 DEF b, x

-----------------------------------------------------------------------------
(* fs_write.                                                               *)

\* What a write can rely on.
LEMMA WriteFacts ==
  ASSUME StoreInv, call.op = "write"
  PROVE  /\ WriteInv /\ call.i \in 1..NInodes - 1
         /\ call.i \in Files(disk) /\ Used(disk, SlotOf(call.i))
         /\ SlotOf(call.i) \in InodeSlots
         /\ SlotOf(call.i)[1] = InodeBlock(call.i)
         /\ SlotOf(call.i)[2] = InodeOffset(call.i)
         /\ FieldOf(disk, SlotOf(call.i), 1) \in Nat
         /\ TableOK(disk) /\ PointersApart(disk) /\ isMounted
         /\ disk \in [BlockNumbers -> Block] /\ call.block \in Block
         /\ call.bi \in Nat /\ call.done \in Nat /\ call.todo \in Nat
         /\ call.left \in Nat
<1>1. /\ CopyInv /\ isMounted
      /\ call \in [op : {"write"}, i : { i \in Inumbers : OnDisk(InodeBlock(i)) },
                   v : Values, block : Block, ind : Block, far : BOOLEAN,
                   bi : Nat, done : Nat, todo : 0..CHUNK, left : Nat]
  BY WriteCall DEF StoreInv
<1>2. call.i \in 1..NInodes - 1 /\ Used(disk, SlotOf(call.i))
  BY <1>1 DEF CopyInv
<1>3. SlotOf(call.i) \in InodeSlots
  BY <1>2, FileNumber
<1>4. call.todo \in Nat
  BY <1>1, Sizes
<1>5. call.i \in Files(disk)
  BY <1>2, FileIs
<1> QED
  BY <1>1, <1>2, <1>3, <1>4, <1>5 DEF StoreInv, DirectInv, TypeOK, SizesInv, SlotOf

LEMMA CopyInStore ==
  ASSUME DirectUse, StoreInv, NEW i \in Inumbers, CopyIn(i), DirectInv'
  PROVE  StoreInv' /\ (Store!Crash \/ \E j \in 1..NInodes - 1 : Store!BeginCopy(j))
<1>1. CASE ~OnDisk(InodeBlock(i))
  BY <1>1, RestartStore DEF CopyIn
<1>2. CASE OnDisk(InodeBlock(i))
  <2> DEFINE f == SlotOf(i)
  <2>1. PICK n \in Lengths, v \in Values :
          /\ isvalid(disk[InodeBlock(i)], InodeOffset(i)) # 0
          /\ call' = [op |-> "write", i |-> i, v |-> v, block |-> disk[InodeBlock(i)],
                      ind |-> ZeroBlock, far |-> FALSE, bi |-> 0,
                      done |-> 0, todo |-> Min({CHUNK, n}),
                      left |-> n - Min({CHUNK, n})]
          /\ UNCHANGED <<disk, isMounted, freeBitmapBlock>>
    BY <1>2 DEF CopyIn
  <2>2. isMounted /\ call = Idle
    BY DEF CopyIn
  <2>3. i \in 1..NInodes - 1 /\ f \in InodeSlots
        /\ f[1] = InodeBlock(i) /\ f[2] = InodeOffset(i)
    BY <1>2, NumberTyped
  <2>4. Used(disk, f) /\ FieldOf(disk, f, 1) \in Nat
    BY <2>1, <2>3, Fields DEF Used, StoreInv, SizesInv
  <2>5. /\ call'.op = "write" /\ call'.i = i /\ call'.bi = 0 /\ call'.done = 0
        /\ Grown' = FieldOf(disk, f, 1)
    BY <2>1, <2>3 DEF Grown, size, FieldOf
  <2>6. WriteInv'
    <3>1. SlotOf(call.i)' = f
      BY <2>5 DEF SlotOf, InodeBlock, InodeOffset
    <3>2. Written(disk', f, call'.v, 0, 0)
      <4>1. 0 * BLOCK_SIZE = 0 /\ \A k \in Directs : ~(k < 0)
        BY Sizes DEF Directs
      <4> QED
        BY <4>1, Sizes DEF Written
    <3>3. 0 * BLOCK_SIZE = 0
      BY Sizes
    <3>4. FieldOf(disk', f, 1) = FieldOf(disk, f, 1)
      BY <2>1
    <3> HIDE DEF f
    <3> QED
      BY <2>4, <2>5, <3>1, <3>2, <3>3, <3>4 DEF WriteInv
  <2>7. SuperInv' /\ SizesInv'
    BY <2>1, <2>2, Formatted DEF StoreInv, SuperInv, SizesInv, Used, FieldOf
  <2>8. StoreInv'
    BY <2>6, <2>7 DEF StoreInv
  <2>9. FilesOf(disk)' = FilesOf(disk) /\ i \in Files(disk)
        /\ FilesOf(disk)[i] = Contents(disk, i) /\ DOMAIN FilesOf(disk) = Files(disk)
    BY <2>1, <2>3, <2>4, FileIs DEF FilesOf
  <2>10. call'.done + call'.todo + call'.left = call'.todo + call'.left
    <3>1. call'.done = 0 /\ call'.todo \in Nat /\ call'.left \in Nat
      <4>1. n \in Nat
        BY SimpleFSAssumption
      <4> QED
        BY <2>1, <4>1, NextChunk
    <3> QED
      BY <3>1
  <2>11. /\ Operation = Store!Idle
         /\ Operation'.kind = "copy" /\ Operation'.file = i
         /\ Operation'.left = Operation'.length
    BY <2>2, <2>5, <2>10, Operations, NextOperations DEF Idle
  <2>12. Store!BeginCopy(i)
    BY <2>1, <2>2, <2>9, <2>11 DEF Store!BeginCopy
  <2> QED
    BY <2>3, <2>8, <2>12
<1> QED
  BY <1>1, <1>2

\* The call goes on, has counted what it has written, and of the files only the
\* one it writes changes: with the bytes left not more than before, and the size
\* not smaller.
LEMMA CopyStep ==
  ASSUME StoreInv, StoreInv', call.op = "write", call'.op = "write",
         call'.i = call.i, call'.v = call.v,
         call'.done + call'.todo + call'.left = call.done + call.todo + call.left,
         call'.todo + call'.left <= call.todo + call.left,
         Grown = call.done, Grown' = call'.done,
         FieldOf(disk, SlotOf(call.i), 1) <= FieldOf(disk', SlotOf(call.i), 1),
         Store!OnlyChanges({call.i})
  PROVE  Store!Copy
<1> DEFINE i == call.i
           n == call.done + call.todo + call.left
           left == call.todo + call.left
<1>1. /\ WriteInv /\ i \in 1..NInodes - 1 /\ i \in Files(disk)
      /\ Used(disk, SlotOf(i)) /\ FieldOf(disk, SlotOf(i), 1) \in Nat
      /\ TableOK(disk) /\ PointersApart(disk) /\ isMounted
      /\ call.bi \in Nat /\ call.done \in Nat /\ call.todo \in Nat /\ call.left \in Nat
  BY WriteFacts
<1>2. /\ WriteInv' /\ i \in Files(disk')
      /\ Used(disk', SlotOf(i)) /\ FieldOf(disk', SlotOf(i), 1) \in Nat
      /\ TableOK(disk') /\ PointersApart(disk') /\ isMounted'
      /\ call'.bi \in Nat /\ call'.done \in Nat /\ call'.todo \in Nat /\ call'.left \in Nat
  <2>1. (StoreInv /\ call.op = "write" =>
           /\ WriteInv /\ call.i \in Files(disk)
           /\ Used(disk, SlotOf(call.i)) /\ FieldOf(disk, SlotOf(call.i), 1) \in Nat
           /\ TableOK(disk) /\ PointersApart(disk) /\ isMounted
           /\ call.bi \in Nat /\ call.done \in Nat /\ call.todo \in Nat
           /\ call.left \in Nat)'
    BY WriteFacts, PTL
  <2>2. SlotOf(call.i)' = SlotOf(i)
    BY DEF SlotOf, InodeBlock, InodeOffset
  <2> QED
    BY <2>1, <2>2
<1>3. /\ DOMAIN FilesOf(disk) = Files(disk) /\ DOMAIN FilesOf(disk)' = Files(disk')
      /\ FilesOf(disk)[i] = Contents(disk, i) /\ FilesOf(disk)'[i] = Contents(disk', i)
  BY <1>1, <1>2 DEF FilesOf
<1>4. Operation = [kind |-> "copy", file |-> i, data |-> Data(call.v, n),
                   length |-> n, left |-> left]
  BY Operations
<1>5. Operation' = [kind |-> "copy", file |-> i, data |-> Data(call.v, n),
                    length |-> n, left |-> call'.todo + call'.left]
  BY NextOperations
<1>6. n \in Nat /\ call'.done <= n /\ n - (call'.todo + call'.left) = call'.done
  BY <1>1, <1>2
<1> HIDE DEF i, n, left
<1>7. PICK l : l = Visible(disk, SlotOf(i))
  OBVIOUS
<1>8. PICK m : m = Visible(disk', SlotOf(i))
  OBVIOUS
<1>9. /\ m \in 0..n /\ m \in 0..call'.done /\ l \in 0..m
      /\ DOMAIN Contents(disk, i) = 0..l - 1
      /\ Contents(disk', i) = [o \in 0..m - 1 |-> Contents(disk', i)[o]]
      /\ Begins(Contents(disk', i), Data(call.v, n))
  <2>1. SlotOf(call.i)' = SlotOf(i)
    BY DEF SlotOf, InodeBlock, InodeOffset, i
  <2>2. Written(disk', SlotOf(i), call.v, call'.bi, call'.done)
        /\ FieldOf(disk', SlotOf(i), 1) <= call'.done
    BY <1>2, <2>1 DEF WriteInv
  <2>3. Begins(Contents(disk', i), Data(call.v, n))
    BY <1>1, <1>2, <1>6, <2>2, ShowsBeginning
  <2>4. i \in 0..NInodes - 1
    BY <1>1, FileNumber
  <2>5. /\ l \in Nat /\ DOMAIN Contents(disk, i) = 0..l - 1
        /\ m \in Nat /\ Contents(disk', i) = [o \in 0..m - 1 |-> ByteOf(disk', SlotOf(i), o)]
    BY <1>1, <1>2, <1>7, <1>8, <2>4, ContentsAre
  <2>6. l <= m /\ m <= FieldOf(disk', SlotOf(i), 1)
    <3>1. FieldOf(disk, SlotOf(i), 1) <= FieldOf(disk', SlotOf(i), 1)
      BY DEF i
    <3> QED
      BY <1>1, <1>2, <1>7, <1>8, <3>1, DirectSpace DEF Visible
  <2>7. m <= call'.done
    BY <1>2, <2>2, <2>5, <2>6
  <2> QED
    BY <1>2, <1>6, <2>3, <2>5, <2>6, <2>7
<1>10. Contents(disk', i) =
         Store!Overlaid(Store!Beginning(Data(call.v, n), m), Contents(disk, i))
  BY <1>6, <1>9, BeginningsOverlaid
<1>11. Operation.file = i /\ Operation.kind = "copy" /\ Operation'.kind = "copy"
       /\ Operation.data = Data(call.v, n) /\ Operation.length - Operation'.left = call'.done
  BY <1>4, <1>5, <1>6
<1>12. Operation'.left <= Operation.left
  BY <1>4, <1>5 DEF left
<1>13. Operation' = [Operation EXCEPT !.left = Operation'.left]
  BY <1>4, <1>5
<1>14. Store!OnlyChanges({Operation.file}) /\ UNCHANGED isMounted
  BY <1>1, <1>2, <1>11 DEF i
<1> QED
  BY <1>2, <1>3, <1>9, <1>10, <1>11, <1>12, <1>13, <1>14 DEF Store!Copy

\* Block b is the copy of the inode block with word k of the inode as v.
CopyWith(b, k, v) ==
  \A x \in Words : b[x] = IF x = At(InodeOffset(call.i), k) THEN v ELSE call.block[x]

\* Such a block is written.
LEMMA TableWrite ==
  ASSUME DirectInv, call.op = "write", NEW k \in 0..InodeWords - 1, NEW v, NEW b,
         CopyWith(b, k, v),
         NEW e, OneBlock(disk, e, InodeBlock(call.i)), e[InodeBlock(call.i)] = b,
         NEW s \in InodeSlots, NEW w \in ReadWords
  PROVE  /\ s = SlotOf(call.i) /\ w = k => FieldOf(e, s, w) = v
         /\ s = SlotOf(call.i) /\ w # k /\ w = 1 => FieldOf(e, s, w) = Grown
         /\ s # SlotOf(call.i) \/ (w # k /\ w # 1) =>
              FieldOf(e, s, w) = FieldOf(disk, s, w)
<1> DEFINE f == SlotOf(call.i)
<1>1. /\ f \in InodeSlots /\ f[1] = InodeBlock(call.i) /\ f[2] = InodeOffset(call.i)
      /\ f[1] \in BlockNumbers /\ disk \in [BlockNumbers -> Block]
      /\ f[2] \in 0..INODES_PER_BLOCK - 1 /\ f = <<f[1], f[2]>>
  BY WriteSlot DEF SlotOf, DirectInv, TypeOK
<1>2. /\ s[2] \in 0..INODES_PER_BLOCK - 1 /\ s[1] \in BlockNumbers /\ s = <<s[1], s[2]>>
      /\ w \in 0..InodeWords - 1
  BY SlotsInRange, ReadWordsAre
<1>3. Grown = call.block[At(f[2], 1)]
  BY <1>1 DEF Grown, size
<1> HIDE DEF f
<1>4. CASE s[1] = f[1]
  <2>1. FieldOf(e, s, w) = b[At(s[2], w)] /\ At(s[2], w) \in Words
    BY <1>1, <1>2, <1>4, WordAt DEF FieldOf
  <2>2. 1 \in 0..InodeWords - 1
    BY Sizes
  <2>3. /\ At(s[2], w) = At(f[2], k) <=> s = f /\ w = k
        /\ At(s[2], w) = At(f[2], 1) <=> s = f /\ w = 1
    BY <1>1, <1>2, <1>4, <2>2, WordsApart
  <2>4. b[At(s[2], w)] = IF s = f /\ w = k THEN v ELSE call.block[At(s[2], w)]
    BY <1>1, <2>1, <2>3 DEF CopyWith
  <2>5. ~(s = f /\ w = 1) => call.block[At(s[2], w)] = FieldOf(disk, s, w)
    BY <1>1, <1>4, <2>1, <2>3, WriteCall DEF CopyInv, FieldOf
  <2>6. s = f /\ w = 1 => call.block[At(s[2], w)] = Grown
    BY <1>3
  <2> QED
    BY <2>1, <2>4, <2>5, <2>6 DEF f
<1>5. CASE s[1] # f[1]
  BY <1>1, <1>2, <1>5 DEF FieldOf, f, OneBlock
<1> QED
  BY <1>4, <1>5

\* In a step of a write only one block changes, not the superblock, and only the
\* inode of the file, whose size stays a number.
LEMMA WriteRest ==
  ASSUME StoreInv, call.op = "write", DirectInv',
         NEW n, n # 0, OneBlock(disk, disk', n),
         \A s \in InodeSlots : s # SlotOf(call.i) => SameFile(disk, s, disk'),
         FieldOf(disk', SlotOf(call.i), 1) \in Nat
  PROVE  SuperInv' /\ SizesInv'
<1>1. SuperInv'
  <2>1. disk[0] = Superblock
    BY Formatted DEF Idle
  <2>2. 0 \in BlockNumbers
    BY Sizes DEF BlockNumbers
  <2> QED
    BY <2>1, <2>2 DEF SuperInv, OneBlock
<1>2. SizesInv'
  <2> SUFFICES ASSUME NEW s \in InodeSlots, s # SlotOf(call.i), Used(disk', s)
               PROVE  FieldOf(disk', s, 1) \in Nat
    BY DEF SizesInv
  <2>1. SameFile(disk, s, disk')
    OBVIOUS
  <2>2. Used(disk, s) /\ FieldOf(disk', s, 1) = FieldOf(disk, s, 1)
    BY <2>1, ReadWordsAre DEF SameFile, Used
  <2> QED
    BY <2>2 DEF StoreInv, SizesInv
<1> QED
  BY <1>1, <1>2

\* Of the inode that is written, the size becomes that of the copy, or stays, and
\* no pointer is lost.
LEMMA WriteKept ==
  ASSUME call.op = "write",
         \A s \in InodeSlots : s # SlotOf(call.i) => SameFile(disk, s, disk'),
         FieldOf(disk', SlotOf(call.i), 1) \in {FieldOf(disk, SlotOf(call.i), 1), Grown},
         \A k \in Directs : FieldOf(disk, SlotOf(call.i), 4 + k) # 0 =>
                             FieldOf(disk', SlotOf(call.i), 4 + k) # 0
  PROVE  KeptSlots
BY DEF KeptSlots, KeptSlot

\* A full disk ends the copy.
LEMMA DiskFullStore ==
  ASSUME StoreInv, Writing, DiskFull, DirectInv'
  PROVE  StoreInv' /\ Store!NoRoom
<1>1. call.op = "write" /\ call.todo > 0
  BY DEF Writing
<1>2. StoreInv'
  BY RestKeeps DEF DiskFull, Return
<1>3. Operation.kind = "copy" /\ Operation.left > 0
  BY <1>1, WriteFacts, Operations
<1>4. Operation' = Store!Idle
  BY NextOperations DEF DiskFull, Return, Idle
<1>5. FilesOf(disk)' = FilesOf(disk) /\ UNCHANGED isMounted
  BY DEF DiskFull
<1> QED
  BY <1>2, <1>3, <1>4, <1>5 DEF Store!NoRoom

\* A change of the inode block leaves the bytes that were written.
LEMMA TableKeepsWritten ==
  ASSUME StoreInv, call.op = "write", OneBlock(disk, disk', InodeBlock(call.i)),
         \A k \in Directs : k < call.bi =>
           FieldOf(disk', SlotOf(call.i), 4 + k) = FieldOf(disk, SlotOf(call.i), 4 + k)
  PROVE  Written(disk', SlotOf(call.i), call.v, call.bi, call.done)
<1> DEFINE f == SlotOf(call.i)
<1>1. /\ WriteInv /\ Used(disk, f) /\ f \in InodeSlots /\ PointersApart(disk)
      /\ f[1] = InodeBlock(call.i)
  BY WriteFacts
<1>2. Written(disk, f, call.v, call.bi, call.done)
  BY <1>1 DEF WriteInv
<1>3. ASSUME NEW k \in Directs, k < call.bi
      PROVE  disk'[FieldOf(disk, f, 4 + k)] = disk[FieldOf(disk, f, 4 + k)]
  <2>1. FieldOf(disk, f, 4 + k) # 0
    BY <1>2, <1>3 DEF Written
  <2>2. FieldOf(disk, f, 4 + k) \in BlockNumbers
        /\ FieldOf(disk, f, 4 + k) \notin 1..NInodeBlocks
    BY <1>1, <2>1, PointerTargets
  <2> QED
    BY <1>1, <2>2, SlotsInRange DEF OneBlock
<1> QED
  BY <1>2, <1>3, WrittenKept

LEMMA AllocateStore ==
  ASSUME StoreInv, AllocateInInode, DirectInv'
  PROVE  /\ StoreInv' /\ KeptSlots /\ KeptGrown
         /\ Grown = call.done => Store!NoRoom \/ Store!Copy
<1>1. CASE DiskFull
  BY <1>1, DiskFullStore, SameDiskKept DEF AllocateInInode, DiskFull, KeptGrown, Return, Idle
<1>2. CASE ~DiskFull
  <2> DEFINE f == SlotOf(call.i)
             k == 4 + call.bi
             n == getFreeBlock
             b == [call.block EXCEPT ![Word] = n]
  <2>1. /\ Writing /\ Address = 0 /\ n # 0
        /\ disk' = [disk EXCEPT ![InodeBlock(call.i)] = b]
        /\ call' = [call EXCEPT !.block = b] /\ UNCHANGED isMounted
    BY <1>2 DEF AllocateInInode
  <2>2. /\ call.op = "write" /\ call.bi \in Directs /\ k \in PointerWords
        /\ Word = At(InodeOffset(call.i), k)
    BY <2>1, NextIsDirect DEF StoreInv
  <2>3. /\ WriteInv /\ call.i \in 1..NInodes - 1 /\ Used(disk, f)
        /\ f \in InodeSlots /\ f[1] = InodeBlock(call.i) /\ f[2] = InodeOffset(call.i)
        /\ FieldOf(disk, f, 1) \in Nat /\ PointersApart(disk)
        /\ disk \in [BlockNumbers -> Block] /\ call.block \in Block
        /\ call.bi \in Nat /\ call.done \in Nat
    BY <2>2, WriteFacts
  <2>4. /\ call'.op = "write" /\ call'.i = call.i /\ call'.v = call.v
        /\ call'.bi = call.bi /\ call'.done = call.done /\ call'.todo = call.todo
        /\ call'.left = call.left /\ call'.block = b
    BY <2>1, <2>2, WriteCall DEF StoreInv
  <2>5. /\ k \in 0..InodeWords - 1 /\ k # 1 /\ k # 0 /\ 1 \in 0..InodeWords - 1
        /\ f[2] \in 0..INODES_PER_BLOCK - 1 /\ f[1] \in BlockNumbers
        /\ f[1] \in 1..NInodeBlocks
    BY <2>2, <2>3, ReadWordsAre, SlotsInRange, Sizes
  <2>6. CopyWith(b, k, n)
    BY <2>2, <2>3 DEF Block, CopyWith
  <2> HIDE DEF f, k, n
  <2>7. ASSUME NEW s \in InodeSlots, NEW w \in ReadWords
        PROVE  FieldOf(disk', s, w) =
                 IF s = f /\ w = k THEN n
                 ELSE IF s = f /\ w = 1 THEN Grown ELSE FieldOf(disk, s, w)
    <3> HIDE DEF b
    <3>1. DirectInv
      BY DEF StoreInv
    <3>2. OneBlock(disk, disk', InodeBlock(call.i)) /\ disk'[InodeBlock(call.i)] = b
      BY <2>1, <2>3, <2>5 DEF OneBlock
    <3> QED
      BY <2>2, <2>5, <2>6, <3>1, <3>2, TableWrite DEF f
  <2>8. Grown' = Grown
    <3>1. At(f[2], 1) \in Words /\ At(f[2], 1) # At(f[2], k)
      BY <2>5, WordAt, WordsApart
    <3>2. InodeOffset(call'.i) = f[2]
      BY <2>3, <2>4
    <3> QED
      BY <2>3, <2>4, <2>6, <3>1, <3>2 DEF Grown, size, CopyWith
  <2> HIDE DEF b
  <2>9. \A s \in InodeSlots : s # SlotOf(call.i) => SameFile(disk, s, disk')
    BY <2>7 DEF SameFile, f
  <2>10. FieldOf(disk', f, 1) = Grown /\ Grown \in Nat
    BY <2>3, <2>5, <2>7, ReadWordsAre DEF WriteInv
  <2>11. OneBlock(disk, disk', f[1])
    BY <2>1, <2>3 DEF OneBlock
  <2>12. SuperInv' /\ SizesInv'
    BY <2>2, <2>5, <2>9, <2>10, <2>11, WriteRest, Sizes DEF f
  <2>13. WriteInv'
    <3>1. SlotOf(call.i)' = f
      BY <2>4 DEF SlotOf, InodeBlock, InodeOffset, f
    <3>2. Written(disk', f, call.v, call.bi, call.done)
      <4>1. ASSUME NEW l \in Directs, l < call.bi
            PROVE  FieldOf(disk', f, 4 + l) = FieldOf(disk, f, 4 + l)
        <5>1. 4 + l \in ReadWords /\ 4 + l # 1 /\ 4 + l # k
          BY <2>3, <4>1, ReadWordsAre DEF k, Directs
        <5> QED
          BY <2>3, <2>7, <5>1
      <4> QED
        BY <2>2, <2>3, <2>11, <4>1, TableKeepsWritten DEF f
    <3> QED
      BY <2>3, <2>4, <2>8, <2>10, <3>1, <3>2 DEF WriteInv
  <2>14. StoreInv'
    BY <2>12, <2>13 DEF StoreInv
  <2>15. Store!OnlyChanges({call.i})
    <3>1. DirectInv /\ SizesInv /\ TableOK(disk')
      BY DEF StoreInv, DirectInv
    <3> QED
      BY <2>3, <2>9, <2>11, <3>1, SlotChange DEF f
  <2>16. Grown = call.done =>
           FieldOf(disk, SlotOf(call.i), 1) <= FieldOf(disk', SlotOf(call.i), 1)
    BY <2>3, <2>10 DEF WriteInv, f
  <2>17. call.todo \in Nat /\ call.left \in Nat
    BY <2>2, WriteFacts
  <2>18. Grown = call.done => Store!Copy
    BY <2>2, <2>4, <2>8, <2>14, <2>15, <2>16, <2>17, CopyStep
  <2>19. KeptSlots
    <3>1. ASSUME NEW l \in Directs, FieldOf(disk, f, 4 + l) # 0
          PROVE  FieldOf(disk', f, 4 + l) # 0
      <4>1. 4 + l \in ReadWords /\ 4 + l # 1
        BY ReadWordsAre
      <4>2. CASE 4 + l = k
        BY <2>1, <2>3, <2>7, <4>1, <4>2
      <4>3. CASE 4 + l # k
        BY <2>3, <2>7, <3>1, <4>1, <4>3
      <4> QED
        BY <4>2, <4>3
    <3> QED
      BY <2>2, <2>9, <2>10, <3>1, WriteKept DEF f
  <2>20. KeptGrown
    BY <2>4, <2>8 DEF KeptGrown
  <2> QED
    BY <2>14, <2>18, <2>19, <2>20
<1> QED
  BY <1>1, <1>2

LEMMA WriteDataStore ==
  ASSUME StoreInv, WriteData, DirectInv'
  PROVE  /\ StoreInv' /\ KeptSlots /\ KeptGrown
         /\ Grown = call.done => Store!Crash \/ Store!Copy
<1>1. CASE ~OnDisk(Address)
  <2>1. Restart
    BY <1>1 DEF WriteData
  <2>2. KeptGrown
    BY <2>1 DEF Restart, KeptGrown, Idle
  <2> QED
    BY <2>1, <2>2, RestartStore, SameDiskKept DEF Restart
<1>2. CASE OnDisk(Address)
  <2> DEFINE f == SlotOf(call.i)
             p == Piece
             a == Address
  <2>1. /\ Writing /\ a # 0 /\ UNCHANGED isMounted
        /\ disk' = [disk EXCEPT ![a] = [w \in Words |->
                      IF w < p THEN FileByte(call.v, call.bi) ELSE disk[a][w]]]
        /\ call' = [call EXCEPT
             !.block[At(InodeOffset(call.i), 1)] = @ + p,
             !.bi = @ + 1, !.done = @ + p, !.todo = @ - p]
    BY <1>2 DEF WriteData
  <2>2. /\ call.op = "write" /\ call.bi \in Directs /\ 4 + call.bi \in PointerWords
        /\ a = FieldOf(disk, f, 4 + call.bi)
    BY <2>1, NextIsDirect DEF StoreInv
  <2>3. /\ WriteInv /\ call.i \in 1..NInodes - 1 /\ Used(disk, f)
        /\ f \in InodeSlots /\ f[1] = InodeBlock(call.i) /\ f[2] = InodeOffset(call.i)
        /\ FieldOf(disk, f, 1) \in Nat /\ PointersApart(disk)
        /\ disk \in [BlockNumbers -> Block] /\ call.block \in Block
        /\ call.bi \in Nat /\ call.done \in Nat /\ call.todo \in Nat /\ call.left \in Nat
    BY <2>2, WriteFacts
  <2>4. a \in BlockNumbers /\ a \notin 1..NInodeBlocks /\ a # 0
    BY <2>1, <2>2, <2>3, PointerTargets
  <2>5. /\ p \in 1..call.todo
        /\ p = IF BLOCK_SIZE <= call.todo THEN BLOCK_SIZE ELSE call.todo
    BY <2>1, PieceBounds DEF StoreInv, DirectInv
  <2>6. ChunkInv
    BY <2>2, WriteCall DEF StoreInv
  <2> HIDE DEF f, p, a
  <2>7. /\ call'.op = "write" /\ call'.i = call.i /\ call'.v = call.v
        /\ call'.bi = call.bi + 1 /\ call'.done = call.done + p
        /\ call'.todo = call.todo - p /\ call'.left = call.left
        /\ call'.block = [call.block EXCEPT ![At(InodeOffset(call.i), 1)] = @ + p]
    BY <2>1, <2>2, WriteCall DEF StoreInv
  <2>8. Grown' = Grown + p
    <3>1. At(InodeOffset(call.i), 1) \in Words
      BY <2>3, SlotsInRange, WordAt, Sizes
    <3>2. InodeOffset(call'.i) = InodeOffset(call.i)
      BY <2>7
    <3> QED
      BY <2>3, <2>7, <3>1, <3>2 DEF Grown, size, Block
  <2>9. OneBlock(disk, disk', a)
    BY <2>1, <2>3 DEF OneBlock
  <2>10. \A w \in Words : w < p => disk'[a][w] = FileByte(call.v, call.bi)
    BY <2>1, <2>3, <2>4
  <2>11. \A s \in InodeSlots : \A w : FieldOf(disk', s, w) = FieldOf(disk, s, w)
    BY <2>4, <2>9, SlotsInRange DEF FieldOf, OneBlock
  <2>12. \A s \in InodeSlots : SameFile(disk, s, disk')
    BY <2>11 DEF SameFile
  <2>13. SuperInv' /\ SizesInv'
    BY <2>2, <2>3, <2>4, <2>9, <2>11, <2>12, WriteRest DEF f
  <2>14. /\ call.done = call.bi * BLOCK_SIZE /\ p <= BLOCK_SIZE /\ p \in Nat
         /\ (call.todo - p) + call.left > 0 => p = BLOCK_SIZE
         /\ (call.bi + 1) * BLOCK_SIZE = call.bi * BLOCK_SIZE + BLOCK_SIZE
         /\ call.bi * BLOCK_SIZE \in Nat
    <3>1. call.todo > 0 /\ BLOCK_SIZE \in Nat \ {0}
      BY <2>1, Sizes DEF Writing
    <3>2. call.done = call.bi * BLOCK_SIZE
      BY <2>3, <3>1 DEF WriteInv
    <3>3. call.left > 0 => BLOCK_SIZE <= call.todo
      <4>1. ASSUME call.left > 0 PROVE BLOCK_SIZE <= call.todo
        <5>1. PICK k \in Nat : call.todo = k * BLOCK_SIZE
          BY <2>6, <4>1 DEF ChunkInv
        <5>2. k # 0
          BY <3>1, <5>1
        <5>3. 1 * BLOCK_SIZE <= k * BLOCK_SIZE
          BY <3>1, <5>2, ProductMonotone
        <5> QED
          BY <3>1, <5>1, <5>3
      <4> QED
        BY <4>1
    <3>4. call.bi * BLOCK_SIZE \in Nat
          /\ (call.bi + 1) * BLOCK_SIZE = call.bi * BLOCK_SIZE + BLOCK_SIZE
      BY <2>3, <3>1
    <3>5. p <= BLOCK_SIZE /\ p \in Nat
      BY <2>3, <2>5, <3>1
    <3>6. (call.todo - p) + call.left > 0 => p = BLOCK_SIZE
      BY <2>3, <2>5, <3>1, <3>3
    <3> QED
      BY <3>2, <3>4, <3>5, <3>6
  <2>15. WriteInv'
    <3>1. SlotOf(call.i)' = f
      BY <2>7 DEF SlotOf, InodeBlock, InodeOffset, f
    <3>2. Written(disk', f, call.v, call.bi + 1, call.done + p)
      <4>1. Written(disk, f, call.v, call.bi, call.done)
        BY <2>3 DEF WriteInv, f
      <4>2. call.bi + 1 <= POINTERS_PER_INODE
            /\ call.done + p <= (call.bi + 1) * BLOCK_SIZE
        BY <2>2, <2>14, Sizes DEF Directs
      <4>3. ASSUME NEW l \in Directs, l < call.bi + 1
            PROVE  /\ FieldOf(disk', f, 4 + l) # 0
                   /\ \A w \in Words : l * BLOCK_SIZE + w < call.done + p =>
                        disk'[FieldOf(disk', f, 4 + l)][w] = FileByte(call.v, l)
        <5>1. FieldOf(disk', f, 4 + l) = FieldOf(disk, f, 4 + l)
          BY <2>3, <2>11
        <5>2. CASE l = call.bi
          <6>1. \A w \in Words : l * BLOCK_SIZE + w < call.done + p => w < p
            BY <2>14, <5>2, Sizes DEF Words
          <6> QED
            BY <2>2, <2>4, <2>10, <5>1, <5>2, <6>1
        <5>3. CASE l # call.bi
          <6>1. l < call.bi /\ l \in Nat
            BY <2>3, <4>3, <5>3 DEF Directs
          <6>2. FieldOf(disk, f, 4 + l) # 0
            BY <4>1, <6>1 DEF Written
          <6>3. FieldOf(disk, f, 4 + l) \in BlockNumbers
            BY <2>3, <6>2, PointerTargets
          <6>4. FieldOf(disk, f, 4 + l) # a
            <7>1. 4 + l \in PointerWords /\ 4 + l # 4 + call.bi
              BY <2>3, <6>1, PointerWordsAre
            <7> QED
              BY <2>2, <2>3, <2>4, <7>1 DEF PointersApart
          <6>5. \A w \in Words : l * BLOCK_SIZE + w < call.done
            <7>1. (l + 1) * BLOCK_SIZE <= call.bi * BLOCK_SIZE
              BY <2>3, <6>1, ProductMonotone, Sizes
            <7>2. (l + 1) * BLOCK_SIZE = l * BLOCK_SIZE + BLOCK_SIZE
                  /\ l * BLOCK_SIZE \in Nat
              BY <6>1, Sizes
            <7> QED
              BY <2>14, <7>1, <7>2, Sizes DEF Words
          <6>6. \A w \in Words : disk[FieldOf(disk, f, 4 + l)][w] = FileByte(call.v, l)
            BY <4>1, <6>1, <6>5 DEF Written
          <6> QED
            BY <2>9, <5>1, <6>2, <6>3, <6>4, <6>6 DEF OneBlock
        <5> QED
          BY <5>2, <5>3
      <4> QED
        BY <4>2, <4>3 DEF Written
    <3>3. (call.todo - p) + call.left > 0 => call.done + p = (call.bi + 1) * BLOCK_SIZE
      BY <2>14
    <3>4. FieldOf(disk', f, 1) = FieldOf(disk, f, 1)
      BY <2>3, <2>11
    <3>5. /\ Grown + p \in Nat /\ Grown + p >= call.done + p
          /\ Grown + p = call.done + p => FieldOf(disk, f, 1) <= call.done + p
      BY <2>3, <2>14 DEF WriteInv, f
    <3> QED
      BY <2>7, <2>8, <3>1, <3>2, <3>3, <3>4, <3>5 DEF WriteInv
  <2>16. StoreInv'
    BY <2>13, <2>15 DEF StoreInv
  <2>17. Store!OnlyChanges({call.i})
    <3>1. ASSUME NEW j \in 1..NInodes - 1, j \notin {call.i}
          PROVE  /\ j \in Files(disk') <=> j \in Files(disk)
                 /\ j \in Files(disk) => Contents(disk', j) = Contents(disk, j)
      <4>1. SlotOf(j) \in InodeSlots /\ SlotOf(j) # f
        BY <2>3, <3>1, FileNumber, OneNumber DEF f
      <4>2. ASSUME Used(disk, SlotOf(j)), NEW l \in Directs
            PROVE  FieldOf(disk, SlotOf(j), 4 + l) # a
        <5>1. 4 + l \in PointerWords
          BY PointerWordsAre
        <5> QED
          BY <2>2, <2>3, <2>4, <4>1, <4>2, <5>1 DEF PointersApart
      <4>3. SameFile(disk, SlotOf(j), disk')
        BY <2>12, <4>1
      <4>4. TableOK(disk) /\ TableOK(disk')
            /\ (Used(disk, SlotOf(j)) => FieldOf(disk, SlotOf(j), 1) \in Nat)
        BY <4>1 DEF StoreInv, DirectInv, SizesInv
      <4> QED
        BY <2>9, <4>2, <4>3, <4>4, OthersKept
    <3> QED
      BY <3>1, OnlyThese
  <2>18. /\ call'.done + call'.todo + call'.left = call.done + call.todo + call.left
         /\ call'.todo + call'.left <= call.todo + call.left
         /\ Grown = call.done => Grown' = call'.done
         /\ FieldOf(disk, SlotOf(call.i), 1) <= FieldOf(disk', SlotOf(call.i), 1)
    <3>1. FieldOf(disk', f, 1) = FieldOf(disk, f, 1)
      BY <2>3, <2>11
    <3>2. FieldOf(disk, SlotOf(call.i), 1) <= FieldOf(disk', SlotOf(call.i), 1)
      BY <2>3, <3>1 DEF f
    <3>3. Grown \in Nat
      BY <2>3 DEF WriteInv
    <3> QED
      BY <2>3, <2>7, <2>8, <2>14, <3>2, <3>3
  <2>19. Grown = call.done => Store!Copy
    BY <2>2, <2>7, <2>16, <2>17, <2>18, CopyStep
  <2>20. KeptSlots
    BY <2>12 DEF KeptSlots, KeptSlot
  <2>21. KeptGrown
    BY <2>18 DEF KeptGrown
  <2> QED
    BY <2>16, <2>19, <2>20, <2>21
<1> QED
  BY <1>1, <1>2

LEMMA FinishStore ==
  ASSUME StoreInv, FinishChunk, DirectInv'
  PROVE  /\ StoreInv' /\ KeptSlots /\ KeptGrown
         /\ Grown = call.done => Store!EndCopy \/ Store!Copy
<1> DEFINE f == SlotOf(call.i)
           i == call.i
<1>1. /\ call.op = "write" /\ call.todo = 0 /\ UNCHANGED isMounted
      /\ disk' = [disk EXCEPT ![InodeBlock(call.i)] = call.block]
  BY DEF FinishChunk, Recorded
<1>2. /\ WriteInv /\ i \in 1..NInodes - 1 /\ i \in Files(disk) /\ Used(disk, f)
      /\ f \in InodeSlots /\ f[1] = InodeBlock(call.i) /\ f[2] = InodeOffset(call.i)
      /\ FieldOf(disk, f, 1) \in Nat /\ PointersApart(disk)
      /\ disk \in [BlockNumbers -> Block] /\ call.block \in Block
      /\ call.bi \in Nat /\ call.done \in Nat /\ call.left \in Nat
  BY <1>1, WriteFacts
<1>3. f[1] \in BlockNumbers /\ f[1] \in 1..NInodeBlocks /\ 1 \in 0..InodeWords - 1
  BY <1>2, SlotsInRange, Sizes
<1>4. OneBlock(disk, disk', InodeBlock(call.i)) /\ disk'[InodeBlock(call.i)] = call.block
  BY <1>1, <1>2, <1>3 DEF OneBlock
<1>5. ASSUME NEW s \in InodeSlots, NEW w \in ReadWords
      PROVE  FieldOf(disk', s, w) = IF s = f /\ w = 1 THEN Grown ELSE FieldOf(disk, s, w)
  <2>1. CopyWith(call.block, 1, Grown)
    BY DEF CopyWith, Grown, size
  <2>2. DirectInv
    BY DEF StoreInv
  <2>3. call.op = "write"
    BY <1>1
  <2> QED
    BY <1>3, <1>4, <2>1, <2>2, <2>3, TableWrite
<1>6. FieldOf(disk', f, 1) = Grown /\ Grown \in Nat /\ Grown >= call.done
  BY <1>2, <1>5, ReadWordsAre DEF WriteInv
<1>7. \A s \in InodeSlots : s # SlotOf(call.i) => SameFile(disk, s, disk')
  BY <1>5 DEF SameFile
<1>8. SuperInv' /\ SizesInv'
  <2>1. InodeBlock(call.i) # 0
    BY <1>2, <1>3
  <2> QED
    BY <1>1, <1>4, <1>6, <1>7, <2>1, WriteRest
<1>9. Written(disk', f, call.v, call.bi, call.done)
  <2>1. ASSUME NEW k \in Directs
        PROVE  FieldOf(disk', f, 4 + k) = FieldOf(disk, f, 4 + k)
    BY <1>2, <1>5, ReadWordsAre
  <2> QED
    BY <1>1, <1>4, <2>1, TableKeepsWritten
<1>10. Store!OnlyChanges({call.i})
  <2>1. DirectInv /\ SizesInv /\ TableOK(disk')
    BY DEF StoreInv, DirectInv
  <2>2. OneBlock(disk, disk', SlotOf(call.i)[1])
    BY <1>2, <1>4
  <2> QED
    BY <1>2, <1>7, <2>1, <2>2, SlotChange
<1>11. Used(disk', f) /\ TableOK(disk') /\ PointersApart(disk')
  BY <1>2, <1>5, ReadWordsAre DEF Used, DirectInv
<1>12. KeptSlots
  <2>1. \A k \in Directs : FieldOf(disk', f, 4 + k) = FieldOf(disk, f, 4 + k)
    BY <1>2, <1>5, ReadWordsAre
  <2> QED
    BY <1>1, <1>6, <1>7, <2>1, WriteKept
<1>13. CASE call.left = 0
  <2>1. call' = Idle
    BY <1>13 DEF FinishChunk, Return
  <2>2. StoreInv'
    BY <1>8, <2>1 DEF StoreInv, Idle
  <2>3. Operation = [kind |-> "copy", file |-> i, data |-> Data(call.v, call.done),
                     length |-> call.done, left |-> 0]
    <3>1. call.done + call.todo + call.left = call.done /\ call.todo + call.left = 0
      BY <1>1, <1>2, <1>13
    <3> QED
      BY <1>1, <3>1, Operations
  <2>4. Operation' = Store!Idle
    BY <2>1, NextOperations DEF Idle
  <2>5. i \in Files(disk') /\ DOMAIN FilesOf(disk)' = Files(disk')
        /\ FilesOf(disk)'[i] = Contents(disk', i)
    BY <1>2, <1>11, FileIs DEF FilesOf
  <2> HIDE DEF f, i
  <2>6. /\ Visible(disk', f) \in Nat /\ call.done <= Visible(disk', f)
        /\ Grown = call.done => Visible(disk', f) = call.done
    <3>1. call.done <= POINTERS_PER_INODE * BLOCK_SIZE
      <4>1. call.done <= call.bi * BLOCK_SIZE /\ call.bi <= POINTERS_PER_INODE
        BY <1>9 DEF Written
      <4>2. call.bi * BLOCK_SIZE <= POINTERS_PER_INODE * BLOCK_SIZE
        BY <1>2, <4>1, Sizes, ProductMonotone
      <4>3. call.bi * BLOCK_SIZE \in Nat
        BY <1>2, Sizes
      <4> QED
        BY <1>2, <4>1, <4>2, <4>3, DirectSpace
    <3> QED
      BY <1>2, <1>6, <3>1, DirectSpace DEF Visible
  <2>7. /\ DOMAIN Contents(disk', i) = 0..Visible(disk', f) - 1
        /\ \A o \in 0..Visible(disk', f) - 1 : o < call.done =>
             Contents(disk', i)[o] = FileByte(call.v, o \div BLOCK_SIZE)
    <3>1. i \in 0..NInodes - 1 /\ i \in 1..NInodes - 1
      BY <1>2, FileNumber
    <3>2. f = SlotOf(i) /\ FieldOf(disk', f, 1) \in Nat
      BY <1>6 DEF f, i
    <3> QED
      BY <1>2, <1>9, <1>11, <3>1, <3>2, ContentsDomain, WrittenContents
  <2>8. Grown = call.done => DOMAIN Contents(disk, i) \subseteq 0..call.done - 1
    <3> SUFFICES ASSUME Grown = call.done
                 PROVE  DOMAIN Contents(disk, i) \subseteq 0..call.done - 1
      OBVIOUS
    <3>1. f = SlotOf(i) /\ i \in 0..NInodes - 1 /\ TableOK(disk)
      BY <1>1, <1>2, FileNumber, WriteFacts DEF f, i
    <3>2. Visible(disk, f) <= FieldOf(disk, f, 1) /\ Visible(disk, f) \in Nat
      BY <1>2, DirectSpace DEF Visible
    <3>3. FieldOf(disk, f, 1) <= call.done
      BY <1>2 DEF WriteInv, f
    <3>4. DOMAIN Contents(disk, i) = 0..Visible(disk, f) - 1
      BY <1>2, <3>1, ContentsDomain
    <3> QED
      BY <1>2, <3>2, <3>3, <3>4
  <2>9. Grown = call.done => Contents(disk', i) = Data(call.v, call.done)
    <3> SUFFICES ASSUME Grown = call.done
                 PROVE  Contents(disk', i) = Data(call.v, call.done)
      OBVIOUS
    <3>1. Visible(disk', f) = call.done
      BY <2>6
    <3>2. \A o \in 0..call.done - 1 : o < call.done
      BY <1>2
    <3>3. i \in 0..NInodes - 1 /\ f = SlotOf(i) /\ FieldOf(disk', SlotOf(i), 1) \in Nat
      BY <1>2, <1>6, FileNumber DEF f, i
    <3>4. Contents(disk', i) = [o \in 0..call.done - 1 |-> ByteOf(disk', SlotOf(i), o)]
      BY <1>11, <3>1, <3>3, ContentsAre
    <3>5. \A o \in 0..call.done - 1 :
            ByteOf(disk', SlotOf(i), o) = FileByte(call.v, o \div BLOCK_SIZE)
      BY <2>7, <3>1, <3>2, <3>4
    <3> QED
      BY <3>4, <3>5 DEF Data
  <2>10. ASSUME Grown = call.done PROVE Store!EndCopy
    <3>1. /\ Operation.kind = "copy" /\ Operation.left = 0 /\ Operation.file = i
          /\ Operation.data = Data(call.v, call.done)
      BY <2>3
    <3>2. FilesOf(disk)[i] = Contents(disk, i)
      BY <1>2 DEF FilesOf, i
    <3>3. Store!OnlyChanges({Operation.file}) /\ UNCHANGED isMounted
      BY <1>1, <1>10, <3>1 DEF i
    <3>4. Data(call.v, call.done) = Store!Overlaid(Data(call.v, call.done), Contents(disk, i))
      <4>1. DOMAIN Data(call.v, call.done) = 0..call.done - 1
            /\ DOMAIN Data(call.v, call.done) \cup DOMAIN Contents(disk, i) = 0..call.done - 1
        BY <2>8, <2>10, DataIs
      <4>2. Data(call.v, call.done) = [o \in 0..call.done - 1 |-> Data(call.v, call.done)[o]]
        BY DEF Data
      <4> QED
        BY <4>1, <4>2 DEF Store!Overlaid
    <3> QED
      BY <2>4, <2>5, <2>9, <2>10, <3>1, <3>2, <3>3, <3>4 DEF Store!EndCopy
  <2>11. KeptGrown
    BY <2>1 DEF KeptGrown, Idle
  <2> QED
    BY <1>12, <2>2, <2>10, <2>11
<1>14. CASE call.left # 0
  <2> DEFINE t == Min({CHUNK, call.left})
  <2>1. t \in Nat /\ call.left - t \in Nat /\ t + (call.left - t) = call.left
    BY <1>2, NextChunk
  <2>2. call' = [call EXCEPT !.far = FALSE, !.ind = ZeroBlock,
                             !.todo = t, !.left = call.left - t]
    BY <1>14 DEF FinishChunk
  <2> HIDE DEF t
  <2>3. /\ call'.op = "write" /\ call'.i = call.i /\ call'.v = call.v
        /\ call'.bi = call.bi /\ call'.done = call.done /\ call'.todo = t
        /\ call'.left = call.left - t /\ call'.block = call.block
    BY <1>1, <2>2, WriteCall DEF StoreInv
  <2>4. Grown' = Grown
    BY <2>3 DEF Grown, size, InodeOffset
  <2>5. /\ call'.done + call'.todo + call'.left = call.done + call.todo + call.left
        /\ call'.todo + call'.left = call.todo + call.left
        /\ call.todo + call.left \in Nat
    BY <1>1, <1>2, <2>1, <2>3
  <2>6. WriteInv'
    <3>1. SlotOf(call.i)' = f
      BY <2>3 DEF SlotOf, InodeBlock, InodeOffset
    <3> HIDE DEF f
    <3>2. call.todo + call.left > 0 => call.done = call.bi * BLOCK_SIZE
      BY <1>2 DEF WriteInv
    <3> QED
      BY <1>2, <1>6, <1>9, <2>3, <2>4, <2>5, <3>1, <3>2 DEF WriteInv
  <2>7. StoreInv'
    BY <1>8, <2>6 DEF StoreInv
  <2>8. Grown = call.done =>
          FieldOf(disk, SlotOf(call.i), 1) <= FieldOf(disk', SlotOf(call.i), 1)
    BY <1>2, <1>6 DEF WriteInv
  <2>9. Grown = call.done => Store!Copy
    BY <1>1, <1>10, <2>3, <2>4, <2>5, <2>7, <2>8, CopyStep
  <2>10. KeptGrown
    BY <2>3, <2>4 DEF KeptGrown
  <2> QED
    BY <1>12, <2>7, <2>9, <2>10
<1> QED
  BY <1>13, <1>14

-----------------------------------------------------------------------------
(* The refinement.                                                         *)

LEMMA UnchangedStore ==
  ASSUME StoreInv, UNCHANGED vars, DirectInv'
  PROVE  StoreInv' /\ UNCHANGED Store!vars
<1>1. UNCHANGED <<disk, isMounted, call>>
  BY DEF vars
<1>2. SuperInv' /\ SizesInv'
  BY <1>1 DEF StoreInv, SuperInv, SizesInv, Used, FieldOf
<1>3. call.op = "write" => WriteInv'
  <2>1. Grown' = Grown
    BY <1>1 DEF Grown, size
  <2> QED
    BY <1>1, <2>1 DEF StoreInv, WriteInv, Written, FieldOf, SlotOf
<1>4. StoreInv'
  BY <1>1, <1>2, <1>3 DEF StoreInv
<1>5. FilesOf(disk)' = FilesOf(disk) /\ Operation' = Operation
  BY <1>1 DEF Operation
<1> QED
  BY <1>1, <1>4, <1>5 DEF Store!vars

\* A step implements the store when a write in progress has counted what it has
\* written, and a format that ends has left no file.
Faithful ==
  /\ call.op = "write" => Grown = call.done
  /\ FormatReturn => Files(disk) = {}

LEMMA StoreStep ==
  ASSUME DirectUse, StoreInv, [Next]_vars
  PROVE  /\ StoreInv' /\ KeptSlots /\ KeptGrown
         /\ Faithful => [Store!Next]_(Store!vars)
<1>1. DirectInv'
  BY DirectStep DEF StoreInv
<1> DEFINE Goal == /\ StoreInv' /\ KeptSlots /\ KeptGrown
                   /\ Faithful => [Store!Next]_(Store!vars)
<1>0. call.op # "write" \/ call'.op # "write" => KeptGrown
  BY DEF KeptGrown
<1>2. CASE FormatSuper
  BY <1>0, <1>1, <1>2, FormatSuperStore DEF Store!Next, FormatSuper, Idle
<1>3. CASE FormatInodes
  BY <1>0, <1>1, <1>3, FormatInodesStore DEF Store!Next, FormatInodes
<1>4. CASE FormatReturn
  BY <1>0, <1>1, <1>4, FormatReturnStore, SameDiskKept DEF FormatReturn, Store!Next, Faithful
<1>5. CASE Mount
  BY <1>0, <1>1, <1>5, MountStore, SameDiskKept DEF Mount, Restart, Store!Next, Idle
<1>6. CASE Crash
  BY <1>0, <1>1, <1>6, RestartStore, SameDiskKept DEF Crash, Restart, Store!Next, Idle
<1>7. CASE CreateClear
  BY <1>7, CreateClearNever DEF StoreInv
<1>8. CASE CreateWrite
  BY <1>0, <1>1, <1>8, CreateWriteStore DEF Store!Next, CreateWrite, Idle
<1>9. ASSUME NEW i \in Inumbers, Delete(i)
      PROVE  Goal
  BY <1>0, <1>1, <1>9, DeleteStore DEF Store!Next, Delete, Idle
<1>10. ASSUME NEW i \in Inumbers, CopyIn(i)
       PROVE  Goal
  BY <1>0, <1>1, <1>10, CopyInStore, SameDiskKept DEF CopyIn, Restart, Store!Next, Idle
<1>11. CASE AllocateInInode
  BY <1>1, <1>11, AllocateStore DEF Store!Next, AllocateInInode, Writing, Faithful
<1>12. CASE ReadIndirect
  BY <1>12, NextIsDirect, Sizes DEF ReadIndirect, Directs, StoreInv
<1>13. CASE AllocateInIndirect
  BY <1>13, NextIsDirect, WriteCall DEF AllocateInIndirect, CopyInv, StoreInv
<1>14. CASE WriteData
  BY <1>1, <1>14, WriteDataStore DEF Store!Next, WriteData, Writing, Faithful
<1>15. CASE FinishChunk
  BY <1>1, <1>15, FinishStore DEF Store!Next, FinishChunk, Faithful
<1>16. CASE UNCHANGED vars
  BY <1>1, <1>16, UnchangedStore, SameDiskKept DEF vars, KeptGrown, Grown
<1> QED
  BY <1>2, <1>3, <1>4, <1>5, <1>6, <1>7, <1>8, <1>9, <1>10, <1>11, <1>12, <1>13,
     <1>14, <1>15, <1>16 DEF Next

LEMMA InitStore ==
  ASSUME Init, DirectInv
  PROVE  StoreInv /\ Store!Init
<1>1. \A s \in InodeSlots, w \in 0..InodeWords - 1 : FieldOf(disk, s, w) = 0
  BY SlotsInRange, WordAt DEF Init, ZeroBlock, FieldOf
<1>2. \A s \in InodeSlots : ~Used(disk, s)
  BY <1>1, Sizes DEF Used
<1>3. disk[0] = ZeroBlock
  BY Sizes DEF Init, BlockNumbers
<1>4. StoreInv
  BY <1>2, <1>3 DEF Init, Idle, StoreInv, SuperInv, SizesInv
<1>5. Files(disk) = {}
  BY <1>2, FileIs, FileNumber DEF Files
<1>6. FilesOf(disk) = [i \in {} |-> Store!Empty]
  BY <1>5 DEF FilesOf
<1>7. Operation = Store!Idle
  BY Operations DEF Init, Idle
<1> QED
  BY <1>4, <1>6, <1>7 DEF Store!Init, Init

\* In every state of the user of small files the superblock is what fs_format
\* wrote, and a file holds, byte by byte, what fs_write has put into it.
THEOREM StoreInvariance == DirectUse /\ Spec => []StoreInv
<1> SUFFICES ASSUME DirectUse PROVE Spec => []StoreInv
  OBVIOUS
<1>1. Spec => []DirectInv
  BY DirectInvariance
<1>2. Init /\ DirectInv => StoreInv
  BY InitStore
<1>3. StoreInv /\ [Next]_vars => StoreInv'
  BY StoreStep
<1> QED
  BY <1>1, <1>2, <1>3, PTL DEF Spec

-----------------------------------------------------------------------------
(***************************************************************************)
(* A user who never copies into a file that has contents: the bytes that   *)
(* the sizes count have blocks of their own.                               *)
(***************************************************************************)
NoOverwrite == \A h \in Habits : ~h.overwrite

\* The size of the inode in slot s fits the direct pointers, and those that it
\* reaches are set.
Backed(d, s) ==
  /\ FieldOf(d, s, 1) <= POINTERS_PER_INODE * BLOCK_SIZE
  /\ \A k \in Directs : k * BLOCK_SIZE < FieldOf(d, s, 1) => FieldOf(d, s, 4 + k) # 0

\* And a write counts no byte but those it has written.
BackedInv ==
  /\ StoreInv
  /\ \A s \in InodeSlots : Used(disk, s) => Backed(disk, s)
  /\ call.op = "write" => Grown = call.done

\* The bytes a write has written have blocks.
LEMMA WrittenBacked ==
  ASSUME NEW d, NEW s, NEW v, NEW bi \in Nat, NEW done \in Nat,
         Written(d, s, v, bi, done)
  PROVE  /\ done <= POINTERS_PER_INODE * BLOCK_SIZE
         /\ \A k \in Directs : k * BLOCK_SIZE < done => FieldOf(d, s, 4 + k) # 0
<1>1. /\ bi <= POINTERS_PER_INODE /\ done <= bi * BLOCK_SIZE
      /\ \A k \in Directs : k < bi => FieldOf(d, s, 4 + k) # 0
  BY DEF Written
<1>2. done <= POINTERS_PER_INODE * BLOCK_SIZE
  <2>1. bi * BLOCK_SIZE <= POINTERS_PER_INODE * BLOCK_SIZE
    BY <1>1, Sizes, ProductMonotone
  <2>2. bi * BLOCK_SIZE \in Nat /\ POINTERS_PER_INODE * BLOCK_SIZE \in Nat
    BY Sizes
  <2> QED
    BY <1>1, <2>1, <2>2
<1>3. ASSUME NEW k \in Directs, k * BLOCK_SIZE < done
      PROVE  k < bi
  <2> SUFFICES ASSUME bi <= k PROVE FALSE
    BY Sizes DEF Directs
  <2>1. k \in Nat
    BY Sizes DEF Directs
  <2>2. bi * BLOCK_SIZE <= k * BLOCK_SIZE
    BY <2>1, Sizes, ProductMonotone
  <2>3. bi * BLOCK_SIZE \in Nat /\ k * BLOCK_SIZE \in Nat
    BY <2>1, Sizes
  <2> QED
    BY <1>1, <1>3, <2>2, <2>3
<1> QED
  BY <1>1, <1>2, <1>3

\* A copy begins with nothing counted, and goes on with what it has written.
LEMMA GrownFresh ==
  ASSUME DirectUse, NoOverwrite, BackedInv, [Next]_vars, call'.op = "write"
  PROVE  Grown' = call'.done
<1>1. StoreInv /\ KeptGrown
  BY StoreStep DEF BackedInv
<1>2. CASE call.op = "write"
  BY <1>1, <1>2 DEF BackedInv, KeptGrown
<1>3. CASE call.op # "write"
  <2>1. PICK i \in Inumbers : CopyIn(i)
    <3>1. ~(FormatSuper \/ FormatReturn \/ Crash \/ CreateClear)
      <4>1. FormatSuper => call'.op = "format"
        BY DEF FormatSuper
      <4>2. ~CreateClear
        BY <1>1, CreateClearNever DEF StoreInv
      <4>3. FormatReturn \/ Crash => call' = Idle
        BY DEF FormatReturn, Return, Crash, Restart
      <4> QED
        BY <4>1, <4>2, <4>3 DEF Idle
    <3>2. ~FormatInodes /\ ~Mount /\ ~CreateWrite
      <4>1. FormatInodes => call'.op = call.op
        <5>1. call.op = "format" => call \in [op : {"format"}, i : Nat \ {0}, block : Block]
          BY <1>1 DEF StoreInv, DirectInv, TypeOK, Calls, Idle
        <5> QED
          BY <5>1 DEF FormatInodes
      <4> QED
        BY <1>3, <4>1 DEF Mount, Restart, CreateWrite, Return, Idle
    <3>3. ~(\E i \in Inumbers : Delete(i))
      BY <1>3 DEF Delete, Restart, Idle
    <3>4. ~(AllocateInInode \/ ReadIndirect \/ AllocateInIndirect \/ WriteData \/ FinishChunk)
      BY <1>3 DEF AllocateInInode, ReadIndirect, AllocateInIndirect, WriteData, FinishChunk,
         Writing
    <3> QED
      BY <1>3, <3>1, <3>2, <3>3, <3>4 DEF Next, vars
  <2>2. OnDisk(InodeBlock(i))
    <3>1. ~Restart
      BY DEF Restart, Idle
    <3> QED
      BY <2>1, <3>1 DEF CopyIn
  <2>3. /\ habit.overwrite \/ size(disk[InodeBlock(i)], InodeOffset(i)) = 0
        /\ call'.i = i /\ call'.block = disk[InodeBlock(i)] /\ call'.done = 0
    <3>1. PICK n \in Lengths, v \in Values :
            /\ habit.overwrite \/ size(disk[InodeBlock(i)], InodeOffset(i)) = 0
            /\ call' = [op |-> "write", i |-> i, v |-> v, block |-> disk[InodeBlock(i)],
                        ind |-> ZeroBlock, far |-> FALSE, bi |-> 0,
                        done |-> 0, todo |-> Min({CHUNK, n}),
                        left |-> n - Min({CHUNK, n})]
      BY <2>1, <2>2 DEF CopyIn
    <3> QED
      BY <3>1
  <2>4. ~habit.overwrite
    BY <1>1 DEF NoOverwrite, StoreInv, DirectInv, TypeOK
  <2> QED
    BY <2>3, <2>4 DEF Grown, size, InodeOffset, At
<1> QED
  BY <1>2, <1>3

LEMMA BackedStep ==
  ASSUME DirectUse, NoOverwrite, BackedInv, [Next]_vars
  PROVE  BackedInv'
<1>1. StoreInv /\ StoreInv' /\ KeptSlots
  BY StoreStep DEF BackedInv
<1>2. ASSUME NEW s \in InodeSlots, Used(disk', s)
      PROVE  Backed(disk', s)
  <2>1. CASE FieldOf(disk', s, 1) = 0
    <3>1. \A k \in Directs : ~(k * BLOCK_SIZE < 0)
      <4>1. \A k \in Directs : k * BLOCK_SIZE \in Nat
        BY Sizes DEF Directs
      <4> QED
        BY <4>1
    <3> QED
      BY <2>1, <3>1, DirectSpace DEF Backed
  <2>2. CASE SameFile(disk, s, disk')
    <3>1. /\ FieldOf(disk', s, 0) = FieldOf(disk, s, 0)
          /\ FieldOf(disk', s, 1) = FieldOf(disk, s, 1)
          /\ \A k \in Directs : FieldOf(disk', s, 4 + k) = FieldOf(disk, s, 4 + k)
      BY <2>2, ReadWordsAre DEF SameFile
    <3> QED
      BY <1>2, <3>1 DEF Backed, BackedInv, Used
  <2>3. CASE /\ call.op = "write" /\ s = SlotOf(call.i)
             /\ FieldOf(disk', s, 1) \in {FieldOf(disk, s, 1), Grown}
             /\ \A k \in Directs : FieldOf(disk, s, 4 + k) # 0 =>
                                   FieldOf(disk', s, 4 + k) # 0
    <3>1. /\ Used(disk, s) /\ call.bi \in Nat /\ call.done \in Nat
          /\ Written(disk, s, call.v, call.bi, call.done) /\ Grown = call.done
      BY <1>1, <2>3, WriteFacts DEF WriteInv, BackedInv
    <3>2. Backed(disk, s)
      BY <3>1 DEF BackedInv
    <3>3. /\ call.done <= POINTERS_PER_INODE * BLOCK_SIZE
          /\ \A k \in Directs : k * BLOCK_SIZE < call.done => FieldOf(disk, s, 4 + k) # 0
      BY <3>1, WrittenBacked
    <3>4. CASE FieldOf(disk', s, 1) = FieldOf(disk, s, 1)
      BY <2>3, <3>2, <3>4 DEF Backed
    <3>5. CASE FieldOf(disk', s, 1) = call.done
      BY <2>3, <3>3, <3>5 DEF Backed
    <3> QED
      BY <2>3, <3>1, <3>4, <3>5
  <2> QED
    BY <1>1, <1>2, <2>1, <2>2, <2>3 DEF KeptSlots, KeptSlot
<1>3. call'.op = "write" => Grown' = call'.done
  BY GrownFresh
<1> QED
  BY <1>1, <1>2, <1>3 DEF BackedInv

\* What copyout gives is as long as fs_getsize says.
LEMMA BackedSizes == BackedInv => SizeBacked
<1> SUFFICES ASSUME BackedInv, NEW i \in Files(disk)
             PROVE  LET blocks == (fs_getsize(disk, i) + BLOCK_SIZE - 1) \div BLOCK_SIZE
                    IN /\ fs_getsize(disk, i) = Readable(disk, i)
                       /\ \A k \in 0..blocks - 1 : BlockOf(disk, i, k) # 0
  BY DEF SizeBacked
<1> DEFINE s == SlotOf(i)
           n == FieldOf(disk, s, 1)
           x == n + BLOCK_SIZE - 1
           blocks == x \div BLOCK_SIZE
           space == POINTERS_PER_INODE * BLOCK_SIZE
<1>1. /\ i \in 1..NInodes - 1 /\ i \in 0..NInodes - 1 /\ s \in InodeSlots
      /\ Used(disk, s) /\ TableOK(disk)
  BY FileIs, FileNumber DEF BackedInv, StoreInv, DirectInv
<1>2. n \in Nat /\ n <= space
      /\ \A k \in Directs : k * BLOCK_SIZE < n => FieldOf(disk, s, 4 + k) # 0
  BY <1>1 DEF BackedInv, StoreInv, SizesInv, Backed
<1>3. \A w : InodeOf(disk, i, w) = FieldOf(disk, s, w)
  BY DEF InodeOf, FieldOf, SlotOf
<1>4. fs_getsize(disk, i) = n
  <2>1. i >= 1 /\ i <= NInodes
    BY <1>1, Sizes DEF NInodes
  <2>2. IsFile(disk, i)
    BY <1>1, <1>3 DEF IsFile, Used
  <2> QED
    BY <1>3, <2>1, <2>2 DEF fs_getsize, InTable
<1>5. Readable(disk, i) = n
  BY <1>1, <1>2, ContentsAre DEF Visible
<1>6. ASSUME NEW k \in 0..blocks - 1
      PROVE  k \in Directs /\ k * BLOCK_SIZE < n
  <2> HIDE DEF n
  <2>1. x \in Nat /\ BLOCK_SIZE \in Nat \ {0}
    BY <1>2, Sizes
  <2>2. blocks \in Nat /\ (x % BLOCK_SIZE) \in 0..BLOCK_SIZE - 1
        /\ x = blocks * BLOCK_SIZE + (x % BLOCK_SIZE)
    BY <2>1, Divided
  <2> HIDE DEF blocks, x
  <2>3. k \in Nat /\ k + 1 <= blocks
    BY <2>2
  <2>4. (k + 1) * BLOCK_SIZE <= blocks * BLOCK_SIZE
    BY <2>1, <2>2, <2>3, ProductMonotone
  <2>5. (k + 1) * BLOCK_SIZE = k * BLOCK_SIZE + BLOCK_SIZE
        /\ k * BLOCK_SIZE \in Nat /\ blocks * BLOCK_SIZE \in Nat
    BY <2>1, <2>2, <2>3
  <2>6. k * BLOCK_SIZE < n
    BY <1>2, <2>1, <2>2, <2>4, <2>5 DEF x
  <2>7. k < POINTERS_PER_INODE
    <3> SUFFICES ASSUME POINTERS_PER_INODE <= k PROVE FALSE
      BY <2>3, Sizes
    <3>1. space <= k * BLOCK_SIZE
      BY <2>3, Sizes, ProductMonotone
    <3> QED
      BY <1>2, <2>5, <2>6, <3>1, DirectSpace
  <2> QED
    BY <2>3, <2>6, <2>7, Sizes DEF Directs
<1>7. ASSUME NEW k \in Directs PROVE BlockOf(disk, i, k) = FieldOf(disk, s, 4 + k)
  BY <1>3, Sizes DEF BlockOf, Directs
<1>8. \A k \in 0..blocks - 1 : BlockOf(disk, i, k) # 0
  BY <1>2, <1>6, <1>7
<1> HIDE DEF s, n
<1> QED
  BY <1>4, <1>5, <1>8

\* For small files that are never copied into twice, a write counts what it has
\* written and no more, and what a size counts has blocks.
LEMMA BackedInvariance == DirectUse /\ NoOverwrite /\ Spec => []BackedInv
<1> SUFFICES ASSUME DirectUse, NoOverwrite PROVE Spec => []BackedInv
  OBVIOUS
<1>1. Spec => []DirectInv
  BY DirectInvariance
<1>2. Init /\ DirectInv => BackedInv
  <2> SUFFICES ASSUME Init, DirectInv PROVE BackedInv
    OBVIOUS
  <2>1. StoreInv
    BY InitStore
  <2>2. \A s \in InodeSlots : FieldOf(disk, s, 0) = 0
    BY SlotsInRange, WordAt, Sizes DEF Init, ZeroBlock, FieldOf
  <2> QED
    BY <2>1, <2>2 DEF BackedInv, Used, Init, Idle
<1>3. BackedInv /\ [Next]_vars => BackedInv'
  BY BackedStep
<1> QED
  BY <1>1, <1>2, <1>3, PTL DEF Spec

\* For small files that are never copied into twice, on any disk: every byte that
\* fs_getsize counts lies in a block of the file's own, at any point of any call
\* and after any crash.
THEOREM DirectSizeBacked == DirectUse /\ NoOverwrite /\ Spec => []SizeBacked
BY BackedInvariance, BackedSizes, PTL

-----------------------------------------------------------------------------
(***************************************************************************)
(* A user who, besides, formats no disk that has files in the last block   *)
(* of inodes, which fs_format does not clear: the refinement.              *)
(***************************************************************************)
NoReformat == \A h \in Habits : h.reformat # "any"

\* The files that a format has still to destroy are in the blocks it has still to
\* clear.
ToDestroy ==
  call.op = "format" =>
    \A i \in Files(disk) : SlotOf(i)[1] >= call.i /\ SlotOf(i)[1] < NInodeBlocks

LEMMA FileBlocks ==
  ASSUME NEW d, NEW i \in Files(d)
  PROVE  SlotOf(i)[1] = InodeBlock(i) /\ SlotOf(i)[1] \in 1..NInodeBlocks
BY FileIs, FileNumber, SlotsInRange DEF SlotOf

LEMMA ToDestroyStep ==
  ASSUME DirectUse, NoReformat, StoreInv, ToDestroy, [Next]_vars
  PROVE  ToDestroy'
<1> SUFFICES ASSUME call'.op = "format" PROVE ToDestroy'
  BY DEF ToDestroy
<1>1. DirectInv'
  BY DirectStep DEF StoreInv
<1>2. CASE FormatSuper
  <2>1. call'.i = 1
    BY <1>2 DEF FormatSuper
  <2>2. Files(disk') = Files(disk)
    BY <1>1, <1>2, FormatSuperStore
  <2>3. ~LastBlockUsed(disk)
    BY <1>2 DEF FormatSuper, NoReformat, StoreInv, DirectInv, TypeOK
  <2>4. ASSUME NEW i \in Files(disk)
        PROVE  SlotOf(i)[1] >= 1 /\ SlotOf(i)[1] < NInodeBlocks
    <3>1. SlotOf(i)[1] # NInodeBlocks
      BY <2>3, FileBlocks DEF LastBlockUsed
    <3> QED
      BY <3>1, FileBlocks, Sizes
  <2> QED
    BY <2>1, <2>2, <2>4 DEF ToDestroy, SlotOf, InodeBlock, InodeOffset
<1>3. CASE FormatInodes
  <2>1. call.op = "format" /\ call'.i = call.i + 1 /\ call.i \in Nat
    BY <1>3 DEF FormatInodes, StoreInv, DirectInv, TypeOK, Calls, Idle
  <2>2. \A i \in Files(disk') : i \in Files(disk) /\ SlotOf(i)[1] # call.i
    BY <1>1, <1>3, FormatInodesStore
  <2>3. ASSUME NEW i \in Files(disk')
        PROVE  SlotOf(i)[1] >= call.i + 1 /\ SlotOf(i)[1] < NInodeBlocks
    <3>1. i \in Files(disk) /\ SlotOf(i)[1] # call.i
      BY <2>2
    <3>2. SlotOf(i)[1] >= call.i /\ SlotOf(i)[1] < NInodeBlocks
      BY <2>1, <3>1 DEF ToDestroy
    <3>3. SlotOf(i)[1] \in Nat
      BY <3>1, FileBlocks
    <3> QED
      BY <2>1, <3>1, <3>2, <3>3
  <2> QED
    BY <2>1, <2>3 DEF ToDestroy, SlotOf, InodeBlock, InodeOffset
<1>4. CASE UNCHANGED vars
  BY <1>4 DEF vars, ToDestroy
<1>5. ~(FormatReturn \/ Mount \/ Crash \/ CreateClear \/ CreateWrite)
  <2>1. FormatReturn \/ Crash => call' = Idle
    BY DEF FormatReturn, Return, Crash, Restart
  <2>2. ~CreateClear
    BY CreateClearNever DEF StoreInv
  <2>3. ~Mount /\ ~CreateWrite
    BY DEF Mount, Restart, CreateWrite, Return, Idle
  <2> QED
    BY <2>1, <2>2, <2>3 DEF Idle
<1>6. ASSUME NEW i \in Inumbers PROVE ~Delete(i) /\ ~CopyIn(i)
  <2>1. ~Restart
    BY DEF Restart, Idle
  <2>2. ~Delete(i)
    BY <2>1 DEF Delete, Idle
  <2>3. ASSUME CopyIn(i) PROVE call'.op = "write"
    <3>1. OnDisk(InodeBlock(i))
      BY <2>1, <2>3 DEF CopyIn
    <3>2. PICK n \in Lengths, v \in Values :
            call' = [op |-> "write", i |-> i, v |-> v, block |-> disk[InodeBlock(i)],
                     ind |-> ZeroBlock, far |-> FALSE, bi |-> 0,
                     done |-> 0, todo |-> Min({CHUNK, n}),
                     left |-> n - Min({CHUNK, n})]
      BY <2>3, <3>1 DEF CopyIn
    <3> QED
      BY <3>2
  <2> QED
    BY <2>2, <2>3
<1>7. ~(AllocateInInode \/ ReadIndirect \/ AllocateInIndirect \/ WriteData \/ FinishChunk)
  <2>1. ~(AllocateInIndirect \/ ReadIndirect)
    <3>1. ReadIndirect \/ AllocateInIndirect => Writing
      BY DEF ReadIndirect, AllocateInIndirect
    <3> QED
      BY <3>1, NextIsDirect, WriteCall, Sizes DEF ReadIndirect, AllocateInIndirect, Directs,
         CopyInv, StoreInv
  <2>2. call.op = "write" =>
          call \in [op : {"write"}, i : { i \in Inumbers : OnDisk(InodeBlock(i)) },
                   v : Values, block : Block, ind : Block, far : BOOLEAN,
                   bi : Nat, done : Nat, todo : 0..CHUNK, left : Nat]
    BY WriteCall DEF StoreInv
  <2>3. ~Restart /\ ~Return
    BY DEF Restart, Return, Idle
  <2>4. ~AllocateInInode
    BY <2>2, <2>3 DEF AllocateInInode, DiskFull, Writing
  <2>5. ~WriteData
    BY <2>2, <2>3 DEF WriteData, Writing
  <2>6. ~FinishChunk
    BY <2>2, <2>3 DEF FinishChunk
  <2> QED
    BY <2>1, <2>4, <2>5, <2>6
<1> QED
  BY <1>2, <1>3, <1>4, <1>5, <1>6, <1>7 DEF Next

LEMMA FaithfulStep ==
  ASSUME BackedInv, ToDestroy
  PROVE  Faithful
<1>1. ASSUME FormatReturn, NEW i \in Files(disk) PROVE FALSE
  <2>1. call.op = "format" /\ call.i >= NInodeBlocks /\ call.i \in Nat
    BY <1>1 DEF FormatReturn, BackedInv, StoreInv, DirectInv, TypeOK, Calls, Idle
  <2>2. SlotOf(i)[1] >= call.i /\ SlotOf(i)[1] < NInodeBlocks
    BY <1>1, <2>1 DEF ToDestroy
  <2> QED
    BY <1>1, <2>1, <2>2, FileBlocks, Sizes
<1> QED
  BY <1>1 DEF Faithful, BackedInv

\* For small files that are never copied into twice, on any disk that is not
\* formatted with files in its last block of inodes, SimpleFS implements FileStore:
\* a call changes the file it is about and no other, a format leaves no file, what
\* was copied in is what copyout gives, and a copy cut short, by a full disk or a
\* crash between any two disk writes, leaves a beginning of it.
THEOREM DirectStore ==
  DirectUse /\ NoOverwrite /\ NoReformat /\ Spec => StoreSpec
<1> SUFFICES ASSUME DirectUse, NoOverwrite, NoReformat PROVE Spec => StoreSpec
  OBVIOUS
<1>1. Spec => []DirectInv
  BY DirectInvariance
<1>2. Spec => []BackedInv
  BY BackedInvariance
<1>3. Init /\ DirectInv => Store!Init
  BY InitStore
<1>4. Init => ToDestroy
  BY DEF Init, Idle, ToDestroy
<1>5. BackedInv /\ ToDestroy /\ [Next]_vars => ToDestroy' /\ [Store!Next]_(Store!vars)
  BY ToDestroyStep, StoreStep, FaithfulStep DEF BackedInv
<1> QED
  BY <1>1, <1>2, <1>3, <1>4, <1>5, PTL DEF Spec, StoreSpec, Store!Spec

-----------------------------------------------------------------------------
(* fs_debug.                                                               *)

\* What the scan reads of the superblock, of an inode and of a pointer.
LEMMA ScanReads ==
  ASSUME NEW d, d[0] = Superblock
  PROVE  /\ d[0][0] = FS_MAGIC /\ Scan!nblocks(d) = NBLOCKS
         /\ Scan!ninodeblocks(d) = NInodeBlocks
         /\ \A s : Scan!Inode(d[s[1]], s[2], 0) = FieldOf(d, s, 0)
         /\ \A e : e[3] <= POINTERS_PER_INODE =>
              Scan!Pointer(d, e) = FieldOf(d, <<e[1], e[2]>>, 4 + e[3])
         /\ \A n \in Int : Scan!InRange(d, n) <=> n \in NInodeBlocks + 1..NBLOCKS - 1
<1>1. /\ d[0][0] = FS_MAGIC /\ d[0][1] = NBLOCKS /\ d[0][2] = NInodeBlocks
  <2>1. \A w \in {0, 1, 2, 3} : w \in Words
    <3>1. \A w \in {0, 1, 2, 3} : w \in 0..InodeWords - 1 /\ 0 * InodeWords + w = w
      BY Sizes
    <3>2. 0 \in 0..INODES_PER_BLOCK - 1
      BY Sizes
    <3> QED
      BY <3>1, <3>2, WordAt DEF At
  <2> QED
    BY <2>1 DEF Superblock, ZeroBlock
<1>2. Scan!nblocks(d) = NBLOCKS /\ Scan!ninodeblocks(d) = NInodeBlocks
  BY <1>1 DEF Scan!nblocks, Scan!ninodeblocks
<1>3. \A b, j, w : Scan!Inode(b, j, w) = b[At(j, w)]
  BY DEF Scan!Inode, At
<1>4. \A s, w : Scan!Inode(d[s[1]], s[2], w) = FieldOf(d, s, w)
  BY <1>3 DEF FieldOf
<1>5. \A e : e[3] <= POINTERS_PER_INODE =>
        Scan!Pointer(d, e) = FieldOf(d, <<e[1], e[2]>>, 4 + e[3])
  BY <1>3 DEF Scan!Pointer, FieldOf
<1>6. \A n \in Int : Scan!InRange(d, n) <=> n \in NInodeBlocks + 1..NBLOCKS - 1
  BY <1>2, Sizes DEF Scan!InRange
<1> QED
  BY <1>1, <1>2, <1>4, <1>5, <1>6

\* The scan meets the direct pointers that are set, of every file.
Direct(d) == { e \in (1..NInodeBlocks) \X (0..INODES_PER_BLOCK - 1) \X Directs :
                 Used(d, <<e[1], e[2]>>) /\ FieldOf(d, <<e[1], e[2]>>, 4 + e[3]) # 0 }

LEMMA ScanEntries ==
  ASSUME NEW d, d[0] = Superblock, TableOK(d)
  PROVE  Scan!Entries(d) = Direct(d)
<1>1. Scan!Inodes(d) = { s \in InodeSlots : Used(d, s) }
  <2>1. \A s \in InodeSlots : FieldOf(d, s, 0) = 1 <=> Used(d, s)
    BY DEF TableOK, Used
  <2>2. ~Used(d, <<1, 0>>)
    BY DEF TableOK
  <2>3. (1..Scan!ninodeblocks(d)) \X (0..INODES_PER_BLOCK - 1) = InodeSlots
    BY ScanReads DEF InodeSlots
  <2>4. \A s \in InodeSlots : s \notin {<<1, 0>>} /\ Scan!Inode(d[s[1]], s[2], 0) = 1
                              <=> Used(d, s)
    BY <2>1, <2>2, ScanReads
  <2> QED
    BY <2>3, <2>4 DEF Scan!Inodes
<1>2. /\ Directs \subseteq 0..POINTERS_PER_INODE /\ POINTERS_PER_INODE \notin Directs
      /\ \A k \in 0..POINTERS_PER_INODE : k \in Directs \/ k = POINTERS_PER_INODE
      /\ \A k \in 0..POINTERS_PER_INODE : k <= POINTERS_PER_INODE
      /\ 4 + POINTERS_PER_INODE = InodeWords - 1
  BY Sizes DEF Directs
<1>3. ASSUME NEW s \in InodeSlots, NEW k \in 0..POINTERS_PER_INODE
      PROVE  Scan!Pointer(d, <<s[1], s[2], k>>) = FieldOf(d, s, 4 + k)
  BY <1>2, ScanReads, SlotsInRange
<1>4. \A s \in InodeSlots : Scan!Pointer(d, <<s[1], s[2], POINTERS_PER_INODE>>) = 0
  BY <1>2, <1>3, Sizes DEF TableOK
<1>5. Scan!FarEntries(d) = {}
  <2>1. \A s \in Scan!Inodes(d) :
          ~(Scan!Pointer(d, <<s[1], s[2], POINTERS_PER_INODE>>) > 0)
    BY <1>1, <1>4
  <2>2. ASSUME NEW e \in Scan!FarEntries(d)
        PROVE  \E s \in Scan!Inodes(d) :
                 Scan!Pointer(d, <<s[1], s[2], POINTERS_PER_INODE>>) > 0
    BY DEF Scan!FarEntries
  <2> QED
    BY <2>1, <2>2
<1>6. ASSUME NEW e \in Scan!Entries(d)
      PROVE  e \in Direct(d)
  <2>1. e \in Scan!OwnEntries(d)
        /\ IF e[3] = POINTERS_PER_INODE THEN Scan!Pointer(d, e) > 0
           ELSE Scan!Pointer(d, e) # 0
    BY <1>5, <1>6 DEF Scan!Entries
  <2>2. PICK s \in Scan!Inodes(d), k \in 0..POINTERS_PER_INODE : e = <<s[1], s[2], k>>
    BY <2>1 DEF Scan!OwnEntries
  <2>3. s \in InodeSlots /\ Used(d, s) /\ s = <<s[1], s[2]>>
        /\ s[1] \in 1..NInodeBlocks /\ s[2] \in 0..INODES_PER_BLOCK - 1
    BY <1>1, SlotsInRange
  <2>4. k # POINTERS_PER_INODE
    BY <1>4, <2>1, <2>2, <2>3
  <2>5. k \in Directs /\ FieldOf(d, s, 4 + k) # 0
    BY <1>2, <1>3, <2>1, <2>2, <2>3, <2>4
  <2> QED
    BY <2>2, <2>3, <2>5 DEF Direct
<1>7. ASSUME NEW e \in Direct(d)
      PROVE  e \in Scan!Entries(d)
  <2>1. /\ e[1] \in 1..NInodeBlocks /\ e[2] \in 0..INODES_PER_BLOCK - 1
        /\ e[3] \in Directs /\ e = <<e[1], e[2], e[3]>>
        /\ Used(d, <<e[1], e[2]>>) /\ FieldOf(d, <<e[1], e[2]>>, 4 + e[3]) # 0
    BY DEF Direct
  <2> DEFINE s == <<e[1], e[2]>>
             k == e[3]
  <2>2. s \in InodeSlots /\ s[1] = e[1] /\ s[2] = e[2]
    BY <2>1 DEF InodeSlots
  <2>3. s \in Scan!Inodes(d) /\ k \in 0..POINTERS_PER_INODE /\ k # POINTERS_PER_INODE
    BY <1>1, <1>2, <2>1, <2>2
  <2>4. e = <<s[1], s[2], k>> /\ FieldOf(d, s, 4 + k) # 0
    BY <2>1, <2>2
  <2> HIDE DEF s, k
  <2>5. e \in Scan!OwnEntries(d)
    BY <2>3, <2>4 DEF Scan!OwnEntries
  <2>6. Scan!Pointer(d, e) # 0
    BY <1>3, <2>2, <2>3, <2>4
  <2> QED
    BY <2>3, <2>5, <2>6 DEF Scan!Entries, k
<1> QED
  BY <1>6, <1>7

\* The scan of a mounted disk reports no pointer out of range, and the blocks of
\* the bitmap.
LEMMA ScanReport ==
  ASSUME StoreInv, isMounted
  PROVE  /\ ~fs_debug(disk).error
         /\ fs_debug(disk).blocks =
              { n \in BlockNumbers : n > NInodeBlocks /\ freeBitmapBlock[n] = 1 }
<1>1. /\ disk[0] = Superblock /\ TableOK(disk) /\ PointersApart(disk)
      /\ BitmapOf(disk, freeBitmapBlock)
  BY Formatted DEF StoreInv, DirectInv
<1>2. Scan!Entries(disk) = Direct(disk)
  BY <1>1, ScanEntries
<1>3. ASSUME NEW e \in Direct(disk)
      PROVE  \E s \in InodeSlots, w \in PointerWords :
               /\ Used(disk, s) /\ Scan!Pointer(disk, e) = FieldOf(disk, s, w)
               /\ FieldOf(disk, s, w) \in NInodeBlocks + 1..NBLOCKS - 1
  <2> DEFINE s == <<e[1], e[2]>>
             w == 4 + e[3]
  <2>1. /\ s \in InodeSlots /\ w \in PointerWords /\ Used(disk, s)
        /\ FieldOf(disk, s, w) # 0 /\ e[3] <= POINTERS_PER_INODE
    BY PointerWordsAre, Sizes DEF Direct, InodeSlots, Directs
  <2>2. Scan!Pointer(disk, e) = FieldOf(disk, s, w)
    BY <1>1, <2>1, ScanReads
  <2>3. FieldOf(disk, s, w) \in NInodeBlocks + 1..NBLOCKS - 1
    BY <1>1, <2>1 DEF PointersApart
  <2> HIDE DEF s, w
  <2> QED
    BY <2>1, <2>2, <2>3
<1>4. ASSUME NEW s \in InodeSlots, NEW w \in PointerWords, Used(disk, s),
             FieldOf(disk, s, w) # 0
      PROVE  \E e \in Direct(disk) : Scan!Pointer(disk, e) = FieldOf(disk, s, w)
  <2> DEFINE e == <<s[1], s[2], w - 4>>
  <2>1. /\ s[1] \in 1..NInodeBlocks /\ s[2] \in 0..INODES_PER_BLOCK - 1
        /\ s = <<s[1], s[2]>> /\ w - 4 \in Directs /\ 4 + (w - 4) = w
        /\ w - 4 <= POINTERS_PER_INODE
    BY SlotsInRange, PointerWordsAre, Sizes DEF Directs
  <2>2. e[1] = s[1] /\ e[2] = s[2] /\ e[3] = w - 4
    OBVIOUS
  <2>3. e \in Direct(disk)
    BY <1>4, <2>1, <2>2 DEF Direct
  <2>4. Scan!Pointer(disk, e) = FieldOf(disk, s, w)
    BY <1>1, <2>1, <2>2, ScanReads
  <2> HIDE DEF e
  <2> QED
    BY <2>3, <2>4
<1>5. Scan!OutOfRange(disk) = {}
  <2>1. \A n \in NInodeBlocks + 1..NBLOCKS - 1 : Scan!InRange(disk, n)
    BY <1>1, ScanReads, Sizes
  <2> QED
    BY <1>2, <1>3, <2>1 DEF Scan!OutOfRange
<1>6. fs_debug(disk) = [error |-> FALSE,
                        blocks |-> { Scan!Pointer(disk, e) : e \in Direct(disk) }]
  BY <1>1, <1>2, <1>5, ScanReads DEF fs_debug, Scan!Report
<1>7. { Scan!Pointer(disk, e) : e \in Direct(disk) } =
        { n \in BlockNumbers : n > NInodeBlocks /\ freeBitmapBlock[n] = 1 }
  <2>1. ASSUME NEW e \in Direct(disk)
        PROVE  LET n == Scan!Pointer(disk, e)
               IN n \in BlockNumbers /\ n > NInodeBlocks /\ freeBitmapBlock[n] = 1
    <3>1. PICK s \in InodeSlots, w \in PointerWords :
            /\ Used(disk, s) /\ Scan!Pointer(disk, e) = FieldOf(disk, s, w)
            /\ FieldOf(disk, s, w) \in NInodeBlocks + 1..NBLOCKS - 1
      BY <1>3
    <3>2. FieldOf(disk, s, w) \in BlockNumbers /\ FieldOf(disk, s, w) > NInodeBlocks
      BY <3>1, Sizes DEF BlockNumbers
    <3> QED
      BY <1>1, <3>1, <3>2 DEF BitmapOf
  <2>2. ASSUME NEW n \in BlockNumbers, n > NInodeBlocks, freeBitmapBlock[n] = 1
        PROVE  \E e \in Direct(disk) : n = Scan!Pointer(disk, e)
    <3>1. PICK s \in InodeSlots, w \in PointerWords :
            Used(disk, s) /\ FieldOf(disk, s, w) = n
      BY <1>1, <2>2, Sizes DEF BitmapOf, BlockNumbers
    <3>2. n # 0
      BY <2>2, Sizes DEF BlockNumbers
    <3> QED
      BY <1>4, <3>1, <3>2
  <2> QED
    BY <2>1, <2>2
<1> QED
  BY <1>6, <1>7

\* For small files, on any disk: fs_debug between two commands reports no error,
\* and lists exactly the blocks of the bitmap beyond the inode table.
THEOREM DirectDebugExact == DirectUse /\ Spec => []DebugExact
<1>1. StoreInv => DebugExact
  BY ScanReport DEF DebugExact
<1> QED
  BY <1>1, StoreInvariance, PTL
=============================================================================
