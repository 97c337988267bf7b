--------------------------- MODULE SimpleFSProofs ---------------------------
(***************************************************************************)
(* Theorems about SimpleFS, for any size of the disk, of its blocks and of *)
(* its inodes.                                                             *)
(***************************************************************************)
EXTENDS SimpleFS, Sums

-----------------------------------------------------------------------------
(* Arithmetic.                                                             *)

LEMMA MinOfTwo ==
  ASSUME NEW a \in Int, NEW b \in Int
  PROVE  Min({a, b}) = IF a <= b THEN a ELSE b
<1>1. \E x \in {a, b} : \A y \in {a, b} : x <= y
  OBVIOUS
<1>2. Min({a, b}) \in {a, b} /\ \A y \in {a, b} : Min({a, b}) <= y
  BY <1>1 DEF Min
<1> QED
  BY <1>2

LEMMA MinOfNaturals ==
  ASSUME NEW S \in SUBSET Nat, S # {}
  PROVE  Min(S) \in S /\ \A y \in S : Min(S) <= y
BY Smallest DEF Min

-----------------------------------------------------------------------------
(* The constants, and where words are in a block.                          *)

LEMMA Sizes ==
  /\ NBLOCKS \in Nat /\ NInodeBlocks \in Nat \ {0} /\ NInodeBlocks + 1 < NBLOCKS
  /\ INODES_PER_BLOCK \in Nat \ {0} /\ POINTERS_PER_INODE \in Nat \ {0}
  /\ InodeWords \in Nat /\ InodeWords = POINTERS_PER_INODE + 5
  /\ BLOCK_SIZE \in Nat \ {0} /\ FS_MAGIC \in Nat
  /\ CHUNK \in Nat \ {0} /\ CHUNK % BLOCK_SIZE = 0
  /\ Values \subseteq Nat /\ Inumbers \subseteq Nat
  /\ Garbage \subseteq Int /\ Garbage # {}
<1>1. InodeWords \in Nat \ {0}
  BY SimpleFSAssumption DEF InodeWords
<1>2. \A a, b \in Nat \ {0} : a * b \in Nat \ {0}
  OBVIOUS
<1>3. BLOCK_SIZE \in Nat \ {0}
  BY <1>1, <1>2, SimpleFSAssumption DEF BLOCK_SIZE
<1>4. NBLOCKS > 1
  BY SimpleFSAssumption DEF NInodeBlocks
<1> QED
  BY <1>1, <1>3, <1>4, SimpleFSAssumption DEF InodeWords, NInodeBlocks

\* The words of different inodes of a block are different, and all of them are
\* in the block.
LEMMA WordAt ==
  ASSUME NEW j \in 0..INODES_PER_BLOCK - 1, NEW w \in 0..InodeWords - 1
  PROVE  At(j, w) \in Words
<1>1. (j + 1) * InodeWords <= INODES_PER_BLOCK * InodeWords
  BY ProductMonotone, Sizes
<1>2. (j + 1) * InodeWords = j * InodeWords + InodeWords
  BY Sizes
<1>3. j * InodeWords \in Nat
  BY Sizes
<1> QED
  BY <1>1, <1>2, <1>3, Sizes DEF At, Words, BLOCK_SIZE

LEMMA WordsApart ==
  ASSUME NEW i \in 0..INODES_PER_BLOCK - 1, NEW v \in 0..InodeWords - 1,
         NEW j \in 0..INODES_PER_BLOCK - 1, NEW w \in 0..InodeWords - 1,
         At(i, v) = At(j, w)
  PROVE  i = j /\ v = w
<1>1. InodeWords \in Nat \ {0} /\ i \in Nat /\ j \in Nat
  BY Sizes
<1> QED
  BY <1>1, OneQuotient DEF At

LEMMA FirstFreeIsFree ==
  ASSUME FreeSlots # {}
  PROVE  /\ FirstFree \in FreeSlots
         /\ \A t \in FreeSlots : FirstFree = t \/ Before(FirstFree, t)
<1> DEFINE Bs == { s[1] : s \in FreeSlots }
<1>1. FreeSlots \subseteq Nat \X Nat
  BY Sizes DEF FreeSlots, CreateSlots
<1>2. PICK b \in Bs : \A c \in Bs : b <= c
  <2>1. Bs \in SUBSET Nat /\ Bs # {}
    BY <1>1
  <2> QED
    BY <2>1, Smallest
<1> DEFINE Js == { s[2] : s \in { s \in FreeSlots : s[1] = b } }
<1>3. PICK j \in Js : \A k \in Js : j <= k
  <2>1. Js \in SUBSET Nat
    BY <1>1
  <2>2. Js # {}
    BY <1>2
  <2> QED
    BY <2>1, <2>2, Smallest
<1>4. PICK s \in FreeSlots : s[1] = b /\ s[2] = j
  OBVIOUS
<1>5. ASSUME NEW t \in FreeSlots PROVE s = t \/ Before(s, t)
  <2>1. /\ b \in Nat /\ j \in Nat /\ t[1] \in Nat /\ t[2] \in Nat
        /\ s = <<s[1], s[2]>> /\ t = <<t[1], t[2]>>
    BY <1>1, <1>4
  <2>2. b <= t[1] /\ (t[1] = b => j <= t[2])
    BY <1>2, <1>3
  <2> QED
    BY <1>4, <2>1, <2>2 DEF Before
<1> QED
  BY <1>5 DEF FirstFree
-----------------------------------------------------------------------------
(* Types.                                                                  *)

LEMMA BlockUpdate ==
  ASSUME NEW b \in Block, NEW w, NEW v \in Int
  PROVE  [b EXCEPT ![w] = v] \in Block
BY DEF Block

LEMMA DiskUpdate ==
  ASSUME NEW d \in [BlockNumbers -> Block], NEW n, NEW b \in Block
  PROVE  [d EXCEPT ![n] = b] \in [BlockNumbers -> Block]
OBVIOUS

LEMMA FreshType ==
  ASSUME NEW b \in Block, NEW j
  PROVE  Fresh(b, j) \in Block
BY DEF Fresh, Block

LEMMA FreeBlock ==
  ASSUME TypeOK, getFreeBlock # 0
  PROVE  getFreeBlock \in BlockNumbers /\ freeBitmapBlock[getFreeBlock] = 0
<1> DEFINE free == { n \in BlockNumbers : freeBitmapBlock[n] = 0 }
<1>1. free \in SUBSET Nat
  BY DEF BlockNumbers
<1>2. free # {}
  BY DEF getFreeBlock
<1> QED
  BY <1>1, <1>2, MinOfNaturals DEF getFreeBlock

LEMMA PieceBounds ==
  ASSUME TypeOK, Writing
  PROVE  Piece \in 1..call.todo /\ Piece = IF BLOCK_SIZE <= call.todo
                                           THEN BLOCK_SIZE ELSE call.todo
<1>1. call.todo \in Nat \ {0}
  BY SimpleFSAssumption DEF TypeOK, Calls, Idle, Writing
<1> QED
  BY <1>1, Sizes, MinOfTwo DEF Piece

LEMMA IdleType == Idle \in Calls /\ Idle.op = "none"
BY DEF Calls, Idle

LEMMA RestartType ==
  ASSUME TypeOK, Restart, UNCHANGED habit
  PROVE  TypeOK'
<1>1. NoBitmap \in [BlockNumbers -> {0, 1}]
  BY DEF NoBitmap
<1> QED
  BY <1>1, IdleType DEF TypeOK, Restart, Calls, Idle

LEMMA TypeStep == TypeOK /\ [Next]_vars => TypeOK'
<1> SUFFICES ASSUME TypeOK, [Next]_vars PROVE TypeOK'
  OBVIOUS
<1> USE DEF Calls
<1>1. CASE FormatSuper /\ UNCHANGED habit
  <2>1. PICK g \in [Words -> Garbage] :
          LET super == [g EXCEPT ![0] = FS_MAGIC, ![1] = NBLOCKS,
                                 ![2] = NInodeBlocks, ![3] = NInodes]
          IN /\ disk' = [disk EXCEPT ![0] = super]
             /\ call' = [op |-> "format", i |-> 1,
                         block |-> [w \in Words |->
                           IF w % InodeWords = 0 THEN 0 ELSE super[w]]]
    BY <1>1 DEF FormatSuper
  <2> DEFINE super == [g EXCEPT ![0] = FS_MAGIC, ![1] = NBLOCKS,
                                ![2] = NInodeBlocks, ![3] = NInodes]
  <2>2. NInodes \in Nat
    BY Sizes DEF NInodes
  <2> DEFINE block == [w \in Words |-> IF w % InodeWords = 0 THEN 0 ELSE super[w]]
  <2>3. super \in Block
    <3>1. g \in Block
      BY Sizes DEF Block
    <3>5. FS_MAGIC \in Int /\ NBLOCKS \in Int /\ NInodeBlocks \in Int
      BY Sizes
    <3>2. [g EXCEPT ![0] = FS_MAGIC] \in Block
      BY <3>1, <3>5, BlockUpdate
    <3>3. [g EXCEPT ![0] = FS_MAGIC, ![1] = NBLOCKS] \in Block
      BY <3>2, <3>5, BlockUpdate
    <3>4. [g EXCEPT ![0] = FS_MAGIC, ![1] = NBLOCKS, ![2] = NInodeBlocks] \in Block
      BY <3>3, <3>5, BlockUpdate
    <3>6. NInodes \in Int
      BY <2>2
    <3> QED
      BY <3>4, <3>6, BlockUpdate
  <2> HIDE DEF super
  <2>4. block \in Block
    BY <2>3 DEF Block
  <2>5. /\ disk' = [disk EXCEPT ![0] = super]
        /\ call' = [op |-> "format", i |-> 1, block |-> block]
    BY <2>1 DEF super
  <2> HIDE DEF block
  <2>6. disk' \in [BlockNumbers -> Block]
    BY <2>3, <2>5, DiskUpdate DEF TypeOK
  <2>7. call' \in Calls /\ call'.op = "format"
    BY <2>4, <2>5
  <2> QED
    BY <1>1, <2>6, <2>7 DEF TypeOK, FormatSuper
<1>2. CASE FormatInodes /\ UNCHANGED habit
  BY <1>2, DiskUpdate DEF FormatInodes, TypeOK, Idle
<1>3. CASE FormatReturn /\ UNCHANGED habit
  BY <1>3, IdleType DEF FormatReturn, Return, TypeOK
<1>4. CASE Mount /\ UNCHANGED habit
  BY <1>4, RestartType DEF Mount, TypeOK, Idle
<1>5. CASE Crash /\ UNCHANGED habit
  BY <1>5, RestartType DEF Crash
<1>6. CASE CreateClear /\ UNCHANGED habit
  <2>1. FirstFree \in CreateSlots /\ FirstFree[1] \in BlockNumbers
    BY <1>6, FirstFreeIsFree, Sizes DEF CreateClear, FreeSlots, CreateSlots, BlockNumbers
  <2>2. \A n \in BlockNumbers : Cleared(disk[n]) \in Block
    BY DEF Cleared, Block, TypeOK
  <2> DEFINE ind == indirect(disk[FirstFree[1]], FirstFree[2])
  <2>3. CASE ~OnDisk(ind)
    BY <1>6, <2>3, RestartType DEF CreateClear
  <2>4. CASE OnDisk(ind)
    <3>1. /\ disk' = [disk EXCEPT ![ind] = Cleared(disk[ind])]
          /\ call' = [op |-> "create", slot |-> FirstFree,
                      block |-> disk[FirstFree[1]]]
          /\ UNCHANGED <<isMounted, freeBitmapBlock>> /\ isMounted
      BY <1>6, <2>4 DEF CreateClear, TypeOK
    <3> HIDE DEF ind
    <3>2. disk' \in [BlockNumbers -> Block]
      BY <2>2, <2>4, <3>1, DiskUpdate DEF TypeOK, OnDisk
    <3>3. disk[FirstFree[1]] \in Block
      BY <2>1 DEF TypeOK
    <3> QED
      BY <1>6, <2>1, <3>1, <3>2, <3>3 DEF TypeOK
  <2> QED
    BY <2>3, <2>4
<1>7. CASE CreateWrite /\ UNCHANGED habit
  <2>1. CASE call.op = "create"
    <3>1. call.block \in Block
      BY <2>1 DEF TypeOK, Idle
    <3>2. /\ disk' = [disk EXCEPT ![call.slot[1]] = Fresh(call.block, call.slot[2])]
          /\ call' = Idle /\ UNCHANGED <<isMounted, freeBitmapBlock>>
      BY <1>7, <2>1 DEF CreateWrite, Return, Idle
    <3>3. disk' \in [BlockNumbers -> Block]
      BY <3>1, <3>2, FreshType, DiskUpdate DEF TypeOK
    <3> QED
      BY <1>7, <3>2, <3>3, IdleType DEF TypeOK
  <2>2. CASE call = Idle
    BY <1>7, <2>2, FreshType, IdleType DEF CreateWrite, TypeOK
  <2> QED
    BY <1>7, <2>1, <2>2 DEF CreateWrite
<1>8. ASSUME NEW i \in Inumbers, Delete(i), UNCHANGED habit
      PROVE  TypeOK'
  <2> DEFINE n == InodeBlock(i)
             j == InodeOffset(i)
  <2>1. CASE ~OnDisk(n)
    BY <1>8, <2>1, RestartType DEF Delete
  <2>2. CASE OnDisk(n)
    <3>1. disk' \in [BlockNumbers -> Block]
      <4>1. disk' = [disk EXCEPT ![n] = [disk[n] EXCEPT ![At(j, 0)] = 0]]
        BY <1>8, <2>2 DEF Delete
      <4>2. disk[n] \in Block
        BY <2>2 DEF TypeOK, OnDisk
      <4>3. [disk[n] EXCEPT ![At(j, 0)] = 0] \in Block
        BY <4>2, BlockUpdate
      <4> QED
        BY <4>1, <4>3, DiskUpdate DEF TypeOK
    <3>2. freeBitmapBlock' \in [BlockNumbers -> {0, 1}] /\ isMounted' \in BOOLEAN
      BY <1>8, <2>2 DEF Delete, TypeOK, NoBitmap
    <3> QED
      BY <1>8, <2>2, <3>1, <3>2 DEF Delete, TypeOK, Idle
  <2> QED
    BY <2>1, <2>2
<1>9. ASSUME NEW i \in Inumbers, CopyIn(i), UNCHANGED habit
      PROVE  TypeOK'
  <2>1. CASE ~OnDisk(InodeBlock(i))
    BY <1>9, <2>1, RestartType DEF CopyIn
  <2>2. CASE OnDisk(InodeBlock(i))
    <3>1. PICK n \in Lengths, v \in Values :
            /\ call' = [op |-> "write", i |-> i, v |-> v, 
                        block |-> disk[InodeBlock(i)],
                        ind |-> ZeroBlock, far |-> FALSE, bi |-> 0,
                        done |-> 0, todo |-> Min({CHUNK, n}),
                        left |-> n - Min({CHUNK, n})]
            /\ UNCHANGED <<disk, isMounted, freeBitmapBlock>>
      BY <1>9, <2>2 DEF CopyIn
    <3>2. n \in Nat /\ CHUNK \in Nat
      BY SimpleFSAssumption
    <3>3. Min({CHUNK, n}) \in 0..CHUNK /\ n - Min({CHUNK, n}) \in Nat
      BY <3>2, MinOfTwo
    <3>4. ZeroBlock \in Block /\ disk[InodeBlock(i)] \in Block
      BY <2>2 DEF ZeroBlock, Block, TypeOK, OnDisk
    <3> QED
      BY <1>9, <2>2, <3>1, <3>3, <3>4 DEF CopyIn, TypeOK
  <2> QED
    BY <2>1, <2>2
<1>10. ASSUME call.op = "write"
       PROVE  /\ isMounted /\ call.block \in Block /\ call.ind \in Block
              /\ call \in [op : {"write"}, i : { i \in Inumbers : OnDisk(InodeBlock(i)) },
                           v : Values, block : Block, ind : Block, far : BOOLEAN, bi : Nat,
                           done : Nat, todo : 0..CHUNK, left : Nat]
  BY <1>10 DEF TypeOK, Idle
<1>11. CASE AllocateInInode /\ UNCHANGED habit
  <2>1. CASE DiskFull
    BY <1>11, <2>1, IdleType DEF DiskFull, Return, TypeOK
  <2>2. CASE getFreeBlock # 0 /\ ~DiskFull
    <3>1. [call.block EXCEPT ![Word] = getFreeBlock] \in Block
      BY <1>10, <1>11, <2>2, FreeBlock, BlockUpdate DEF AllocateInInode, Writing, BlockNumbers
    <3>2. freeBitmapBlock' \in [BlockNumbers -> {0, 1}]
      BY <1>11, <2>2 DEF AllocateInInode, Mark, TypeOK
    <3> DEFINE b == [call.block EXCEPT ![Word] = getFreeBlock]
    <3>3. /\ disk' = [disk EXCEPT ![InodeBlock(call.i)] = b]
          /\ call' = [call EXCEPT !.block = b] /\ UNCHANGED isMounted
      BY <1>11, <2>2 DEF AllocateInInode
    <3> HIDE DEF b
    <3>4. b \in Block
      BY <3>1 DEF b
    <3>5. disk' \in [BlockNumbers -> Block]
      BY <3>3, <3>4, DiskUpdate DEF TypeOK
    <3> QED
      BY <1>10, <1>11, <3>2, <3>3, <3>4, <3>5 DEF AllocateInInode, Writing, TypeOK
  <2> QED
    BY <1>11, <2>1, <2>2 DEF AllocateInInode
<1>12. CASE ReadIndirect /\ UNCHANGED habit
  <2>1. CASE ~OnDisk(Address)
    BY <1>12, <2>1, RestartType DEF ReadIndirect
  <2>2. CASE OnDisk(Address)
    <3>1. /\ call' = [call EXCEPT !.far = TRUE, !.ind = disk[Address]]
          /\ UNCHANGED <<disk, isMounted, freeBitmapBlock>>
      BY <1>12, <2>2 DEF ReadIndirect
    <3>2. disk[Address] \in Block
      BY <2>2 DEF TypeOK, OnDisk
    <3> QED
      BY <1>10, <1>12, <3>1, <3>2 DEF ReadIndirect, Writing, TypeOK
  <2> QED
    BY <2>1, <2>2
<1>13. CASE AllocateInIndirect /\ UNCHANGED habit
  <2>1. CASE DiskFull
    BY <1>13, <2>1, IdleType DEF DiskFull, Return, TypeOK
  <2>2. CASE getFreeBlock # 0 /\ ~DiskFull
    <3> DEFINE k == call.bi - POINTERS_PER_INODE
               p == [call.ind EXCEPT ![k] = getFreeBlock]
    <3>1. /\ disk' = [disk EXCEPT ![call.block[Word]] = p]
          /\ call' = [call EXCEPT !.ind = p] /\ UNCHANGED isMounted
      BY <1>13, <2>2 DEF AllocateInIndirect
    <3>2. getFreeBlock \in Int
      BY <2>2, FreeBlock DEF BlockNumbers
    <3>3. call.ind \in Block
      BY <1>10, <1>13 DEF AllocateInIndirect, Writing
    <3> HIDE DEF k
    <3>4. p \in Block
      BY <3>2, <3>3, BlockUpdate
    <3> HIDE DEF p
    <3>5. freeBitmapBlock' \in [BlockNumbers -> {0, 1}]
      BY <1>13, <2>2 DEF AllocateInIndirect, Mark, TypeOK
    <3>6. disk' \in [BlockNumbers -> Block]
      BY <3>1, <3>4, DiskUpdate DEF TypeOK
    <3> QED
      BY <1>10, <1>13, <3>1, <3>4, <3>5, <3>6 DEF AllocateInIndirect, Writing, TypeOK
  <2> QED
    BY <1>13, <2>1, <2>2 DEF AllocateInIndirect
<1>14. CASE WriteData /\ UNCHANGED habit
  <2>1. CASE ~OnDisk(Address)
    BY <1>14, <2>1, RestartType DEF WriteData
  <2>2. CASE OnDisk(Address)
    <3>1. call.v \in Nat /\ call.bi \in Nat /\ call.todo \in 0..CHUNK /\ CHUNK \in Nat
      BY <1>10, <1>14, SimpleFSAssumption DEF WriteData, Writing
    <3>2. [w \in Words |-> IF w < Piece THEN FileByte(call.v, call.bi)
                           ELSE disk[Address][w]] \in Block
      BY <2>2, <3>1 DEF Block, FileByte, TypeOK, OnDisk
    <3>3. Piece \in Nat /\ Piece <= call.todo
      BY <1>14, PieceBounds, <3>1 DEF WriteData
    <3>4. [call.block EXCEPT ![At(InodeOffset(call.i), 1)] = @ + Piece] \in Block
      <4> DEFINE w == At(InodeOffset(call.i), 1)
      <4>1. call.block \in Block
        BY <1>10, <1>14 DEF WriteData, Writing
      <4> HIDE DEF w
      <4>2. [call.block EXCEPT ![w] = @ + Piece] \in Block
        <5>1. CASE w \in Words
          <6>1. call.block[w] + Piece \in Int
            BY <3>3, <4>1, <5>1 DEF Block
          <6> QED
            BY <4>1, <6>1, BlockUpdate
        <5>2. CASE w \notin Words
          BY <4>1, <5>2 DEF Block
        <5> QED
          BY <5>1, <5>2
      <4> QED
        BY <4>2 DEF w
    <3>5. call' \in [op : {"write"}, i : { i \in Inumbers : OnDisk(InodeBlock(i)) },
                     v : Values, block : Block, ind : Block, far : BOOLEAN, bi : Nat,
                     done : Nat, todo : 0..CHUNK, left : Nat]
      <4>1. call' = [call EXCEPT !.block[At(InodeOffset(call.i), 1)] = @ + Piece,
                     !.bi = @ + 1, !.done = @ + Piece, !.todo = @ - Piece]
        BY <1>14, <2>2 DEF WriteData
      <4>2. call.todo - Piece \in 0..CHUNK /\ call.bi + 1 \in Nat
        BY <3>1, <3>3
      <4>3. call.done + Piece \in Nat
        BY <1>10, <1>14, <3>3 DEF WriteData, Writing
      <4> QED
        BY <1>10, <1>14, <3>4, <4>1, <4>2, <4>3 DEF WriteData, Writing
    <3>6. disk' \in [BlockNumbers -> Block]
      BY <1>14, <2>2, <3>2, DiskUpdate DEF WriteData, TypeOK
    <3> QED
      BY <1>10, <1>14, <2>2, <3>5, <3>6 DEF WriteData, Writing, TypeOK
  <2> QED
    BY <2>1, <2>2
<1>15. CASE FinishChunk /\ UNCHANGED habit
  <2>1. disk' \in [BlockNumbers -> Block]
    BY <1>10, <1>15, DiskUpdate DEF FinishChunk, Recorded, TypeOK
  <2>2. call' \in Calls /\ (call'.op \in {"create", "write"} => isMounted)
    <3>1. CASE call.left = 0
      BY <1>15, <3>1, IdleType DEF FinishChunk, Return
    <3>2. CASE call.left # 0
      <4>1. call.left \in Nat /\ CHUNK \in Nat
        BY <1>10, <1>15, SimpleFSAssumption DEF FinishChunk
      <4>2. Min({CHUNK, call.left}) \in 0..CHUNK
            /\ call.left - Min({CHUNK, call.left}) \in Nat
        BY <4>1, MinOfTwo
      <4>3. ZeroBlock \in Block
        BY DEF ZeroBlock, Block
      <4> QED
        BY <1>10, <1>15, <3>2, <4>2, <4>3 DEF FinishChunk
    <3> QED
      BY <3>1, <3>2
  <2> QED
    BY <1>15, <2>1, <2>2 DEF FinishChunk, TypeOK
<1>16. CASE UNCHANGED vars
  BY <1>16 DEF vars, TypeOK, Calls
<1> QED
  BY <1>1, <1>2, <1>3, <1>4, <1>5, <1>6, <1>7, <1>8, <1>9, <1>11, <1>12, <1>13,
     <1>14, <1>15, <1>16 DEF Next

\* Whatever the user does, the variables keep their types; in particular fs_write
\* never has fewer than no bytes left to write, and no call works on an inode
\* outside of the disk.
THEOREM TypeCorrect == Spec => []TypeOK
<1>1. Init => TypeOK
  <2> SUFFICES ASSUME Init PROVE TypeOK
    OBVIOUS
  <2>1. ZeroBlock \in Block
    BY DEF ZeroBlock, Block
  <2>2. disk \in [BlockNumbers -> Block]
    BY <2>1 DEF Init
  <2>3. freeBitmapBlock \in [BlockNumbers -> {0, 1}]
    BY DEF Init, NoBitmap
  <2> QED
    BY <2>2, <2>3, IdleType DEF Init, TypeOK
<1> QED
  BY <1>1, TypeStep, PTL DEF Spec

-----------------------------------------------------------------------------
(***************************************************************************)
(* A user of small files: each fits the direct pointers, there are fewer   *)
(* than the table holds, and the numbers typed are those of the table or   *)
(* lead beyond the disk; and memory that was never set is zero.            *)
(***************************************************************************)
DirectUse ==
  /\ Garbage = {0}
  /\ \A h \in Habits : h.maxLength <= POINTERS_PER_INODE * BLOCK_SIZE
  /\ \A i \in Inumbers : i \in 1..NInodes - 1 \/ ~OnDisk(InodeBlock(i))
  /\ \A h \in Habits : h.maxFiles < NInodes

\* Word w of the inode in slot s, and the words that matter: isvalid, and the
\* pointers, of which the last is the indirect one.
FieldOf(d, s, w) == d[s[1]][At(s[2], w)]
PointerWords == 4..InodeWords - 2
Used(d, s) == FieldOf(d, s, 0) # 0

\* The inode table of disk d has no indirect block, and never a file 0.
TableOK(d) ==
  /\ \A s \in InodeSlots :
       FieldOf(d, s, 0) \in {0, 1} /\ FieldOf(d, s, InodeWords - 1) = 0
  /\ ~Used(d, <<1, 0>>)

\* The pointers of its files lead beyond the table, to different blocks.
PointersApart(d) ==
  \A s \in InodeSlots, w \in PointerWords :
    Used(d, s) /\ FieldOf(d, s, w) # 0 =>
      /\ FieldOf(d, s, w) \in NInodeBlocks + 1..NBLOCKS - 1
      /\ \A t \in InodeSlots, v \in PointerWords :
           Used(d, t) /\ FieldOf(d, t, v) = FieldOf(d, s, w) => t = s /\ v = w

\* Bitmap m has the table and the blocks of the files of disk d.
BitmapOf(d, m) ==
  \A n \in BlockNumbers :
    m[n] = 1 <=> \/ n <= NInodeBlocks
                 \/ \E s \in InodeSlots, w \in PointerWords :
                      Used(d, s) /\ FieldOf(d, s, w) = n

\* Slots s and t of disks d and e are the same in all that matters.
SameSlot(d, s, e) ==
  \A w \in PointerWords \cup {0, InodeWords - 1} : FieldOf(e, s, w) = FieldOf(d, s, w)

-----------------------------------------------------------------------------
(* What the changes of the inode table keep.                               *)

LEMMA SameKeeps ==
  ASSUME NEW d, NEW e, \A s \in InodeSlots : SameSlot(d, s, e)
  PROVE  /\ TableOK(d) => TableOK(e)
         /\ PointersApart(d) => PointersApart(e)
         /\ \A m : BitmapOf(d, m) => BitmapOf(e, m)
<1>1. <<1, 0>> \in InodeSlots
  BY Sizes DEF InodeSlots
<1>2. \A s \in InodeSlots : /\ FieldOf(e, s, 0) = FieldOf(d, s, 0)
                            /\ FieldOf(e, s, InodeWords - 1) = FieldOf(d, s, InodeWords - 1)
                            /\ \A w \in PointerWords : FieldOf(e, s, w) = FieldOf(d, s, w)
  BY DEF SameSlot
<1>3. TableOK(d) => TableOK(e)
  BY <1>1, <1>2 DEF TableOK, Used
<1>4. PointersApart(d) => PointersApart(e)
  BY <1>2 DEF PointersApart, Used
<1>5. \A m : BitmapOf(d, m) => BitmapOf(e, m)
  BY <1>2 DEF BitmapOf, Used
<1> QED
  BY <1>3, <1>4, <1>5

\* A slot is cleared, as fs_format does to those of a block.
LEMMA ClearingKeeps ==
  ASSUME NEW d, NEW e,
         \A s \in InodeSlots : \/ SameSlot(d, s, e)
                               \/ /\ FieldOf(e, s, 0) = 0
                                  /\ FieldOf(e, s, InodeWords - 1) = 0
  PROVE  /\ TableOK(d) => TableOK(e)
         /\ PointersApart(d) => PointersApart(e)
<1>1. <<1, 0>> \in InodeSlots
  BY Sizes DEF InodeSlots
<1>2. \A s \in InodeSlots :
        \/ /\ FieldOf(e, s, 0) = FieldOf(d, s, 0)
           /\ FieldOf(e, s, InodeWords - 1) = FieldOf(d, s, InodeWords - 1)
           /\ \A w \in PointerWords : FieldOf(e, s, w) = FieldOf(d, s, w)
        \/ FieldOf(e, s, 0) = 0 /\ FieldOf(e, s, InodeWords - 1) = 0
  BY DEF SameSlot
<1>3. TableOK(d) => TableOK(e)
  BY <1>1, <1>2 DEF TableOK, Used
<1>4. PointersApart(d) => PointersApart(e)
  BY <1>2 DEF PointersApart, Used
<1> QED
  BY <1>3, <1>4

\* A slot that was free holds a file with no blocks, as after fs_create.
LEMMA CreatingKeeps ==
  ASSUME NEW d, NEW e, NEW m, NEW f \in InodeSlots \ {<<1, 0>>},
         TableOK(d), PointersApart(d), BitmapOf(d, m),
         \A s \in InodeSlots \ {f} : SameSlot(d, s, e),
         ~Used(d, f), FieldOf(e, f, 0) = 1, FieldOf(e, f, InodeWords - 1) = 0,
         \A w \in PointerWords : FieldOf(e, f, w) = 0
  PROVE  TableOK(e) /\ PointersApart(e) /\ BitmapOf(e, m)
<1>1. <<1, 0>> \in InodeSlots \ {f}
  BY Sizes DEF InodeSlots
<1>2. \A s \in InodeSlots \ {f} :
           /\ FieldOf(e, s, 0) = FieldOf(d, s, 0)
           /\ FieldOf(e, s, InodeWords - 1) = FieldOf(d, s, InodeWords - 1)
           /\ \A w \in PointerWords : FieldOf(e, s, w) = FieldOf(d, s, w)
  BY DEF SameSlot
<1>3. TableOK(e)
  BY <1>1, <1>2 DEF TableOK, Used
<1>4. PointersApart(e)
  BY <1>2 DEF PointersApart, Used
<1>5. BitmapOf(e, m)
  <2> SUFFICES ASSUME NEW n \in BlockNumbers, n > NInodeBlocks
               PROVE  (\E s \in InodeSlots, w \in PointerWords :
                        Used(e, s) /\ FieldOf(e, s, w) = n) <=>
                      (\E s \in InodeSlots, w \in PointerWords :
                        Used(d, s) /\ FieldOf(d, s, w) = n)
    BY Sizes DEF BitmapOf, BlockNumbers
  <2>1. n # 0
    BY Sizes
  <2> QED
    BY <1>2, <2>1 DEF Used
<1> QED
  BY <1>3, <1>4, <1>5

\* A file is deleted and its blocks are freed.
LEMMA DeletingKeeps ==
  ASSUME NEW d, NEW e, NEW m, NEW f \in InodeSlots, NEW mm,
         TableOK(d), PointersApart(d), BitmapOf(d, m),
         m \in [BlockNumbers -> {0, 1}],
         \A s \in InodeSlots \ {f} : SameSlot(d, s, e),
         Used(d, f), FieldOf(e, f, 0) = 0, FieldOf(e, f, InodeWords - 1) = 0,
         \A n \in BlockNumbers :
           mm[n] = IF n # 0 /\ \E w \in PointerWords : FieldOf(d, f, w) = n
                   THEN 0 ELSE m[n]
  PROVE  TableOK(e) /\ PointersApart(e) /\ BitmapOf(e, mm)
<1>1. \A s \in InodeSlots \ {f} :
           /\ FieldOf(e, s, 0) = FieldOf(d, s, 0)
           /\ FieldOf(e, s, InodeWords - 1) = FieldOf(d, s, InodeWords - 1)
           /\ \A w \in PointerWords : FieldOf(e, s, w) = FieldOf(d, s, w)
  BY DEF SameSlot
<1>2. TableOK(e)
  <2>1. <<1, 0>> \in InodeSlots
    BY Sizes DEF InodeSlots
  <2> QED
    BY <1>1, <2>1 DEF TableOK, Used
<1>3. PointersApart(e)
  BY <1>1 DEF PointersApart, Used
<1> DEFINE freed == { n \in BlockNumbers :
                       n # 0 /\ \E w \in PointerWords : FieldOf(d, f, w) = n }
<1>4. ASSUME NEW n \in BlockNumbers
      PROVE  (IF n \in freed THEN 0 ELSE m[n]) = 1 <=>
               \/ n <= NInodeBlocks
               \/ \E s \in InodeSlots, w \in PointerWords :
                    Used(e, s) /\ FieldOf(e, s, w) = n
  <2>1. CASE n \in freed
    <3>1. PICK w \in PointerWords : n # 0 /\ FieldOf(d, f, w) = n
      BY <2>1
    <3>2. n > NInodeBlocks
      BY <3>1, Sizes DEF PointersApart
    <3>3. ~\E s \in InodeSlots, v \in PointerWords :
             Used(e, s) /\ FieldOf(e, s, v) = n
      BY <1>1, <3>1 DEF PointersApart, Used
    <3> QED
      BY <2>1, <3>2, <3>3, Sizes DEF BlockNumbers
  <2>2. CASE n \notin freed
    <3>1. CASE n <= NInodeBlocks
      BY <2>2, <3>1 DEF BitmapOf
    <3>2. CASE n > NInodeBlocks
      <4>1. n # 0
        BY <3>2, Sizes
      <4>2. (\E s \in InodeSlots, w \in PointerWords :
               Used(e, s) /\ FieldOf(e, s, w) = n) <=>
            (\E s \in InodeSlots, w \in PointerWords :
               Used(d, s) /\ FieldOf(d, s, w) = n)
        BY <1>1, <2>2, <4>1 DEF Used
      <4> QED
        BY <2>2, <4>2 DEF BitmapOf
    <3> QED
      BY <3>1, <3>2, Sizes DEF BlockNumbers
  <2> QED
    BY <2>1, <2>2
<1> QED
  BY <1>2, <1>3, <1>4 DEF BitmapOf

\* A free block becomes a block of a file, and is marked.
LEMMA AllocatingKeeps ==
  ASSUME NEW d, NEW e, NEW m, NEW f \in InodeSlots, NEW k \in PointerWords,
         NEW n \in BlockNumbers,
         TableOK(d), PointersApart(d), BitmapOf(d, m),
         m \in [BlockNumbers -> {0, 1}], m[n] = 0,
         \A s \in InodeSlots \ {f} : SameSlot(d, s, e),
         Used(d, f), FieldOf(d, f, k) = 0,
         FieldOf(e, f, 0) = FieldOf(d, f, 0),
         FieldOf(e, f, InodeWords - 1) = FieldOf(d, f, InodeWords - 1),
         FieldOf(e, f, k) = n,
         \A w \in PointerWords \ {k} : FieldOf(e, f, w) = FieldOf(d, f, w)
  PROVE  TableOK(e) /\ PointersApart(e) /\ BitmapOf(e, [m EXCEPT ![n] = 1])
<1>1. \A s \in InodeSlots :
        /\ FieldOf(e, s, 0) = FieldOf(d, s, 0)
        /\ FieldOf(e, s, InodeWords - 1) = FieldOf(d, s, InodeWords - 1)
        /\ \A w \in PointerWords :
             s # f \/ w # k => FieldOf(e, s, w) = FieldOf(d, s, w)
  BY DEF SameSlot
<1>2. TableOK(e)
  <2>1. <<1, 0>> \in InodeSlots
    BY Sizes DEF InodeSlots
  <2> QED
    BY <1>1, <2>1 DEF TableOK, Used
<1>3. n \in NInodeBlocks + 1..NBLOCKS - 1 /\ n # 0
  BY Sizes DEF BitmapOf, BlockNumbers
<1>4. \A s \in InodeSlots, w \in PointerWords : Used(d, s) => FieldOf(d, s, w) # n
  BY DEF BitmapOf
<1>5. PointersApart(e)
  BY <1>1, <1>3, <1>4 DEF PointersApart, Used
<1>6. BitmapOf(e, [m EXCEPT ![n] = 1])
  <2> SUFFICES ASSUME NEW b \in BlockNumbers
               PROVE  [m EXCEPT ![n] = 1][b] = 1 <=>
                        \/ b <= NInodeBlocks
                        \/ \E s \in InodeSlots, w \in PointerWords :
                             Used(e, s) /\ FieldOf(e, s, w) = b
    BY DEF BitmapOf
  <2>1. CASE b = n
    BY <1>1, <2>1 DEF Used
  <2>2. CASE b # n /\ b <= NInodeBlocks
    BY <2>2 DEF BitmapOf
  <2>3. CASE b # n /\ b > NInodeBlocks
    <3>1. b # 0
      BY <2>3, Sizes
    <3>2. (\E s \in InodeSlots, w \in PointerWords :
             Used(e, s) /\ FieldOf(e, s, w) = b) <=>
          (\E s \in InodeSlots, w \in PointerWords :
             Used(d, s) /\ FieldOf(d, s, w) = b)
      BY <1>1, <2>3, <3>1 DEF Used
    <3> QED
      BY <2>3, <3>2 DEF BitmapOf
  <2> QED
    BY <2>1, <2>2, <2>3, Sizes DEF BlockNumbers
<1> QED
  BY <1>2, <1>5, <1>6

-----------------------------------------------------------------------------
(* The fields of the code, and inode numbers, as slots and words.          *)

SlotOf(i) == <<InodeBlock(i), InodeOffset(i)>>

LEMMA Fields ==
  ASSUME NEW d, NEW s
  PROVE  /\ isvalid(d[s[1]], s[2]) = FieldOf(d, s, 0)
         /\ indirect(d[s[1]], s[2]) = FieldOf(d, s, InodeWords - 1)
         /\ \A k \in Directs : direct(d[s[1]], s[2], k) = FieldOf(d, s, 4 + k)
<1>1. 4 + POINTERS_PER_INODE = InodeWords - 1
  BY Sizes
<1> QED
  BY <1>1 DEF isvalid, indirect, direct, FieldOf

LEMMA PointerWordsAre ==
  /\ \A k \in Directs : 4 + k \in PointerWords
  /\ \A w \in PointerWords : w - 4 \in Directs /\ 4 + (w - 4) = w
BY Sizes DEF Directs, PointerWords

LEMMA SlotsInRange ==
  \A s \in InodeSlots : /\ s[1] \in 1..NInodeBlocks /\ s[1] \in BlockNumbers
                        /\ s[2] \in 0..INODES_PER_BLOCK - 1 /\ s = <<s[1], s[2]>>
BY Sizes DEF InodeSlots, BlockNumbers

LEMMA NumberToSlot ==
  ASSUME NEW i \in 0..NInodes - 1
  PROVE  /\ SlotOf(i) \in InodeSlots
         /\ i = (InodeBlock(i) - 1) * INODES_PER_BLOCK + InodeOffset(i)
         /\ i # 0 => SlotOf(i) # <<1, 0>>
<1> DEFINE K == INODES_PER_BLOCK
           q == i \div K
           r == i % K
<1>1. i \in Nat /\ K \in Nat \ {0} /\ NInodes = NInodeBlocks * K
      /\ NInodeBlocks * K \in Nat
  BY Sizes DEF NInodes
<1>2. q \in Nat /\ r \in 0..K - 1 /\ i = q * K + r
  BY <1>1, Divided
<1>3. q < NInodeBlocks
  <2> SUFFICES ASSUME NInodeBlocks <= q PROVE FALSE
    BY <1>2, Sizes
  <2>1. NInodeBlocks * K <= q * K
    BY <1>1, <1>2, Sizes, ProductMonotone
  <2>2. q * K \in Nat
    BY <1>1, <1>2
  <2> QED
    BY <1>1, <1>2, <2>1, <2>2
<1>4. q = 0 /\ r = 0 => i = 0
  BY <1>1, <1>2
<1>5. InodeBlock(i) = q + 1 /\ InodeOffset(i) = r
  BY DEF InodeBlock, InodeOffset
<1>6. SlotOf(i) \in InodeSlots
  BY <1>2, <1>3, <1>5, Sizes DEF SlotOf, InodeSlots
<1>7. InodeBlock(i) - 1 = q
  BY <1>2, <1>5
<1> HIDE DEF q, r
<1> QED
  BY <1>2, <1>4, <1>5, <1>6, <1>7 DEF SlotOf

LEMMA SlotToNumber ==
  ASSUME NEW s \in InodeSlots
  PROVE  \E i \in 0..NInodes - 1 : SlotOf(i) = s /\ (i = 0 <=> s = <<1, 0>>)
<1> DEFINE K == INODES_PER_BLOCK
           i == (s[1] - 1) * K + s[2]
<1>1. /\ K \in Nat \ {0} /\ s[1] - 1 \in Nat /\ s[1] - 1 + 1 = s[1] /\ s[2] \in 0..K - 1
      /\ s[1] \in Nat /\ s[1] <= NInodeBlocks /\ s = <<s[1], s[2]>>
  BY Sizes, SlotsInRange
<1>2. (s[1] - 1) * K \in Nat /\ i \in Nat
  BY <1>1
<1>3. i < NInodes
  <2>1. s[1] * K <= NInodeBlocks * K
    BY <1>1, Sizes, ProductMonotone
  <2>2. (s[1] - 1) * K = s[1] * K - K /\ s[1] * K \in Nat
    BY <1>1
  <2>3. NInodeBlocks * K \in Nat
    BY <1>1, Sizes
  <2> QED
    BY <1>1, <2>1, <2>2, <2>3 DEF NInodes
<1>4. i \div K = s[1] - 1 /\ i % K = s[2]
  <2>1. i \div K \in Nat /\ i % K \in 0..K - 1 /\ i = (i \div K) * K + (i % K)
    BY <1>1, <1>2, Divided
  <2> QED
    BY <1>1, <2>1, OneQuotient
<1>5. SlotOf(i) = s
  BY <1>1, <1>4 DEF SlotOf, InodeBlock, InodeOffset
<1>6. i = 0 => s[1] - 1 = 0 /\ s[2] = 0
  BY <1>1, <1>4, OneQuotient
<1>7. s = <<1, 0>> => i = 0
  BY <1>1
<1>8. i \in 0..NInodes - 1
  BY <1>2, <1>3, Sizes DEF NInodes
<1> HIDE DEF i
<1> QED
  BY <1>1, <1>5, <1>6, <1>7, <1>8

\* A block that is no block of inodes may change.
LEMMA OtherBlock ==
  ASSUME NEW d \in [BlockNumbers -> Block], NEW n \in BlockNumbers, NEW b,
         n \notin 1..NInodeBlocks, NEW s \in InodeSlots
  PROVE  SameSlot(d, s, [d EXCEPT ![n] = b])
<1>1. s[1] # n
  BY SlotsInRange
<1>2. \A w : FieldOf([d EXCEPT ![n] = b], s, w) = FieldOf(d, s, w)
  BY <1>1, SlotsInRange DEF FieldOf
<1> QED
  BY <1>2 DEF SameSlot

\* The words that matter are words of the inode.
LEMMA WordsThatMatter ==
  \A w \in PointerWords \cup {0, InodeWords - 1} :
    w \in 0..InodeWords - 1 /\ w # 1 /\ w # 2
BY Sizes DEF PointerWords

-----------------------------------------------------------------------------
(***************************************************************************)
(* The inductive invariant for the user of small files.                    *)
(***************************************************************************)

\* What is left of the chunk and of the file fits the direct pointers from the
\* next on; while more chunks follow, a chunk is whole blocks.
ChunkInv ==
  /\ call.bi * BLOCK_SIZE + call.todo + call.left <= POINTERS_PER_INODE * BLOCK_SIZE
  /\ call.left > 0 => \E k \in Nat : call.todo = k * BLOCK_SIZE

\* The call works on a file of the table, and its copy of the inode block is the
\* one on the disk but for the size.
CopyInv ==
  /\ call.i \in 1..NInodes - 1 /\ ~call.far
  /\ Used(disk, SlotOf(call.i))
  /\ \A w \in Words : w # At(InodeOffset(call.i), 1) =>
                        call.block[w] = disk[InodeBlock(call.i)][w]

\* The block fs_format writes holds no file and no indirect pointer.
FormatInv ==
  /\ ~isMounted
  /\ \A j \in 0..INODES_PER_BLOCK - 1 :
       call.block[At(j, 0)] = 0 /\ call.block[At(j, InodeWords - 1)] = 0

DirectInv ==
  /\ TypeOK
  /\ TableOK(disk) /\ PointersApart(disk)
  /\ isMounted => BitmapOf(disk, freeBitmapBlock)
  /\ call.op # "create"
  /\ call.op = "format" => FormatInv
  /\ call.op = "write" => CopyInv /\ ChunkInv

LEMMA WriteCall ==
  ASSUME DirectInv, call.op = "write"
  PROVE  /\ isMounted /\ CopyInv /\ ChunkInv /\ BitmapOf(disk, freeBitmapBlock)
         /\ call \in [op : {"write"}, i : { i \in Inumbers : OnDisk(InodeBlock(i)) },
                      v : Values, block : Block, ind : Block, far : BOOLEAN,
                      bi : Nat, done : Nat, todo : 0..CHUNK, left : Nat]
BY DEF DirectInv, TypeOK, Calls, Idle

\* The slot a write works on.
LEMMA WriteSlot ==
  ASSUME DirectInv, call.op = "write"
  PROVE  /\ SlotOf(call.i) \in InodeSlots
         /\ InodeBlock(call.i) \in BlockNumbers /\ InodeBlock(call.i) \in 1..NInodeBlocks
         /\ InodeOffset(call.i) \in 0..INODES_PER_BLOCK - 1
<1>1. call.i \in 0..NInodes - 1
  BY WriteCall DEF CopyInv
<1> QED
  BY <1>1, NumberToSlot, SlotsInRange DEF SlotOf

\* What is read of the copy of the inode block is what the disk has.
LEMMA CopyFields ==
  ASSUME DirectInv, call.op = "write", NEW s \in InodeSlots, s[1] = InodeBlock(call.i),
         NEW w \in PointerWords \cup {0, InodeWords - 1}
  PROVE  /\ At(s[2], w) \in Words /\ At(s[2], w) # At(InodeOffset(call.i), 1)
         /\ call.block[At(s[2], w)] = FieldOf(disk, s, w)
<1>1. s[2] \in 0..INODES_PER_BLOCK - 1
  BY SlotsInRange
<1>2. w \in 0..InodeWords - 1 /\ w # 1 /\ 1 \in 0..InodeWords - 1
  BY WordsThatMatter, Sizes
<1>3. At(s[2], w) \in Words /\ At(s[2], w) # At(InodeOffset(call.i), 1)
  BY <1>1, <1>2, WriteSlot, WordAt, WordsApart
<1> QED
  BY <1>3, WriteCall DEF CopyInv, FieldOf

\* In a write with bytes to go the next pointer is a direct one.
LEMMA NextIsDirect ==
  ASSUME DirectInv, Writing
  PROVE  /\ call.op = "write" /\ call.bi \in Directs /\ 4 + call.bi \in PointerWords
         /\ Word = At(InodeOffset(call.i), 4 + call.bi)
         /\ Address = FieldOf(disk, SlotOf(call.i), 4 + call.bi)
<1>1. /\ call.op = "write" /\ call.bi \in Nat /\ call.todo \in Nat /\ call.todo > 0
      /\ call.left \in Nat
  BY WriteCall, Sizes DEF Writing
<1>2. call.bi < POINTERS_PER_INODE
  <2> SUFFICES ASSUME POINTERS_PER_INODE <= call.bi PROVE FALSE
    BY <1>1, Sizes
  <2>1. POINTERS_PER_INODE * BLOCK_SIZE <= call.bi * BLOCK_SIZE
    BY <1>1, Sizes, ProductMonotone
  <2>2. POINTERS_PER_INODE * BLOCK_SIZE \in Nat /\ call.bi * BLOCK_SIZE \in Nat
    BY <1>1, Sizes
  <2> QED
    BY <1>1, <2>1, <2>2, WriteCall DEF ChunkInv
<1>3. call.bi \in Directs
  BY <1>1, <1>2, Sizes DEF Directs
<1>4. Word = At(InodeOffset(call.i), 4 + call.bi)
  BY <1>1, <1>2, Sizes, MinOfTwo DEF Word
<1>5. 4 + call.bi \in PointerWords
  BY <1>3, PointerWordsAre
<1>6. call.block[At(SlotOf(call.i)[2], 4 + call.bi)]
        = FieldOf(disk, SlotOf(call.i), 4 + call.bi)
  <2>1. SlotOf(call.i) \in InodeSlots /\ SlotOf(call.i)[1] = InodeBlock(call.i)
    BY <1>1, WriteSlot DEF SlotOf
  <2> QED
    BY <1>1, <1>5, <2>1, CopyFields
<1>7. ~call.far
  BY <1>1, WriteCall DEF CopyInv
<1> QED
  BY <1>1, <1>3, <1>4, <1>5, <1>6, <1>7 DEF Address, SlotOf

-----------------------------------------------------------------------------
(* The steps.                                                              *)

LEMMA RestartDirect ==
  ASSUME DirectInv, Restart, TypeOK'
  PROVE  DirectInv'
BY DEF DirectInv, Restart, Idle

\* The next call sees the same inode table and bitmap.
LEMMA IdleDirect ==
  ASSUME DirectInv, TypeOK', call' = Idle,
         \A s \in InodeSlots : SameSlot(disk, s, disk'),
         UNCHANGED <<isMounted, freeBitmapBlock>>
  PROVE  DirectInv'
<1>1. TableOK(disk)' /\ PointersApart(disk)'
  BY SameKeeps DEF DirectInv
<1>2. (isMounted => BitmapOf(disk, freeBitmapBlock))'
  BY SameKeeps DEF DirectInv
<1> QED
  BY <1>1, <1>2 DEF DirectInv, Idle

LEMMA SameDisk ==
  ASSUME UNCHANGED disk
  PROVE  \A s \in InodeSlots : SameSlot(disk, s, disk')
BY DEF SameSlot

LEMMA FormatSuperDirect ==
  ASSUME DirectUse, DirectInv, FormatSuper, TypeOK'
  PROVE  DirectInv'
<1>1. PICK g \in [Words -> Garbage] :
        LET super == [g EXCEPT ![0] = FS_MAGIC, ![1] = NBLOCKS,
                               ![2] = NInodeBlocks, ![3] = NInodes]
        IN /\ disk' = [disk EXCEPT ![0] = super]
           /\ call' = [op |-> "format", i |-> 1,
                       block |-> [w \in Words |->
                         IF w % InodeWords = 0 THEN 0 ELSE super[w]]]
  BY DEF FormatSuper
<1> DEFINE super == [g EXCEPT ![0] = FS_MAGIC, ![1] = NBLOCKS,
                              ![2] = NInodeBlocks, ![3] = NInodes]
           block == [w \in Words |-> IF w % InodeWords = 0 THEN 0 ELSE super[w]]
<1>2. disk' = [disk EXCEPT ![0] = super] /\ call'.op = "format" /\ call'.block = block
  BY <1>1
<1>3. ASSUME NEW j \in 0..INODES_PER_BLOCK - 1
      PROVE  block[At(j, 0)] = 0 /\ block[At(j, InodeWords - 1)] = 0
  <2>1. 0 \in 0..InodeWords - 1 /\ InodeWords - 1 \in 0..InodeWords - 1
        /\ InodeWords \in Nat \ {0} /\ j \in Nat /\ InodeWords > 5
    BY Sizes
  <2>2. At(j, 0) \in Words /\ At(j, InodeWords - 1) \in Words
    BY <2>1, WordAt
  <2>3. At(j, 0) % InodeWords = 0
    <3> DEFINE n == At(j, 0)
               q == n \div InodeWords
               r == n % InodeWords
    <3>1. n = j * InodeWords + 0 /\ n \in Nat
      BY <2>1 DEF At
    <3>2. q \in Nat /\ r \in 0..InodeWords - 1 /\ n = q * InodeWords + r
      BY <2>1, <3>1, Divided
    <3> HIDE DEF n, q, r
    <3>3. 0 \in 0..InodeWords - 1 /\ j * InodeWords + 0 = q * InodeWords + r
      BY <2>1, <3>1, <3>2
    <3>4. 0 = r
      BY <2>1, <3>2, <3>3, OneQuotient
    <3> QED
      BY <3>4 DEF n, r
  <2>4. At(j, InodeWords - 1) > 3
    <3>1. j * InodeWords \in Nat
      BY <2>1
    <3> QED
      BY <2>1, <3>1 DEF At
  <2>5. super[At(j, InodeWords - 1)] = 0
    BY <2>2, <2>4 DEF DirectUse
  <2> QED
    BY <2>2, <2>3, <2>5
<1> HIDE DEF super, block
<1>4. \A s \in InodeSlots : SameSlot(disk, s, disk')
  <2>1. 0 \in BlockNumbers /\ 0 \notin 1..NInodeBlocks
    BY Sizes DEF BlockNumbers
  <2>2. disk \in [BlockNumbers -> Block]
    BY DEF DirectInv, TypeOK
  <2> QED
    BY <1>2, <2>1, <2>2, OtherBlock
<1>5. TableOK(disk)' /\ PointersApart(disk)'
  BY <1>4, SameKeeps DEF DirectInv
<1>6. ~isMounted'
  BY DEF FormatSuper
<1>7. FormatInv'
  BY <1>2, <1>3, <1>6 DEF FormatInv
<1> QED
  BY <1>2, <1>5, <1>6, <1>7 DEF DirectInv

LEMMA FormatInodesDirect ==
  ASSUME DirectUse, DirectInv, FormatInodes, TypeOK'
  PROVE  DirectInv'
<1>1. /\ call.op = "format" /\ call.i \in 1..NInodeBlocks
      /\ disk' = [disk EXCEPT ![call.i] = call.block]
      /\ call'.op = "format" /\ call'.block = call.block
      /\ UNCHANGED <<isMounted, freeBitmapBlock>>
  BY Sizes DEF FormatInodes, DirectInv, TypeOK, Calls, Idle
<1>2. FormatInv
  BY <1>1 DEF DirectInv
<1>3. ASSUME NEW s \in InodeSlots
      PROVE  \/ SameSlot(disk, s, disk')
             \/ FieldOf(disk', s, 0) = 0 /\ FieldOf(disk', s, InodeWords - 1) = 0
  <2>1. call.i \in BlockNumbers
    BY <1>1, Sizes DEF BlockNumbers
  <2>2. \A w : FieldOf(disk', s, w) =
                 IF s[1] = call.i THEN call.block[At(s[2], w)] ELSE FieldOf(disk, s, w)
    <3>1. disk \in [BlockNumbers -> Block]
      BY DEF DirectInv, TypeOK
    <3> QED
      BY <1>1, <2>1, <3>1, SlotsInRange DEF FieldOf
  <2> QED
    BY <1>2, <2>2, SlotsInRange DEF FormatInv, SameSlot
<1>4. TableOK(disk)' /\ PointersApart(disk)'
  BY <1>3, ClearingKeeps DEF DirectInv
<1> QED
  BY <1>1, <1>2, <1>4 DEF DirectInv, FormatInv

\* What fs_mount and fs_delete find in the inode of a file.
LEMMA FilePointers ==
  ASSUME DirectInv, NEW s \in InodeSlots, Used(disk, s), NEW d, NEW n
  PROVE  /\ indirect(disk[s[1]], s[2]) = 0
         /\ n \in Pointers(d, disk[s[1]], s[2]) <=>
              n # 0 /\ \E w \in PointerWords : FieldOf(disk, s, w) = n
<1>1. indirect(disk[s[1]], s[2]) = 0
  BY Fields DEF DirectInv, TableOK
<1>2. \A k \in Directs : direct(disk[s[1]], s[2], k) = FieldOf(disk, s, 4 + k)
  BY Fields
<1>3. Pointers(d, disk[s[1]], s[2]) =
        { m \in { direct(disk[s[1]], s[2], k) : k \in Directs } \cup {0} : m > 0 }
  BY <1>1 DEF Pointers
<1>4. \A w \in PointerWords : FieldOf(disk, s, w) # 0 => FieldOf(disk, s, w) > 0
  BY Sizes DEF DirectInv, PointersApart
<1>5. n \in Pointers(d, disk[s[1]], s[2]) <=>
        (\E k \in Directs : FieldOf(disk, s, 4 + k) = n) /\ n # 0
  BY <1>2, <1>3, <1>4, PointerWordsAre
<1> QED
  BY <1>1, <1>5, PointerWordsAre

LEMMA MountDirect ==
  ASSUME DirectUse, DirectInv, Mount, TypeOK'
  PROVE  DirectInv'
<1>1. CASE Restart
  BY <1>1, RestartDirect
<1>2. CASE ~Restart
  <2>1. /\ isMounted' = TRUE
        /\ freeBitmapBlock' = [n \in BlockNumbers |-> IF n \in InUse(disk) THEN 1 ELSE 0]
        /\ UNCHANGED <<disk, call>> /\ call = Idle
    BY <1>2 DEF Mount
  <2>2. ASSUME NEW s \in InodeSlots, Used(disk, s), NEW n
        PROVE  n \in Pointers(disk, disk[s[1]], s[2]) <=>
                 n # 0 /\ \E w \in PointerWords : FieldOf(disk, s, w) = n
    BY <2>2, FilePointers
  <2>3. \A s \in InodeSlots : isvalid(disk[s[1]], s[2]) = 1 <=> Used(disk, s)
    BY Fields DEF DirectInv, TableOK, Used
  <2>4. ASSUME NEW n \in BlockNumbers
        PROVE  n \in InUse(disk) <=>
                 \/ n <= NInodeBlocks
                 \/ \E s \in InodeSlots, w \in PointerWords :
                      Used(disk, s) /\ FieldOf(disk, s, w) = n
    <3>1. n \in Nat /\ (n \in 0..NInodeBlocks <=> n <= NInodeBlocks)
      BY Sizes DEF BlockNumbers
    <3>2. n \in InUse(disk) <=>
            \/ n \in 0..NInodeBlocks
            \/ \E s \in InodeSlots : Used(disk, s) /\ n \in Pointers(disk, disk[s[1]], s[2])
      BY <2>3 DEF InUse
    <3>3. n = 0 => n <= NInodeBlocks
      BY Sizes
    <3> QED
      BY <2>2, <3>1, <3>2, <3>3
  <2>5. BitmapOf(disk, freeBitmapBlock)'
    BY <2>1, <2>4 DEF BitmapOf, Used, FieldOf
  <2> QED
    BY <2>1, <2>5 DEF DirectInv, Idle, TableOK, PointersApart, Used, FieldOf
<1> QED
  BY <1>1, <1>2

\* With fewer files than the table holds, fs_create finds an inode in the table.
LEMMA FirstFreeInTable ==
  ASSUME DirectUse, DirectInv, MayCreate, FreeSlots # {}
  PROVE  FirstFree \in InodeSlots \ {<<1, 0>>} /\ ~Used(disk, FirstFree)
<1>1. \A s \in InodeSlots : isvalid(disk[s[1]], s[2]) = 0 <=> ~Used(disk, s)
  BY Fields DEF Used
<1>2. \E s \in InodeSlots \ {<<1, 0>>} : ~Used(disk, s)
  <2> SUFFICES ASSUME \A s \in InodeSlots \ {<<1, 0>>} : Used(disk, s) PROVE FALSE
    OBVIOUS
  <2>1. FileSlots = InodeSlots \ {<<1, 0>>}
    BY <1>1 DEF FileSlots, DirectInv, TableOK
  <2>2. IsFiniteSet(InodeSlots) /\ Cardinality(InodeSlots) = NInodes
    <3>1. IsFiniteSet(1..NInodeBlocks) /\ Cardinality(1..NInodeBlocks) = NInodeBlocks
      <4>1. 1 \in Int /\ NInodeBlocks \in Int /\ ~(1 > NInodeBlocks)
            /\ NInodeBlocks - 1 + 1 = NInodeBlocks
        BY Sizes
      <4> QED
        BY <4>1, FS_Interval
    <3>2. IsFiniteSet(0..INODES_PER_BLOCK - 1)
          /\ Cardinality(0..INODES_PER_BLOCK - 1) = INODES_PER_BLOCK
      <4>1. 0 \in Int /\ INODES_PER_BLOCK - 1 \in Int /\ ~(0 > INODES_PER_BLOCK - 1)
            /\ INODES_PER_BLOCK - 1 - 0 + 1 = INODES_PER_BLOCK
        BY Sizes
      <4> QED
        BY <4>1, FS_Interval
    <3> DEFINE S == 1..NInodeBlocks
               T == 0..INODES_PER_BLOCK - 1
    <3>3. InodeSlots = S \X T /\ NInodes = NInodeBlocks * INODES_PER_BLOCK
      BY DEF InodeSlots, NInodes
    <3>4. /\ IsFiniteSet(S) /\ Cardinality(S) = NInodeBlocks
          /\ IsFiniteSet(T) /\ Cardinality(T) = INODES_PER_BLOCK
      BY <3>1, <3>2
    <3> HIDE DEF S, T
    <3> QED
      BY <3>3, <3>4, FS_Product
  <2>3. Cardinality(FileSlots) = NInodes - 1
    <3>1. <<1, 0>> \in InodeSlots
      BY Sizes DEF InodeSlots
    <3> QED
      BY <2>1, <2>2, <3>1, FS_RemoveElement
  <2>4. habit.maxFiles < NInodes /\ habit.maxFiles \in Nat
    BY SimpleFSAssumption DEF DirectUse, DirectInv, TypeOK
  <2>5. NInodes \in Int
    BY Sizes DEF NInodes
  <2> QED
    BY <2>3, <2>4, <2>5 DEF MayCreate
<1>3. PICK t \in InodeSlots \ {<<1, 0>>} : ~Used(disk, t)
  BY <1>2
<1>4. t \in FreeSlots
  BY <1>1, <1>3, SlotsInRange, Sizes DEF FreeSlots, CreateSlots
<1>5. FirstFree \in FreeSlots /\ (FirstFree = t \/ Before(FirstFree, t))
  BY <1>4, FirstFreeIsFree
<1>6. /\ FirstFree \in (1..NInodeBlocks + 1) \X (0..INODES_PER_BLOCK - 1)
      /\ FirstFree # <<1, 0>> /\ isvalid(disk[FirstFree[1]], FirstFree[2]) = 0
  BY <1>5 DEF FreeSlots, CreateSlots
<1>7. FirstFree[1] <= t[1]
  BY <1>5, <1>6, SlotsInRange DEF Before
<1>8. FirstFree \in InodeSlots
  BY <1>6, <1>7, SlotsInRange, Sizes DEF InodeSlots
<1> QED
  BY <1>1, <1>6, <1>8

LEMMA CreateClearNever ==
  ASSUME DirectUse, DirectInv, CreateClear
  PROVE  FALSE
<1>1. FirstFree \in InodeSlots
  BY FirstFreeInTable DEF CreateClear
<1>2. indirect(disk[FirstFree[1]], FirstFree[2]) = 0
  BY <1>1, Fields DEF DirectInv, TableOK
<1> QED
  BY <1>2 DEF CreateClear

\* What fs_create writes to the inode, and that it spares the rest.
LEMMA FreshFields ==
  ASSUME NEW b \in Block, NEW j \in 0..INODES_PER_BLOCK - 1,
         NEW i \in 0..INODES_PER_BLOCK - 1,
         NEW w \in 0..InodeWords - 1, w # 2
  PROVE  Fresh(b, j)[At(i, w)] = IF i # j THEN b[At(i, w)]
                                 ELSE IF w = 0 THEN 1 ELSE 0
<1>1. /\ 0 \in 0..InodeWords - 1 /\ 2 \in 0..InodeWords - 1
      /\ InodeWords \in Nat \ {0} /\ InodeWords > 5
  BY Sizes
<1>2. At(i, w) \in Words
  BY <1>1, WordAt
<1>3. At(i, w) \in {At(j, 0), At(j, 2)} <=> i = j /\ w = 0
  BY <1>1, WordsApart
<1>4. At(i, w) \in At(j, 1)..At(j, InodeWords - 1) <=> i = j /\ w # 0
  <2>1. j * InodeWords \in Nat /\ i * InodeWords \in Nat
    BY <1>1
  <2>2. CASE i = j
    BY <1>1, <2>1, <2>2 DEF At
  <2>3. CASE i # j
    <3> SUFFICES ASSUME At(i, w) \in At(j, 1)..At(j, InodeWords - 1) PROVE FALSE
      BY <2>3
    <3> DEFINE v == At(i, w) - j * InodeWords
    <3>1. v \in 0..InodeWords - 1 /\ j * InodeWords + v = i * InodeWords + w
      BY <1>1, <2>1 DEF At
    <3> HIDE DEF v
    <3> QED
      BY <1>1, <2>3, <3>1, OneQuotient
  <2> QED
    BY <2>2, <2>3
<1> QED
  BY <1>2, <1>3, <1>4 DEF Fresh

LEMMA CreateWriteDirect ==
  ASSUME DirectUse, DirectInv, CreateWrite, TypeOK'
  PROVE  DirectInv'
<1> DEFINE f == FirstFree
<1>1. /\ call = Idle /\ isMounted /\ MayCreate /\ FreeSlots # {}
      /\ disk' = [disk EXCEPT ![f[1]] = Fresh(@, f[2])]
      /\ UNCHANGED <<isMounted, freeBitmapBlock, call>>
  BY DEF CreateWrite, DirectInv
<1>2. f \in InodeSlots \ {<<1, 0>>} /\ ~Used(disk, f)
  BY <1>1, FirstFreeInTable
<1> HIDE DEF f
<1>3. disk \in [BlockNumbers -> Block]
  BY DEF DirectInv, TypeOK
<1>4. ASSUME NEW s \in InodeSlots, NEW w \in PointerWords \cup {0, InodeWords - 1}
      PROVE  FieldOf(disk', s, w) = IF s # f THEN FieldOf(disk, s, w)
                                    ELSE IF w = 0 THEN 1 ELSE 0
  <2>1. /\ s[1] \in BlockNumbers /\ s[2] \in 0..INODES_PER_BLOCK - 1 /\ s = <<s[1], s[2]>>
        /\ f[1] \in BlockNumbers /\ f[2] \in 0..INODES_PER_BLOCK - 1 /\ f = <<f[1], f[2]>>
    BY <1>2, SlotsInRange
  <2>2. CASE s[1] = f[1]
    <3>1. disk[f[1]] \in Block /\ disk'[f[1]] = Fresh(disk[f[1]], f[2])
      BY <1>1, <1>3, <2>1
    <3>2. FieldOf(disk', s, w) = Fresh(disk[f[1]], f[2])[At(s[2], w)]
      BY <2>2, <3>1 DEF FieldOf
    <3>3. s = f <=> s[2] = f[2]
      BY <2>1, <2>2
    <3> QED
      BY <2>1, <2>2, <3>1, <3>2, <3>3, WordsThatMatter, FreshFields DEF FieldOf
  <2>3. CASE s[1] # f[1]
    BY <1>1, <1>3, <2>1, <2>3 DEF FieldOf
  <2> QED
    BY <2>2, <2>3
<1>5. \A s \in InodeSlots \ {f} : SameSlot(disk, s, disk')
  BY <1>4 DEF SameSlot
<1>6. /\ FieldOf(disk', f, 0) = 1 /\ FieldOf(disk', f, InodeWords - 1) = 0
      /\ \A w \in PointerWords : FieldOf(disk', f, w) = 0
  BY <1>2, <1>4, Sizes DEF PointerWords
<1>7. TableOK(disk') /\ PointersApart(disk') /\ BitmapOf(disk', freeBitmapBlock)
  <2>1. TableOK(disk) /\ PointersApart(disk) /\ BitmapOf(disk, freeBitmapBlock)
    BY <1>1 DEF DirectInv
  <2> QED
    BY <1>2, <1>5, <1>6, <2>1, CreatingKeeps
<1> QED
  BY <1>1, <1>7 DEF DirectInv, Idle, TableOK, PointersApart, BitmapOf, Used, FieldOf

\* From disk d to disk e word k of the inode in slot f becomes v.
OneWord(d, e, f, k, v) ==
  /\ \A n \in BlockNumbers \ {f[1]} : e[n] = d[n]
  /\ \A x \in Words : e[f[1]][x] = IF x = At(f[2], k) THEN v ELSE d[f[1]][x]

LEMMA WordReplaced ==
  ASSUME NEW d \in [BlockNumbers -> Block], NEW f \in InodeSlots,
         NEW k \in 0..InodeWords - 1, NEW v, NEW e, OneWord(d, e, f, k, v),
         NEW s \in InodeSlots, NEW w \in 0..InodeWords - 1
  PROVE  FieldOf(e, s, w) = IF s = f /\ w = k THEN v ELSE FieldOf(d, s, w)
<1>1. /\ s[1] \in BlockNumbers /\ s[2] \in 0..INODES_PER_BLOCK - 1 /\ s = <<s[1], s[2]>>
      /\ f[1] \in BlockNumbers /\ f[2] \in 0..INODES_PER_BLOCK - 1 /\ f = <<f[1], f[2]>>
  BY SlotsInRange
<1>2. CASE s[1] = f[1]
  <2>1. At(s[2], w) \in Words
    BY <1>1, WordAt
  <2>2. At(s[2], w) = At(f[2], k) <=> s[2] = f[2] /\ w = k
    BY <1>1, WordsApart
  <2>3. s = f <=> s[2] = f[2]
    BY <1>1, <1>2
  <2> QED
    BY <1>2, <2>1, <2>2, <2>3 DEF FieldOf, OneWord
<1>3. CASE s[1] # f[1]
  BY <1>1, <1>3 DEF FieldOf, OneWord
<1> QED
  BY <1>2, <1>3

\* A number that leads to a block of the disk is one of the table.
LEMMA NumberTyped ==
  ASSUME DirectUse, NEW i \in Inumbers, OnDisk(InodeBlock(i))
  PROVE  /\ i \in 1..NInodes - 1 /\ SlotOf(i) \in InodeSlots
         /\ SlotOf(i)[1] = InodeBlock(i) /\ SlotOf(i)[2] = InodeOffset(i)
<1>1. i \in 1..NInodes - 1
  BY DEF DirectUse
<1> QED
  BY <1>1, NumberToSlot DEF SlotOf

LEMMA DeleteDirect ==
  ASSUME DirectUse, DirectInv, NEW i \in Inumbers, Delete(i), TypeOK'
  PROVE  DirectInv'
<1>1. CASE ~OnDisk(InodeBlock(i))
  BY <1>1, RestartDirect DEF Delete
<1>2. CASE OnDisk(InodeBlock(i))
  <2> DEFINE f == SlotOf(i)
             b == disk[InodeBlock(i)]
             j == InodeOffset(i)
             freed == Freed(disk', b, j)
  <2>1. f \in InodeSlots /\ f[1] = InodeBlock(i) /\ f[2] = j
    BY <1>2, NumberTyped
  <2>2. isvalid(b, j) = FieldOf(disk, f, 0)
    BY <2>1, Fields
  <2>3. Used(disk, f)
    BY <1>2, <2>2 DEF Delete, Used
  <2>4. indirect(b, j) = 0 /\ \A n : n \in freed <=>
          n # 0 /\ \E w \in PointerWords : FieldOf(disk, f, w) = n
    BY <2>1, <2>3, FilePointers DEF Freed
  <2>5. /\ disk' = [disk EXCEPT ![f[1]] = [@ EXCEPT ![At(f[2], 0)] = 0]]
        /\ freeBitmapBlock' = [n \in BlockNumbers |->
             IF n \in freed THEN 0 ELSE freeBitmapBlock[n]]
        /\ call = Idle /\ isMounted /\ UNCHANGED <<isMounted, call>>
    BY <1>2, <2>1, <2>4 DEF Delete
  <2> HIDE DEF f, freed
  <2>6. disk \in [BlockNumbers -> Block] /\ freeBitmapBlock \in [BlockNumbers -> {0, 1}]
    BY DEF DirectInv, TypeOK
  <2>7. ASSUME NEW s \in InodeSlots, NEW w \in PointerWords \cup {0, InodeWords - 1}
        PROVE  FieldOf(disk', s, w) = IF s = f /\ w = 0 THEN 0 ELSE FieldOf(disk, s, w)
    <3>1. w \in 0..InodeWords - 1 /\ 0 \in 0..InodeWords - 1
      BY WordsThatMatter, Sizes
    <3>2. OneWord(disk, disk', f, 0, 0)
      BY <2>1, <2>5, <2>6, SlotsInRange DEF Block, OneWord
    <3> QED
      BY <2>1, <2>6, <3>1, <3>2, WordReplaced
  <2>8. \A s \in InodeSlots \ {f} : SameSlot(disk, s, disk')
    BY <2>7 DEF SameSlot
  <2>9. FieldOf(disk', f, 0) = 0 /\ FieldOf(disk', f, InodeWords - 1) = 0
    BY <2>1, <2>7, Sizes DEF DirectInv, TableOK
  <2>10. TableOK(disk) /\ PointersApart(disk) /\ BitmapOf(disk, freeBitmapBlock)
    BY <2>5 DEF DirectInv
  <2>11. TableOK(disk') /\ PointersApart(disk') /\ BitmapOf(disk', freeBitmapBlock')
    <3>1. \A n \in BlockNumbers : freeBitmapBlock'[n] =
            IF n # 0 /\ \E w \in PointerWords : FieldOf(disk, f, w) = n
            THEN 0 ELSE freeBitmapBlock[n]
      BY <2>4, <2>5
    <3> QED
      BY <2>1, <2>3, <2>6, <2>8, <2>9, <2>10, <3>1, DeletingKeeps
  <2> QED
    BY <2>5, <2>11 DEF DirectInv, Idle, TableOK, PointersApart, BitmapOf, Used, FieldOf
<1> QED
  BY <1>1, <1>2

\* A chunk starts: it is whole blocks if more of the file follows.
LEMMA NextChunk ==
  ASSUME NEW n \in Nat
  PROVE  /\ Min({CHUNK, n}) \in Nat /\ n - Min({CHUNK, n}) \in Nat
         /\ Min({CHUNK, n}) + (n - Min({CHUNK, n})) = n
         /\ n - Min({CHUNK, n}) > 0 =>
              \E k \in Nat : Min({CHUNK, n}) = k * BLOCK_SIZE
<1>1. \E k \in Nat : CHUNK = k * BLOCK_SIZE
  <2>1. CHUNK = (CHUNK \div BLOCK_SIZE) * BLOCK_SIZE + (CHUNK % BLOCK_SIZE)
        /\ CHUNK \div BLOCK_SIZE \in Nat
    BY Sizes, Divided
  <2>2. (CHUNK \div BLOCK_SIZE) * BLOCK_SIZE \in Nat
    BY <2>1, Sizes
  <2> QED
    BY <2>1, <2>2, Sizes
<1>2. Min({CHUNK, n}) = IF CHUNK <= n THEN CHUNK ELSE n
  BY Sizes, MinOfTwo
<1>3. CASE CHUNK <= n
  <2>1. Min({CHUNK, n}) = CHUNK /\ CHUNK \in Nat
    BY <1>2, <1>3, Sizes
  <2> QED
    BY <1>1, <1>3, <2>1
<1>4. CASE ~(CHUNK <= n)
  BY <1>2, <1>4, Sizes
<1> QED
  BY <1>3, <1>4

\* Every file copied in fits the direct pointers.
LEMMA LengthTyped ==
  ASSUME DirectUse, habit \in Habits, NEW n \in Lengths, n <= habit.maxLength
  PROVE  n \in Nat /\ n <= POINTERS_PER_INODE * BLOCK_SIZE
<1>1. n \in Nat
  BY SimpleFSAssumption
<1>2. habit.maxLength \in Nat /\ habit.maxLength <= POINTERS_PER_INODE * BLOCK_SIZE
  BY SimpleFSAssumption DEF DirectUse
<1>3. POINTERS_PER_INODE * BLOCK_SIZE \in Nat
  BY Sizes
<1> QED
  BY <1>1, <1>2, <1>3

LEMMA CopyInDirect ==
  ASSUME DirectUse, DirectInv, NEW i \in Inumbers, CopyIn(i), TypeOK'
  PROVE  DirectInv'
<1>1. CASE ~OnDisk(InodeBlock(i))
  BY <1>1, RestartDirect DEF CopyIn
<1>2. CASE OnDisk(InodeBlock(i))
  <2>1. PICK n \in Lengths, v \in Values :
          /\ n <= habit.maxLength
          /\ isvalid(disk[InodeBlock(i)], InodeOffset(i)) # 0
          /\ call' = [op |-> "write", i |-> i, v |-> v, block |-> disk[InodeBlock(i)],
                      ind |-> ZeroBlock, far |-> FALSE, bi |-> 0,
                      done |-> 0, todo |-> Min({CHUNK, n}),
                      left |-> n - Min({CHUNK, n})]
          /\ UNCHANGED <<disk, isMounted, freeBitmapBlock>>
    BY <1>2 DEF CopyIn
  <2>2. i \in 1..NInodes - 1 /\ SlotOf(i) \in InodeSlots
        /\ SlotOf(i)[1] = InodeBlock(i) /\ SlotOf(i)[2] = InodeOffset(i)
    BY <1>2, NumberTyped
  <2>3. Used(disk, SlotOf(i))
    BY <2>1, <2>2, Fields DEF Used
  <2>4. CopyInv'
    BY <2>1, <2>2, <2>3 DEF CopyInv, Used, FieldOf
  <2>5. ChunkInv'
    <3>1. n \in Nat /\ n <= POINTERS_PER_INODE * BLOCK_SIZE
      BY <2>1, LengthTyped DEF DirectInv, TypeOK
    <3>2. POINTERS_PER_INODE * BLOCK_SIZE \in Nat /\ 0 * BLOCK_SIZE = 0
      BY Sizes
    <3>3. call'.bi * BLOCK_SIZE + call'.todo + call'.left = n
      BY <2>1, <3>1, <3>2, NextChunk
    <3>4. call'.left > 0 => \E k \in Nat : call'.todo = k * BLOCK_SIZE
      BY <2>1, <3>1, NextChunk
    <3> QED
      BY <3>1, <3>3, <3>4 DEF ChunkInv
  <2>6. call'.op = "write"
    BY <2>1
  <2> QED
    BY <2>1, <2>4, <2>5, <2>6 DEF DirectInv, TableOK, PointersApart, BitmapOf, Used, FieldOf
<1> QED
  BY <1>1, <1>2

\* The copy of the inode block is written, but for the size as it was.
LEMMA CopyWritten ==
  ASSUME DirectInv, call.op = "write", NEW s \in InodeSlots,
         NEW b, \A w \in Words : w # At(InodeOffset(call.i), 1) => b[w] = call.block[w]
  PROVE  SameSlot(disk, s, [disk EXCEPT ![InodeBlock(call.i)] = b])
<1> SUFFICES ASSUME NEW w \in PointerWords \cup {0, InodeWords - 1}
             PROVE  FieldOf([disk EXCEPT ![InodeBlock(call.i)] = b], s, w)
                      = FieldOf(disk, s, w)
  BY DEF SameSlot
<1>1. disk \in [BlockNumbers -> Block] /\ InodeBlock(call.i) \in BlockNumbers
  BY WriteSlot DEF DirectInv, TypeOK
<1>2. FieldOf([disk EXCEPT ![InodeBlock(call.i)] = b], s, w) =
        IF s[1] = InodeBlock(call.i) THEN b[At(s[2], w)] ELSE FieldOf(disk, s, w)
  BY <1>1, SlotsInRange DEF FieldOf
<1>3. CASE s[1] = InodeBlock(call.i)
  BY <1>2, <1>3, CopyFields
<1>4. CASE s[1] # InodeBlock(call.i)
  BY <1>2, <1>4
<1> QED
  BY <1>3, <1>4

LEMMA AllocateDirect ==
  ASSUME DirectInv, AllocateInInode, TypeOK'
  PROVE  DirectInv'
<1>1. CASE DiskFull
  BY <1>1, SameDisk, IdleDirect DEF DiskFull, Return
<1>2. CASE ~DiskFull
  <2> DEFINE f == SlotOf(call.i)
             k == 4 + call.bi
             n == getFreeBlock
             b == [call.block EXCEPT ![Word] = n]
  <2>1. /\ Writing /\ Address = 0 /\ n # 0
        /\ disk' = [disk EXCEPT ![InodeBlock(call.i)] = b]
        /\ call' = [call EXCEPT !.block = b]
        /\ freeBitmapBlock' = [freeBitmapBlock EXCEPT ![n] = 1] /\ UNCHANGED isMounted
    BY <1>2 DEF AllocateInInode, Mark
  <2>2. /\ call.op = "write" /\ k \in PointerWords
        /\ Word = At(InodeOffset(call.i), k) /\ FieldOf(disk, f, k) = 0
    BY <2>1, NextIsDirect
  <2>3. n \in BlockNumbers /\ freeBitmapBlock[n] = 0
    BY <2>1, FreeBlock DEF DirectInv
  <2>4. /\ f \in InodeSlots /\ f[1] = InodeBlock(call.i) /\ f[2] = InodeOffset(call.i)
        /\ f[1] \in BlockNumbers /\ f[2] \in 0..INODES_PER_BLOCK - 1
    BY <2>2, WriteSlot DEF SlotOf
  <2>5. disk \in [BlockNumbers -> Block] /\ freeBitmapBlock \in [BlockNumbers -> {0, 1}]
        /\ call.block \in Block
    BY <2>2, WriteCall DEF DirectInv, TypeOK
  <2>6. k \in 0..InodeWords - 1 /\ k # 1 /\ k # 0 /\ k # InodeWords - 1 /\ Word \in Words
    BY <2>2, <2>4, WordsThatMatter, WordAt, Sizes DEF PointerWords
  <2> HIDE DEF f, k, n
  <2>7. ASSUME NEW s \in InodeSlots, NEW w \in PointerWords \cup {0, InodeWords - 1}
        PROVE  FieldOf(disk', s, w) = IF s = f /\ w = k THEN n ELSE FieldOf(disk, s, w)
    <3>1. /\ s[2] \in 0..INODES_PER_BLOCK - 1 /\ s[1] \in BlockNumbers
          /\ s = <<s[1], s[2]>> /\ f = <<f[1], f[2]>>
      BY <2>4, SlotsInRange
    <3>2. w \in 0..InodeWords - 1 /\ At(s[2], w) \in Words
      BY <3>1, WordsThatMatter, WordAt
    <3>3. CASE s[1] = f[1]
      <4>1. FieldOf(disk', s, w) = b[At(s[2], w)]
        BY <2>1, <2>4, <2>5, <3>3 DEF FieldOf
      <4>2. call.block[At(s[2], w)] = FieldOf(disk, s, w)
        BY <2>2, <2>4, <3>3, CopyFields
      <4>3. At(s[2], w) = Word <=> s[2] = f[2] /\ w = k
        BY <2>2, <2>4, <2>6, <3>1, <3>2, WordsApart
      <4>4. b[At(s[2], w)] = IF At(s[2], w) = Word THEN n ELSE call.block[At(s[2], w)]
        BY <2>5, <3>2 DEF Block
      <4> QED
        BY <3>1, <3>3, <4>1, <4>2, <4>3, <4>4
    <3>4. CASE s[1] # f[1]
      BY <2>1, <2>4, <2>5, <3>1, <3>4 DEF FieldOf
    <3> QED
      BY <3>3, <3>4
  <2>8. \A s \in InodeSlots \ {f} : SameSlot(disk, s, disk')
    BY <2>7 DEF SameSlot
  <2>9. /\ FieldOf(disk', f, 0) = FieldOf(disk, f, 0)
        /\ FieldOf(disk', f, InodeWords - 1) = FieldOf(disk, f, InodeWords - 1)
        /\ FieldOf(disk', f, k) = n
        /\ \A w \in PointerWords \ {k} : FieldOf(disk', f, w) = FieldOf(disk, f, w)
    BY <2>2, <2>4, <2>6, <2>7
  <2>10. /\ TableOK(disk) /\ PointersApart(disk) /\ BitmapOf(disk, freeBitmapBlock)
         /\ isMounted /\ Used(disk, f)
    BY <2>2, WriteCall DEF DirectInv, CopyInv, f
  <2>11. /\ TableOK(disk') /\ PointersApart(disk')
         /\ BitmapOf(disk', [freeBitmapBlock EXCEPT ![n] = 1])
    BY <2>2, <2>3, <2>4, <2>5, <2>8, <2>9, <2>10, AllocatingKeeps
  <2>12. CopyInv'
    <3>1. call'.i = call.i /\ call'.far = call.far /\ call'.block = b
      BY <2>1, <2>2, WriteCall
    <3>2. disk'[InodeBlock(call.i)] = b
      BY <2>1, <2>4, <2>5
    <3>3. Used(disk', f)
      BY <2>9, <2>10 DEF Used
    <3>4. call.i \in 1..NInodes - 1 /\ ~call.far
      BY <2>2, WriteCall DEF CopyInv
    <3> QED
      BY <3>1, <3>2, <3>3, <3>4 DEF CopyInv, f, SlotOf, Used, FieldOf
  <2>13. ChunkInv' /\ call'.op = "write"
    BY <2>1, <2>2, WriteCall DEF ChunkInv
  <2> QED
    BY <2>1, <2>10, <2>11, <2>12, <2>13 DEF DirectInv, TableOK, PointersApart, BitmapOf,
       Used, FieldOf
<1> QED
  BY <1>1, <1>2

LEMMA WriteDataDirect ==
  ASSUME DirectInv, WriteData, TypeOK'
  PROVE  DirectInv'
<1>1. CASE ~OnDisk(Address)
  BY <1>1, RestartDirect DEF WriteData
<1>2. CASE OnDisk(Address)
  <2> DEFINE f == SlotOf(call.i)
             p == Piece
  <2>1. /\ Writing /\ Address # 0
        /\ disk' = [disk EXCEPT ![Address] = [w \in Words |->
                      IF w < p THEN FileByte(call.v, call.bi) ELSE disk[Address][w]]]
        /\ call' = [call EXCEPT
             !.block[At(InodeOffset(call.i), 1)] = @ + p,
             !.bi = @ + 1, !.done = @ + p, !.todo = @ - p]
        /\ UNCHANGED <<isMounted, freeBitmapBlock>>
    BY <1>2 DEF WriteData
  <2>2. /\ call.op = "write" /\ call.bi \in Directs /\ 4 + call.bi \in PointerWords
        /\ Address = FieldOf(disk, f, 4 + call.bi)
    BY <2>1, NextIsDirect
  <2>3. call \in [op : {"write"}, i : { i \in Inumbers : OnDisk(InodeBlock(i)) },
                  v : Values, block : Block, ind : Block, far : BOOLEAN,
                  bi : Nat, done : Nat, todo : 0..CHUNK, left : Nat]
        /\ CopyInv /\ ChunkInv
    BY <2>2, WriteCall
  <2>4. /\ f \in InodeSlots /\ f[1] = InodeBlock(call.i) /\ f[2] = InodeOffset(call.i)
        /\ f[1] \in 1..NInodeBlocks /\ Used(disk, f)
    BY <2>2, <2>3, WriteSlot DEF SlotOf, CopyInv
  <2>5. Address \in NInodeBlocks + 1..NBLOCKS - 1
    BY <2>1, <2>2, <2>4 DEF DirectInv, PointersApart
  <2>6. Address \in BlockNumbers /\ Address \notin 1..NInodeBlocks
    BY <1>2, <2>5, Sizes DEF OnDisk
  <2>7. disk \in [BlockNumbers -> Block]
    BY DEF DirectInv, TypeOK
  <2>8. p \in 1..call.todo /\ p = IF BLOCK_SIZE <= call.todo THEN BLOCK_SIZE ELSE call.todo
    BY <2>1, PieceBounds DEF DirectInv
  <2> HIDE DEF f, p
  <2>9. /\ call'.op = "write" /\ call'.i = call.i /\ call'.far = call.far
        /\ call'.bi = call.bi + 1 /\ call'.todo = call.todo - p
        /\ call'.left = call.left
        /\ call'.block = [call.block EXCEPT ![At(InodeOffset(call.i), 1)] = @ + p]
    BY <2>1, <2>3
  <2>10. \A s \in InodeSlots : SameSlot(disk, s, disk')
    BY <2>1, <2>6, <2>7, OtherBlock
  <2>11. TableOK(disk') /\ PointersApart(disk')
         /\ (isMounted => BitmapOf(disk', freeBitmapBlock))
    BY <2>10, SameKeeps DEF DirectInv
  <2>12. CopyInv'
    <3>1. disk'[InodeBlock(call.i)] = disk[InodeBlock(call.i)]
      BY <2>1, <2>4, <2>6, <2>7
    <3>2. Used(disk', f)
      BY <2>4, <2>10 DEF SameSlot, Used
    <3>3. \A w \in Words : w # At(InodeOffset(call.i), 1) => call'.block[w] = call.block[w]
      BY <2>3, <2>9 DEF Block
    <3> QED
      BY <2>3, <2>9, <3>1, <3>2, <3>3 DEF CopyInv, f, SlotOf, Used, FieldOf
  <2>13. ChunkInv'
    <3> DEFINE x == call.bi * BLOCK_SIZE
               y == POINTERS_PER_INODE * BLOCK_SIZE
    <3>1. /\ call.bi \in Nat /\ call.bi < POINTERS_PER_INODE
          /\ call.todo \in Nat /\ call.left \in Nat
      BY <2>2, <2>3, Sizes DEF Directs
    <3>2. x \in Nat /\ y \in Nat /\ (call.bi + 1) * BLOCK_SIZE = x + BLOCK_SIZE
          /\ BLOCK_SIZE \in Nat \ {0}
      BY <3>1, Sizes
    <3>3. x + BLOCK_SIZE <= y
      <4>1. call.bi + 1 \in Nat /\ call.bi + 1 <= POINTERS_PER_INODE
        BY <3>1, Sizes
      <4>2. (call.bi + 1) * BLOCK_SIZE <= y
        BY <4>1, Sizes, ProductMonotone
      <4> QED
        BY <3>2, <4>2
    <3>4. x + call.todo + call.left <= y
      BY <2>3 DEF ChunkInv
    <3>5. ASSUME call.left > 0
          PROVE  \E m \in Nat : call.todo = m * BLOCK_SIZE + BLOCK_SIZE
      <4>1. PICK k \in Nat : call.todo = k * BLOCK_SIZE
        BY <2>3, <3>5 DEF ChunkInv
      <4>2. k # 0
        BY <2>8, <3>1, <3>2, <4>1
      <4>3. k - 1 \in Nat /\ (k - 1) * BLOCK_SIZE + BLOCK_SIZE = k * BLOCK_SIZE
        BY <3>2, <4>2
      <4> QED
        BY <4>1, <4>3
    <3>6. (call.bi + 1) * BLOCK_SIZE + (call.todo - p) + call.left <= y
      <4>1. CASE BLOCK_SIZE <= call.todo
        BY <2>8, <3>1, <3>2, <3>4, <4>1
      <4>2. CASE ~(BLOCK_SIZE <= call.todo)
        <5>1. call.left = 0
          <6> SUFFICES ASSUME call.left > 0 PROVE FALSE
            BY <3>1
          <6>1. PICK m \in Nat : call.todo = m * BLOCK_SIZE + BLOCK_SIZE
            BY <3>5
          <6>2. m * BLOCK_SIZE \in Nat
            BY <3>2
          <6> QED
            BY <3>2, <4>2, <6>1, <6>2
        <5> QED
          BY <2>8, <3>1, <3>2, <3>3, <4>2, <5>1
      <4> QED
        BY <4>1, <4>2
    <3>7. ASSUME call.left > 0
          PROVE  \E k \in Nat : call.todo - p = k * BLOCK_SIZE
      <4>1. PICK m \in Nat : call.todo = m * BLOCK_SIZE + BLOCK_SIZE
        BY <3>5, <3>7
      <4>2. m * BLOCK_SIZE \in Nat
        BY <3>2
      <4>3. p = BLOCK_SIZE
        BY <2>8, <3>2, <4>1, <4>2
      <4>4. call.todo - p = m * BLOCK_SIZE
        BY <3>2, <4>1, <4>2, <4>3
      <4> QED
        BY <4>4
    <3> QED
      BY <2>9, <3>6, <3>7 DEF ChunkInv
  <2> QED
    BY <2>1, <2>9, <2>11, <2>12, <2>13 DEF DirectInv, TableOK, PointersApart, BitmapOf,
       Used, FieldOf
<1> QED
  BY <1>1, <1>2

LEMMA FinishDirect ==
  ASSUME DirectInv, FinishChunk, TypeOK'
  PROVE  DirectInv'
<1>1. /\ call.op = "write" /\ call.todo = 0
      /\ disk' = [disk EXCEPT ![InodeBlock(call.i)] = call.block]
      /\ UNCHANGED <<isMounted, freeBitmapBlock>>
  BY DEF FinishChunk, Recorded
<1>2. \A s \in InodeSlots : SameSlot(disk, s, disk')
  BY <1>1, CopyWritten
<1>3. CASE call.left = 0
  BY <1>1, <1>2, <1>3, IdleDirect DEF FinishChunk, Return
<1>4. CASE call.left # 0
  <2> DEFINE n == call.left
             t == Min({CHUNK, n})
  <2>1. call \in [op : {"write"}, i : { i \in Inumbers : OnDisk(InodeBlock(i)) },
                  v : Values, block : Block, ind : Block, far : BOOLEAN,
                  bi : Nat, done : Nat, todo : 0..CHUNK, left : Nat]
        /\ CopyInv /\ ChunkInv
    BY <1>1, WriteCall
  <2>2. /\ n \in Nat /\ t \in Nat /\ n - t \in Nat /\ t + (n - t) = n
        /\ n - t > 0 => \E k \in Nat : t = k * BLOCK_SIZE
    BY <2>1, NextChunk
  <2>3. call' = [call EXCEPT !.far = FALSE, !.ind = ZeroBlock,
                             !.todo = t, !.left = n - t]
    BY <1>4 DEF FinishChunk
  <2> HIDE DEF t
  <2>4. /\ call'.op = "write" /\ call'.i = call.i /\ call'.far = FALSE
        /\ call'.bi = call.bi /\ call'.todo = t /\ call'.left = n - t
        /\ call'.block = call.block
    BY <2>1, <2>3
  <2>5. ChunkInv'
    <3>1. call.bi * BLOCK_SIZE \in Nat
      BY <2>1, Sizes
    <3>2. call.bi * BLOCK_SIZE + n <= POINTERS_PER_INODE * BLOCK_SIZE
      BY <1>1, <2>1, <3>1 DEF ChunkInv
    <3>3. call.bi * BLOCK_SIZE + t + (n - t) = call.bi * BLOCK_SIZE + n
      BY <2>2, <3>1
    <3> QED
      BY <2>2, <2>4, <3>2, <3>3 DEF ChunkInv
  <2>6. CopyInv'
    <3>1. SlotOf(call.i) \in InodeSlots /\ InodeBlock(call.i) \in BlockNumbers
      BY <1>1, WriteSlot
    <3>2. disk'[InodeBlock(call.i)] = call.block
      BY <1>1, <3>1 DEF DirectInv, TypeOK
    <3>3. Used(disk', SlotOf(call.i))
      BY <1>2, <2>1, <3>1 DEF CopyInv, SameSlot, Used
    <3> QED
      BY <2>1, <2>4, <3>2, <3>3 DEF CopyInv, Used, FieldOf, SlotOf
  <2>7. TableOK(disk') /\ PointersApart(disk')
        /\ (isMounted => BitmapOf(disk', freeBitmapBlock))
    BY <1>2, SameKeeps DEF DirectInv
  <2> QED
    BY <1>1, <2>4, <2>5, <2>6, <2>7 DEF DirectInv, TableOK, PointersApart, BitmapOf,
       Used, FieldOf
<1> QED
  BY <1>3, <1>4

LEMMA DirectStep ==
  ASSUME DirectUse, DirectInv, [Next]_vars
  PROVE  DirectInv'
<1>1. TypeOK'
  BY TypeStep DEF DirectInv
<1>2. CASE FormatSuper
  BY <1>1, <1>2, FormatSuperDirect
<1>3. CASE FormatInodes
  BY <1>1, <1>3, FormatInodesDirect
<1>4. CASE FormatReturn
  BY <1>1, <1>4, SameDisk, IdleDirect DEF FormatReturn, Return
<1>5. CASE Mount
  BY <1>1, <1>5, MountDirect
<1>6. CASE Crash
  BY <1>1, <1>6, RestartDirect DEF Crash
<1>7. CASE CreateClear
  BY <1>7, CreateClearNever
<1>8. CASE CreateWrite
  BY <1>1, <1>8, CreateWriteDirect
<1>9. ASSUME NEW i \in Inumbers, Delete(i) PROVE DirectInv'
  BY <1>1, <1>9, DeleteDirect
<1>10. ASSUME NEW i \in Inumbers, CopyIn(i) PROVE DirectInv'
  BY <1>1, <1>10, CopyInDirect
<1>11. CASE AllocateInInode
  BY <1>1, <1>11, AllocateDirect
<1>12. CASE ReadIndirect
  BY <1>12, NextIsDirect, Sizes DEF ReadIndirect, Directs
<1>13. CASE AllocateInIndirect
  BY <1>13, NextIsDirect, WriteCall DEF AllocateInIndirect, CopyInv
<1>14. CASE WriteData
  BY <1>1, <1>14, WriteDataDirect
<1>15. CASE FinishChunk
  BY <1>1, <1>15, FinishDirect
<1>16. CASE UNCHANGED vars
  BY <1>1, <1>16 DEF vars, DirectInv, TableOK, PointersApart, BitmapOf, Used, FieldOf,
     FormatInv, CopyInv, ChunkInv
<1> QED
  BY <1>2, <1>3, <1>4, <1>5, <1>6, <1>7, <1>8, <1>9, <1>10, <1>11, <1>12, <1>13,
     <1>14, <1>15, <1>16 DEF Next

\* In every state of the user of small files the inode table has no indirect
\* block, the files' pointers lead to different blocks, and, on a mounted disk, the
\* bitmap has exactly those: what fs_format, fs_mount, fs_create, fs_delete and
\* fs_write keep at each disk_write, and what a crash between two of them leaves.
THEOREM DirectInvariance == DirectUse /\ Spec => []DirectInv
<1> SUFFICES ASSUME DirectUse PROVE Spec => []DirectInv
  OBVIOUS
<1>1. Init => DirectInv
  <2> SUFFICES ASSUME Init PROVE DirectInv
    OBVIOUS
  <2>1. TypeOK
    <3>1. ZeroBlock \in Block
      BY DEF ZeroBlock, Block
    <3>2. disk \in [BlockNumbers -> Block] /\ freeBitmapBlock \in [BlockNumbers -> {0, 1}]
      BY <3>1 DEF Init, NoBitmap
    <3> QED
      BY <3>2, IdleType DEF Init, TypeOK
  <2>2. \A s \in InodeSlots, w \in 0..InodeWords - 1 : FieldOf(disk, s, w) = 0
    BY SlotsInRange, WordAt DEF Init, ZeroBlock, FieldOf
  <2>3. \A s \in InodeSlots : ~Used(disk, s) /\ FieldOf(disk, s, 0) = 0
                              /\ FieldOf(disk, s, InodeWords - 1) = 0
    BY <2>2, Sizes DEF Used
  <2>4. <<1, 0>> \in InodeSlots
    BY Sizes DEF InodeSlots
  <2> QED
    BY <2>1, <2>3, <2>4 DEF Init, Idle, DirectInv, TableOK, PointersApart
<1>2. DirectInv /\ [Next]_vars => DirectInv'
  BY DirectStep
<1> QED
  BY <1>1, <1>2, PTL DEF Spec

\* The places of a file, as fields of its slot.
LEMMA FilePlaces ==
  ASSUME DirectInv, NEW i \in Files(disk)
  PROVE  /\ i \in 0..NInodes - 1 /\ i # 0
         /\ SlotOf(i) \in InodeSlots /\ Used(disk, SlotOf(i))
         /\ \A p : p \in Places(disk, i) <=>
              \E k \in Directs : p = <<i, k>> /\ FieldOf(disk, SlotOf(i), 4 + k) # 0
         /\ \A k \in Directs : Target(disk, <<i, k>>) = FieldOf(disk, SlotOf(i), 4 + k)
<1>1. i \in 0..NInodes - 1 /\ i # 0
  BY Sizes DEF Files
<1>2. SlotOf(i) \in InodeSlots
  BY <1>1, NumberToSlot
<1>3. \A w : InodeOf(disk, i, w) = FieldOf(disk, SlotOf(i), w)
  BY DEF InodeOf, FieldOf, SlotOf
<1>4. Used(disk, SlotOf(i))
  BY <1>3 DEF Files, IsFile, Used
<1>5. InodeOf(disk, i, 4 + POINTERS_PER_INODE) = 0
  <2>1. 4 + POINTERS_PER_INODE = InodeWords - 1
    BY Sizes
  <2> QED
    BY <1>2, <1>3, <2>1 DEF DirectInv, TableOK
<1>6. /\ Directs \subseteq 0..POINTERS_PER_INODE
      /\ \A k \in 0..POINTERS_PER_INODE : k \in Directs \/ k = POINTERS_PER_INODE
      /\ \A k \in Directs : k <= POINTERS_PER_INODE
  BY Sizes DEF Directs
<1>7. Places(disk, i) =
        { <<i, k>> : k \in { k \in 0..POINTERS_PER_INODE : InodeOf(disk, i, 4 + k) # 0 } }
  BY <1>5 DEF Places
<1>8. \A k \in 0..POINTERS_PER_INODE : InodeOf(disk, i, 4 + k) # 0 <=>
        k \in Directs /\ FieldOf(disk, SlotOf(i), 4 + k) # 0
  BY <1>3, <1>5, <1>6
<1>9. \A p : p \in Places(disk, i) <=>
        \E k \in Directs : p = <<i, k>> /\ FieldOf(disk, SlotOf(i), 4 + k) # 0
  BY <1>6, <1>7, <1>8
<1>10. \A k \in Directs : Target(disk, <<i, k>>) = FieldOf(disk, SlotOf(i), 4 + k)
  BY <1>3, <1>6 DEF Target
<1> QED
  BY <1>1, <1>2, <1>4, <1>9, <1>10

\* No sequence of calls and crashes gives a block to two files, or twice to one, or
\* lets a file reach into the inode table: for small files, on any disk.
THEOREM DirectBlocksApart == DirectUse /\ Spec => []NoSharedBlock
<1>1. DirectInv => NoSharedBlock
  <2> SUFFICES ASSUME DirectInv PROVE NoSharedBlock
    OBVIOUS
  <2> DEFINE places == UNION { Places(disk, i) : i \in Files(disk) }
  <2>1. ASSUME NEW p \in places
        PROVE  \E i \in Files(disk), k \in Directs :
                 /\ p = <<i, k>> /\ Target(disk, p) = FieldOf(disk, SlotOf(i), 4 + k)
                 /\ Target(disk, p) # 0
    <3>1. PICK i \in Files(disk) : p \in Places(disk, i)
      OBVIOUS
    <3>2. PICK k \in Directs : p = <<i, k>> /\ FieldOf(disk, SlotOf(i), 4 + k) # 0
      BY <3>1, FilePlaces
    <3> QED
      BY <3>2, FilePlaces
  <2>2. ASSUME NEW p \in places
        PROVE  Target(disk, p) \in NInodeBlocks + 1..NBLOCKS - 1
    <3>1. PICK i \in Files(disk), k \in Directs :
            /\ p = <<i, k>> /\ Target(disk, p) = FieldOf(disk, SlotOf(i), 4 + k)
            /\ Target(disk, p) # 0
      BY <2>1
    <3>2. SlotOf(i) \in InodeSlots /\ Used(disk, SlotOf(i)) /\ 4 + k \in PointerWords
      BY FilePlaces, PointerWordsAre
    <3> QED
      BY <3>1, <3>2 DEF DirectInv, PointersApart
  <2>3. ASSUME NEW p \in places, NEW q \in places, Target(disk, p) = Target(disk, q)
        PROVE  p = q
    <3>1. PICK i \in Files(disk), k \in Directs :
            /\ p = <<i, k>> /\ Target(disk, p) = FieldOf(disk, SlotOf(i), 4 + k)
            /\ Target(disk, p) # 0
      BY <2>1
    <3>2. PICK j \in Files(disk), l \in Directs :
            /\ q = <<j, l>> /\ Target(disk, q) = FieldOf(disk, SlotOf(j), 4 + l)
            /\ Target(disk, q) # 0
      BY <2>1
    <3>3. /\ SlotOf(i) \in InodeSlots /\ Used(disk, SlotOf(i)) /\ 4 + k \in PointerWords
          /\ SlotOf(j) \in InodeSlots /\ Used(disk, SlotOf(j)) /\ 4 + l \in PointerWords
          /\ i \in 0..NInodes - 1 /\ j \in 0..NInodes - 1
      BY FilePlaces, PointerWordsAre
    <3>4. SlotOf(i) = SlotOf(j) /\ 4 + k = 4 + l
      <4>1. FieldOf(disk, SlotOf(j), 4 + l) = FieldOf(disk, SlotOf(i), 4 + k)
            /\ FieldOf(disk, SlotOf(i), 4 + k) # 0
        BY <2>3, <3>1, <3>2
      <4> QED
        BY <3>3, <4>1 DEF DirectInv, PointersApart
    <3>5. k = l
      BY <3>4 DEF Directs
    <3>6. InodeBlock(i) = InodeBlock(j) /\ InodeOffset(i) = InodeOffset(j)
      BY <3>4 DEF SlotOf
    <3>7. i = j
      BY <3>3, <3>6, NumberToSlot
    <3> QED
      BY <3>1, <3>2, <3>5, <3>7
  <2> QED
    BY <2>2, <2>3 DEF NoSharedBlock
<1> QED
  BY <1>1, DirectInvariance, PTL

\* The bitmap of a mounted disk is exact, at every step of every call: no block is
\* lost and none in use is handed out, for small files, on any disk.
THEOREM DirectBitmapExact == DirectUse /\ Spec => []BitmapExact
<1>1. DirectInv => BitmapExact
  <2> SUFFICES ASSUME DirectInv, isMounted, NEW n \in BlockNumbers, ~(n <= NInodeBlocks)
               PROVE  (\E s \in InodeSlots, w \in PointerWords :
                         Used(disk, s) /\ FieldOf(disk, s, w) = n) <=>
                      (\E i \in Files(disk) : \E p \in Places(disk, i) :
                         Target(disk, p) = n)
    BY DEF BitmapExact, DirectInv, BitmapOf
  <2>1. n # 0
    BY Sizes
  <2>2. ASSUME NEW s \in InodeSlots, NEW w \in PointerWords,
               Used(disk, s), FieldOf(disk, s, w) = n
        PROVE  \E i \in Files(disk) : \E p \in Places(disk, i) : Target(disk, p) = n
    <3>1. PICK i \in 0..NInodes - 1 : SlotOf(i) = s /\ (i = 0 <=> s = <<1, 0>>)
      BY SlotToNumber
    <3>2. i # 0
      BY <2>2, <3>1 DEF DirectInv, TableOK
    <3>3. i \in Files(disk)
      <4>1. i \in 1..NInodes - 1
        BY <3>2
      <4>2. InodeOf(disk, i, 0) = FieldOf(disk, s, 0)
        BY <3>1 DEF InodeOf, FieldOf, SlotOf
      <4> QED
        BY <2>2, <4>1, <4>2 DEF Files, IsFile, Used
    <3>4. w - 4 \in Directs /\ 4 + (w - 4) = w
      BY PointerWordsAre
    <3>5. <<i, w - 4>> \in Places(disk, i) /\ Target(disk, <<i, w - 4>>) = n
      BY <2>1, <2>2, <3>1, <3>3, <3>4, FilePlaces
    <3> QED
      BY <3>3, <3>5
  <2>3. ASSUME NEW i \in Files(disk), NEW p \in Places(disk, i), Target(disk, p) = n
        PROVE  \E s \in InodeSlots, w \in PointerWords :
                 Used(disk, s) /\ FieldOf(disk, s, w) = n
    <3>1. PICK k \in Directs : p = <<i, k>>
      BY FilePlaces
    <3>2. SlotOf(i) \in InodeSlots /\ Used(disk, SlotOf(i)) /\ 4 + k \in PointerWords
          /\ FieldOf(disk, SlotOf(i), 4 + k) = n
      BY <2>3, <3>1, FilePlaces, PointerWordsAre
    <3> QED
      BY <3>2
  <2> QED
    BY <2>2, <2>3
<1> QED
  BY <1>1, DirectInvariance, PTL
=============================================================================
