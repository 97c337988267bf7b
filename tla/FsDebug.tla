------------------------------- MODULE FsDebug -------------------------------
(***************************************************************************)
(* The scan that fs_debug makes of a disk image, from the superblock       *)
(* through the inodes to the blocks they point to, up to the first pointer *)
(* that is out of range.  The layout of an inode is a parameter.           *)
(***************************************************************************)
EXTENDS Integers

CONSTANTS
  FS_MAGIC,
  INODES_PER_BLOCK,
  POINTERS_PER_INODE,
  POINTERS_PER_BLOCK,
  InodeWords,       \* words of an inode
  FirstPointer,     \* the word of an inode that holds direct[0]
  Skipped           \* the inodes <<block, number>> that are not looked at

\* Word w of inode j of block b.
Inode(b, j, w) == b[j * InodeWords + w]

nblocks(d) == d[0][1]
ninodeblocks(d) == d[0][2]

\* The inodes the scan looks into.
Inodes(d) ==
  { s \in (1..ninodeblocks(d)) \X (0..INODES_PER_BLOCK - 1) :
      s \notin Skipped /\ Inode(d[s[1]], s[2], 0) = 1 }

\* The pointers it meets, in the order <<block, number, place>>: those set among
\* the direct ones, the indirect one if it is positive, and those set in the
\* block that one leads to.
Pointer(d, e) ==
  LET b == d[e[1]]
      ind == Inode(b, e[2], FirstPointer + POINTERS_PER_INODE)
  IN IF e[3] <= POINTERS_PER_INODE THEN Inode(b, e[2], FirstPointer + e[3])
     ELSE d[ind][e[3] - POINTERS_PER_INODE - 1]

InRange(d, n) == n >= ninodeblocks(d) + 1 /\ n < nblocks(d)

OwnEntries(d) ==
  { <<s[1], s[2], k>> : s \in Inodes(d), k \in 0..POINTERS_PER_INODE }
FarEntries(d) ==
  { <<s[1], s[2], POINTERS_PER_INODE + 1 + k>> :
      s \in { s \in Inodes(d) :
                LET n == Pointer(d, <<s[1], s[2], POINTERS_PER_INODE>>)
                IN n > 0 /\ InRange(d, n) },
      k \in 0..POINTERS_PER_BLOCK - 1 }
Entries(d) ==
  { e \in OwnEntries(d) : IF e[3] = POINTERS_PER_INODE
                          THEN Pointer(d, e) > 0 ELSE Pointer(d, e) # 0 }
  \cup { e \in FarEntries(d) : Pointer(d, e) # 0 }

OutOfRange(d) == { e \in Entries(d) : ~InRange(d, Pointer(d, e)) }

Earlier(e, f) ==
  \/ e[1] < f[1]
  \/ e[1] = f[1] /\ e[2] < f[2]
  \/ e[1] = f[1] /\ e[2] = f[2] /\ e[3] < f[3]

\* What is printed: an error for the magic number or for the first pointer out
\* of range, and the blocks listed until then.
Report(d) ==
  IF d[0][0] # FS_MAGIC THEN [error |-> TRUE, blocks |-> {}]
  ELSE [error |-> OutOfRange(d) # {},
        blocks |-> { Pointer(d, e) :
                       e \in { e \in Entries(d) : \A f \in OutOfRange(d) :
                                                    Earlier(e, f) } }]
=============================================================================
