----------------------------- MODULE MCSimpleFS -----------------------------
(***************************************************************************)
(* Lengths of files and of the pieces copyin makes, for the instances of   *)
(* SimpleFS.                                                               *)
(***************************************************************************)
EXTENDS SimpleFS

OneBlock == BLOCK_SIZE
TwoBlocks == 2 * BLOCK_SIZE

\* Files of one and of all the two direct blocks, and with one to four blocks behind the
\* indirect pointer: two of them fill the eight blocks of data of the instances at
\* a direct, an indirect or a data block.
SomeLengths ==
  {BLOCK_SIZE, 2 * BLOCK_SIZE, 2 * BLOCK_SIZE + 10, 5 * BLOCK_SIZE,
   6 * BLOCK_SIZE}

\* The habits of the instances: everything with direct blocks; of that, all but
\* overwriting files and formatting a disk that has files in the last block of
\* inodes; and with indirect blocks, on a disk formatted once, two files that
\* are never deleted, or one that is.
Reckless == [delete |-> TRUE, overwrite |-> TRUE, reformat |-> "any",
             maxFiles |-> 2, maxLength |-> 2 * BLOCK_SIZE]
Direct == [Reckless EXCEPT !.overwrite = FALSE, !.reformat = "cleared"]
Keeping == [Direct EXCEPT !.delete = FALSE, !.reformat = "never",
                          !.maxLength = 6 * BLOCK_SIZE]
Single == [Keeping EXCEPT !.delete = TRUE, !.maxFiles = 1]

CarefulHabits == {Direct, Keeping, Single}
RecklessHabits == {Reckless}

\* Two files with indirect blocks that come and go, and one file with indirect
\* blocks on a disk that is formatted again.
SharingHabits == {[Single EXCEPT !.maxFiles = 2]}
FormattingHabits == {[Keeping EXCEPT !.reformat = "cleared", !.maxFiles = 1]}
KeepingHabits == {Keeping}
=============================================================================
