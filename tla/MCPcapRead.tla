----------------------------- MODULE MCPcapRead -----------------------------
(***************************************************************************)
(* Captures of up to three packets for TLC: empty, short, as long as a     *)
(* packet may be, too long, and too long for the byte that is left of a    *)
(* flipped length; cut off at every byte.                                  *)
(***************************************************************************)
EXTENDS PcapRead

Lengths == {0, 3, 5, 7}
Longest == FileHeader + 3 * (RecordHeader + 7)

MCCaptures ==
  { c \in [magic : {"native", "flipped", "other"},
           lens : UNION { [1..n -> Lengths] : n \in 0..3 },
           fill : {1, 3}, cut : 0..Longest] : c.cut <= Whole(c) }

\* Whole captures of either byte order, and those of the other one that have a
\* packet.
WholeCaptures == { c \in MCCaptures : c.magic # "other" /\ c.cut = 0 }
FlippedCaptures ==
  { c \in WholeCaptures : c.magic = "flipped" /\ c.lens # <<>> }
=============================================================================
