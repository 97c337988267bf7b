------------------------------- MODULE MCPcm4 -------------------------------
(***************************************************************************)
(* Small instances of Pcm4Search for TLC: blocks of eight bytes that are   *)
(* searched for a string that can overlap itself.                          *)
(***************************************************************************)
EXTENDS Pcm4Search, TLC

Overlapping == <<"t", "h", "t">>

\* The loop counts the appearances before the end, in every block of seven bytes
\* over two letters.
ASSUME SearchCounts ==
  \A d \in [1..7 -> {"t", "h"}] : Found(d) = Cardinality(MatchesBeforeEnd(d))

\* Two overlapping matches before the end and one at the end, which the loop
\* does not count, in the blocks made first; one match in the others.
Text(b) == IF b[2] = Iterations
           THEN <<"t", "h", "t", "h", "t", "t", "h", "t">>
           ELSE <<"h", "t", "h", "t", "h", "h", "h", "h">>
MCpData == [b \in Producers \X (1..Iterations) |-> Text(b)]
MCOccurrences == [b \in Producers \X (1..Iterations) |-> Found(Text(b))]

\* No definition tells one consumer, or one producer, from another.
Alike == Permutations(Consumers) \cup Permutations(Producers)
=============================================================================
