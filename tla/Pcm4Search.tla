------------------------------ MODULE Pcm4Search ------------------------------
(***************************************************************************)
(* Milestone04/main.c as a whole: the threads of Pcm4 over blocks with     *)
(* given bytes, searched by the loop of BlockSearch, up to the total that  *)
(* main prints.                                                            *)
(***************************************************************************)
EXTENDS Pcm4, BlockSearch, Functions

CONSTANTS
  BLOCK_GENERATE_SIZE,  \* bytes of a block
  pData                 \* the random bytes of each block

ASSUME Pcm4SearchAssumption ==
  /\ BLOCK_GENERATE_SIZE \in Nat
  /\ BLOCK_GENERATE_SIZE >= Len(SearchString)
  /\ pData \in [Blocks -> Seq(STRING)]
  /\ \A b \in Blocks : Len(pData[b]) = BLOCK_GENERATE_SIZE
  /\ Occurrences = [b \in Blocks |-> Found(pData[b])]

\* The matches a consumer has in hand: those of the block it popped that it has
\* not counted yet.
InHand == [c \in Consumers |->
             IF pBlock[c] = NoBlock THEN 0 ELSE Occurrences[pBlock[c]] - Matched[c]]

\* At any point the matches counted, and those that consumers still have in
\* hand, are the matches of the blocks that left the stack: no block is searched
\* twice, or popped and forgotten, and no CountFound++ is lost to another one.
FoundExact ==
  CountFound + SumFunctionOnSet(InHand, Consumers)
    = SumFunctionOnSet(Occurrences, Popped)

\* The total that main prints, having joined the consumers only, is what the
\* search counts in all the blocks that the producers were asked to make, each
\* searched once and to its end.
DrumrollExact ==
  exited /\ Consumers # {} => CountFound = SumFunctionOnSet(Occurrences, Blocks)

\* What the comment on the search says it counts, "how many times the requested
\* string appears", over all the blocks.
Appearing == [b \in Blocks |-> Cardinality(Appearances(pData[b]))]
TotalAppearances ==
  exited /\ Consumers # {} => CountFound = SumFunctionOnSet(Appearing, Blocks)
=============================================================================
