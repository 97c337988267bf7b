---------------------------- MODULE BlockSearch ----------------------------
(***************************************************************************)
(* Milestone04/main.c: the loop of thread_consumer that compares the       *)
(* search string with the bytes of a popped block at every start j and     *)
(* counts the matches.  Pcm4 takes its result as the constant Occurrences. *)
(***************************************************************************)
EXTENDS Naturals, Sequences, FiniteSets

CONSTANT SearchString

ASSUME BlockSearchAssumption == SearchString \in Seq(STRING) /\ SearchString # <<>>

\* memcmp of the search string with the bytes of the block from start j on.
MatchAt(pData, j) ==
  \A i \in DOMAIN SearchString : pData[j + i] = SearchString[i]

\* The loop leaves off before this start.
EndOfLoop(pData) == Len(pData) - Len(SearchString)

\* What the loop adds to CountFound: one for each start that matches.
Found(pData) ==
  LET count[j \in 0..EndOfLoop(pData)] ==
        IF j = 0 THEN 0
        ELSE count[j - 1] + IF MatchAt(pData, j - 1) THEN 1 ELSE 0
  IN count[EndOfLoop(pData)]

\* Reference: the starts at which the string appears in the block, overlapping
\* appearances too.
Appearances(pData) ==
  { j \in 0..Len(pData) - Len(SearchString) :
      SubSeq(pData, j + 1, j + Len(SearchString)) = SearchString }

\* What the loop can find of them: all but one that ends with the last byte.
MatchesBeforeEnd(pData) ==
  Appearances(pData) \ {Len(pData) - Len(SearchString)}
=============================================================================
