--------------------------- MODULE Pcm4SearchProofs ---------------------------
(***************************************************************************)
(* Theorems about Pcm4Search: what the search loop counts in a block of    *)
(* any bytes, and that the total main prints is the sum of it, for any     *)
(* number of threads, blocks and stack slots.                              *)
(***************************************************************************)
EXTENDS Pcm4Search, Pcm4Proofs, Sums

-----------------------------------------------------------------------------
(* The search loop.                                                        *)

\* The starts below n at which the search string is in the block.
StartsBelow(d, n) == { j \in 0..n - 1 : MatchAt(d, j) }

\* Where the string fits in, comparing byte by byte is comparing the slice.
LEMMA MatchIsSlice ==
  ASSUME NEW d \in Seq(STRING), NEW j \in 0..EndOfLoop(d)
  PROVE  MatchAt(d, j)
           <=> SubSeq(d, j + 1, j + Len(SearchString)) = SearchString
<1> DEFINE n == Len(SearchString)
           s == SubSeq(d, j + 1, j + n)
<1>1. n \in Nat /\ DOMAIN SearchString = 1..n /\ SearchString \in Seq(STRING)
  BY BlockSearchAssumption
<1>2. j \in Nat /\ Len(d) \in Nat /\ j + n <= Len(d)
  BY <1>1 DEF EndOfLoop
<1>3. s \in Seq(STRING) /\ Len(s) = n /\ \A i \in 1..n : s[i] = d[j + i]
  <2>1. j + 1 \in 1..Len(d) + 1 /\ j + n \in (j + 1) - 1..Len(d)
    BY <1>1, <1>2
  <2> QED
    BY <1>1, <1>2, <2>1
<1> HIDE DEF s, n
<1>4. s = SearchString <=> \A i \in 1..n : s[i] = SearchString[i]
  BY <1>1, <1>3 DEF n
<1> QED
  BY <1>1, <1>3, <1>4 DEF MatchAt, s, n

\* One start more adds one match or none.
LEMMA OneStartMore ==
  ASSUME NEW d, NEW n \in Nat
  PROVE  /\ IsFiniteSet(StartsBelow(d, n))
         /\ Cardinality(StartsBelow(d, n + 1))
              = Cardinality(StartsBelow(d, n)) + IF MatchAt(d, n) THEN 1 ELSE 0
<1>1. IsFiniteSet(StartsBelow(d, n))
  <2>1. IsFiniteSet(0..n - 1)
    BY FS_Interval
  <2> QED
    BY <2>1, FS_Subset DEF StartsBelow
<1>2. Cardinality(StartsBelow(d, n)) \in Nat
  BY <1>1, FS_CardinalityType
<1>3. CASE MatchAt(d, n)
  <2>1. StartsBelow(d, n + 1) = StartsBelow(d, n) \cup {n}
    BY <1>3 DEF StartsBelow
  <2>2. n \notin StartsBelow(d, n)
    BY DEF StartsBelow
  <2> QED
    BY <1>1, <1>2, <1>3, <2>1, <2>2, FS_AddElement
<1>4. CASE ~MatchAt(d, n)
  <2>1. StartsBelow(d, n + 1) = StartsBelow(d, n)
    BY <1>4 DEF StartsBelow
  <2> QED
    BY <1>1, <1>2, <1>4, <2>1
<1> QED
  BY <1>3, <1>4

\* count is what the loop has added up before each of the starts to n.
Counts(count, d, n) ==
  count = [j \in 0..n |->
             IF j = 0 THEN 0
             ELSE count[j - 1] + IF MatchAt(d, j - 1) THEN 1 ELSE 0]

LEMMA CountExists ==
  ASSUME NEW d, NEW n \in Nat
  PROVE  \E count : Counts(count, d, n)
<1> DEFINE G == { m \in Nat : \E count : Counts(count, d, m) }
<1>1. 0 \in G
  <2> DEFINE c == [j \in 0..0 |-> 0]
  <2>1. Counts(c, d, 0)
    BY DEF Counts
  <2> HIDE DEF c
  <2> QED
    BY <2>1
<1>2. ASSUME NEW m \in Nat, m \in G
      PROVE  m + 1 \in G
  <2>1. PICK b : Counts(b, d, m)
    BY <1>2
  <2>2. \A j \in 0..m : b[j] = IF j = 0 THEN 0
          ELSE b[j - 1] + IF MatchAt(d, j - 1) THEN 1 ELSE 0
    BY <2>1 DEF Counts
  <2> DEFINE c == [j \in 0..m + 1 |-> IF j = 0 THEN 0
                     ELSE b[j - 1] + IF MatchAt(d, j - 1) THEN 1 ELSE 0]
  <2>3. \A j \in 0..m : c[j] = b[j]
    BY <2>2
  <2>4. c = [j \in 0..m + 1 |-> IF j = 0 THEN 0
               ELSE c[j - 1] + IF MatchAt(d, j - 1) THEN 1 ELSE 0]
    <3>1. \A j \in 0..m + 1 : j # 0 => c[j - 1] = b[j - 1]
      <4>1. \A j \in 0..m + 1 : j # 0 => j - 1 \in 0..m
        OBVIOUS
      <4> HIDE DEF c
      <4> QED
        BY <2>3, <4>1
    <3> QED
      BY <3>1
  <2>5. Counts(c, d, m + 1)
    BY <2>4 DEF Counts
  <2> HIDE DEF c
  <2> QED
    BY <2>5
<1>3. Nat \subseteq G
  <2> HIDE DEF G
  <2> QED
    BY <1>1, <1>2, NatSetInduction
<1> QED
  BY <1>3

\* The loop counts the matches before the last byte of the block, for every
\* block that is at least as long as the search string.
LEMMA SearchExact ==
  ASSUME NEW d \in Seq(STRING), Len(d) >= Len(SearchString)
  PROVE  Found(d) = Cardinality(MatchesBeforeEnd(d))
<1> DEFINE E == EndOfLoop(d)
<1>1. E \in Nat
  BY BlockSearchAssumption DEF EndOfLoop
<1> DEFINE c == CHOOSE count : Counts(count, d, E)
<1>2. Found(d) = c[E]
  BY DEF Found, Counts
<1>3. Counts(c, d, E)
  BY <1>1, CountExists
<1> HIDE DEF c
<1> DEFINE G == { m \in Nat : m <= E => c[m] = Cardinality(StartsBelow(d, m)) }
<1>4. 0 \in G
  <2>1. c[0] = 0
    BY <1>1, <1>3 DEF Counts
  <2>2. StartsBelow(d, 0) = {}
    BY DEF StartsBelow
  <2> QED
    BY <2>1, <2>2, FS_EmptySet
<1>5. ASSUME NEW m \in Nat, m \in G
      PROVE  m + 1 \in G
  <2> SUFFICES ASSUME m + 1 <= E
               PROVE  c[m + 1] = Cardinality(StartsBelow(d, m + 1))
    OBVIOUS
  <2>1. m + 1 \in 0..E /\ (m + 1) - 1 = m /\ m + 1 # 0 /\ m <= E
    BY <1>1
  <2>2. c[m + 1] = c[m] + IF MatchAt(d, m) THEN 1 ELSE 0
    BY <1>3, <2>1 DEF Counts
  <2> QED
    BY <1>5, <2>1, <2>2, OneStartMore
<1>6. Nat \subseteq G
  <2> HIDE DEF G
  <2> QED
    BY <1>4, <1>5, NatSetInduction
<1>7. c[E] = Cardinality(StartsBelow(d, E))
  BY <1>1, <1>6
<1>8. StartsBelow(d, E) = MatchesBeforeEnd(d)
  <2>1. E = Len(d) - Len(SearchString) /\ 0..E - 1 = (0..E) \ {E}
    BY <1>1, BlockSearchAssumption DEF EndOfLoop
  <2>2. \A j \in 0..E - 1 : MatchAt(d, j)
          <=> SubSeq(d, j + 1, j + Len(SearchString)) = SearchString
    BY <2>1, MatchIsSlice
  <2> HIDE DEF E
  <2> QED
    BY <2>1, <2>2 DEF StartsBelow, MatchesBeforeEnd, Appearances
<1> QED
  BY <1>2, <1>7, <1>8

-----------------------------------------------------------------------------
(* The blocks in hand, and the total.                                      *)

\* A consumer has a block from the pop to the end of the search, has counted no
\* more matches than are in it, and while it holds FoundLock the counter is what
\* it read; main has returned only when all consumers are gone.
HandInv ==
  /\ \A c \in Consumers :
       /\ pBlock[c] # NoBlock <=> pc[c] \in {"popped", "count", "search", "found"}
       /\ pBlock[c] = NoBlock => Matched[c] = 0
       /\ pBlock[c] # NoBlock => Matched[c] <= Occurrences[pBlock[c]]
       /\ pc[c] = "found" => /\ Matched[c] < Occurrences[pBlock[c]]
                             /\ found[c] = CountFound
  /\ exited => \A c \in Consumers : pc[c] = "done"

LEMMA HandInit == Init => HandInv
BY Pcm4Assumption DEF Init, HandInv, Threads

\* A step that touches no block in hand keeps every consumer with one, or
\* without; a counter is written by nobody else between its read and its write;
\* and none comes back after main returned.
LEMMA HandStep ==
  ASSUME ControlInv, HandInv, [Next]_vars
  PROVE  HandInv'
<1> USE Pcm4Assumption DEF ControlInv, TypeOK, Threads, Goto, HandInv
<1>1. ASSUME NEW p \in Producers, Producer(p)
      PROVE  HandInv'
  <2> USE DEF Producer, ProducerLock, Push, PushSleep, PushWake, PushRetry,
          ProducerExit
  <2>1. UNCHANGED <<pBlock, Matched, found, CountFound, exited>> /\ ~exited
    BY <1>1 DEF countVars
  <2>2. \A d \in Consumers : pc'[d] = pc[d]
    BY <1>1
  <2> QED
    BY <2>1, <2>2
<1>2. ASSUME NEW c \in Consumers, Consumer(c), ~PopTake(c), ~SearchLock(c),
             ~SearchCount(c), ~SearchEnd(c)
      PROVE  HandInv'
  <2> USE DEF Consumer, CheckLock, Check, PopLock, PopEmptyLock, PopFinish,
          PopSleep, PopWake, PopNull, CountLock, Count
  <2>1. UNCHANGED <<pBlock, Matched, found, CountFound, exited>> /\ ~exited
    BY <1>2 DEF countVars, searchVars
  <2>2. \A d \in Consumers :
          /\ pc'[d] \in {"popped", "count", "search", "found"}
               <=> pc[d] \in {"popped", "count", "search", "found"}
          /\ pc'[d] = "found" => pc[d] = "found"
    BY <1>2
  <2> QED
    BY <2>1, <2>2
<1>3. ASSUME NEW c \in Consumers, PopTake(c)
      PROVE  HandInv'
  <2>1. PICK b : b = StackItems[StackSize - 1] /\ b \in Blocks
    <3>1. StackSize - 1 \in 0..StackSize - 1
      BY <1>3 DEF PopTake
    <3> QED
      BY <3>1 DEF ThreadState
  <2>2. /\ pBlock' = [pBlock EXCEPT ![c] = b]
        /\ UNCHANGED <<Matched, found, CountFound, exited>> /\ ~exited
    BY <1>3, <2>1 DEF PopTake, countVars
  <2>3. /\ pc[c] = "pop" /\ pc'[c] \in {"popped", "search"}
        /\ \A d \in Consumers : d # c => pc'[d] = pc[d]
    BY <1>3 DEF PopTake
  <2>4. Matched[c] = 0 /\ Occurrences[b] \in Nat /\ b # NoBlock
    BY <2>1, <2>3
  <2> QED
    BY <2>2, <2>3, <2>4
<1>4. ASSUME NEW c \in Consumers, SearchLock(c)
      PROVE  HandInv'
  BY <1>4 DEF SearchLock
<1>5. ASSUME NEW c \in Consumers, SearchCount(c)
      PROVE  HandInv'
  <2>1. \A d \in Consumers : d # c => pc[d] # "found"
    BY <1>5 DEF SearchCount, MutualExclusion, InFoundSection
  <2>2. pBlock[c] \in Blocks /\ Occurrences[pBlock[c]] \in Nat
    BY <1>5 DEF SearchCount, ThreadState
  <2>3. /\ pc[c] = "found" /\ pc'[c] = "search" /\ Matched'[c] = Matched[c] + 1
        /\ \A d \in Consumers : d # c => /\ pc'[d] = pc[d]
                                        /\ Matched'[d] = Matched[d]
        /\ UNCHANGED <<pBlock, exited>> /\ ~exited
    BY <1>5 DEF SearchCount
  <2>4. Matched[c] \in Nat /\ Matched[c] < Occurrences[pBlock[c]]
    BY <2>3
  <2>5. Matched'[c] <= Occurrences[pBlock[c]] /\ pBlock'[c] # NoBlock
    BY <2>2, <2>3, <2>4
  <2> HIDE DEF ControlInv, TypeOK
  <2> QED
    BY <2>1, <2>3, <2>5
<1>6. ASSUME NEW c \in Consumers, SearchEnd(c)
      PROVE  HandInv'
  BY <1>6 DEF SearchEnd
<1>7. ASSUME NEW t \in Threads, SpuriousWake(t)
      PROVE  HandInv'
  BY <1>7 DEF SpuriousWake, countVars
<1>8. CASE MainExit
  BY <1>8 DEF MainExit, countVars
<1>9. CASE UNCHANGED vars
  BY <1>9 DEF vars
<1> QED
  BY <1>1, <1>2, <1>3, <1>4, <1>5, <1>6, <1>7, <1>8, <1>9 DEF Next, Exited

\* What a consumer has in hand is a number of matches.
LEMMA InHandNat ==
  ASSUME ControlInv, HandInv
  PROVE  \A x \in Consumers : InHand[x] \in Nat
<1> SUFFICES ASSUME NEW x \in Consumers PROVE InHand[x] \in Nat
  OBVIOUS
<1>1. CASE pBlock[x] = NoBlock
  BY <1>1 DEF InHand
<1>2. CASE pBlock[x] # NoBlock
  <2>1. Occurrences[pBlock[x]] \in Nat /\ Matched[x] \in Nat
    BY <1>2, Pcm4Assumption DEF ControlInv, TypeOK
  <2>2. InHand[x] = Occurrences[pBlock[x]] - Matched[x]
    BY <1>2 DEF InHand
  <2> QED
    BY <1>2, <2>1, <2>2 DEF HandInv
<1> QED
  BY <1>1, <1>2

\* The blocks that were popped are finitely many, and each has its matches.
LEMMA PoppedNat ==
  /\ IsFiniteSet(Popped) /\ Popped \subseteq Blocks
  /\ \A b \in Blocks : Occurrences[b] \in Nat
BY BlocksCount, FS_Subset, Pcm4Assumption DEF Popped, Pushed

LEMMA FoundInit ==
  ASSUME Init
  PROVE  FoundExact
<1>1. SumFunctionOnSet(InHand, Consumers) = 0
  <2>1. \A c \in Consumers : InHand[c] = 0
    BY DEF InHand, Init
  <2> QED
    BY <2>1, SumZero, Pcm4Assumption
<1>2. Popped = {}
  <2>1. Pushed = {}
    BY Pcm4Assumption DEF Init, Pushed, Blocks
  <2> QED
    BY <2>1 DEF Popped
<1> QED
  BY <1>1, <1>2, SumEmpty DEF FoundExact, Init

\* A step that moves no block out of the stack or out of a consumer's hands.
LEMMA FoundKept ==
  ASSUME FoundExact, Popped' = Popped, UNCHANGED <<pBlock, Matched, CountFound>>
  PROVE  FoundExact'
<1>1. InHand' = InHand
  BY DEF InHand
<1> QED
  BY <1>1 DEF FoundExact

\* The sum of the matches in hand follows a change of one consumer's.
LEMMA HandSum ==
  ASSUME ControlInv, ControlInv', HandInv, HandInv', NEW c \in Consumers,
         \A x \in Consumers \ {c} : InHand'[x] = InHand[x]
  PROVE  /\ SumFunctionOnSet(InHand', Consumers)
              = SumFunctionOnSet(InHand, Consumers) - InHand[c] + InHand'[c]
         /\ SumFunctionOnSet(InHand, Consumers) \in Nat
         /\ InHand[c] \in Nat /\ InHand'[c] \in Nat
<1>1. \A x \in Consumers : InHand[x] \in Nat
  BY InHandNat
<1>2. \A x \in Consumers : InHand'[x] \in Nat
  <2>1. (ControlInv /\ HandInv => \A x \in Consumers : InHand[x] \in Nat)'
    BY InHandNat, PTL
  <2> QED
    BY <2>1
<1> QED
  BY <1>1, <1>2, SumUpdate, Pcm4Assumption

\* The matches of the block that is popped go from the stack to the consumer.
LEMMA FoundTake ==
  ASSUME ControlInv, ControlInv', Accounting, HandInv, HandInv', FoundExact,
         NEW c \in Consumers, PopTake(c)
  PROVE  FoundExact'
<1>1. PICK b : b = StackItems[StackSize - 1]
  OBVIOUS
<1>2. b \in OnStack /\ Popped' = Popped \cup {b}
  BY <1>1, TakeMoves
<1>3. b \in Blocks /\ b \notin Popped /\ b # NoBlock
  BY <1>2, Pcm4Assumption DEF Accounting, Popped, Pushed
<1>4. SumFunctionOnSet(Occurrences, Popped')
        = SumFunctionOnSet(Occurrences, Popped) + Occurrences[b]
  <2>1. \A x \in Popped \cup {b} : Occurrences[x] \in Nat
    BY <1>3, PoppedNat
  <2> QED
    BY <1>2, <1>3, <2>1, PoppedNat, SumAdd
<1>5. InHand[c] = 0 /\ Matched[c] = 0
  BY DEF HandInv, InHand, PopTake, Goto
<1>6. /\ pBlock' = [pBlock EXCEPT ![c] = b]
      /\ Matched' = Matched /\ CountFound' = CountFound
  BY <1>1 DEF PopTake, countVars
<1>7. CountFound \in Nat /\ Occurrences[b] \in Nat
  BY <1>3, PoppedNat DEF ControlInv, TypeOK
<1>8. InHand'[c] = Occurrences[b] /\ \A x \in Consumers \ {c} : InHand'[x] = InHand[x]
  BY <1>3, <1>5, <1>6, <1>7 DEF InHand, ControlInv, TypeOK
<1> QED
  BY <1>4, <1>5, <1>6, <1>7, <1>8, HandSum DEF FoundExact

\* The search turns one match in hand into a match found.
LEMMA FoundCount ==
  ASSUME ControlInv, ControlInv', HandInv, HandInv', FoundExact,
         NEW c \in Consumers, SearchCount(c)
  PROVE  FoundExact'
<1>1. Popped' = Popped
  BY NothingMoves DEF SearchCount, stackVars
<1>2. /\ pBlock' = pBlock /\ pBlock[c] # NoBlock
      /\ Matched' = [Matched EXCEPT ![c] = @ + 1]
      /\ CountFound' = CountFound + 1
  BY DEF SearchCount, Goto, HandInv
<1>3. /\ Occurrences[pBlock[c]] \in Nat /\ Matched \in [Consumers -> Nat]
      /\ CountFound \in Nat
  BY <1>2, Pcm4Assumption DEF ControlInv, TypeOK
<1>4. InHand'[c] = InHand[c] - 1 /\ \A x \in Consumers \ {c} : InHand'[x] = InHand[x]
  BY <1>2, <1>3 DEF InHand
<1> QED
  BY <1>1, <1>2, <1>3, <1>4, HandSum DEF FoundExact

\* At the end of the search nothing is left in hand.
LEMMA FoundEnd ==
  ASSUME ControlInv, HandInv, FoundExact, NEW c \in Consumers, SearchEnd(c)
  PROVE  FoundExact'
<1>1. Popped' = Popped
  BY NothingMoves DEF SearchEnd, stackVars
<1>2. /\ pBlock' = [pBlock EXCEPT ![c] = NoBlock] /\ pBlock[c] # NoBlock
      /\ Matched' = [Matched EXCEPT ![c] = 0] /\ CountFound' = CountFound
      /\ Matched[c] >= Occurrences[pBlock[c]]
  BY DEF SearchEnd, Goto, HandInv
<1>3. Occurrences[pBlock[c]] \in Nat /\ Matched \in [Consumers -> Nat]
  BY <1>2, Pcm4Assumption DEF ControlInv, TypeOK
<1>4. Matched[c] = Occurrences[pBlock[c]]
  BY <1>2, <1>3 DEF HandInv
<1>5. InHand' = InHand
  <2>1. \A x \in Consumers : InHand'[x] = InHand[x]
    BY <1>2, <1>3, <1>4 DEF InHand, ControlInv, TypeOK
  <2> QED
    BY <2>1 DEF InHand
<1> QED
  BY <1>1, <1>2, <1>5 DEF FoundExact

\* Every step keeps the matches.
LEMMA FoundStep ==
  ASSUME ControlInv, ControlInv', Accounting, HandInv, HandInv', FoundExact,
         [Next]_vars
  PROVE  FoundExact'
<1>1. ASSUME NEW p \in Producers, Push(p) PROVE FoundExact'
  <2>1. Popped' = Popped
    BY <1>1, PushMoves
  <2> QED
    BY <1>1, <2>1, FoundKept DEF Push, countVars
<1>2. ASSUME NEW c \in Consumers, PopTake(c) PROVE FoundExact'
  BY <1>2, FoundTake
<1>3. ASSUME NEW c \in Consumers, SearchCount(c) PROVE FoundExact'
  BY <1>3, FoundCount
<1>4. ASSUME NEW c \in Consumers, SearchEnd(c) PROVE FoundExact'
  BY <1>4, FoundEnd
<1>5. ASSUME UNCHANGED <<StackItems, StackSize, IterationsToGo, pBlock, Matched,
                         CountFound>>
      PROVE  FoundExact'
  BY <1>5, NothingMoves, FoundKept
<1>6. \/ \E p \in Producers : Push(p)
      \/ \E c \in Consumers : PopTake(c) \/ SearchCount(c) \/ SearchEnd(c)
      \/ UNCHANGED <<StackItems, StackSize, IterationsToGo, pBlock, Matched,
                     CountFound>>
  BY DEF Next, vars, Producer, Consumer, stackVars, countVars, searchVars,
     ProducerLock, PushSleep, PushWake, PushRetry, ProducerExit, CheckLock, Check,
     PopLock, PopEmptyLock, PopFinish, PopSleep, PopWake, PopNull, CountLock,
     Count, SearchLock, SpuriousWake, MainExit, Exited
<1> QED
  BY <1>1, <1>2, <1>3, <1>4, <1>5, <1>6

\* The books of the blocks with those of the matches.
SearchInv == IInv /\ HandInv /\ FoundExact

LEMMA SearchInvariance == Spec => []SearchInv
<1>1. Init => SearchInv
  BY ControlInit, AccountingInit, HandInit, FoundInit DEF SearchInv, IInv
<1>2. SearchInv /\ [Next]_vars => SearchInv'
  <2> SUFFICES ASSUME SearchInv, [Next]_vars PROVE SearchInv'
    OBVIOUS
  <2>1. IInv'
    BY InvariantStep DEF SearchInv
  <2>2. HandInv'
    BY HandStep DEF SearchInv, IInv
  <2>3. FoundExact'
    BY <2>1, <2>2, FoundStep DEF SearchInv, IInv
  <2> QED
    BY <2>1, <2>2, <2>3 DEF SearchInv
<1> QED
  BY <1>1, <1>2, PTL DEF Spec

\* No block is searched twice, or popped and forgotten, and no addition to
\* CountFound is lost, in either build: the matches found and those in hand are
\* those of the blocks that were popped.
THEOREM FoundSafe == Spec => []FoundExact
<1>1. SearchInv => FoundExact
  BY DEF SearchInv
<1> QED
  BY <1>1, SearchInvariance, PTL

\* What main has counted when it returns.
LEMMA AllFound ==
  ASSUME SearchInv, exited, Consumers # {}
  PROVE  CountFound = SumFunctionOnSet(Occurrences, Blocks)
<1>1. \A c \in Consumers : InHand[c] = 0
  BY DEF SearchInv, HandInv, InHand
<1>2. SumFunctionOnSet(InHand, Consumers) = 0
  BY <1>1, SumZero, Pcm4Assumption
<1>3. Popped = Blocks
  BY DEF SearchInv, IInv, HandInv, NoEarlyExit
<1>4. CountFound \in Nat
  BY DEF SearchInv, IInv, ControlInv, TypeOK
<1> QED
  BY <1>2, <1>3, <1>4 DEF SearchInv, FoundExact

\* main prints what the search counts in all the blocks, each searched once.
THEOREM DrumrollSafe == Spec => []DrumrollExact
<1>1. SearchInv => DrumrollExact
  BY AllFound DEF DrumrollExact
<1> QED
  BY <1>1, SearchInvariance, PTL

\* The string ends no block, which is all that the loop bound of thread_consumer
\* needs to find every appearance.
NoneAtEnd ==
  \A b \in Blocks :
    Len(pData[b]) - Len(SearchString) \notin Appearances(pData[b])

\* If no block ends with the string, main prints how many times it appears in
\* all the blocks; without that it does not, as the run pcm4_total shows.
THEOREM TotalSafe ==
  ASSUME NoneAtEnd
  PROVE  Spec => []TotalAppearances
<1>1. \A b \in Blocks : Occurrences[b] = Appearing[b]
  <2> SUFFICES ASSUME NEW b \in Blocks PROVE Occurrences[b] = Appearing[b]
    OBVIOUS
  <2>1. MatchesBeforeEnd(pData[b]) = Appearances(pData[b])
    BY DEF NoneAtEnd, MatchesBeforeEnd
  <2> QED
    BY <2>1, SearchExact, Pcm4SearchAssumption DEF Appearing
<1>2. SumFunctionOnSet(Occurrences, Blocks) = SumFunctionOnSet(Appearing, Blocks)
  BY <1>1, BlocksCount, SumSame
<1>3. SearchInv => TotalAppearances
  BY <1>2, AllFound DEF TotalAppearances
<1> QED
  BY <1>3, SearchInvariance, PTL
=============================================================================
