----------------------------- MODULE Pcm4Proofs -----------------------------
(***************************************************************************)
(* Theorems about Pcm4, for any number of producers, consumers, iterations *)
(* and stack slots, for both builds, with or without spurious wake-ups.    *)
(***************************************************************************)
EXTENDS Pcm4, Sequences, FiniteSetTheorems, FunctionTheorems, TLAPS

\* What the control point of a thread says about the data it works on.
ThreadState ==
  /\ \A c \in PopWait : pc[c] = "popwait"
  /\ \A p \in PushWait : pc[p] = "pushwait"
  /\ \A p \in Producers :
       pc[p] \in {"push", "pushwait"} => IterationsToGo[p] > 0
  /\ \A c \in Consumers :
       /\ pc[c] \in {"popped", "count", "search", "found"} => pBlock[c] \in Blocks
       /\ pc[c] = "empty" => StackSize = 0
       /\ pc[c] \in {"empty", "popwait", "popped", "count"}
            => USE_CONDITION_VARS
  /\ \A i \in 0..StackSize - 1 : StackItems[i] \in Blocks

\* The part of the inductive invariant that is about control.
ControlInv == TypeOK /\ MutualExclusion /\ ThreadState

\* The threads start outside every section, with nothing pushed.
LEMMA ControlInit == Init => ControlInv
<1> SUFFICES ASSUME Init PROVE ControlInv
  OBVIOUS
<1> USE Pcm4Assumption DEF Init
<1>1. TypeOK
  <2>1. exited \in BOOLEAN
    OBVIOUS
  <2>2. StackItems \in [0..STACK_MAX_SIZE - 1 -> Blocks \cup {NoBlock}]
    OBVIOUS
  <2>3. /\ StackLock \in Threads \cup {NoThread}
        /\ DoneLock \in Consumers \cup {NoThread}
        /\ FoundLock \in Consumers \cup {NoThread}
    OBVIOUS
  <2> QED
    BY <2>1, <2>2, <2>3 DEF TypeOK, Threads, ProducerPCs, ConsumerPCs
<1>2. MutualExclusion
  BY DEF MutualExclusion, Threads, InStackSection, InDoneSection, InFoundSection
<1>3. ThreadState
  BY DEF ThreadState, Threads
<1> QED
  BY <1>1, <1>2, <1>3 DEF ControlInv

\* A signal only takes sleepers away.
LEMMA CountWakes ==
  ASSUME NEW c \in Consumers, Count(c)
  PROVE  PushWait' \subseteq PushWait /\ PopWait' \subseteq PopWait
BY DEF Count, WakeProducer, WakeNextConsumer, Signal

\* Every step keeps the types.
LEMMA TypeStep ==
  ASSUME ControlInv, [Next]_vars
  PROVE  TypeOK'
<1> USE Pcm4Assumption DEF ControlInv, Threads, Goto, Lock, Unlock,
        ProducerPCs, ConsumerPCs, stackVars, waitVars, countVars, searchVars
<1>1. ASSUME NEW p \in Producers, ProducerLock(p)
      PROVE  TypeOK'
  BY <1>1 DEF TypeOK, ProducerLock
<1>2. ASSUME NEW p \in Producers, Push(p)
      PROVE  TypeOK'
  <2>1. /\ StackSize \in 0..STACK_MAX_SIZE - 1
        /\ StackSize + 1 \in 0..STACK_MAX_SIZE
    BY <1>2 DEF TypeOK, Push, StackFull
  <2>2. <<p, IterationsToGo[p]>> \in Blocks
    BY <1>2 DEF TypeOK, ThreadState, Push, Blocks
  <2>3. StackItems' \in [0..STACK_MAX_SIZE - 1 -> Blocks \cup {NoBlock}]
    BY <1>2, <2>1, <2>2 DEF TypeOK, Push
  <2>4. PopWait' \in SUBSET Consumers
    BY <1>2 DEF TypeOK, Push, WakeOnPush, Signal
  <2>5. IterationsToGo' \in [Producers -> 0..Iterations]
    BY <1>2 DEF TypeOK, ThreadState, Push
  <2> QED
    BY <1>2, <2>1, <2>3, <2>4, <2>5 DEF TypeOK, Push
<1>3. ASSUME NEW p \in Producers, PushSleep(p)
      PROVE  TypeOK'
  BY <1>3 DEF TypeOK, PushSleep
<1>4. ASSUME NEW p \in Producers, PushWake(p)
      PROVE  TypeOK'
  BY <1>4 DEF TypeOK, PushWake
<1>5. ASSUME NEW p \in Producers, PushRetry(p)
      PROVE  TypeOK'
  BY <1>5 DEF TypeOK, PushRetry
<1>6. ASSUME NEW p \in Producers, ProducerExit(p)
      PROVE  TypeOK'
  BY <1>6 DEF TypeOK, ProducerExit
<1>7. ASSUME NEW c \in Consumers, CheckLock(c)
      PROVE  TypeOK'
  BY <1>7 DEF TypeOK, CheckLock
<1>8. ASSUME NEW c \in Consumers, Check(c)
      PROVE  TypeOK'
  BY <1>8 DEF TypeOK, Check
<1>9. ASSUME NEW c \in Consumers, PopLock(c)
      PROVE  TypeOK'
  BY <1>9 DEF TypeOK, PopLock
<1>10. ASSUME NEW c \in Consumers, PopTake(c)
      PROVE  TypeOK'
  BY <1>10 DEF TypeOK, PopTake
<1>11. ASSUME NEW c \in Consumers, PopEmptyLock(c)
      PROVE  TypeOK'
  BY <1>11 DEF TypeOK, PopEmptyLock
<1>12. ASSUME NEW c \in Consumers, PopFinish(c)
      PROVE  TypeOK'
  BY <1>12 DEF TypeOK, PopFinish, Broadcast
<1>13. ASSUME NEW c \in Consumers, PopSleep(c)
      PROVE  TypeOK'
  BY <1>13 DEF TypeOK, PopSleep
<1>14. ASSUME NEW c \in Consumers, PopWake(c)
      PROVE  TypeOK'
  BY <1>14 DEF TypeOK, PopWake
<1>15. ASSUME NEW c \in Consumers, PopNull(c)
      PROVE  TypeOK'
  BY <1>15 DEF TypeOK, PopNull
<1>16. ASSUME NEW c \in Consumers, CountLock(c)
      PROVE  TypeOK'
  BY <1>16 DEF TypeOK, CountLock
<1>17. ASSUME NEW c \in Consumers, Count(c)
      PROVE  TypeOK'
  <2>1. PushWait' \in SUBSET Producers /\ PopWait' \in SUBSET Consumers
    BY <1>17, CountWakes DEF TypeOK
  <2> QED
    BY <1>17, <2>1 DEF TypeOK, Count
<1>18. ASSUME NEW c \in Consumers, SearchLock(c)
      PROVE  TypeOK'
  BY <1>18 DEF TypeOK, ThreadState, SearchLock
<1>19. ASSUME NEW c \in Consumers, SearchCount(c)
      PROVE  TypeOK'
  BY <1>19 DEF TypeOK, ThreadState, SearchCount
<1>20. ASSUME NEW c \in Consumers, SearchEnd(c)
      PROVE  TypeOK'
  BY <1>20 DEF TypeOK, ThreadState, SearchEnd
<1>21. ASSUME NEW t \in Threads, SpuriousWake(t)
      PROVE  TypeOK'
  BY <1>21 DEF TypeOK, SpuriousWake
<1>22. CASE MainExit
  BY <1>22 DEF TypeOK, MainExit
<1>23. CASE UNCHANGED vars
  BY <1>23 DEF TypeOK, vars
<1> QED
  BY <1>1, <1>2, <1>3, <1>4, <1>5, <1>6, <1>7, <1>8, <1>9, <1>10, <1>11,
     <1>12, <1>13, <1>14, <1>15, <1>16, <1>17, <1>18, <1>19, <1>20, <1>21,
     <1>22, <1>23
     DEF Next, Producer, Consumer, Exited

\* Every step enters and leaves a section with its mutex.
LEMMA MutexStep ==
  ASSUME ControlInv, [Next]_vars, TypeOK'
  PROVE  MutualExclusion'
<1> USE Pcm4Assumption DEF ControlInv, TypeOK, MutualExclusion, Threads,
        InStackSection, InDoneSection, InFoundSection, Goto, Lock, Unlock,
        ProducerPCs, ConsumerPCs, stackVars, waitVars, countVars, searchVars
<1>1. ASSUME NEW p \in Producers, ProducerLock(p)
      PROVE  MutualExclusion'
  BY <1>1 DEF ProducerLock
<1>2. ASSUME NEW p \in Producers, Push(p)
      PROVE  MutualExclusion'
  BY <1>2 DEF Push
<1>3. ASSUME NEW p \in Producers, PushSleep(p)
      PROVE  MutualExclusion'
  BY <1>3 DEF PushSleep, ThreadState
<1>4. ASSUME NEW p \in Producers, PushWake(p)
      PROVE  MutualExclusion'
  BY <1>4 DEF PushWake
<1>5. ASSUME NEW p \in Producers, PushRetry(p)
      PROVE  MutualExclusion'
  BY <1>5 DEF PushRetry
<1>6. ASSUME NEW p \in Producers, ProducerExit(p)
      PROVE  MutualExclusion'
  BY <1>6 DEF ProducerExit
<1>7. ASSUME NEW c \in Consumers, CheckLock(c)
      PROVE  MutualExclusion'
  BY <1>7 DEF CheckLock
<1>8. ASSUME NEW c \in Consumers, Check(c)
      PROVE  MutualExclusion'
  <2>1. \A t \in Threads : t # c => pc'[t] = pc[t]
    BY <1>8 DEF Check
  <2>2. pc[c] = "check" /\ pc'[c] \in {"done", "lockpop"}
    BY <1>8 DEF Check
  <2>3. UNCHANGED <<StackLock, FoundLock>> /\ DoneLock' = NoThread
    BY <1>8 DEF Check
  <2>4. MutualExclusion /\ DoneLock = c /\ c \in Threads /\ NoThread \notin Threads
    BY <2>2
  <2> HIDE DEF ControlInv
  <2> QED
    BY <2>1, <2>2, <2>3, <2>4
<1>9. ASSUME NEW c \in Consumers, PopLock(c)
      PROVE  MutualExclusion'
  BY <1>9 DEF PopLock
<1>10. ASSUME NEW c \in Consumers, PopTake(c)
      PROVE  MutualExclusion'
  BY SMTT(20), <1>10 DEF PopTake
<1>11. ASSUME NEW c \in Consumers, PopEmptyLock(c)
      PROVE  MutualExclusion'
  BY <1>11 DEF PopEmptyLock
<1>12. ASSUME NEW c \in Consumers, PopFinish(c)
      PROVE  MutualExclusion'
  BY <1>12 DEF PopFinish
<1>13. ASSUME NEW c \in Consumers, PopSleep(c)
      PROVE  MutualExclusion'
  BY <1>13 DEF PopSleep
<1>14. ASSUME NEW c \in Consumers, PopWake(c)
      PROVE  MutualExclusion'
  BY <1>14 DEF PopWake
<1>15. ASSUME NEW c \in Consumers, PopNull(c)
      PROVE  MutualExclusion'
  <2>1. /\ pc' = [pc EXCEPT ![c] = "loop"] /\ pc[c] = "pop"
        /\ UNCHANGED <<DoneLock, FoundLock>> /\ StackLock' = NoThread
    BY <1>15 DEF PopNull
  <2>2. pc \in [Threads -> ProducerPCs \cup ConsumerPCs] /\ c \in Threads
        /\ MutualExclusion /\ NoThread \notin Threads
    OBVIOUS
  <2> HIDE DEF ControlInv, TypeOK
  <2> QED
    BY <2>1, <2>2
<1>16. ASSUME NEW c \in Consumers, CountLock(c)
      PROVE  MutualExclusion'
  BY <1>16 DEF CountLock
<1>17. ASSUME NEW c \in Consumers, Count(c)
      PROVE  MutualExclusion'
  BY <1>17 DEF Count
<1>18. ASSUME NEW c \in Consumers, SearchLock(c)
      PROVE  MutualExclusion'
  BY <1>18 DEF SearchLock
<1>19. ASSUME NEW c \in Consumers, SearchCount(c)
      PROVE  MutualExclusion'
  BY <1>19 DEF SearchCount
<1>20. ASSUME NEW c \in Consumers, SearchEnd(c)
      PROVE  MutualExclusion'
  BY <1>20 DEF SearchEnd
<1>21. ASSUME NEW t \in Threads, SpuriousWake(t)
      PROVE  MutualExclusion'
  BY <1>21 DEF SpuriousWake
<1>22. CASE MainExit
  BY <1>22 DEF MainExit
<1>23. CASE UNCHANGED vars
  BY <1>23 DEF vars
<1> QED
  BY <1>1, <1>2, <1>3, <1>4, <1>5, <1>6, <1>7, <1>8, <1>9, <1>10, <1>11,
     <1>12, <1>13, <1>14, <1>15, <1>16, <1>17, <1>18, <1>19, <1>20, <1>21,
     <1>22, <1>23
     DEF Next, Producer, Consumer, Exited

\* Every step keeps what the control points say about the data.
LEMMA ThreadStep ==
  ASSUME ControlInv, [Next]_vars, TypeOK', MutualExclusion'
  PROVE  ThreadState'
<1> USE Pcm4Assumption DEF ControlInv, TypeOK, MutualExclusion, ThreadState,
        Threads, InStackSection, Goto, Lock, Unlock, ProducerPCs,
        ConsumerPCs, stackVars, waitVars, countVars, searchVars
<1>1. ASSUME NEW p \in Producers, ProducerLock(p)
      PROVE  ThreadState'
  BY <1>1 DEF ProducerLock
<1>2. ASSUME NEW p \in Producers, Push(p)
      PROVE  ThreadState'
  <2>1. /\ pc' = [pc EXCEPT ![p] = "loop"] /\ pc[p] = "push"
        /\ IterationsToGo' = [IterationsToGo EXCEPT ![p] = @ - 1]
        /\ PopWait' \subseteq PopWait
        /\ UNCHANGED <<PushWait, pBlock>>
        /\ StackLock = p
    BY <1>2 DEF Push, WakeOnPush, Signal
  <2>2. \A i \in 0..StackSize' - 1 : StackItems'[i] \in Blocks
    <3>1. <<p, IterationsToGo[p]>> \in Blocks
      BY <2>1 DEF Blocks
    <3>2. /\ StackSize \in 0..STACK_MAX_SIZE - 1 /\ StackSize' = StackSize + 1
          /\ StackItems' = [StackItems EXCEPT ![StackSize] = <<p, IterationsToGo[p]>>]
      BY <1>2 DEF Push, StackFull
    <3>3. \A i \in 0..StackSize - 1 : StackItems[i] \in Blocks
      OBVIOUS
    <3>4. StackItems \in [0..STACK_MAX_SIZE - 1 -> Blocks \cup {NoBlock}]
      OBVIOUS
    <3> HIDE DEF ControlInv, TypeOK, ThreadState, MutualExclusion
    <3> QED
      BY <3>1, <3>2, <3>3, <3>4
  <2>3. \A c \in Consumers : pc'[c] = pc[c] /\ pc[c] # "empty"
    BY <2>1
  <2>4. \A q \in Producers : q # p => /\ pc'[q] = pc[q]
                                     /\ IterationsToGo'[q] = IterationsToGo[q]
    BY <2>1
  <2>5. pc'[p] = "loop" /\ p \notin PushWait
    BY <2>1
  <2>6. ThreadState /\ PopWait \subseteq Consumers /\ PushWait \subseteq Producers
    OBVIOUS
  <2>7. USE_CONDITION_VARS' = USE_CONDITION_VARS
    BY <1>2 DEF Push
  <2> HIDE DEF ControlInv, TypeOK, MutualExclusion
  <2> QED
    BY <2>1, <2>2, <2>3, <2>4, <2>5, <2>6, <2>7
<1>3. ASSUME NEW p \in Producers, PushSleep(p)
      PROVE  ThreadState'
  BY <1>3 DEF PushSleep, StackFull
<1>4. ASSUME NEW p \in Producers, PushWake(p)
      PROVE  ThreadState'
  BY <1>4 DEF PushWake
<1>5. ASSUME NEW p \in Producers, PushRetry(p)
      PROVE  ThreadState'
  BY <1>5 DEF PushRetry
<1>6. ASSUME NEW p \in Producers, ProducerExit(p)
      PROVE  ThreadState'
  BY <1>6 DEF ProducerExit
<1>7. ASSUME NEW c \in Consumers, CheckLock(c)
      PROVE  ThreadState'
  BY <1>7 DEF CheckLock
<1>8. ASSUME NEW c \in Consumers, Check(c)
      PROVE  ThreadState'
  BY <1>8 DEF Check
<1>9. ASSUME NEW c \in Consumers, PopLock(c)
      PROVE  ThreadState'
  BY <1>9 DEF PopLock
<1>10. ASSUME NEW c \in Consumers, PopTake(c)
      PROVE  ThreadState'
  BY <1>10 DEF PopTake
<1>11. ASSUME NEW c \in Consumers, PopEmptyLock(c)
      PROVE  ThreadState'
  BY <1>11 DEF PopEmptyLock
<1>12. ASSUME NEW c \in Consumers, PopFinish(c)
      PROVE  ThreadState'
  BY <1>12 DEF PopFinish, Broadcast
<1>13. ASSUME NEW c \in Consumers, PopSleep(c)
      PROVE  ThreadState'
  BY <1>13 DEF PopSleep
<1>14. ASSUME NEW c \in Consumers, PopWake(c)
      PROVE  ThreadState'
  BY <1>14 DEF PopWake
<1>15. ASSUME NEW c \in Consumers, PopNull(c)
      PROVE  ThreadState'
  BY <1>15 DEF PopNull
<1>16. ASSUME NEW c \in Consumers, CountLock(c)
      PROVE  ThreadState'
  BY <1>16 DEF CountLock
<1>17. ASSUME NEW c \in Consumers, Count(c)
      PROVE  ThreadState'
  <2>1. /\ pc' = [pc EXCEPT ![c] = "search"] /\ pc[c] = "count"
        /\ UNCHANGED <<USE_CONDITION_VARS, StackItems, StackSize, IterationsToGo,
                       pBlock>>
    BY <1>17 DEF Count
  <2> QED
    BY <1>17, <2>1, CountWakes
<1>18. ASSUME NEW c \in Consumers, SearchLock(c)
      PROVE  ThreadState'
  BY <1>18 DEF SearchLock
<1>19. ASSUME NEW c \in Consumers, SearchCount(c)
      PROVE  ThreadState'
  BY <1>19 DEF SearchCount
<1>20. ASSUME NEW c \in Consumers, SearchEnd(c)
      PROVE  ThreadState'
  BY <1>20 DEF SearchEnd
<1>21. ASSUME NEW t \in Threads, SpuriousWake(t)
      PROVE  ThreadState'
  BY <1>21 DEF SpuriousWake
<1>22. CASE MainExit
  BY <1>22 DEF MainExit
<1>23. CASE UNCHANGED vars
  BY <1>23 DEF vars
<1> QED
  BY <1>1, <1>2, <1>3, <1>4, <1>5, <1>6, <1>7, <1>8, <1>9, <1>10, <1>11,
     <1>12, <1>13, <1>14, <1>15, <1>16, <1>17, <1>18, <1>19, <1>20, <1>21,
     <1>22, <1>23
     DEF Next, Producer, Consumer, Exited

-----------------------------------------------------------------------------
(* The blocks: how many there are, and how a push and a pop move them.     *)

\* No more blocks exist than main announces in CountExpected.
LEMMA BlocksCount ==
  IsFiniteSet(Blocks) /\ Cardinality(Blocks) <= CountExpected
<1> DEFINE N == Cardinality(Producers)
<1>1. N \in Nat /\ ExistsBijection(1..N, Producers)
  BY FS_CardinalityType, Pcm4Assumption
<1>2. PICK f : f \in Bijection(1..N, Producers)
  BY <1>1 DEF ExistsBijection
<1> DEFINE g == Inverse(f, 1..N, Producers)
<1>3. g \in Bijection(Producers, 1..N)
  BY <1>2, Fun_BijInverse
<1> HIDE DEF g, N
<1>4. g \in [Producers -> 1..N] /\ \A a, b \in Producers : g[a] = g[b] => a = b
  BY <1>3, Fun_BijectionProperties
<1> DEFINE number == [b \in Blocks |-> (g[b[1]] - 1) * Iterations + b[2]]
<1>5. ASSUME NEW i \in 1..N, NEW j \in 1..Iterations
      PROVE  (i - 1) * Iterations + j \in 1..N * Iterations
  <2>1. Iterations \in Nat
    BY Pcm4Assumption
  <2>2. (i - 1) * Iterations \in Nat /\ (N - i) * Iterations \in Nat
    BY <1>1, <2>1
  <2>3. (i - 1) * Iterations + (N - i) * Iterations + Iterations
          = N * Iterations
    BY <1>1, <2>1
  <2> QED
    BY <1>1, <2>1, <2>2, <2>3
<1>6. ASSUME NEW i \in 1..N, NEW k \in 1..N,
             NEW j \in 1..Iterations, NEW l \in 1..Iterations,
             (i - 1) * Iterations + j = (k - 1) * Iterations + l
      PROVE  i = k /\ j = l
  <2>1. Iterations \in Nat
    BY Pcm4Assumption
  <2>2. (i - k) * Iterations = l - j
    BY <1>6, <1>1, <2>1
  <2>3. CASE i > k
    <3>1. (i - k) * Iterations = (i - k - 1) * Iterations + Iterations
      BY <2>1, <2>3, <1>1
    <3>2. (i - k - 1) * Iterations \in Nat
      BY <2>1, <2>3, <1>1
    <3> QED
      BY <2>1, <2>2, <3>1, <3>2
  <2>4. CASE k > i
    <3>1. (k - i) * Iterations = (k - i - 1) * Iterations + Iterations
      BY <2>1, <2>4, <1>1
    <3>2. (k - i - 1) * Iterations \in Nat
      BY <2>1, <2>4, <1>1
    <3>3. (k - i) * Iterations = j - l
      BY <1>6, <1>1, <2>1
    <3> QED
      BY <2>1, <3>1, <3>2, <3>3
  <2>5. CASE i = k
    BY <2>2, <2>5, <1>1, <2>1
  <2> QED
    BY <2>3, <2>4, <2>5, <1>1
<1>7. number \in [Blocks -> 1..N * Iterations]
  BY <1>4, <1>5 DEF Blocks
<1>8. \A a, b \in Blocks : number[a] = number[b] => a = b
  BY <1>4, <1>6 DEF Blocks
<1>9. number \in Injection(Blocks, 1..N * Iterations)
  BY <1>7, <1>8, Fun_IsInj
<1>10. N * Iterations \in Nat
  BY <1>1, Pcm4Assumption
<1>11. /\ IsFiniteSet(1..N * Iterations)
       /\ Cardinality(1..N * Iterations) = N * Iterations
  BY <1>10, FS_Interval
<1>12. /\ IsFiniteSet(Blocks)
       /\ Cardinality(Blocks) <= Cardinality(1..N * Iterations)
  BY <1>9, <1>11, FS_Injection
<1> QED
  BY <1>11, <1>12 DEF CountExpected, N

\* Steps that touch neither the stack nor a loop counter move no block.
LEMMA NothingMoves ==
  ASSUME UNCHANGED <<StackItems, StackSize, IterationsToGo>>
  PROVE  Pushed' = Pushed /\ OnStack' = OnStack /\ Popped' = Popped
  BY DEF Pushed, OnStack, Popped

\* A push moves a block that was not pushed before onto the stack.
LEMMA PushMoves ==
  ASSUME ControlInv, Accounting, NEW p \in Producers, Push(p),
         NEW b, b = <<p, IterationsToGo[p]>>
  PROVE  /\ b \in Blocks \ Pushed
         /\ Pushed' = Pushed \cup {b}
         /\ OnStack' = OnStack \cup {b}
         /\ Popped' = Popped
<1> USE Pcm4Assumption DEF ControlInv
<1>1. StackSize \in 0..STACK_MAX_SIZE - 1 /\ StackSize' = StackSize + 1
  BY DEF TypeOK, Push, StackFull
<1>2. IterationsToGo[p] \in 1..Iterations
  BY DEF TypeOK, ThreadState, Push, Goto
<1>3. b \in Blocks \ Pushed
  BY <1>2 DEF Blocks, Pushed
<1>4. StackItems' = [StackItems EXCEPT ![StackSize] = b]
      /\ StackItems \in [0..STACK_MAX_SIZE - 1 -> Blocks \cup {NoBlock}]
  BY DEF TypeOK, Push
<1>5. /\ IterationsToGo' = [IterationsToGo EXCEPT ![p] = @ - 1]
      /\ IterationsToGo \in [Producers -> 0..Iterations]
  BY DEF TypeOK, Push
<1>6. Pushed' = Pushed \cup {b}
  <2>1. ASSUME NEW d \in Blocks
        PROVE  d[2] > IterationsToGo'[d[1]]
                 <=> (d[2] > IterationsToGo[d[1]] \/ d = b)
    BY <1>2, <1>5 DEF Blocks
  <2> QED
    BY <2>1, <1>3 DEF Pushed
<1>7. OnStack' = OnStack \cup {b}
  <2>1. 0..StackSize' - 1 = (0..StackSize - 1) \cup {StackSize}
    BY <1>1
  <2>2. \A j \in 0..StackSize - 1 : StackItems'[j] = StackItems[j]
    BY <1>1, <1>4
  <2>3. StackItems'[StackSize] = b
    BY <1>1, <1>4
  <2> QED
    BY <2>1, <2>2, <2>3 DEF OnStack
<1>8. OnStack \subseteq Pushed
  BY DEF Accounting
<1> QED
  BY <1>3, <1>6, <1>7, <1>8 DEF Popped

\* A pop moves the top block from the stack to the popped ones.
LEMMA TakeMoves ==
  ASSUME ControlInv, Accounting, NEW c \in Consumers, PopTake(c),
         NEW b, b = StackItems[StackSize - 1]
  PROVE  /\ b \in OnStack
         /\ Pushed' = Pushed
         /\ OnStack' = OnStack \ {b}
         /\ Popped' = Popped \cup {b}
<1> USE Pcm4Assumption DEF ControlInv
<1>1. StackSize \in 1..STACK_MAX_SIZE /\ StackSize' = StackSize - 1
  BY DEF TypeOK, PopTake
<1>2. StackItems' = StackItems /\ IterationsToGo' = IterationsToGo
  BY DEF PopTake
<1>3. Pushed' = Pushed
  BY <1>2 DEF Pushed
<1>4. b \in OnStack
  BY <1>1 DEF OnStack
<1>5. OnStack' = OnStack \ {b}
  <2>1. 0..StackSize - 1 = (0..StackSize' - 1) \cup {StackSize - 1}
    BY <1>1
  <2>2. \A j \in 0..StackSize' - 1 : StackItems[j] # b
    BY <1>1 DEF Accounting
  <2> QED
    BY <1>2, <2>1, <2>2 DEF OnStack
<1>6. OnStack \subseteq Pushed
  BY DEF Accounting
<1> QED
  BY <1>3, <1>4, <1>5, <1>6 DEF Popped

\* Once the announced work is counted, every block was popped.
LEMMA AllCounted ==
  ASSUME ControlInv, Accounting, WorkDone
  PROVE  Popped = Blocks /\ StackSize = 0
<1>1. Popped \subseteq Blocks
  BY DEF Popped, Pushed
<1>2. IsFiniteSet(Popped) /\ Cardinality(Popped) \in Nat
  BY <1>1, BlocksCount, FS_Subset, FS_CardinalityType
<1>3. CountExpected <= Cardinality(Popped)
  BY <1>2 DEF Accounting, WorkDone, Uncounted, ControlInv, TypeOK
<1>4. Cardinality(Popped) = Cardinality(Blocks)
  <2>1. /\ Cardinality(Popped) <= Cardinality(Blocks)
        /\ Cardinality(Blocks) \in Nat
    BY <1>1, BlocksCount, FS_Subset, FS_CardinalityType
  <2>2. Cardinality(Producers) \in Nat
    BY FS_CardinalityType, Pcm4Assumption
  <2>3. CountExpected \in Nat
    BY <2>2, Pcm4Assumption DEF CountExpected
  <2> QED
    BY <1>2, <1>3, <2>1, <2>3, BlocksCount
<1>5. Popped = Blocks
  BY <1>1, <1>4, BlocksCount, FS_Subset
<1>6. OnStack = {}
  BY <1>5 DEF Popped, Accounting, Pushed
<1>7. StackSize = 0
  <2>1. StackSize \in Nat
    BY Pcm4Assumption DEF ControlInv, TypeOK
  <2>2. CASE StackSize > 0
    <3>1. 0 \in 0..StackSize - 1
      BY <2>1, <2>2
    <3> QED
      BY <1>6, <3>1 DEF OnStack
  <2> QED
    BY <2>1, <2>2
<1> QED
  BY <1>5, <1>7

-----------------------------------------------------------------------------
(* Accounting, and what it says about the threads that are gone or asleep. *)

\* A step that moves no block, counts nothing, and leaves the consumers that
\* hold an uncounted block where they are.
LEMMA AccountingKept ==
  ASSUME Accounting,
         UNCHANGED <<USE_CONDITION_VARS, StackItems, StackSize, IterationsToGo,
                     CountDone>>,
         \A c \in Consumers : pc'[c] \in {"popped", "count"}
                                <=> pc[c] \in {"popped", "count"}
  PROVE  Accounting'
<1>1. Uncounted' = Uncounted
  BY DEF Uncounted
<1> QED
  BY <1>1, NothingMoves DEF Accounting

\* Push adds a block the stack did not hold, and counts nothing.
LEMMA AccountingPush ==
  ASSUME ControlInv, Accounting, NEW p \in Producers, Push(p)
  PROVE  Accounting'
<1> USE Pcm4Assumption
<1> DEFINE b == <<p, IterationsToGo[p]>>
<1>1. /\ b \notin Pushed /\ Pushed' = Pushed \cup {b}
      /\ OnStack' = OnStack \cup {b} /\ Popped' = Popped
  BY PushMoves
<1>2. /\ StackSize \in 0..STACK_MAX_SIZE - 1 /\ StackSize' = StackSize + 1
      /\ StackItems' = [StackItems EXCEPT ![StackSize] = b]
      /\ StackItems \in [0..STACK_MAX_SIZE - 1 -> Blocks \cup {NoBlock}]
  BY DEF Push, StackFull, ControlInv, TypeOK
<1>3. OnStack' \subseteq Pushed'
  BY <1>1 DEF Accounting
<1>4. ASSUME NEW i \in 0..StackSize' - 1, NEW j \in 0..StackSize' - 1,
             StackItems'[i] = StackItems'[j]
      PROVE  i = j
  <2>1. \A k \in 0..StackSize - 1 :
           StackItems'[k] = StackItems[k] /\ StackItems[k] # b
    <3>1. \A k \in 0..StackSize - 1 : StackItems[k] \in OnStack
      BY DEF OnStack
    <3>2. OnStack \subseteq Pushed
      BY DEF Accounting
    <3>3. \A k \in 0..StackSize - 1 : StackItems'[k] = StackItems[k]
      BY <1>2
    <3> QED
      BY <3>1, <3>2, <3>3, <1>1
  <2>2. StackItems'[StackSize] = b
    BY <1>2
  <2>3. i \in 0..StackSize - 1 \/ i = StackSize
    BY <1>2
  <2>4. j \in 0..StackSize - 1 \/ j = StackSize
    BY <1>2
  <2> QED
    BY <1>4, <2>1, <2>2, <2>3, <2>4 DEF Accounting
<1>5. Uncounted' = Uncounted /\ CountDone' = CountDone
  BY DEF Uncounted, Push, Goto, countVars, ControlInv, TypeOK, Threads
<1>6. USE_CONDITION_VARS' = USE_CONDITION_VARS
  BY DEF Push, Goto
<1> QED
  BY <1>1, <1>3, <1>4, <1>5, <1>6 DEF Accounting

\* PopTake turns a block on the stack into the one uncounted block.
LEMMA AccountingTake ==
  ASSUME ControlInv, Accounting, NEW c \in Consumers, PopTake(c)
  PROVE  Accounting'
<1> USE Pcm4Assumption
<1> DEFINE b == StackItems[StackSize - 1]
<1>1. /\ b \in OnStack /\ Pushed' = Pushed /\ OnStack' = OnStack \ {b}
      /\ Popped' = Popped \cup {b}
  BY TakeMoves
<1>2. /\ StackSize \in 1..STACK_MAX_SIZE /\ StackSize' = StackSize - 1
      /\ StackItems' = StackItems
  BY DEF PopTake, ControlInv, TypeOK
<1>3. OnStack' \subseteq Pushed'
  BY <1>1 DEF Accounting
<1>4. \A i, j \in 0..StackSize' - 1 : StackItems'[i] = StackItems'[j] => i = j
  BY <1>2 DEF Accounting
<1>5. CountDone' = CountDone /\ CountDone \in Nat
  BY DEF PopTake, countVars, ControlInv, TypeOK
<1>6. Uncounted = 0
  BY DEF Uncounted, PopTake, Goto, ControlInv, MutualExclusion,
         InStackSection, Threads
<1>7. Uncounted' = IF USE_CONDITION_VARS THEN 1 ELSE 0
  <2>1. CASE USE_CONDITION_VARS
    <3>1. pc'[c] = "popped"
      BY <2>1 DEF PopTake, Goto, ControlInv, TypeOK, Threads
    <3> QED
      BY <2>1, <3>1 DEF Uncounted
  <2>2. CASE ~USE_CONDITION_VARS
    <3>1. \A d \in Consumers : pc'[d] \notin {"popped", "count"}
      BY <2>2, <1>6 DEF PopTake, Goto, ControlInv, TypeOK, Threads, Uncounted
    <3> QED
      BY <2>2, <3>1 DEF Uncounted
  <2> QED
    BY <2>1, <2>2
<1>8. Cardinality(Popped') = Cardinality(Popped) + 1
  <2>1. IsFiniteSet(Popped)
    BY BlocksCount, FS_Subset DEF Popped, Pushed
  <2>2. b \notin Popped
    BY <1>1 DEF Popped
  <2> QED
    BY <1>1, <2>1, <2>2, FS_AddElement
<1>9. Cardinality(Popped) \in Nat
  BY BlocksCount, FS_Subset, FS_CardinalityType DEF Popped, Pushed
<1>10. CountDone' + Uncounted' =
         IF USE_CONDITION_VARS THEN Cardinality(Popped') ELSE 0
  <2>1. CountDone = IF USE_CONDITION_VARS THEN Cardinality(Popped) ELSE 0
    BY <1>5, <1>6 DEF Accounting
  <2> QED
    BY <1>5, <1>7, <1>8, <1>9, <2>1
<1>11. USE_CONDITION_VARS' = USE_CONDITION_VARS
  BY DEF PopTake, Goto
<1> QED
  BY <1>3, <1>4, <1>10, <1>11 DEF Accounting

\* Count adds that block to CountDone.
LEMMA AccountingCount ==
  ASSUME ControlInv, Accounting, NEW c \in Consumers, Count(c)
  PROVE  Accounting'
<1> USE Pcm4Assumption
<1>1. Uncounted = 1
  BY DEF Uncounted, Count, Goto
<1>2. Uncounted' = 0
  <2>1. \A d \in Consumers : pc'[d] \notin {"popped", "count"}
    BY DEF Count, Goto, ControlInv, TypeOK, MutualExclusion, InStackSection,
           Threads
  <2> QED
    BY <2>1 DEF Uncounted
<1>3. CountDone' = CountDone + 1 /\ CountDone \in Nat
  BY DEF Count, ControlInv, TypeOK
<1>4. Pushed' = Pushed /\ OnStack' = OnStack /\ Popped' = Popped
  BY NothingMoves DEF Count, stackVars
<1>5. StackItems' = StackItems /\ StackSize' = StackSize
  BY DEF Count, stackVars
<1>6. USE_CONDITION_VARS' = USE_CONDITION_VARS
  BY DEF Count, Goto
<1> QED
  BY <1>1, <1>2, <1>3, <1>4, <1>5, <1>6 DEF Accounting

\* Every step keeps the books.
LEMMA AccountingStep ==
  ASSUME ControlInv, Accounting, [Next]_vars
  PROVE  Accounting'
<1> USE Pcm4Assumption DEF Goto, stackVars, countVars, Threads
<1>1. ASSUME NEW p \in Producers, Producer(p), ~Push(p)
      PROVE  Accounting'
  <2>1. UNCHANGED <<USE_CONDITION_VARS, StackItems, StackSize, IterationsToGo,
                    CountDone>>
    BY <1>1 DEF Producer, ProducerLock, PushSleep, PushWake, PushRetry,
       ProducerExit
  <2>2. \A c \in Consumers : pc'[c] = pc[c]
    BY <1>1 DEF Producer, ProducerLock, PushSleep, PushWake, PushRetry,
       ProducerExit, ControlInv, TypeOK
  <2> QED
    BY <2>1, <2>2, AccountingKept
<1>2. ASSUME NEW c \in Consumers, Consumer(c), ~PopTake(c), ~Count(c)
      PROVE  Accounting'
  <2> USE DEF Consumer, CheckLock, Check, PopLock, PopEmptyLock, PopFinish,
          PopSleep, PopWake, PopNull, CountLock, SearchLock, SearchCount, SearchEnd
  <2>1. UNCHANGED <<USE_CONDITION_VARS, StackItems, StackSize, IterationsToGo,
                    CountDone>>
    BY <1>2
  <2>2. \A d \in Consumers : pc'[d] \in {"popped", "count"}
                               <=> pc[d] \in {"popped", "count"}
    BY <1>2 DEF ControlInv, TypeOK
  <2> QED
    BY <2>1, <2>2, AccountingKept
<1>3. ASSUME UNCHANGED <<USE_CONDITION_VARS, StackItems, StackSize,
                         IterationsToGo, CountDone, pc>>
      PROVE  Accounting'
  BY <1>3, AccountingKept
<1>4. ASSUME NEW t \in Threads, SpuriousWake(t)
      PROVE  Accounting'
  BY <1>3, <1>4 DEF SpuriousWake
<1>5. CASE MainExit
  BY <1>3, <1>5 DEF MainExit
<1>6. CASE UNCHANGED vars
  BY <1>3, <1>6 DEF vars
<1>7. ASSUME NEW p \in Producers, Push(p) PROVE Accounting'
  BY <1>7, AccountingPush
<1>8. ASSUME NEW c \in Consumers, PopTake(c) PROVE Accounting'
  BY <1>8, AccountingTake
<1>9. ASSUME NEW c \in Consumers, Count(c) PROVE Accounting'
  BY <1>9, AccountingCount
<1> QED
  BY <1>1, <1>2, <1>4, <1>5, <1>6, <1>7, <1>8, <1>9 DEF Next, Exited

\* At the start nothing is pushed, counted, asleep or gone.
LEMMA AccountingInit ==
  ASSUME Init
  PROVE  Accounting /\ NoEarlyExit /\ NoStrandedBlock /\ NoStrandedConsumer
<1> USE Pcm4Assumption DEF Init
<1>1. OnStack = {}
  BY DEF OnStack
<1>2. Pushed = {}
  BY DEF Pushed, Blocks
<1>3. Popped = {} /\ Cardinality(Popped) = 0
  BY <1>2, FS_EmptySet DEF Popped
<1>4. Uncounted = 0
  BY DEF Uncounted, Threads
<1>5. Accounting
  BY <1>1, <1>3, <1>4 DEF Accounting
<1>6. \A c \in Consumers : pc[c] = "loop"
  BY DEF Threads
<1> QED
  BY <1>5, <1>6 DEF NoEarlyExit, NoStrandedBlock, NoStrandedConsumer

\* What was popped stays popped.
LEMMA PoppedGrows ==
  ASSUME ControlInv, Accounting, [Next]_vars
  PROVE  Popped \subseteq Popped'
<1>1. ASSUME UNCHANGED <<StackItems, StackSize, IterationsToGo>>
      PROVE  Popped \subseteq Popped'
  BY <1>1, NothingMoves
<1>2. ASSUME NEW p \in Producers, Push(p) PROVE Popped \subseteq Popped'
  BY <1>2, PushMoves
<1>3. ASSUME NEW c \in Consumers, PopTake(c) PROVE Popped \subseteq Popped'
  BY <1>3, TakeMoves
<1>4. \/ \E p \in Producers : Push(p)
      \/ \E c \in Consumers : PopTake(c)
      \/ UNCHANGED <<StackItems, StackSize, IterationsToGo>>
  BY DEF Next, vars, Producer, Consumer, stackVars, ProducerLock, PushSleep,
     PushWake, PushRetry, ProducerExit, CheckLock, Check, PopLock,
     PopEmptyLock, PopFinish, PopSleep, PopWake, PopNull, CountLock, Count,
     SearchLock, SearchCount, SearchEnd, SpuriousWake, MainExit, Exited
<1> QED
  BY <1>1, <1>2, <1>3, <1>4

\* A consumer leaves through the test of CountDone only.
LEMMA NoEarlyExitStep ==
  ASSUME ControlInv, Accounting, NoEarlyExit, [Next]_vars
  PROVE  NoEarlyExit'
<1>1. Popped \subseteq Popped' /\ Popped' \subseteq Blocks
  BY PoppedGrows DEF Popped, Pushed, Blocks
<1>2. ASSUME NEW c \in Consumers, pc'[c] = "done", pc[c] # "done"
      PROVE  WorkDone
  BY <1>2, Pcm4Assumption
     DEF Next, vars, Producer, Consumer, ProducerLock, Push, PushSleep, PushWake,
     PushRetry, ProducerExit, CheckLock, Check, PopLock, PopTake,
     PopEmptyLock, PopFinish, PopSleep, PopWake, PopNull, CountLock, Count,
     SearchLock, SearchCount, SearchEnd, SpuriousWake, MainExit, Exited, Goto,
     ControlInv, TypeOK, Threads
<1>3. ASSUME NEW c \in Consumers, pc'[c] = "done"
      PROVE  Popped = Blocks
  BY <1>2, <1>3, AllCounted DEF NoEarlyExit
<1> QED
  BY <1>1, <1>3 DEF NoEarlyExit

\* No step leaves a block on the stack with every consumer asleep or gone.
LEMMA StrandedBlockStep ==
  ASSUME ControlInv, ControlInv', Accounting, NoEarlyExit, NoStrandedBlock,
         [Next]_vars
  PROVE  NoStrandedBlock'
<1> USE Pcm4Assumption DEF Threads, Goto
<1>1. ASSUME StackSize' = StackSize, PopWait' \subseteq PopWait,
             \A c \in Consumers : pc'[c] = "done" => pc[c] = "done"
      PROVE  NoStrandedBlock'
  BY <1>1 DEF NoStrandedBlock
<1>2. ASSUME NEW p \in Producers, Push(p), Consumers # {}
      PROVE  \E c \in Consumers : c \notin PopWait' /\ pc'[c] # "done"
  <2>1. \A c \in Consumers : pc[c] # "done"
    BY <1>2, PushMoves DEF NoEarlyExit, Popped
  <2>2. \A c \in Consumers : pc'[c] = pc[c]
    BY <1>2 DEF Push, ControlInv, TypeOK
  <2>3. PopWait = {} \/ USE_CONDITION_VARS
    BY DEF ControlInv, ThreadState, TypeOK
  <2>4. CASE PopWait = {}
    BY <1>2, <2>1, <2>2, <2>4 DEF Push, WakeOnPush, Signal
  <2>5. CASE PopWait # {} /\ USE_CONDITION_VARS
    <3>1. PICK t \in PopWait : PopWait' = PopWait \ {t}
      BY <1>2, <2>5 DEF Push, WakeOnPush, Signal
    <3>2. t \in Consumers /\ t \notin PopWait'
      BY <3>1 DEF ControlInv, TypeOK
    <3> QED
      BY <2>1, <2>2, <3>2
  <2> QED
    BY <2>3, <2>4, <2>5
<1>3. ASSUME NEW p \in Producers, Producer(p), ~Push(p)
      PROVE  NoStrandedBlock'
  BY <1>1, <1>3 DEF Producer, ProducerLock, PushSleep, PushWake, PushRetry,
     ProducerExit, ControlInv, TypeOK, stackVars, waitVars
<1>4. ASSUME NEW c \in Consumers, PopTake(c)
      PROVE  NoStrandedBlock'
  BY <1>4 DEF PopTake, NoStrandedBlock, ControlInv, TypeOK, ThreadState,
     waitVars
<1>5. ASSUME NEW c \in Consumers, Check(c)
      PROVE  NoStrandedBlock'
  <2>1. CASE WorkDone
    BY <1>5, <2>1, AllCounted DEF Check, NoStrandedBlock, stackVars
  <2>2. CASE ~WorkDone
    BY <1>1, <1>5, <2>2 DEF Check, stackVars, waitVars, ControlInv, TypeOK
  <2> QED
    BY <2>1, <2>2
<1>6. ASSUME NEW c \in Consumers, PopSleep(c)
      PROVE  NoStrandedBlock'
  BY <1>6 DEF PopSleep, NoStrandedBlock, ControlInv, ThreadState, stackVars
<1>7. ASSUME NEW c \in Consumers, Consumer(c), ~PopTake(c), ~Check(c),
             ~PopSleep(c)
      PROVE  NoStrandedBlock'
  <2>1. StackSize' = StackSize
    BY <1>7 DEF Consumer, CheckLock, PopLock, PopEmptyLock, PopFinish, PopWake,
       PopNull, CountLock, Count, SearchLock, SearchCount, SearchEnd, stackVars
  <2>2. PopWait' \subseteq PopWait
    BY <1>7 DEF Consumer, CheckLock, PopLock, PopEmptyLock, PopFinish, PopWake,
       PopNull, CountLock, Count, SearchLock, SearchCount, SearchEnd, waitVars,
       WakeNextConsumer, Signal,
       Broadcast
  <2>3. \A d \in Consumers : pc'[d] = "done" => pc[d] = "done"
    BY <1>7 DEF Consumer, CheckLock, PopLock, PopEmptyLock, PopFinish, PopWake,
       PopNull, CountLock, Count, SearchLock, SearchCount, SearchEnd,
       ControlInv, TypeOK
  <2> QED
    BY <1>1, <2>1, <2>2, <2>3
<1>8. ASSUME NEW t \in Threads, SpuriousWake(t)
      PROVE  NoStrandedBlock'
  BY <1>1, <1>8 DEF SpuriousWake, stackVars
<1>9. CASE MainExit \/ UNCHANGED vars
  BY <1>1, <1>9 DEF MainExit, vars, stackVars, waitVars
<1> QED
  BY <1>2, <1>3, <1>4, <1>5, <1>6, <1>7, <1>8, <1>9
     DEF Next, Exited, NoStrandedBlock

\* No step after the last count leaves every sleeper without a waker.
LEMMA StrandedConsumerStep ==
  ASSUME ControlInv, ControlInv', Accounting, NoStrandedConsumer, [Next]_vars
  PROVE  NoStrandedConsumer'
<1> USE Pcm4Assumption DEF Threads, Goto
<1> DEFINE Awake == {"popwait", "pop", "empty"}
<1>1. ASSUME CountDone' = CountDone, PopWait' \subseteq PopWait,
             \A c \in Consumers : pc[c] \in Awake => pc'[c] \in Awake
      PROVE  NoStrandedConsumer'
  BY <1>1 DEF NoStrandedConsumer, WorkDone
<1>2. ASSUME NEW p \in Producers, Producer(p)
      PROVE  NoStrandedConsumer'
  <2> USE DEF Producer, ProducerLock, Push, PushSleep, PushWake, PushRetry,
          ProducerExit
  <2>1. CountDone' = CountDone
    BY <1>2 DEF countVars
  <2>2. PopWait' \subseteq PopWait
    BY <1>2 DEF waitVars, WakeOnPush, Signal
  <2>3. \A c \in Consumers : pc'[c] = pc[c]
    BY <1>2 DEF ControlInv, TypeOK
  <2> QED
    BY <1>1, <2>1, <2>2, <2>3
<1>3. ASSUME NEW c \in Consumers, Count(c)
      PROVE  NoStrandedConsumer'
  <2>1. CASE PopWait = {}
    BY <1>3, <2>1 DEF Count, WakeNextConsumer, Signal, NoStrandedConsumer
  <2>2. CASE PopWait # {}
    <3>1. PICK t \in PopWait : PopWait' = PopWait \ {t}
      BY <1>3, <2>2 DEF Count, WakeNextConsumer, Signal
    <3>2. t \in Consumers \ PopWait' /\ pc[t] = "popwait"
      BY <3>1 DEF ControlInv, TypeOK, ThreadState
    <3>3. pc'[t] = "popwait"
      BY <1>3, <3>2 DEF Count, ControlInv, TypeOK
    <3> QED
      BY <3>2, <3>3 DEF NoStrandedConsumer
  <2> QED
    BY <2>1, <2>2
<1>4. ASSUME NEW c \in Consumers, PopSleep(c)
      PROVE  NoStrandedConsumer'
  BY <1>4 DEF PopSleep, NoStrandedConsumer, WorkDone, countVars
<1>5. ASSUME NEW c \in Consumers, PopFinish(c)
      PROVE  NoStrandedConsumer'
  BY <1>5 DEF PopFinish, Broadcast, NoStrandedConsumer
<1>6. ASSUME NEW c \in Consumers, PopTake(c)
      PROVE  NoStrandedConsumer'
  BY <1>6, AllCounted
     DEF PopTake, NoStrandedConsumer, WorkDone, countVars, ControlInv, TypeOK
<1>7. ASSUME NEW c \in Consumers, PopNull(c)
      PROVE  NoStrandedConsumer'
  BY <1>7 DEF PopNull, NoStrandedConsumer, waitVars, ControlInv, TypeOK,
     ThreadState
<1>8. ASSUME NEW c \in Consumers, Consumer(c), ~Count(c), ~PopSleep(c),
             ~PopFinish(c), ~PopTake(c), ~PopNull(c)
      PROVE  NoStrandedConsumer'
  <2> USE DEF Consumer, CheckLock, Check, PopLock, PopEmptyLock, PopWake,
          CountLock, SearchLock, SearchCount, SearchEnd
  <2>1. CountDone' = CountDone /\ PopWait' = PopWait
    BY <1>8 DEF countVars, waitVars
  <2>2. \A d \in Consumers : pc[d] \in Awake => pc'[d] \in Awake
    BY <1>8 DEF ControlInv, TypeOK
  <2> QED
    BY <1>1, <2>1, <2>2
<1>9. ASSUME NEW t \in Threads, SpuriousWake(t)
      PROVE  NoStrandedConsumer'
  BY <1>1, <1>9 DEF SpuriousWake, countVars
<1>10. CASE MainExit \/ UNCHANGED vars
  BY <1>1, <1>10 DEF MainExit, vars, countVars, waitVars
<1> QED
  BY <1>2, <1>3, <1>4, <1>5, <1>6, <1>7, <1>8, <1>9, <1>10
     DEF Next, Exited

-----------------------------------------------------------------------------
(* The theorems.                                                           *)

\* The inductive invariant.
IInv == /\ ControlInv /\ Accounting /\ NoEarlyExit
        /\ NoStrandedBlock /\ NoStrandedConsumer

\* Every step keeps it.
LEMMA InvariantStep ==
  ASSUME IInv, [Next]_vars
  PROVE  IInv'
<1>1. ControlInv'
  BY TypeStep, MutexStep, ThreadStep DEF IInv, ControlInv
<1> QED
  BY <1>1, AccountingStep, NoEarlyExitStep, StrandedBlockStep,
     StrandedConsumerStep DEF IInv

\* IInv holds in every state of every behaviour of the program.
THEOREM Invariance == Spec => []IInv
<1>1. Init => IInv
  BY ControlInit, AccountingInit DEF IInv
<1>2. IInv /\ [Next]_vars => IInv'
  BY InvariantStep
<1> QED
  BY <1>1, <1>2, PTL DEF Spec

\* Every variable of the two thread functions keeps its type.
THEOREM TypeCorrect == Spec => []TypeOK
<1>1. IInv => TypeOK
  BY DEF IInv, ControlInv
<1> QED
  BY <1>1, Invariance, PTL

\* StackLock and DoneLock exclude each other's users in both builds.
THEOREM MutexSafe == Spec => []MutualExclusion
<1>1. IInv => MutualExclusion
  BY DEF IInv, ControlInv
<1> QED
  BY <1>1, Invariance, PTL

\* Every block popped is counted exactly once, for any number of threads.
THEOREM AccountingSafe == Spec => []Accounting
<1>1. IInv => Accounting
  BY DEF IInv
<1> QED
  BY <1>1, Invariance, PTL

\* A consumer leaves only when every block was popped.
THEOREM ExitSafe == Spec => []NoEarlyExit
<1>1. IInv => NoEarlyExit
  BY DEF IInv
<1> QED
  BY <1>1, Invariance, PTL

\* No wake-up is lost while there are blocks: with one on the stack, a consumer
\* is awake to take it.
THEOREM BlockNotStranded == Spec => []NoStrandedBlock
<1>1. IInv => NoStrandedBlock
  BY DEF IInv
<1> QED
  BY <1>1, Invariance, PTL

\* No wake-up is lost at the end: consumers that sleep on when all is counted
\* have one that is on its way to wake them.
THEOREM ConsumerNotStranded == Spec => []NoStrandedConsumer
<1>1. IInv => NoStrandedConsumer
  BY DEF IInv
<1> QED
  BY <1>1, Invariance, PTL

-----------------------------------------------------------------------------
(* The array under its mutex implements the bounded stack.                 *)

\* The contents of the array, as the refinement mapping reads them.
Contents == [i \in 1..StackSize |-> StackItems[i - 1]]

\* The contents are a sequence as long as the fill level.
LEMMA ContentsSeq ==
  ASSUME TypeOK
  PROVE  Contents \in Seq(Blocks \cup {NoBlock}) /\ Len(Contents) = StackSize
<1>1. StackSize \in Nat
  BY Pcm4Assumption DEF TypeOK
<1>2. \A i \in 1..StackSize : StackItems[i - 1] \in Blocks \cup {NoBlock}
  BY Pcm4Assumption DEF TypeOK
<1>3. Contents \in [1..StackSize -> Blocks \cup {NoBlock}]
  BY <1>2 DEF Contents
<1> QED
  BY <1>1, <1>3

\* A push is a Put of the abstract stack.
LEMMA PushIsPut ==
  ASSUME IInv, IInv', NEW p \in Producers, Push(p)
  PROVE  Stack!Next
<1> USE Pcm4Assumption
<1> DEFINE b == <<p, IterationsToGo[p]>>
<1>1. /\ b \in Blocks \ Pushed /\ Pushed' = Pushed \cup {b}
      /\ Popped' = Popped
  BY PushMoves DEF IInv
<1>2. /\ StackSize \in 0..STACK_MAX_SIZE - 1 /\ StackSize' = StackSize + 1
      /\ StackItems' = [StackItems EXCEPT ![StackSize] = b]
      /\ StackItems \in [0..STACK_MAX_SIZE - 1 -> Blocks \cup {NoBlock}]
  BY DEF Push, StackFull, IInv, ControlInv, TypeOK
<1>3. /\ Contents \in Seq(Blocks \cup {NoBlock}) /\ Len(Contents) = StackSize
      /\ Contents' \in Seq(Blocks \cup {NoBlock}) /\ Len(Contents') = StackSize'
  <2>1. (TypeOK => /\ Contents \in Seq(Blocks \cup {NoBlock})
                   /\ Len(Contents) = StackSize)'
    BY ContentsSeq, PTL
  <2> QED
    BY <2>1, ContentsSeq DEF IInv, ControlInv
<1> HIDE DEF b
<1>4. Contents' = Append(Contents, b)
  <2>1. \A i \in 1..StackSize : Contents'[i] = Contents[i]
    BY <1>2 DEF Contents
  <2>2. Contents'[StackSize + 1] = b
    BY <1>2 DEF Contents
  <2> QED
    BY <1>1, <1>2, <1>3, <2>1, <2>2
<1>5. Len(Contents) < STACK_MAX_SIZE
  BY <1>2, <1>3
<1>6. (Blocks \ Pushed)' = (Blocks \ Pushed) \ {b}
  BY <1>1
<1> QED
  BY <1>1, <1>4, <1>5, <1>6 DEF Stack!Next, Stack!Put, Contents

\* A pop is a Take of the abstract stack.
LEMMA PopTakeIsTake ==
  ASSUME IInv, IInv', NEW c \in Consumers, PopTake(c)
  PROVE  Stack!Next
<1> USE Pcm4Assumption
<1> DEFINE b == StackItems[StackSize - 1]
<1>1. Pushed' = Pushed /\ Popped' = Popped \cup {b}
  BY TakeMoves DEF IInv
<1>2. /\ StackSize \in 1..STACK_MAX_SIZE /\ StackSize' = StackSize - 1
      /\ StackItems' = StackItems
  BY DEF PopTake, IInv, ControlInv, TypeOK
<1>3. /\ Contents \in Seq(Blocks \cup {NoBlock}) /\ Len(Contents) = StackSize
      /\ Contents' \in Seq(Blocks \cup {NoBlock}) /\ Len(Contents') = StackSize'
  <2>1. (TypeOK => /\ Contents \in Seq(Blocks \cup {NoBlock})
                   /\ Len(Contents) = StackSize)'
    BY ContentsSeq, PTL
  <2> QED
    BY <2>1, ContentsSeq DEF IInv, ControlInv
<1>4. Contents' = SubSeq(Contents, 1, Len(Contents) - 1)
  <2>1. \A i \in 1..StackSize' : Contents'[i] = Contents[i]
    BY <1>2 DEF Contents
  <2> DEFINE rest == SubSeq(Contents, 1, Len(Contents) - 1)
  <2>2. /\ rest \in Seq(Blocks \cup {NoBlock}) /\ Len(rest) = StackSize'
        /\ \A i \in 1..StackSize' : rest[i] = Contents[i]
    BY <1>2, <1>3
  <2> HIDE DEF rest
  <2>3. Contents' = rest
    BY <1>3, <2>1, <2>2
  <2> QED
    BY <2>3 DEF rest
<1>5. Contents[Len(Contents)] = b
  BY <1>2, <1>3 DEF Contents
<1>6. Contents # <<>>
  BY <1>2, <1>3
<1> HIDE DEF b
<1> QED
  BY <1>1, <1>4, <1>5, <1>6 DEF Stack!Next, Stack!Take, Contents

\* Whatever the locks and condition variables do, the array behaves as a
\* bounded stack: nothing is pushed beyond STACK_MAX_SIZE, pushed twice, lost,
\* popped twice or popped out of order.
THEOREM Refinement == Spec => StackSpec
<1>1. Init => Stack!Init
  <2> SUFFICES ASSUME Init PROVE Stack!Init
    OBVIOUS
  <2>1. Pushed = {}
    BY Pcm4Assumption DEF Init, Pushed, Blocks
  <2>2. [i \in 1..StackSize |-> StackItems[i - 1]] = <<>>
    BY DEF Init
  <2> QED
    BY <2>1, <2>2 DEF Stack!Init, Popped
<1>2. ASSUME IInv, IInv', [Next]_vars
      PROVE  [Stack!Next]_(Stack!vars)
  <2>1. ASSUME NEW p \in Producers, Push(p) PROVE Stack!Next
    BY <1>2, <2>1, PushIsPut
  <2>2. ASSUME NEW c \in Consumers, PopTake(c) PROVE Stack!Next
    BY <1>2, <2>2, PopTakeIsTake
  <2>3. ASSUME UNCHANGED <<StackItems, StackSize, IterationsToGo>>
        PROVE  UNCHANGED Stack!vars
    BY <2>3, NothingMoves DEF Stack!vars
  <2>4. \/ \E p \in Producers : Push(p)
        \/ \E c \in Consumers : PopTake(c)
        \/ UNCHANGED <<StackItems, StackSize, IterationsToGo>>
    BY <1>2 DEF Next, vars, Producer, Consumer, stackVars, ProducerLock,
       PushSleep, PushWake, PushRetry, ProducerExit, CheckLock, Check, PopLock,
       PopEmptyLock, PopFinish, PopSleep, PopWake, PopNull, CountLock, Count,
       SearchLock, SearchCount, SearchEnd, SpuriousWake, MainExit, Exited
  <2> QED
    BY <2>1, <2>2, <2>3, <2>4
<1> QED
  BY <1>1, <1>2, Invariance, PTL DEF Spec, StackSpec, Stack!Spec
=============================================================================
