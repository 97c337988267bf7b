-------------------------------- MODULE Pcm4 --------------------------------
(***************************************************************************)
(* Milestone04/main.c: producer threads compute byte blocks and push them  *)
(* on a shared bounded stack, consumer threads pop them and count the      *)
(* occurrences of a search string; main joins the consumers and exits.     *)
(*                                                                         *)
(* A step is what a thread does between two points where another thread    *)
(* can be seen: taking a mutex, sleeping on a condition, or leaving the    *)
(* critical section.  Both builds of the program are modelled: with        *)
(* USE_CONDITION_VARS (the one that is compiled) and without it.           *)
(***************************************************************************)
EXTENDS Integers, FiniteSets, Pthreads

CONSTANTS
  Producers,           \* the producer threads
  Consumers,           \* the consumer threads
  Iterations,          \* blocks each producer makes
  STACK_MAX_SIZE,      \* slots of the shared stack
  Builds,              \* which of the two builds are looked at
  SpuriousWakeups,     \* may pthread_cond_wait return without a signal?
  Occurrences,         \* matches the search of each block comes upon
  NoBlock              \* the NULL block pointer

Threads == Producers \cup Consumers

\* A block is named by its producer and by the iterations that producer still
\* had to go when it computed the block.
Blocks == Producers \X (1..Iterations)

ASSUME Pcm4Assumption ==
  /\ IsFiniteSet(Producers) /\ IsFiniteSet(Consumers)
  /\ Producers \cap Consumers = {}
  /\ NoThread \notin Threads
  /\ Iterations \in Nat
  /\ STACK_MAX_SIZE \in Nat \ {0}
  /\ Builds \subseteq BOOLEAN /\ SpuriousWakeups \in BOOLEAN
  /\ Occurrences \in [Blocks -> Nat]
  /\ NoBlock \notin Blocks

\* The amount of work main announces before it starts a thread.
CountExpected == Cardinality(Producers) * Iterations

VARIABLES
  USE_CONDITION_VARS,     \* the build that is run
  StackLock, DoneLock,    \* the mutexes that nest
  FoundLock,              \* the mutex of CountFound
  StackItems, StackSize,  \* the stack: an array and its fill level
  PushWait, PopWait,      \* the threads blocked on each condition
  CountDone,              \* blocks popped so far
  CountFound,             \* matches found so far
  pc,                     \* where each thread is
  IterationsToGo,         \* each producer's loop counter
  pBlock,                 \* the block each consumer is working on
  Matched,                \* the matches in it that its consumer has counted
  found,                  \* CountFound as a consumer's CountFound++ read it
  exited                  \* main has returned, which ends the process

stackVars == <<StackItems, StackSize>>
searchVars == <<FoundLock, CountFound, Matched, found>>
countVars == <<CountDone, FoundLock, CountFound, Matched, found>>
waitVars == <<PushWait, PopWait>>
vars == <<USE_CONDITION_VARS, StackLock, DoneLock, FoundLock, StackItems,
          StackSize, PushWait, PopWait, CountDone, CountFound, pc, IterationsToGo, pBlock, Matched,
          found, exited>>

Init ==
  /\ USE_CONDITION_VARS \in Builds
  /\ StackLock = NoThread /\ DoneLock = NoThread /\ FoundLock = NoThread
  /\ StackItems = [i \in 0..STACK_MAX_SIZE - 1 |-> NoBlock]
  /\ StackSize = 0
  /\ PushWait = {} /\ PopWait = {}
  /\ CountDone = 0 /\ CountFound = 0
  /\ pc = [t \in Threads |-> "loop"]
  /\ IterationsToGo = [p \in Producers |-> Iterations]
  /\ pBlock = [c \in Consumers |-> NoBlock]
  /\ Matched = [c \in Consumers |-> 0]
  /\ found = [c \in Consumers |-> 0]
  /\ exited = FALSE

-----------------------------------------------------------------------------
(* Tests and wake-ups the steps are made of.  A definition named Mut...    *)
(* is a plausible slip in the definition that follows it.                  *)

\* Thread t, the process being alive, moves from one control point to another of
\* the same build.
Goto(t, from, to) ==
  /\ ~exited
  /\ UNCHANGED USE_CONDITION_VARS
  /\ pc[t] = from
  /\ pc' = [pc EXCEPT ![t] = to]

MutStackFull == StackSize > STACK_MAX_SIZE
StackFull == StackSize >= STACK_MAX_SIZE

\* The test of thread_consumer and of stack_ts_cv_pop for "no more work".
MutWorkDone == CountDone + 1 >= CountExpected
WorkDone == CountDone = CountExpected

\* The waiters left after the signals of stack_ts_cv_push and stack_ts_cv_pop.
MutWakeOnPush(W) == {W}
WakeOnPush(W) == IF USE_CONDITION_VARS THEN Signal(W) ELSE {W}

MutWakeProducer(W) == {W}
WakeProducer(W) == Signal(W)

MutWakeNextConsumer(W) == {W}
WakeNextConsumer(W) == Signal(W)

-----------------------------------------------------------------------------
(* Producers: thread_producer, stack_ts_cv_push, stack_ts_push.            *)

\* One more block is computed and the push takes the stack mutex.
ProducerLock(p) ==
  /\ IterationsToGo[p] > 0
  /\ Goto(p, "loop", "push")
  /\ Lock(StackLock, p)
  /\ UNCHANGED <<DoneLock, stackVars, waitVars, countVars, IterationsToGo,
                 pBlock, exited>>

\* There is room: store, wake a consumer, release, count the iteration.
MutPush(p) ==
  /\ ~StackFull
  /\ Goto(p, "push", "loop")
  /\ StackItems' = [StackItems EXCEPT ![StackSize] = <<p, IterationsToGo[p]>>]
  /\ PopWait' \in WakeOnPush(PopWait)
  /\ Unlock(StackLock)
  /\ IterationsToGo' = [IterationsToGo EXCEPT ![p] = @ - 1]
  /\ UNCHANGED <<StackSize, DoneLock, PushWait, countVars, pBlock, exited>>
Push(p) ==
  /\ ~StackFull
  /\ Goto(p, "push", "loop")
  /\ StackItems' = [StackItems EXCEPT ![StackSize] = <<p, IterationsToGo[p]>>]
  /\ StackSize' = StackSize + 1
  /\ PopWait' \in WakeOnPush(PopWait)
  /\ Unlock(StackLock)
  /\ IterationsToGo' = [IterationsToGo EXCEPT ![p] = @ - 1]
  /\ UNCHANGED <<DoneLock, PushWait, countVars, pBlock, exited>>

\* stack_ts_cv_push on a full stack sleeps and gives the mutex up.
PushSleep(p) ==
  /\ USE_CONDITION_VARS
  /\ StackFull
  /\ Goto(p, "push", "pushwait")
  /\ PushWait' = PushWait \cup {p}
  /\ Unlock(StackLock)
  /\ UNCHANGED <<DoneLock, stackVars, PopWait, countVars, IterationsToGo,
                 pBlock, exited>>

\* A signalled producer takes the mutex again and retests the stack.
PushWake(p) ==
  /\ p \notin PushWait
  /\ Goto(p, "pushwait", "push")
  /\ Lock(StackLock, p)
  /\ UNCHANGED <<DoneLock, stackVars, waitVars, countVars, IterationsToGo,
                 pBlock, exited>>

\* pthread_cond_wait may end without a signal, for producers and consumers.
SpuriousWake(t) ==
  /\ SpuriousWakeups /\ ~exited
  /\ t \in PushWait \cup PopWait
  /\ PushWait' = PushWait \ {t}
  /\ PopWait' = PopWait \ {t}
  /\ UNCHANGED <<USE_CONDITION_VARS, StackLock, DoneLock, stackVars, countVars,
                 pc, IterationsToGo, pBlock, exited>>

\* stack_ts_push on a full stack returns 0 and the producer tries again.
PushRetry(p) ==
  /\ ~USE_CONDITION_VARS
  /\ StackFull
  /\ Goto(p, "push", "loop")
  /\ Unlock(StackLock)
  /\ UNCHANGED <<DoneLock, stackVars, waitVars, countVars, IterationsToGo,
                 pBlock, exited>>

ProducerExit(p) ==
  /\ IterationsToGo[p] <= 0
  /\ Goto(p, "loop", "done")
  /\ UNCHANGED <<StackLock, DoneLock, stackVars, waitVars, countVars,
                 IterationsToGo, pBlock, exited>>

-----------------------------------------------------------------------------
(* Consumers: thread_consumer, stack_ts_cv_pop, stack_ts_pop.              *)

\* The loop head takes DoneLock ...
CheckLock(c) ==
  /\ Goto(c, "loop", "check")
  /\ Lock(DoneLock, c)
  /\ UNCHANGED <<StackLock, stackVars, waitVars, countVars, IterationsToGo,
                 pBlock, exited>>

\* ... compares the counters, releases it, and leaves or goes on to pop.
Check(c) ==
  /\ Goto(c, "check", IF WorkDone THEN "done" ELSE "lockpop")
  /\ Unlock(DoneLock)
  /\ UNCHANGED <<StackLock, stackVars, waitVars, countVars, IterationsToGo,
                 pBlock, exited>>

MutPopLock(c) ==
  /\ Goto(c, "lockpop", "pop")
  /\ StackLock' = c
  /\ UNCHANGED <<DoneLock, stackVars, waitVars, countVars, IterationsToGo,
                 pBlock, exited>>
PopLock(c) ==
  /\ Goto(c, "lockpop", "pop")
  /\ Lock(StackLock, c)
  /\ UNCHANGED <<DoneLock, stackVars, waitVars, countVars, IterationsToGo,
                 pBlock, exited>>

\* The stack holds a block: take the last one in.  stack_ts_cv_pop keeps the
\* mutex to count the block, stack_ts_pop releases it.
MutPopTake(c) ==
  /\ StackSize > 0
  /\ Goto(c, "pop", IF USE_CONDITION_VARS THEN "popped" ELSE "search")
  /\ pBlock' = [pBlock EXCEPT ![c] = StackItems[StackSize - 1]]
  /\ StackLock' = IF USE_CONDITION_VARS THEN StackLock ELSE NoThread
  /\ UNCHANGED <<DoneLock, stackVars, waitVars, countVars,
                 IterationsToGo, exited>>
PopTake(c) ==
  /\ StackSize > 0
  /\ Goto(c, "pop", IF USE_CONDITION_VARS THEN "popped" ELSE "search")
  /\ pBlock' = [pBlock EXCEPT ![c] = StackItems[StackSize - 1]]
  /\ StackSize' = StackSize - 1
  /\ StackLock' = IF USE_CONDITION_VARS THEN StackLock ELSE NoThread
  /\ UNCHANGED <<StackItems, DoneLock, waitVars, countVars,
                 IterationsToGo, exited>>

\* stack_ts_cv_pop on an empty stack looks at the counters under DoneLock ...
PopEmptyLock(c) ==
  /\ USE_CONDITION_VARS
  /\ StackSize <= 0
  /\ Goto(c, "pop", "empty")
  /\ Lock(DoneLock, c)
  /\ UNCHANGED <<StackLock, stackVars, waitVars, countVars, IterationsToGo,
                 pBlock, exited>>

\* ... and either releases every sleeping consumer and returns NULL ...
PopFinish(c) ==
  /\ WorkDone
  /\ Goto(c, "empty", "loop")
  /\ Unlock(DoneLock)
  /\ Unlock(StackLock)
  /\ PopWait' = Broadcast(PopWait)
  /\ UNCHANGED <<stackVars, PushWait, countVars, IterationsToGo, pBlock,
                 exited>>

\* ... or sleeps.
PopSleep(c) ==
  /\ ~WorkDone
  /\ Goto(c, "empty", "popwait")
  /\ Unlock(DoneLock)
  /\ Unlock(StackLock)
  /\ PopWait' = PopWait \cup {c}
  /\ UNCHANGED <<stackVars, PushWait, countVars, IterationsToGo, pBlock,
                 exited>>

PopWake(c) ==
  /\ c \notin PopWait
  /\ Goto(c, "popwait", "pop")
  /\ Lock(StackLock, c)
  /\ UNCHANGED <<DoneLock, stackVars, waitVars, countVars, IterationsToGo,
                 pBlock, exited>>

\* stack_ts_pop on an empty stack returns NULL at once.
PopNull(c) ==
  /\ ~USE_CONDITION_VARS
  /\ StackSize <= 0
  /\ Goto(c, "pop", "loop")
  /\ Unlock(StackLock)
  /\ UNCHANGED <<DoneLock, stackVars, waitVars, countVars, IterationsToGo,
                 pBlock, exited>>

\* The popped block is counted as done, and a producer and a consumer are
\* woken before the stack mutex is released.
CountLock(c) ==
  /\ Goto(c, "popped", "count")
  /\ Lock(DoneLock, c)
  /\ UNCHANGED <<StackLock, stackVars, waitVars, countVars, IterationsToGo,
                 pBlock, exited>>

Count(c) ==
  /\ Goto(c, "count", "search")
  /\ CountDone' = CountDone + 1
  /\ Unlock(DoneLock)
  /\ PushWait' \in WakeProducer(PushWait)
  /\ PopWait' \in WakeNextConsumer(PopWait)
  /\ Unlock(StackLock)
  /\ UNCHANGED <<stackVars, searchVars, IterationsToGo, pBlock, exited>>

\* At the next match of the block the search takes FoundLock and CountFound++
\* reads the counter ...
MutSearchLock(c) ==
  /\ Goto(c, "search", "found")
  /\ Matched[c] < Occurrences[pBlock[c]]
  /\ found' = [found EXCEPT ![c] = CountFound]
  /\ UNCHANGED <<StackLock, DoneLock, FoundLock, stackVars, waitVars, CountDone,
                 CountFound, IterationsToGo, pBlock, Matched, exited>>
SearchLock(c) ==
  /\ Goto(c, "search", "found")
  /\ Matched[c] < Occurrences[pBlock[c]]
  /\ Lock(FoundLock, c)
  /\ found' = [found EXCEPT ![c] = CountFound]
  /\ UNCHANGED <<StackLock, DoneLock, stackVars, waitVars, CountDone, CountFound,
                 IterationsToGo, pBlock, Matched, exited>>

\* ... and writes it; what it read is forgotten.
SearchCount(c) ==
  /\ Goto(c, "found", "search")
  /\ CountFound' = found[c] + 1
  /\ Unlock(FoundLock)
  /\ Matched' = [Matched EXCEPT ![c] = @ + 1]
  /\ found' = [found EXCEPT ![c] = 0]
  /\ UNCHANGED <<StackLock, DoneLock, stackVars, waitVars, CountDone,
                 IterationsToGo, pBlock, exited>>

\* Behind the last match the block is freed.
SearchEnd(c) ==
  /\ Goto(c, "search", "loop")
  /\ Matched[c] >= Occurrences[pBlock[c]]
  /\ pBlock' = [pBlock EXCEPT ![c] = NoBlock]
  /\ Matched' = [Matched EXCEPT ![c] = 0]
  /\ UNCHANGED <<StackLock, DoneLock, FoundLock, stackVars, waitVars, CountDone,
                 CountFound, IterationsToGo, found, exited>>

-----------------------------------------------------------------------------
(* main: the threads are there from the start, since one that main has not *)
(* created yet is one that has not run yet.                                *)

\* Every consumer is joined; the producers are not.
MutMainExit ==
  /\ ~exited
  /\ \A p \in Producers : pc[p] = "done"
  /\ exited' = TRUE
  /\ UNCHANGED <<USE_CONDITION_VARS, StackLock, DoneLock, stackVars, waitVars,
                 countVars, pc, IterationsToGo, pBlock>>
MainExit ==
  /\ ~exited
  /\ \A c \in Consumers : pc[c] = "done"
  /\ exited' = TRUE
  /\ UNCHANGED <<USE_CONDITION_VARS, StackLock, DoneLock, stackVars, waitVars,
                 countVars, pc, IterationsToGo, pBlock>>

\* A process that has returned from main stays that way.
Exited == exited /\ UNCHANGED vars

Producer(p) ==
  \/ ProducerLock(p) \/ Push(p) \/ PushSleep(p) \/ PushWake(p)
  \/ PushRetry(p) \/ ProducerExit(p)

Consumer(c) ==
  \/ CheckLock(c) \/ Check(c) \/ PopLock(c) \/ PopTake(c)
  \/ PopEmptyLock(c) \/ PopFinish(c) \/ PopSleep(c) \/ PopWake(c)
  \/ PopNull(c) \/ CountLock(c) \/ Count(c) \/ SearchLock(c)
  \/ SearchCount(c) \/ SearchEnd(c)

Next ==
  \/ \E p \in Producers : Producer(p)
  \/ \E c \in Consumers : Consumer(c)
  \/ \E t \in Threads : SpuriousWake(t)
  \/ MainExit
  \/ Exited

Spec == Init /\ [][Next]_vars

\* The scheduler runs every thread that can run.
FairSpec ==
  /\ Spec
  /\ \A p \in Producers : WF_vars(Producer(p))
  /\ \A c \in Consumers : WF_vars(Consumer(c))
  /\ WF_vars(MainExit)

-----------------------------------------------------------------------------
(* Where the blocks are.                                                   *)

\* The blocks pushed so far, those on the stack, and those popped.
Pushed == { b \in Blocks : b[2] > IterationsToGo[b[1]] }
OnStack == { StackItems[i] : i \in 0..StackSize - 1 }
Popped == Pushed \ OnStack

\* A block that is popped and not counted yet: its consumer is between the
\* two halves of stack_ts_cv_pop.
Uncounted ==
  IF \E c \in Consumers : pc[c] \in {"popped", "count"} THEN 1 ELSE 0

\* The threads inside the section each mutex protects.
InStackSection(t) == pc[t] \in {"push", "pop", "empty", "popped", "count"}
InDoneSection(t) == pc[t] \in {"check", "empty", "count"}
InFoundSection(t) == pc[t] = "found"

ProducerPCs == {"loop", "push", "pushwait", "done"}
ConsumerPCs == {"loop", "check", "lockpop", "pop", "empty", "popwait",
                "popped", "count", "search", "found", "done"}

\* The values of the variables.
TypeOK ==
  /\ USE_CONDITION_VARS \in Builds
  /\ StackLock \in Threads \cup {NoThread}
  /\ DoneLock \in Consumers \cup {NoThread}
  /\ FoundLock \in Consumers \cup {NoThread}
  /\ StackItems \in [0..STACK_MAX_SIZE - 1 -> Blocks \cup {NoBlock}]
  /\ StackSize \in 0..STACK_MAX_SIZE
  /\ PushWait \in SUBSET Producers
  /\ PopWait \in SUBSET Consumers
  /\ CountDone \in Nat
  /\ CountFound \in Nat
  /\ pc \in [Threads -> ProducerPCs \cup ConsumerPCs]
  /\ \A p \in Producers : pc[p] \in ProducerPCs
  /\ \A c \in Consumers : pc[c] \in ConsumerPCs
  /\ IterationsToGo \in [Producers -> 0..Iterations]
  /\ pBlock \in [Consumers -> Blocks \cup {NoBlock}]
  /\ Matched \in [Consumers -> Nat]
  /\ found \in [Consumers -> Nat]
  /\ exited \in BOOLEAN

\* A thread is inside a section exactly when it owns that section's mutex, so
\* two threads never touch the stack, or one of the counters, at the same time.
MutualExclusion ==
  /\ \A t \in Threads : InStackSection(t) <=> StackLock = t
  /\ \A t \in Threads : InDoneSection(t) <=> DoneLock = t
  /\ \A t \in Threads : InFoundSection(t) <=> FoundLock = t

\* The stack holds distinct blocks, all of them pushed, and every block that
\* left it is counted once in CountDone; stack_ts_pop, the pop of the build
\* without condition variables, counts nothing.
Accounting ==
  /\ OnStack \subseteq Pushed
  /\ \A i, j \in 0..StackSize - 1 : StackItems[i] = StackItems[j] => i = j
  /\ CountDone + Uncounted =
       IF USE_CONDITION_VARS THEN Cardinality(Popped) ELSE 0

\* A consumer leaves only after every block of every producer was popped.
NoEarlyExit ==
  \A c \in Consumers : pc[c] = "done" => Popped = Blocks

\* No lost wake-up while there is work: a block on the stack always has a
\* consumer that is neither asleep nor gone.
NoStrandedBlock ==
  StackSize > 0 /\ Consumers # {} =>
    \E c \in Consumers : c \notin PopWait /\ pc[c] # "done"

\* No lost wake-up at the end: once the last block is counted, consumers that
\* still sleep have a woken one that is on its way to the broadcast.
NoStrandedConsumer ==
  WorkDone /\ PopWait # {} =>
    \E c \in Consumers \ PopWait : pc[c] \in {"popwait", "pop", "empty"}

\* The process ends (the joins of main return).
Termination == <>exited

\* The array and its fill level are a bounded stack: nothing is pushed past
\* the capacity, pushed twice, popped twice or popped out of order; with
\* fairness, every block is pushed and popped.
Stack == INSTANCE BoundedStack WITH
  Items <- Blocks, Capacity <- STACK_MAX_SIZE,
  stack <- [i \in 1..StackSize |-> StackItems[i - 1]],
  fresh <- Blocks \ Pushed, taken <- Popped
StackSpec == Stack!Spec
StackFairSpec == Stack!FairSpec
=============================================================================
