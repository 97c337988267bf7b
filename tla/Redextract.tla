----------------------------- MODULE Redextract -----------------------------
(***************************************************************************)
(* Project04/Code: redextract.  For every capture file in turn, main       *)
(* starts a producer thread that reads packets and pushes them on a shared *)
(* stack, and consumer threads that pop them and hand them to the table of *)
(* PacketTable; it joins the producer, raises two flags, broadcasts until  *)
(* one flag falls, and joins the consumers.  The table is tallied last.    *)
(*                                                                         *)
(* A step is what a thread does between two points where another thread    *)
(* can be seen.  The two flags are read and written without a lock, by     *)
(* code built without optimisation: each access happens in program order.  *)
(***************************************************************************)
EXTENDS PacketTable, Pthreads, Sequences

CONSTANTS
  Consumers,        \* the consumer threads, numThreads - 1 of them
  Producer,         \* the producer thread
  Files,            \* the capture files, in order: each a sequence of packets,
                    \* with NoPacket for a record too big for the buffer
  HeaderOK,         \* whether each file opens and starts with a pcap header
  EofPacket,        \* the object each file's last read fills, the one that
                    \* meets the end of the file before or inside the data
  MAX_SIZE,         \* slots of the shared stack
  SpuriousFiles     \* the files during which pthread_cond_wait may return
                    \* without a signal

Threads == Consumers \cup {Producer}

ASSUME RedextractAssumption ==
  /\ IsFiniteSet(Consumers) /\ Consumers # {}
  /\ Producer \notin Consumers /\ NoThread \notin Threads
  /\ MAX_SIZE \in Nat \ {0}
  /\ SpuriousFiles \subseteq DOMAIN Files
  /\ Files \in Seq(Seq(Packets \cup {NoPacket})) /\ Files # <<>>
  /\ HeaderOK \in [DOMAIN Files -> BOOLEAN]
  /\ EofPacket \in [DOMAIN Files -> Packets]

VARIABLES
  LockStack, LockTable,    \* the mutexes
  StackObjects,            \* the first StackNum slots of the shared array
  PushCond, PopCond,       \* the threads blocked on each condition
  FinishedFlag, Finished,  \* the flags main raises
  pc,                      \* where each thread is
  mainPc,                  \* where main is
  file,                    \* the file being processed
  next,                    \* the record the producer reads next
  currPacket               \* the packet each thread has in hand

condVars == <<PushCond, PopCond>>
flagVars == <<FinishedFlag, Finished>>
mainVars == <<mainPc, file>>
threadVars == <<LockStack, LockTable, StackObjects, condVars, flagVars, pc,
                mainVars, next, currPacket>>
vars == <<threadVars, tableVars>>

Init ==
  /\ LockStack = NoThread /\ LockTable = NoThread
  /\ StackObjects = <<>>
  /\ PushCond = {} /\ PopCond = {}
  /\ FinishedFlag = FALSE /\ Finished = FALSE
  /\ pc = [t \in Threads |-> "none"]
  /\ mainPc = "create"
  /\ file = 1 /\ next = 1
  /\ currPacket = [t \in Threads |-> NoPacket]
  /\ TableInit

StackNum == Len(StackObjects)

\* Everything readNextPacket returns for a file: feof is true only after a
\* read has failed, and the packet of that read is returned too.  It has no
\* bytes if the file ends after a record, else what there is of the last one.
Reads(f) == IF HeaderOK[f] THEN Files[f] \o <<EofPacket[f]>> ELSE <<>>

\* Every packet is an object of its own, allocated when it is read.
ASSUME ReadsAssumption ==
  \A f, g \in DOMAIN Files : \A i \in DOMAIN Reads(f), j \in DOMAIN Reads(g) :
    Reads(f)[i] = Reads(g)[j] /\ Reads(f)[i] # NoPacket => f = g /\ i = j

\* Thread t moves from one control point to another.
Goto(t, from, to) == pc[t] = from /\ pc' = [pc EXCEPT ![t] = to]
MainGoto(from, to) == mainPc = from /\ mainPc' = to

-----------------------------------------------------------------------------
(* The producer: thread_producer and readPcapFile.  A definition named     *)
(* Mut... is a plausible slip in the one after it.                         *)

\* readNextPacket: a record that is too big is discarded and NULL returned.
ReadPacket ==
  /\ next <= Len(Reads(file))
  /\ next' = next + 1
  /\ currPacket' = [currPacket EXCEPT ![Producer] = Reads(file)[next]]
  /\ Goto(Producer, "read",
          IF Reads(file)[next] = NoPacket THEN "read" ELSE "push")
  /\ UNCHANGED <<LockStack, LockTable, StackObjects, condVars, flagVars,
                 mainVars, tableVars>>

PushLock ==
  /\ Goto(Producer, "push", "pushing")
  /\ Lock(LockStack, Producer)
  /\ UNCHANGED <<LockTable, StackObjects, condVars, flagVars, mainVars,
                 next, currPacket, tableVars>>

\* The waiters left on PopCond after the signal of a push.
MutSignalPop(W) == {W}
SignalPop(W) == Signal(W)

MutStackFull == StackNum > MAX_SIZE
StackFull == StackNum >= MAX_SIZE

PushStore ==
  /\ ~StackFull
  /\ Goto(Producer, "pushing", "read")
  /\ StackObjects' = Append(StackObjects, currPacket[Producer])
  /\ PopCond' \in SignalPop(PopCond)
  /\ Unlock(LockStack)
  /\ currPacket' = [currPacket EXCEPT ![Producer] = NoPacket]
  /\ UNCHANGED <<LockTable, PushCond, flagVars, mainVars, next, tableVars>>

PushSleep ==
  /\ StackFull
  /\ Goto(Producer, "pushing", "pushwait")
  /\ PushCond' = PushCond \cup {Producer}
  /\ Unlock(LockStack)
  /\ UNCHANGED <<LockTable, StackObjects, PopCond, flagVars, mainVars, next,
                 currPacket, tableVars>>

PushWake ==
  /\ Producer \notin PushCond
  /\ Goto(Producer, "pushwait", "pushing")
  /\ Lock(LockStack, Producer)
  /\ UNCHANGED <<LockTable, StackObjects, condVars, flagVars, mainVars,
                 next, currPacket, tableVars>>

ProducerExit ==
  /\ next > Len(Reads(file))
  /\ Goto(Producer, "read", "gone")
  /\ UNCHANGED <<LockStack, LockTable, StackObjects, condVars, flagVars,
                 mainVars, next, currPacket, tableVars>>

-----------------------------------------------------------------------------
(* The consumers: thread_consumer.                                         *)

PopLock(c) ==
  /\ Goto(c, "loop", "popping")
  /\ Lock(LockStack, c)
  /\ UNCHANGED <<LockTable, StackObjects, condVars, flagVars, mainVars,
                 next, currPacket, tableVars>>

\* The stack is empty: sleep, without a look at the flags.
PopSleep(c) ==
  /\ StackNum <= 0
  /\ Goto(c, "popping", "popwait")
  /\ PopCond' = PopCond \cup {c}
  /\ Unlock(LockStack)
  /\ UNCHANGED <<LockTable, StackObjects, PushCond, flagVars, mainVars,
                 next, currPacket, tableVars>>

PopWake(c) ==
  /\ c \notin PopCond
  /\ Goto(c, "popwait", "woken")
  /\ Lock(LockStack, c)
  /\ UNCHANGED <<LockTable, StackObjects, condVars, flagVars, mainVars,
                 next, currPacket, tableVars>>

\* The test after the wait.
MutMayLeave == FinishedFlag
MayLeave == StackNum = 0 /\ FinishedFlag

\* It holds: lower the flag main is spinning on, and return.
PopLeave(c) ==
  /\ MayLeave
  /\ Goto(c, "woken", "leaving")
  /\ UNCHANGED <<LockStack, LockTable, StackObjects, condVars, flagVars,
                 mainVars, next, currPacket, tableVars>>

PopReturn(c) ==
  /\ Goto(c, "leaving", "gone")
  /\ Finished' = FALSE
  /\ Unlock(LockStack)
  /\ UNCHANGED <<LockTable, StackObjects, condVars, FinishedFlag, mainVars,
                 next, currPacket, tableVars>>

\* It does not: back to the loop condition.
PopRetest(c) ==
  /\ ~MayLeave
  /\ Goto(c, "woken", "popping")
  /\ UNCHANGED <<LockStack, LockTable, StackObjects, condVars, flagVars,
                 mainVars, next, currPacket, tableVars>>

\* Take the packet pushed last, tell the producer there is room.
MutPopTake(c) ==
  /\ StackNum > 0
  /\ Goto(c, "popping", "table")
  /\ currPacket' = [currPacket EXCEPT ![c] = StackObjects[StackNum]]
  /\ PushCond' \in Signal(PushCond)
  /\ Unlock(LockStack)
  /\ UNCHANGED <<StackObjects, LockTable, PopCond, flagVars, mainVars, next,
                 tableVars>>
PopTake(c) ==
  /\ StackNum > 0
  /\ Goto(c, "popping", "table")
  /\ currPacket' = [currPacket EXCEPT ![c] = StackObjects[StackNum]]
  /\ StackObjects' = SubSeq(StackObjects, 1, StackNum - 1)
  /\ PushCond' \in Signal(PushCond)
  /\ Unlock(LockStack)
  /\ UNCHANGED <<LockTable, PopCond, flagVars, mainVars, next, tableVars>>

MutTableLock(c) ==
  /\ Goto(c, "table", "processing")
  /\ LockTable' = c
  /\ UNCHANGED <<LockStack, StackObjects, condVars, flagVars, mainVars,
                 next, currPacket, tableVars>>
TableLock(c) ==
  /\ Goto(c, "table", "processing")
  /\ Lock(LockTable, c)
  /\ UNCHANGED <<LockStack, StackObjects, condVars, flagVars, mainVars,
                 next, currPacket, tableVars>>

Process(c) ==
  /\ Goto(c, "processing", "loop")
  /\ processPacket(currPacket[c])
  /\ Unlock(LockTable)
  /\ currPacket' = [currPacket EXCEPT ![c] = NoPacket]
  /\ UNCHANGED <<LockStack, StackObjects, condVars, flagVars, mainVars, next>>

-----------------------------------------------------------------------------
(* main and PcapFileProcess.                                               *)

\* The threads are there as soon as the producer is created: one that is
\* created later is one that has not run yet.
CreateThreads ==
  /\ MainGoto("create", "joinProducer")
  /\ pc' = [t \in Threads |-> IF t = Producer THEN "read" ELSE "loop"]
  /\ next' = 1
  /\ UNCHANGED <<LockStack, LockTable, StackObjects, condVars, flagVars,
                 file, currPacket, tableVars>>

JoinProducer ==
  /\ pc[Producer] = "gone"
  /\ MainGoto("joinProducer", "raiseFlag")
  /\ UNCHANGED <<LockStack, LockTable, StackObjects, condVars, flagVars, pc,
                 file, next, currPacket, tableVars>>

RaiseFinishedFlag ==
  /\ MainGoto("raiseFlag", "raiseFinished")
  /\ FinishedFlag' = TRUE
  /\ UNCHANGED <<LockStack, LockTable, StackObjects, condVars, Finished, pc,
                 file, next, currPacket, tableVars>>

RaiseFinished ==
  /\ MainGoto("raiseFinished", "test")
  /\ Finished' = TRUE
  /\ UNCHANGED <<LockStack, LockTable, StackObjects, condVars, FinishedFlag,
                 pc, file, next, currPacket, tableVars>>

\* while (Finished) broadcast
TestFinished ==
  /\ MainGoto("test", IF Finished THEN "broadcast" ELSE "joinConsumers")
  /\ UNCHANGED <<LockStack, LockTable, StackObjects, condVars, flagVars, pc,
                 file, next, currPacket, tableVars>>

MutBroadcastPop ==
  /\ MainGoto("broadcast", "joinConsumers")
  /\ PopCond' = Broadcast(PopCond)
  /\ UNCHANGED <<LockStack, LockTable, StackObjects, PushCond, flagVars, pc,
                 file, next, currPacket, tableVars>>
BroadcastPop ==
  /\ MainGoto("broadcast", "test")
  /\ PopCond' = Broadcast(PopCond)
  /\ UNCHANGED <<LockStack, LockTable, StackObjects, PushCond, flagVars, pc,
                 file, next, currPacket, tableVars>>

\* Every consumer is joined: on to the next file of the list, or to the tally.
MutJoinConsumers ==
  /\ MainGoto("joinConsumers", IF file < Len(Files) THEN "create" ELSE "tally")
  /\ file' = IF file < Len(Files) THEN file + 1 ELSE file
  /\ UNCHANGED <<LockStack, LockTable, StackObjects, condVars, flagVars, pc,
                 next, currPacket, tableVars>>
JoinConsumers ==
  /\ \A c \in Consumers : pc[c] = "gone"
  /\ MainGoto("joinConsumers", IF file < Len(Files) THEN "create" ELSE "tally")
  /\ file' = IF file < Len(Files) THEN file + 1 ELSE file
  /\ UNCHANGED <<LockStack, LockTable, StackObjects, condVars, flagVars, pc,
                 next, currPacket, tableVars>>

\* tallyProcessing, one entry at a time; then main reports and returns.
TallyOne == mainPc = "tally" /\ TallyEntry /\ UNCHANGED threadVars

Done == mainPc = "tally" /\ tallied = BigTableSize

MainReturned == Done /\ UNCHANGED vars

\* pthread_cond_wait may end without a signal.
SpuriousWake(t) ==
  /\ file \in SpuriousFiles
  /\ t \in PushCond \cup PopCond
  /\ PushCond' = PushCond \ {t}
  /\ PopCond' = PopCond \ {t}
  /\ UNCHANGED <<LockStack, LockTable, StackObjects, flagVars, pc, mainVars,
                 next, currPacket, tableVars>>

ProducerStep ==
  \/ ReadPacket \/ PushLock \/ PushStore \/ PushSleep \/ PushWake
  \/ ProducerExit

ConsumerStep(c) ==
  \/ PopLock(c) \/ PopSleep(c) \/ PopWake(c) \/ PopLeave(c) \/ PopReturn(c)
  \/ PopRetest(c) \/ PopTake(c) \/ TableLock(c) \/ Process(c)

MainStep ==
  \/ CreateThreads \/ JoinProducer \/ RaiseFinishedFlag \/ RaiseFinished
  \/ TestFinished \/ BroadcastPop \/ JoinConsumers \/ TallyOne

Next ==
  \/ ProducerStep
  \/ \E c \in Consumers : ConsumerStep(c)
  \/ MainStep
  \/ \E t \in Threads : SpuriousWake(t)
  \/ MainReturned

Spec == Init /\ [][Next]_vars

\* The scheduler runs every thread that can run.
FairSpec ==
  /\ Spec
  /\ WF_vars(ProducerStep)
  /\ \A c \in Consumers : WF_vars(ConsumerStep(c))
  /\ WF_vars(MainStep)

-----------------------------------------------------------------------------
ProducerPCs == {"none", "read", "push", "pushing", "pushwait", "gone"}
ConsumerPCs == {"none", "loop", "popping", "popwait", "woken", "leaving",
                "table", "processing", "gone"}
MainPCs == {"create", "joinProducer", "raiseFlag", "raiseFinished", "test",
            "broadcast", "joinConsumers", "tally"}

\* The values of the variables.
TypeOK ==
  /\ TableTypeOK
  /\ LockStack \in Threads \cup {NoThread}
  /\ LockTable \in Consumers \cup {NoThread}
  /\ StackObjects \in Seq(Packets) /\ StackNum <= MAX_SIZE
  /\ PushCond \in SUBSET {Producer}
  /\ PopCond \in SUBSET Consumers
  /\ FinishedFlag \in BOOLEAN /\ Finished \in BOOLEAN
  /\ pc \in [Threads -> ProducerPCs \cup ConsumerPCs]
  /\ pc[Producer] \in ProducerPCs
  /\ \A c \in Consumers : pc[c] \in ConsumerPCs
  /\ mainPc \in MainPCs
  /\ file \in DOMAIN Files
  /\ next \in Nat
  /\ currPacket \in [Threads -> Packets \cup {NoPacket}]

\* The threads inside the section each mutex protects.
InStackSection(t) == pc[t] \in {"pushing", "popping", "woken", "leaving"}
InTableSection(t) == pc[t] = "processing"

\* A thread is inside a section exactly when it owns that section's mutex.
MutualExclusion ==
  \A t \in Threads : /\ InStackSection(t) <=> LockStack = t
                     /\ InTableSection(t) <=> LockTable = t

\* A packet on the stack always has a consumer that is neither asleep nor gone,
\* although consumers sleep without a look at the flags.
NoStrandedPacket ==
  StackNum > 0 => \E c \in Consumers : c \notin PopCond /\ pc[c] # "gone"

\* A consumer can leave early, with a flag left over from the previous file;
\* the last one never does while the producer still has packets to hand over.
SomeConsumerStays ==
  pc[Producer] \notin {"none", "gone"} \/ StackNum > 0 =>
    \E c \in Consumers : pc[c] # "gone"

\* The packets that were read from the files so far, or will be.
ReadFrom(f) == { Reads(f)[i] : i \in DOMAIN Reads(f) } \ {NoPacket}
AllRead == UNION { ReadFrom(f) : f \in DOMAIN Files }

\* When main tallies, every packet of every file has been through the table,
\* and the consumers that could still change it are gone.
AllProcessed ==
  mainPc = "tally" =>
    /\ AllRead \cap Fated("new") = {}
    /\ \A t \in Threads : pc[t] = "gone"

\* The comment of main.c:131 has the flags let the consumers know that the
\* producer is done: no consumer returns before that.
NoEarlyReturn ==
  \A c \in Consumers : pc[c] = "gone" => pc[Producer] = "gone"

\* The joins of main.c:140-143 return, and the report is printed.
Termination == <>Done

\* Between them, the array, its fill level and the two conditions are a
\* bounded stack: no packet is lost, duplicated or handed out twice.
Unread ==
  { p \in AllRead : \E f \in DOMAIN Files : \E i \in DOMAIN Reads(f) :
      /\ Reads(f)[i] = p
      /\ f >= file
      /\ f = file => mainPc = "create" \/ i >= next }
Fresh == Unread \cup ({currPacket[Producer]} \ {NoPacket})
Taken ==
  ({ currPacket[c] : c \in Consumers } \ {NoPacket}) \cup
  { p \in AllRead : fate[p] # "new" }
Stack == INSTANCE BoundedStack WITH
  Items <- AllRead, Capacity <- MAX_SIZE,
  stack <- StackObjects, fresh <- Fresh, taken <- Taken
StackSpec == Stack!Spec
=============================================================================
