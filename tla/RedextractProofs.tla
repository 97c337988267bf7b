-------------------------- MODULE RedextractProofs --------------------------
(***************************************************************************)
(* Theorems about Redextract, for any number of consumers, files, packets  *)
(* and stack slots.                                                        *)
(***************************************************************************)
EXTENDS Redextract, PacketTableProofs, SequenceTheorems

(***************************************************************************)
(* The inductive invariant, in named parts.                                *)
(***************************************************************************)

\* A thread has a packet in hand exactly while it pushes or processes it.
Hands ==
  /\ currPacket[Producer] # NoPacket <=>
       pc[Producer] \in {"push", "pushing", "pushwait"}
  /\ \A c \in Consumers :
       currPacket[c] # NoPacket <=> pc[c] \in {"table", "processing"}

\* Whoever is blocked on a condition is inside its wait.
Waiting ==
  /\ \A t \in PushCond : pc[t] = "pushwait"
  /\ \A c \in PopCond : pc[c] = "popwait"

\* Where the threads are while main is at each of its steps.
Phases ==
  /\ mainPc = "create" =>
       \/ \A t \in Threads : pc[t] = "none"
       \/ \A t \in Threads : pc[t] = "gone"
  /\ mainPc # "create" => \A t \in Threads : pc[t] # "none"
  /\ mainPc \notin {"create", "joinProducer"} => pc[Producer] = "gone"
  /\ mainPc = "tally" =>
       file = Len(Files) /\ \A t \in Threads : pc[t] = "gone"
  /\ mainPc # "create" /\ pc[Producer] = "gone" => next > Len(Reads(file))
  /\ mainPc # "tally" => tallied = 0
  /\ next >= 1

\* A packet that is still to be read, on the stack, or in hand is new, and in
\* one of these places only, once ...
OnStack(p) == \E i \in 1..StackNum : StackObjects[i] = p
InHand(p) == \E t \in Threads : currPacket[t] = p

Apart ==
  /\ \A p \in Unread : fate[p] = "new" /\ ~OnStack(p) /\ ~InHand(p)
  /\ \A i \in 1..StackNum :
       /\ fate[StackObjects[i]] = "new" /\ StackObjects[i] \in AllRead
       /\ ~InHand(StackObjects[i])
       /\ \A j \in 1..StackNum : StackObjects[j] = StackObjects[i] => j = i
  /\ \A t \in Threads : currPacket[t] # NoPacket =>
       /\ fate[currPacket[t]] = "new" /\ currPacket[t] \in AllRead
       /\ \A u \in Threads : currPacket[u] = currPacket[t] => u = t

\* ... and a packet that is still new is in one of them.
Covered ==
  \A p \in AllRead : fate[p] = "new" => p \in Unread \/ OnStack(p) \/ InHand(p)

ThreadInv ==
  /\ TypeOK /\ MemoryInv /\ Hands /\ Waiting /\ MutualExclusion /\ Phases
  /\ Apart /\ Covered

-----------------------------------------------------------------------------
(* What is read.                                                           *)

\* What a file yields is a sequence of packets and records too big.
LEMMA ReadsType ==
  ASSUME NEW f \in DOMAIN Files
  PROVE  Reads(f) \in Seq(Packets \cup {NoPacket})
<1> DEFINE R == Packets \cup {NoPacket}
<1>1. Files[f] \in Seq(R) /\ EofPacket[f] \in R
  BY RedextractAssumption
<1> HIDE DEF R
<1>2. <<EofPacket[f]>> \in Seq(R)
  BY <1>1
<1>3. Files[f] \o <<EofPacket[f]>> \in Seq(R)
  BY <1>1, <1>2
<1>4. Reads(f) \in Seq(R)
  BY <1>3 DEF Reads
<1> QED
  BY <1>4 DEF R

\* All that is read is packets.
LEMMA AllReadPackets == AllRead \subseteq Packets /\ NoPacket \notin AllRead
<1>1. ASSUME NEW f \in DOMAIN Files, NEW i \in DOMAIN Reads(f)
      PROVE  Reads(f)[i] \in Packets \cup {NoPacket}
  BY ReadsType
<1> QED
  BY <1>1 DEF AllRead, ReadFrom

\* A pop leaves the packets below the one it takes.
LEMMA AllButLast ==
  ASSUME NEW S, NEW s \in Seq(S), Len(s) > 0
  PROVE  /\ SubSeq(s, 1, Len(s) - 1) \in Seq(S)
         /\ Len(SubSeq(s, 1, Len(s) - 1)) = Len(s) - 1
         /\ \A i \in 1..Len(s) - 1 : SubSeq(s, 1, Len(s) - 1)[i] = s[i]
<1> DEFINE n == Len(s) - 1
<1>1. n \in Int /\ n >= 0 /\ \A i \in 1..n : s[i] \in S
  OBVIOUS
<1> HIDE DEF n
<1>2. /\ SubSeq(s, 1, n) \in Seq(S)
      /\ Len(SubSeq(s, 1, n)) = IF 1 <= n THEN n - 1 + 1 ELSE 0
      /\ \A i \in 1..n - 1 + 1 : SubSeq(s, 1, n)[i] = s[1 + i - 1]
  BY <1>1, SubSeqProperties
<1>3. Len(SubSeq(s, 1, n)) = n /\ \A i \in 1..n : SubSeq(s, 1, n)[i] = s[i]
  BY <1>1, <1>2
<1> QED
  BY <1>2, <1>3 DEF n

\* The packets unread change only when one is read, not with the position of
\* main, except between files.
LEMMA UnreadSame ==
  ASSUME UNCHANGED <<file, next>>, mainPc = "create" <=> mainPc' = "create"
  PROVE  Unread' = Unread
BY DEF Unread

\* The read of a packet takes just that packet from the unread.
LEMMA UnreadRead ==
  ASSUME TypeOK, mainPc # "create", next <= Len(Reads(file)), next >= 1,
         next' = next + 1, UNCHANGED <<file, mainPc>>
  PROVE  /\ Unread' = Unread \ {Reads(file)[next]}
         /\ Reads(file)[next] # NoPacket => Reads(file)[next] \in Unread
<1> DEFINE n == next
<1>1. file \in DOMAIN Files /\ n \in Nat
  BY DEF TypeOK
<1>2. n \in DOMAIN Reads(file)
  BY <1>1, ReadsType
<1>3. Reads(file)[n] # NoPacket => Reads(file)[n] \in AllRead
  BY <1>1, <1>2 DEF AllRead, ReadFrom
<1>4. \A f \in DOMAIN Files : \A i \in DOMAIN Reads(f) : f \in Int /\ i \in Int
  BY ReadsType, RedextractAssumption
<1>5. \A p \in AllRead : p # NoPacket
  BY AllReadPackets
<1>6. \A f \in DOMAIN Files : \A i \in DOMAIN Reads(f) :
        Reads(f)[i] = Reads(file)[n] /\ Reads(f)[i] # NoPacket => f = file /\ i = n
  BY <1>1, <1>2, ReadsAssumption
<1> QED
  BY <1>1, <1>2, <1>3, <1>4, <1>5, <1>6 DEF Unread

\* Nothing of a file that is read to its end is unread, whether or not main has
\* gone on to the next.
LEMMA UnreadNextFile ==
  ASSUME TypeOK, mainPc = "joinConsumers", next > Len(Reads(file)),
         next' = next, file' = file + 1, mainPc' = "create"
  PROVE  Unread' = Unread
<1>1. file \in DOMAIN Files /\ next \in Nat
  BY DEF TypeOK
<1>2. \A f \in DOMAIN Files : \A i \in DOMAIN Reads(f) :
        f \in Int /\ i \in Int /\ i <= Len(Reads(f))
  BY ReadsType, RedextractAssumption
<1>3. file \in Int /\ Len(Reads(file)) \in Nat
  BY <1>1, ReadsType, RedextractAssumption
<1> QED
  BY <1>1, <1>2, <1>3 DEF Unread

\* Creating the threads makes nothing unread again.
LEMMA UnreadCreate ==
  ASSUME mainPc = "create", mainPc' = "joinProducer", next' = 1, file' = file
  PROVE  Unread' = Unread
<1>1. \A f \in DOMAIN Files : \A i \in DOMAIN Reads(f) : i >= 1
  BY ReadsType
<1> QED
  BY <1>1 DEF Unread

-----------------------------------------------------------------------------
(* Each part is preserved by every step.                                   *)

\* A signal wakes nobody but waiters.
LEMMA SignalShrinks ==
  ASSUME NEW W, NEW V \in Signal(W)
  PROVE  V \subseteq W
BY DEF Signal

\* The variables keep their types, and packets are in hand where they should be.
LEMMA TypeStep ==
  ASSUME ThreadInv, MemoryInv', [Next]_vars
  PROVE  TypeOK' /\ Hands'
<1> USE RedextractAssumption, PacketTableAssumption
    DEF ThreadInv, TypeOK, Hands, Goto, MainGoto, Threads, StackNum,
        ProducerPCs, ConsumerPCs, MainPCs, Lock, Unlock, condVars, flagVars, mainVars
<1>0. TableTypeOK'
  BY DEF MemoryInv
<1>1. CASE ReadPacket
  <2>1. Reads(file)[next] \in Packets \cup {NoPacket}
    BY <1>1, ReadsType DEF ReadPacket, Phases
  <2>2. /\ currPacket' \in [Threads -> Packets \cup {NoPacket}]
        /\ next' \in Nat
    BY <1>1, <2>1 DEF ReadPacket
  <2>4. TypeOK'
    BY <1>0, <1>1, <2>2 DEF ReadPacket
  <2>3. Hands'
    BY <1>1, <2>1 DEF ReadPacket
  <2> QED
    BY <2>3, <2>4
<1>2. CASE PushLock
  BY <1>0, <1>2 DEF PushLock
<1>3. CASE PushStore
  <2>1. currPacket[Producer] \in Packets
    BY <1>3 DEF PushStore
  <2>2. StackObjects' \in Seq(Packets) /\ Len(StackObjects') <= MAX_SIZE
    BY <1>3, <2>1 DEF PushStore, StackFull
  <2>3. PopCond' \subseteq PopCond
    BY <1>3, SignalShrinks DEF PushStore, SignalPop
  <2> QED
    BY <1>0, <1>3, <2>2, <2>3 DEF PushStore, Unlock
<1>4. CASE PushSleep
  BY <1>0, <1>4 DEF PushSleep
<1>5. CASE PushWake
  BY <1>0, <1>5 DEF PushWake
<1>6. CASE ProducerExit
  BY <1>0, <1>6 DEF ProducerExit
<1>7. ASSUME NEW c \in Consumers, PopLock(c) PROVE TypeOK' /\ Hands'
  BY <1>0, <1>7 DEF PopLock
<1>8. ASSUME NEW c \in Consumers, PopSleep(c) PROVE TypeOK' /\ Hands'
  BY <1>0, <1>8 DEF PopSleep
<1>9. ASSUME NEW c \in Consumers, PopWake(c) PROVE TypeOK' /\ Hands'
  BY <1>0, <1>9 DEF PopWake
<1>10. ASSUME NEW c \in Consumers, PopLeave(c) PROVE TypeOK' /\ Hands'
  BY <1>0, <1>10 DEF PopLeave
<1>11. ASSUME NEW c \in Consumers, PopRetest(c) PROVE TypeOK' /\ Hands'
  BY <1>0, <1>11 DEF PopRetest
<1>11a. ASSUME NEW c \in Consumers, PopReturn(c) PROVE TypeOK' /\ Hands'
  BY <1>0, <1>11a DEF PopReturn
<1>12. ASSUME NEW c \in Consumers, PopTake(c) PROVE TypeOK' /\ Hands'
  <2>1. StackObjects[StackNum] \in Packets
    BY <1>12 DEF PopTake
  <2>2. StackObjects' \in Seq(Packets) /\ Len(StackObjects') <= MAX_SIZE
    <3>1. StackObjects' = SubSeq(StackObjects, 1, Len(StackObjects) - 1)
      BY <1>12 DEF PopTake
    <3>2. /\ StackObjects \in Seq(Packets) /\ Len(StackObjects) > 0
          /\ Len(StackObjects) <= MAX_SIZE
      BY <1>12 DEF PopTake
    <3> HIDE DEF ThreadInv
    <3> QED
      BY <3>1, <3>2, AllButLast
  <2>3. PushCond' \subseteq PushCond
    BY <1>12, SignalShrinks DEF PopTake
  <2> QED
    BY <1>0, <1>12, <2>1, <2>2, <2>3 DEF PopTake, Unlock
<1>13. ASSUME NEW c \in Consumers, TableLock(c) PROVE TypeOK' /\ Hands'
  BY <1>0, <1>13 DEF TableLock
<1>14. ASSUME NEW c \in Consumers, Process(c) PROVE TypeOK' /\ Hands'
  BY <1>0, <1>14 DEF Process
<1>15. CASE CreateThreads
  BY <1>0, <1>15 DEF CreateThreads, Phases
<1>16. CASE JoinProducer
  BY <1>0, <1>16 DEF JoinProducer
<1>17. CASE RaiseFinishedFlag
  BY <1>0, <1>17 DEF RaiseFinishedFlag
<1>18. CASE RaiseFinished
  BY <1>0, <1>18 DEF RaiseFinished
<1>19. CASE TestFinished
  BY <1>0, <1>19 DEF TestFinished
<1>20. CASE BroadcastPop
  BY <1>0, <1>20 DEF BroadcastPop, Broadcast
<1>21. CASE JoinConsumers
  BY <1>0, <1>21 DEF JoinConsumers
<1>22. CASE TallyOne
  BY <1>0, <1>22 DEF TallyOne, threadVars
<1>23. ASSUME NEW t \in Threads, SpuriousWake(t) PROVE TypeOK' /\ Hands'
  BY <1>0, <1>23 DEF SpuriousWake
<1>24. CASE UNCHANGED vars
  BY <1>0, <1>24 DEF vars, threadVars
<1> QED
  BY <1>1, <1>2, <1>3, <1>4, <1>5, <1>6, <1>7, <1>8, <1>9, <1>10, <1>11, <1>12,
     <1>13, <1>14, <1>15, <1>16, <1>17, <1>18, <1>19, <1>20, <1>21, <1>22, <1>23, <1>24,
     <1>11a DEF Next, ProducerStep, ConsumerStep, MainStep, MainReturned

\* The mutexes, the wait sets and the phases of main, step by step.
LEMMA ControlStep ==
  ASSUME ThreadInv, [Next]_vars
  PROVE  Waiting' /\ MutualExclusion' /\ Phases'
<1> USE RedextractAssumption
    DEF ThreadInv, TypeOK, Waiting, MutualExclusion, Phases, Goto, MainGoto,
        Threads, StackNum, ProducerPCs, ConsumerPCs, MainPCs, InStackSection,
        InTableSection, Lock, Unlock, condVars, flagVars, mainVars, tableVars
<1>1. CASE ReadPacket
  BY <1>1 DEF ReadPacket
<1>2. CASE PushLock
  BY <1>2 DEF PushLock
<1>3. CASE PushStore
  BY <1>3, SignalShrinks DEF PushStore, SignalPop
<1>4. CASE PushSleep
  BY <1>4 DEF PushSleep
<1>5. CASE PushWake
  BY <1>5 DEF PushWake
<1>6. CASE ProducerExit
  BY <1>6 DEF ProducerExit
<1>7. ASSUME NEW c \in Consumers, PopLock(c)
      PROVE  Waiting' /\ MutualExclusion' /\ Phases'
  BY <1>7 DEF PopLock
<1>8. ASSUME NEW c \in Consumers, PopSleep(c)
      PROVE  Waiting' /\ MutualExclusion' /\ Phases'
  <2>1. Waiting'
    BY <1>8 DEF PopSleep
  <2>2. MutualExclusion'
    <3>1. /\ \A t \in Threads : pc'[t] = IF t = c THEN "popwait" ELSE pc[t]
          /\ LockStack' = NoThread /\ LockTable' = LockTable
      BY <1>8 DEF PopSleep
    <3>2. MutualExclusion /\ LockStack = c /\ LockTable # c /\ NoThread \notin Threads
      BY <1>8 DEF PopSleep
    <3> HIDE DEF ThreadInv
    <3> QED
      BY <3>1, <3>2
  <2>3. Phases'
    BY <1>8 DEF PopSleep
  <2> QED
    BY <2>1, <2>2, <2>3
<1>9. ASSUME NEW c \in Consumers, PopWake(c)
      PROVE  Waiting' /\ MutualExclusion' /\ Phases'
  BY <1>9 DEF PopWake
<1>10. ASSUME NEW c \in Consumers, PopLeave(c)
       PROVE  Waiting' /\ MutualExclusion' /\ Phases'
  BY <1>10 DEF PopLeave
<1>11. ASSUME NEW c \in Consumers, PopRetest(c)
       PROVE  Waiting' /\ MutualExclusion' /\ Phases'
  BY <1>11 DEF PopRetest
<1>11a. ASSUME NEW c \in Consumers, PopReturn(c)
       PROVE  Waiting' /\ MutualExclusion' /\ Phases'
  BY <1>11a DEF PopReturn
<1>12. ASSUME NEW c \in Consumers, PopTake(c)
       PROVE  Waiting' /\ MutualExclusion' /\ Phases'
  BY <1>12, SignalShrinks DEF PopTake
<1>13. ASSUME NEW c \in Consumers, TableLock(c)
       PROVE  Waiting' /\ MutualExclusion' /\ Phases'
  BY <1>13 DEF TableLock
<1>14. ASSUME NEW c \in Consumers, Process(c)
       PROVE  Waiting' /\ MutualExclusion' /\ Phases'
  BY <1>14 DEF Process, processPacket
<1>15. CASE CreateThreads
  BY <1>15 DEF CreateThreads
<1>16. CASE JoinProducer
  BY <1>16 DEF JoinProducer
<1>17. CASE RaiseFinishedFlag
  BY <1>17 DEF RaiseFinishedFlag
<1>18. CASE RaiseFinished
  BY <1>18 DEF RaiseFinished
<1>19. CASE TestFinished
  BY <1>19 DEF TestFinished
<1>20. CASE BroadcastPop
  BY <1>20 DEF BroadcastPop, Broadcast
<1>21. CASE JoinConsumers
  BY <1>21 DEF JoinConsumers
<1>22. CASE TallyOne
  BY <1>22 DEF TallyOne, threadVars
<1>23. ASSUME NEW t \in Threads, SpuriousWake(t)
       PROVE  Waiting' /\ MutualExclusion' /\ Phases'
  BY <1>23 DEF SpuriousWake
<1>24. CASE UNCHANGED vars
  BY <1>24 DEF vars, threadVars
<1> QED
  BY <1>1, <1>2, <1>3, <1>4, <1>5, <1>6, <1>7, <1>8, <1>9, <1>10, <1>11, <1>12,
     <1>13, <1>14, <1>15, <1>16, <1>17, <1>18, <1>19, <1>20, <1>21, <1>22, <1>23, <1>24,
     <1>11a DEF Next, ProducerStep, ConsumerStep, MainStep, MainReturned

-----------------------------------------------------------------------------
(* The packets, and the table and the stack they go through.               *)

\* Only a consumer inside its section, and main after the joins, change the
\* table, and a packet that is handed to it is new.
LEMMA TableStep ==
  ASSUME ThreadInv, [Next]_vars
  PROVE  [TableNext]_tableVars
<1>1. ASSUME NEW c \in Consumers, Process(c)
      PROVE  TableNext
  <2>1. pc[c] = "processing" /\ c \in Threads
    BY <1>1 DEF Process, Goto, Threads
  <2>2. tallied = 0
    BY <2>1 DEF ThreadInv, Phases
  <2>3. currPacket[c] \in Packets /\ fate[currPacket[c]] = "new"
    BY <2>1 DEF ThreadInv, Hands, Apart, TypeOK
  <2> QED
    BY <1>1, <2>2, <2>3 DEF Process, TableNext
<1>2. CASE TallyOne
  BY <1>2 DEF TallyOne, TableNext
<1>3. \/ UNCHANGED tableVars \/ TallyOne
      \/ \E c \in Consumers : Process(c)
  BY DEF Next, ProducerStep, ConsumerStep, MainStep, MainReturned, SpuriousWake,
     ReadPacket, PushLock, PushStore, PushSleep, PushWake, ProducerExit,
     PopLock, PopSleep, PopWake, PopLeave, PopReturn, PopRetest, PopTake, TableLock,
     CreateThreads, JoinProducer, RaiseFinishedFlag, RaiseFinished,
     TestFinished, BroadcastPop, JoinConsumers, vars
<1> QED
  BY <1>1, <1>2, <1>3

\* What processPacket makes of a packet is never new again.
LEMMA ProcessFate ==
  ASSUME NEW p \in Packets, MemoryInv, processPacket(p)
  PROVE  /\ fate'[p] # "new"
         /\ \A q \in Packets : q # p => fate'[q] = fate[q]
BY DEF MemoryInv, TableTypeOK, processPacket, ProcessIgnored, ProcessStored,
   ProcessHit, ProcessDropped, Became

\* The steps that move no packet.
NothingMoves ==
  UNCHANGED <<StackObjects, currPacket, fate>> /\ Unread' = Unread

\* A packet moves when it is read, pushed, popped or processed.
LEMMA StepKinds ==
  ASSUME ThreadInv, [Next]_vars
  PROVE  \/ NothingMoves \/ ReadPacket \/ PushStore
         \/ \E c \in Consumers : PopTake(c) \/ Process(c)
<1> USE DEF NothingMoves, Goto, MainGoto, condVars, flagVars, mainVars, tableVars
<1>1. CASE \/ PushLock \/ PushSleep \/ PushWake \/ ProducerExit
  BY <1>1, UnreadSame DEF PushLock, PushSleep, PushWake, ProducerExit
<1>2. ASSUME NEW c \in Consumers,
             \/ PopLock(c) \/ PopSleep(c) \/ PopWake(c) \/ PopLeave(c)
             \/ PopReturn(c) \/ PopRetest(c) \/ TableLock(c)
      PROVE  NothingMoves
  BY <1>2, UnreadSame
     DEF PopLock, PopSleep, PopWake, PopLeave, PopReturn, PopRetest, TableLock
<1>3. CASE CreateThreads
  BY <1>3, UnreadCreate DEF CreateThreads
<1>4. CASE JoinConsumers
  <2>1. next > Len(Reads(file))
    BY <1>4 DEF JoinConsumers, ThreadInv, Phases
  <2> QED
    BY <1>4, <2>1, UnreadSame, UnreadNextFile DEF JoinConsumers, ThreadInv
<1>5. CASE \/ JoinProducer \/ RaiseFinishedFlag \/ RaiseFinished
           \/ TestFinished \/ BroadcastPop \/ \E t \in Threads : SpuriousWake(t)
  BY <1>5, UnreadSame DEF JoinProducer, RaiseFinishedFlag, RaiseFinished,
     TestFinished, BroadcastPop, SpuriousWake
<1>6. CASE TallyOne
  BY <1>6, UnreadSame DEF TallyOne, TallyEntry, threadVars
<1>7. CASE UNCHANGED vars
  BY <1>7, UnreadSame DEF vars, threadVars
<1> QED
  BY <1>1, <1>2, <1>3, <1>4, <1>5, <1>6, <1>7
     DEF Next, ProducerStep, ConsumerStep, MainStep, MainReturned

\* The packets that are unread are read some day, and are no NULL pointers.
LEMMA UnreadInAll == Unread \subseteq AllRead
BY DEF Unread

\* Before anything is read, all are unread.
LEMMA AllUnread == Init => AllRead \subseteq Unread
<1> SUFFICES ASSUME Init, NEW p \in AllRead PROVE p \in Unread
  OBVIOUS
<1>1. PICK f \in DOMAIN Files : \E i \in DOMAIN Reads(f) : Reads(f)[i] = p
  BY DEF AllRead, ReadFrom
<1>2. f >= file
  BY RedextractAssumption DEF Init
<1> QED
  BY <1>1, <1>2 DEF Unread, Init

\* A packet that leaves one place turns up in the next one only.
LEMMA PlacesStep ==
  ASSUME ThreadInv, [Next]_vars
  PROVE  Apart' /\ Covered'
<1> USE DEF Apart, Covered, OnStack, InHand, StackNum, Goto
<1>0. /\ Apart /\ Covered /\ Hands
      /\ Unread \subseteq AllRead /\ AllRead \subseteq Packets
      /\ NoPacket \notin AllRead
      /\ currPacket \in [Threads -> Packets \cup {NoPacket}]
      /\ StackObjects \in Seq(Packets)
      /\ Producer \in Threads /\ Consumers \subseteq Threads
  BY AllReadPackets, UnreadInAll DEF ThreadInv, TypeOK, Threads
<1>1. CASE NothingMoves
  <2>1. Apart'
    BY <1>0, <1>1 DEF NothingMoves
  <2>2. Covered'
    BY <1>0, <1>1 DEF NothingMoves
  <2> QED
    BY <2>1, <2>2
<1>2. CASE ReadPacket
  <2> DEFINE p == Reads(file)[next]
  <2>1. Unread' = Unread \ {p} /\ (p # NoPacket => p \in Unread)
    BY <1>2, UnreadRead DEF ReadPacket, ThreadInv, Phases, mainVars, Threads
  <2>2. /\ StackObjects' = StackObjects /\ fate' = fate
        /\ currPacket' = [currPacket EXCEPT ![Producer] = p]
        /\ currPacket[Producer] = NoPacket
    BY <1>0, <1>2 DEF ReadPacket, Hands, tableVars
  <2> HIDE DEF p
  <2>3. \A t \in Threads : currPacket'[t] = IF t = Producer THEN p ELSE currPacket[t]
    BY <1>0, <2>2
  <2>4. Apart'
    BY <1>0, <2>1, <2>2, <2>3
  <2>5. Covered'
    BY <1>0, <2>1, <2>2, <2>3
  <2> QED
    BY <2>4, <2>5
<1>3. CASE PushStore
  <2> DEFINE p == currPacket[Producer]
  <2>1. p # NoPacket
    BY <1>0, <1>3 DEF PushStore, Hands
  <2>2. /\ StackObjects' = Append(StackObjects, p) /\ fate' = fate
        /\ currPacket' = [currPacket EXCEPT ![Producer] = NoPacket]
        /\ Unread' = Unread
    BY <1>3, UnreadSame DEF PushStore, tableVars, mainVars
  <2>3. p \in Packets
    BY <1>0, <2>1
  <2>4. /\ Len(StackObjects) \in Nat
        /\ Len(StackObjects') = Len(StackObjects) + 1
        /\ \A i \in 1..Len(StackObjects) : StackObjects'[i] = StackObjects[i]
        /\ StackObjects'[Len(StackObjects')] = p
    BY <1>0, <2>2, <2>3
  <2>5. \A t \in Threads :
          currPacket'[t] = IF t = Producer THEN NoPacket ELSE currPacket[t]
    BY <1>0, <2>2
  <2>6. /\ fate[p] = "new" /\ p \in AllRead /\ ~OnStack(p) /\ p \notin Unread
        /\ \A t \in Threads : currPacket[t] = p => t = Producer
    BY <1>0, <2>1
  <2> HIDE DEF p
  <2>7. Apart'
    <3>1. ASSUME NEW q \in Unread'
          PROVE  fate'[q] = "new" /\ ~OnStack(q)' /\ ~InHand(q)'
      BY <1>0, <2>2, <2>4, <2>5, <2>6
    <3>2. ASSUME NEW i \in 1..Len(StackObjects')
          PROVE  /\ fate'[StackObjects'[i]] = "new" /\ StackObjects'[i] \in AllRead
                 /\ ~InHand(StackObjects[i])'
                 /\ \A j \in 1..Len(StackObjects') :
                      StackObjects'[j] = StackObjects'[i] => j = i
      BY <1>0, <2>1, <2>2, <2>4, <2>5, <2>6
    <3>3. ASSUME NEW t \in Threads, currPacket'[t] # NoPacket
          PROVE  /\ fate'[currPacket'[t]] = "new" /\ currPacket'[t] \in AllRead
                 /\ \A u \in Threads : currPacket'[u] = currPacket'[t] => u = t
      BY <1>0, <2>2, <2>5, <3>3
    <3> QED
      BY <3>1, <3>2, <3>3
  <2>8. Covered'
    <3> SUFFICES ASSUME NEW q \in AllRead, fate'[q] = "new"
                 PROVE  q \in Unread' \/ OnStack(q)' \/ InHand(q)'
      OBVIOUS
    <3>1. CASE q = p
      BY <2>4, <3>1
    <3>2. CASE q # p
      BY <1>0, <2>2, <2>4, <2>5, <3>2 DEF p
    <3> QED
      BY <3>1, <3>2
  <2> QED
    BY <2>7, <2>8
<1>4. ASSUME NEW c \in Consumers, PopTake(c)
      PROVE  Apart' /\ Covered'
  <2> DEFINE n == Len(StackObjects)
             p == StackObjects[n]
  <2>1. n \in 1..n /\ p \in Packets /\ c \in Threads
    BY <1>0, <1>4 DEF PopTake
  <2>2. /\ StackObjects' = SubSeq(StackObjects, 1, n - 1) /\ fate' = fate
        /\ currPacket' = [currPacket EXCEPT ![c] = p]
        /\ Unread' = Unread /\ currPacket[c] = NoPacket
    BY <1>0, <1>4, UnreadSame DEF PopTake, Hands, tableVars, mainVars
  <2>3. /\ Len(StackObjects') = n - 1
        /\ \A i \in 1..n - 1 : StackObjects'[i] = StackObjects[i]
    BY <1>0, <2>1, <2>2, AllButLast
  <2>4. \A t \in Threads :
          currPacket'[t] = IF t = c THEN p ELSE currPacket[t]
    BY <1>0, <2>1, <2>2
  <2>5. /\ fate[p] = "new" /\ p \in AllRead /\ p \notin Unread /\ ~InHand(p)
        /\ \A i \in 1..n - 1 : StackObjects[i] # p
    BY <1>0, <2>1
  <2> HIDE DEF p
  <2>6. Apart'
    <3>1. ASSUME NEW q \in Unread'
          PROVE  fate'[q] = "new" /\ ~OnStack(q)' /\ ~InHand(q)'
      BY <1>0, <2>1, <2>2, <2>3, <2>4, <2>5
    <3>2. ASSUME NEW i \in 1..Len(StackObjects')
          PROVE  /\ fate'[StackObjects'[i]] = "new" /\ StackObjects'[i] \in AllRead
                 /\ ~InHand(StackObjects[i])'
                 /\ \A j \in 1..Len(StackObjects') :
                      StackObjects'[j] = StackObjects'[i] => j = i
      <4>1. i \in 1..n /\ StackObjects'[i] = StackObjects[i]
        BY <2>1, <2>3
      <4>2. StackObjects[i] # p
        BY <2>1, <2>3, <2>5
      <4>3. \A j \in 1..Len(StackObjects') :
              StackObjects'[j] = StackObjects'[i] => j = i
        <5> SUFFICES ASSUME NEW j \in 1..Len(StackObjects'),
                            StackObjects'[j] = StackObjects'[i]
                     PROVE  j = i
          OBVIOUS
        <5>1. j \in 1..n /\ StackObjects[j] = StackObjects[i]
          BY <2>1, <2>3, <4>1
        <5> QED
          BY <1>0, <4>1, <5>1
      <4>4. ~InHand(StackObjects[i])'
        <5> SUFFICES ASSUME NEW t \in Threads, currPacket'[t] = StackObjects'[i]
                     PROVE  FALSE
          OBVIOUS
        <5> QED
          BY <1>0, <2>4, <4>1, <4>2
      <4> QED
        BY <1>0, <2>2, <4>1, <4>3, <4>4
    <3>3. ASSUME NEW t \in Threads, currPacket'[t] # NoPacket
          PROVE  /\ fate'[currPacket'[t]] = "new" /\ currPacket'[t] \in AllRead
                 /\ \A u \in Threads : currPacket'[u] = currPacket'[t] => u = t
      BY <1>0, <2>2, <2>4, <2>5, <3>3
    <3> QED
      BY <3>1, <3>2, <3>3
  <2>7. Covered'
    <3> SUFFICES ASSUME NEW q \in AllRead, fate'[q] = "new"
                 PROVE  q \in Unread' \/ OnStack(q)' \/ InHand(q)'
      OBVIOUS
    <3>1. CASE q = p
      BY <2>1, <2>4, <3>1
    <3>2. CASE q # p
      <4>1. CASE OnStack(q)
        BY <1>0, <2>1, <2>3, <3>2, <4>1 DEF p
      <4>2. CASE ~OnStack(q)
        BY <1>0, <2>2, <2>4, <4>2
      <4> QED
        BY <4>1, <4>2
    <3> QED
      BY <3>1, <3>2
  <2> QED
    BY <2>6, <2>7
<1>5. ASSUME NEW c \in Consumers, Process(c)
      PROVE  Apart' /\ Covered'
  <2> DEFINE p == currPacket[c]
  <2>1. c \in Threads /\ p # NoPacket /\ p \in Packets
    BY <1>0, <1>5 DEF Process, Hands
  <2>2. /\ StackObjects' = StackObjects /\ Unread' = Unread
        /\ currPacket' = [currPacket EXCEPT ![c] = NoPacket]
    BY <1>5, UnreadSame DEF Process, mainVars
  <2>3. /\ fate'[p] # "new"
        /\ \A q \in Packets : q # p => fate'[q] = fate[q]
    BY <1>5, <2>1, ProcessFate DEF Process, ThreadInv
  <2>4. \A t \in Threads :
          currPacket'[t] = IF t = c THEN NoPacket ELSE currPacket[t]
    BY <1>0, <2>1, <2>2
  <2>5. /\ p \notin Unread /\ ~OnStack(p)
        /\ \A t \in Threads : currPacket[t] = p => t = c
    BY <1>0, <2>1
  <2>6. Apart'
    BY <1>0, <2>2, <2>3, <2>4, <2>5
  <2>7. Covered'
    BY <1>0, <2>1, <2>2, <2>3, <2>4, <2>5
  <2> QED
    BY <2>6, <2>7
<1> QED
  BY <1>1, <1>2, <1>3, <1>4, <1>5, StepKinds

\* Before anything is read every packet is unread and new.
LEMMA ThreadInit == Init => ThreadInv
<1> SUFFICES ASSUME Init PROVE ThreadInv
  OBVIOUS
<1> USE RedextractAssumption, PacketTableAssumption DEF Init, Threads, StackNum
<1>1. MemoryInv
  BY MemoryInit
<1>2. StackObjects \in Seq(Packets) /\ Len(StackObjects) = 0
  OBVIOUS
<1>3. file \in DOMAIN Files
  OBVIOUS
<1>4. TypeOK
  <2>1. /\ pc \in [Threads -> ProducerPCs \cup ConsumerPCs]
        /\ \A t \in Threads : pc[t] \in ProducerPCs /\ pc[t] \in ConsumerPCs
        /\ mainPc \in MainPCs
    BY DEF ProducerPCs, ConsumerPCs, MainPCs
  <2>2. currPacket \in [Threads -> Packets \cup {NoPacket}] /\ next \in Nat
    OBVIOUS
  <2>3. TableTypeOK
    BY <1>1 DEF MemoryInv
  <2>4. StackNum <= MAX_SIZE /\ PopCond \subseteq Consumers /\ PushCond \subseteq {Producer}
    BY <1>2
  <2>5. /\ LockStack \in Threads \cup {NoThread} /\ LockTable \in Consumers \cup {NoThread}
        /\ FinishedFlag \in BOOLEAN /\ Finished \in BOOLEAN
    OBVIOUS
  <2> HIDE DEF Init, Threads, StackNum
  <2> QED
    BY <1>2, <1>3, <2>1, <2>2, <2>3, <2>4, <2>5, RedextractAssumption DEF TypeOK, Threads
<1>5. Hands /\ Waiting /\ MutualExclusion
  BY DEF Hands, Waiting, MutualExclusion, InStackSection, InTableSection
<1>6. Phases
  BY DEF Phases, TableInit
<1>7. AllRead \subseteq Unread
  BY AllUnread
<1>8. \A p \in AllRead : fate[p] = "new" /\ p # NoPacket
  BY AllReadPackets DEF TableInit
<1>9. Apart
  BY <1>2, <1>8, UnreadInAll DEF Apart, OnStack, InHand
<1>10. Covered
  BY <1>7 DEF Covered
<1> QED
  BY <1>1, <1>4, <1>5, <1>6, <1>9, <1>10 DEF ThreadInv

\* ThreadInv is inductive.
LEMMA ThreadStep ==
  ASSUME ThreadInv, [Next]_vars
  PROVE  ThreadInv'
<1>1. MemoryInv'
  BY TableStep, MemoryStep DEF ThreadInv
<1> QED
  BY <1>1, TypeStep, ControlStep, PlacesStep DEF ThreadInv

\* Whatever the scheduler does, for any number of consumers, files and slots, a
\* packet that is not processed yet is in one place, and every thread where main
\* expects it.
THEOREM ThreadInvariance == Spec => []ThreadInv
BY ThreadInit, ThreadStep, PTL DEF Spec

\* The variables of threads, stack, flags and table keep their types; the stack
\* stays within its slots.
THEOREM TypeCorrect == Spec => []TypeOK
<1>1. ThreadInv => TypeOK
  BY DEF ThreadInv
<1> QED
  BY <1>1, ThreadInvariance, PTL

\* Stack and table are only touched by the thread that owns their mutex.
THEOREM MutuallyExclusive == Spec => []MutualExclusion
<1>1. ThreadInv => MutualExclusion
  BY DEF ThreadInv
<1> QED
  BY <1>1, ThreadInvariance, PTL

\* However the threads interleave, the table is used as PacketTable allows: one
\* packet at a time, each once, none after the tally has begun.
THEOREM TableRefined == Spec => TableSpec
<1>1. Init => TableInit
  BY DEF Init
<1> QED
  BY <1>1, ThreadInvariance, TableStep, PTL DEF Spec, TableSpec

\* So what is proved of the table alone holds of it in the program: no freed
\* packet is read and none freed twice, all are seen once, the hits are all
\* accounted for, and the report gives their number.
THEOREM TableSafe ==
  Spec => [](PacketMemory /\ SeenExact /\ HitAccounting /\ Report)
BY TableRefined, MemorySafe, SeenCorrect, HitsAccounted, ReportCorrect, PTL

\* The stack of the program only ever does what a bounded stack does.
LEMMA StackStep ==
  ASSUME ThreadInv, [Next]_vars
  PROVE  [Stack!Next]_(Stack!vars)
<1> USE DEF Stack!vars, StackNum, Goto
<1>0. /\ Apart /\ Hands
      /\ Unread \subseteq AllRead /\ AllRead \subseteq Packets
      /\ NoPacket \notin AllRead
      /\ currPacket \in [Threads -> Packets \cup {NoPacket}]
      /\ StackObjects \in Seq(Packets)
      /\ Producer \in Threads /\ Consumers \subseteq Threads /\ Producer \notin Consumers
  BY AllReadPackets, UnreadInAll, RedextractAssumption DEF ThreadInv, TypeOK, Threads
<1>1. CASE NothingMoves
  <2>1. Fresh' = Fresh
    BY <1>1 DEF NothingMoves, Fresh
  <2>2. Taken' = Taken
    BY <1>1 DEF NothingMoves, Taken
  <2> QED
    BY <1>1, <2>1, <2>2 DEF NothingMoves
<1>2. CASE ReadPacket
  <2> DEFINE p == Reads(file)[next]
  <2>1. Unread' = Unread \ {p} /\ (p # NoPacket => p \in Unread)
    BY <1>2, UnreadRead DEF ReadPacket, ThreadInv, Phases, mainVars, Threads
  <2>2. /\ StackObjects' = StackObjects /\ fate' = fate
        /\ currPacket' = [currPacket EXCEPT ![Producer] = p]
        /\ currPacket[Producer] = NoPacket
    BY <1>0, <1>2 DEF ReadPacket, Hands, tableVars
  <2> HIDE DEF p
  <2>3. currPacket'[Producer] = p
        /\ \A c \in Consumers : currPacket'[c] = currPacket[c]
    BY <1>0, <2>2
  <2>4. Fresh' = Fresh
    BY <1>0, <2>1, <2>2, <2>3 DEF Fresh
  <2>5. Taken' = Taken
    BY <2>2, <2>3 DEF Taken
  <2> QED
    BY <2>2, <2>4, <2>5
<1>3. CASE PushStore
  <2> DEFINE p == currPacket[Producer]
  <2>1. p # NoPacket
    BY <1>0, <1>3 DEF PushStore, Hands
  <2>2. /\ StackObjects' = Append(StackObjects, p) /\ fate' = fate
        /\ currPacket' = [currPacket EXCEPT ![Producer] = NoPacket]
        /\ Unread' = Unread
    BY <1>3, UnreadSame DEF PushStore, tableVars, mainVars
  <2>3. Len(StackObjects) < MAX_SIZE
    BY <1>0, <1>3, RedextractAssumption DEF PushStore, StackFull
  <2>4. p \in AllRead /\ p \notin Unread
    BY <1>0, <2>1 DEF Apart, InHand
  <2>5. currPacket'[Producer] = NoPacket
        /\ \A c \in Consumers : currPacket'[c] = currPacket[c]
    BY <1>0, <2>2
  <2>6. p \in Fresh /\ Fresh' = Fresh \ {p}
    BY <2>1, <2>2, <2>4, <2>5 DEF Fresh
  <2>7. Taken' = Taken
    BY <2>2, <2>5 DEF Taken
  <2> HIDE DEF p
  <2> QED
    BY <2>2, <2>3, <2>4, <2>6, <2>7 DEF Stack!Next, Stack!Put
<1>4. ASSUME NEW c \in Consumers, PopTake(c)
      PROVE  Stack!Next
  <2> DEFINE p == StackObjects[Len(StackObjects)]
  <2>1. StackObjects # <<>> /\ Len(StackObjects) \in 1..Len(StackObjects)
    BY <1>0, <1>4 DEF PopTake
  <2>2. /\ StackObjects' = SubSeq(StackObjects, 1, Len(StackObjects) - 1)
        /\ currPacket' = [currPacket EXCEPT ![c] = p]
        /\ Unread' = Unread /\ currPacket[c] = NoPacket /\ fate' = fate
    BY <1>0, <1>4, UnreadSame DEF PopTake, Hands, tableVars, mainVars
  <2>3. p # NoPacket
    BY <1>0, <2>1 DEF Apart
  <2> HIDE DEF p
  <2>4. /\ currPacket'[Producer] = currPacket[Producer]
        /\ \A d \in Consumers :
             currPacket'[d] = IF d = c THEN p ELSE currPacket[d]
    BY <1>0, <1>4, <2>2
  <2>5. Fresh' = Fresh
    BY <2>2, <2>4 DEF Fresh
  <2>6. Taken' = Taken \cup {p}
    <3>1. { currPacket'[d] : d \in Consumers } \ {NoPacket} =
            ({ currPacket[d] : d \in Consumers } \ {NoPacket}) \cup {p}
      BY <1>4, <2>2, <2>3, <2>4
    <3> QED
      BY <2>2, <3>1 DEF Taken
  <2> QED
    BY <2>1, <2>2, <2>5, <2>6 DEF Stack!Next, Stack!Take, p
<1>5. ASSUME NEW c \in Consumers, Process(c)
      PROVE  UNCHANGED Stack!vars
  <2> DEFINE p == currPacket[c]
  <2>1. p # NoPacket /\ p \in Packets
    BY <1>0, <1>5 DEF Process, Hands
  <2>2. /\ StackObjects' = StackObjects /\ Unread' = Unread
        /\ currPacket' = [currPacket EXCEPT ![c] = NoPacket]
    BY <1>5, UnreadSame DEF Process, mainVars
  <2>3. /\ fate'[p] # "new"
        /\ \A q \in Packets : q # p => fate'[q] = fate[q]
    BY <1>5, <2>1, ProcessFate DEF Process, ThreadInv
  <2>4. p \in AllRead
    BY <1>0, <2>1 DEF Apart
  <2>5. /\ currPacket'[Producer] = currPacket[Producer]
        /\ \A d \in Consumers :
             currPacket'[d] = IF d = c THEN NoPacket ELSE currPacket[d]
    BY <1>0, <1>5, <2>2
  <2>6. Fresh' = Fresh
    BY <2>2, <2>5 DEF Fresh
  <2>7. Taken' = Taken
    <3> SUFFICES ASSUME NEW q PROVE q \in Taken' <=> q \in Taken
      OBVIOUS
    <3>1. CASE q = p
      BY <2>1, <2>3, <2>4, <3>1 DEF Taken
    <3>2. CASE q # p
      <4>1. q \in { d \in AllRead : fate'[d] # "new" } <=>
            q \in { d \in AllRead : fate[d] # "new" }
        BY <1>0, <2>3, <3>2
      <4>2. q \in { currPacket'[d] : d \in Consumers } \ {NoPacket} <=>
            q \in { currPacket[d] : d \in Consumers } \ {NoPacket}
        BY <2>5, <3>2
      <4> QED
        BY <4>1, <4>2 DEF Taken
    <3> QED
      BY <3>1, <3>2
  <2> QED
    BY <2>2, <2>6, <2>7
<1> QED
  BY <1>1, <1>2, <1>3, <1>4, <1>5, StepKinds

\* Array, fill level and conditions implement a bounded stack: whatever the
\* threads do, no packet is lost, duplicated or handed out twice.
THEOREM StackRefined == Spec => StackSpec
<1>1. Init => Stack!Init
  <2> SUFFICES ASSUME Init PROVE Stack!Init
    OBVIOUS
  <2>1. /\ StackObjects = <<>> /\ \A t \in Threads : currPacket[t] = NoPacket
        /\ \A p \in Packets : fate[p] = "new"
    BY DEF Init, TableInit
  <2>2. AllRead \subseteq Unread
    BY AllUnread
  <2>3. Fresh = AllRead
    BY <2>1, <2>2, UnreadInAll DEF Fresh, Threads
  <2>4. Taken = {}
    BY <2>1, AllReadPackets DEF Taken, Threads
  <2> QED
    BY <2>1, <2>3, <2>4 DEF Stack!Init
<1> QED
  BY <1>1, ThreadInvariance, StackStep, PTL DEF Spec, StackSpec, Stack!Spec

-----------------------------------------------------------------------------
(* The consumers that stay.  From the second file on FinishedFlag is left   *)
(* over from the first, and a consumer that wakes up and finds the stack    *)
(* empty leaves.  What keeps one there: a consumer is only woken by a push, *)
(* and the one that took the packet instead of it is not about to leave.    *)
(* That needs waits that do not end by themselves in those files.           *)

\* A consumer that is not going to test whether it may leave before it is
\* woken again.
Settled(c) ==
  pc[c] \notin {"gone", "leaving", "woken"} /\ (pc[c] = "popwait" => c \in PopCond)

FlagInv ==
  /\ ~FinishedFlag => /\ mainPc \in {"create", "joinProducer", "raiseFlag"}
                      /\ \A c \in Consumers : pc[c] \notin {"leaving", "gone"}
  /\ FinishedFlag /\ file = 1 => mainPc # "create" /\ pc[Producer] = "gone"

OneSettled ==
  pc[Producer] \notin {"none", "gone"} /\ FinishedFlag =>
    StackNum > 0 \/ \E c \in Consumers : Settled(c)

\* The stack is empty between files, and when a consumer is about to return.
EmptyBetween ==
  mainPc \in {"create", "tally"} \/ (\E c \in Consumers : pc[c] = "leaving")
    => StackNum = 0

ConsumersInv ==
  /\ SpuriousFiles \subseteq {1}
  /\ FlagInv /\ OneSettled /\ NoStrandedPacket /\ EmptyBetween

\* While the producer is there, so is a consumer.
LEMMA ConsumerThere ==
  ASSUME ThreadInv, ConsumersInv
  PROVE  SomeConsumerStays
BY RedextractAssumption
   DEF ThreadInv, Phases, ConsumersInv, FlagInv, OneSettled, Settled,
       NoStrandedPacket, SomeConsumerStays, Threads

\* FinishedFlag goes up when the producer of the first file is gone, and no
\* consumer leaves before.
LEMMA FlagStep ==
  ASSUME ThreadInv, ConsumersInv, [Next]_vars
  PROVE  FlagInv'
<1> USE RedextractAssumption
    DEF ThreadInv, TypeOK, Phases, ConsumersInv, FlagInv, Goto, MainGoto, Threads,
        condVars, flagVars, mainVars
<1>1. CASE ReadPacket
  BY <1>1 DEF ReadPacket
<1>2. CASE PushLock
  BY <1>2 DEF PushLock
<1>3. CASE PushStore
  BY <1>3 DEF PushStore
<1>4. CASE PushSleep
  BY <1>4 DEF PushSleep
<1>5. CASE PushWake
  BY <1>5 DEF PushWake
<1>6. CASE ProducerExit
  BY <1>6 DEF ProducerExit
<1>7. ASSUME NEW c \in Consumers, PopLock(c) PROVE FlagInv'
  BY <1>7 DEF PopLock
<1>8. ASSUME NEW c \in Consumers, PopSleep(c) PROVE FlagInv'
  BY <1>8 DEF PopSleep
<1>9. ASSUME NEW c \in Consumers, PopWake(c) PROVE FlagInv'
  BY <1>9 DEF PopWake
<1>10. ASSUME NEW c \in Consumers, PopLeave(c) PROVE FlagInv'
  BY <1>10 DEF PopLeave, MayLeave
<1>11. ASSUME NEW c \in Consumers, PopRetest(c) PROVE FlagInv'
  BY <1>11 DEF PopRetest
<1>11a. ASSUME NEW c \in Consumers, PopReturn(c) PROVE FlagInv'
  BY <1>11a DEF PopReturn
<1>12. ASSUME NEW c \in Consumers, PopTake(c) PROVE FlagInv'
  BY <1>12 DEF PopTake
<1>13. ASSUME NEW c \in Consumers, TableLock(c) PROVE FlagInv'
  BY <1>13 DEF TableLock
<1>14. ASSUME NEW c \in Consumers, Process(c) PROVE FlagInv'
  BY <1>14 DEF Process
<1>15. CASE CreateThreads
  BY <1>15 DEF CreateThreads
<1>16. CASE JoinProducer
  BY <1>16 DEF JoinProducer
<1>17. CASE RaiseFinishedFlag
  BY <1>17 DEF RaiseFinishedFlag
<1>18. CASE RaiseFinished
  BY <1>18 DEF RaiseFinished
<1>19. CASE TestFinished
  BY <1>19 DEF TestFinished
<1>20. CASE BroadcastPop
  BY <1>20 DEF BroadcastPop
<1>21. CASE JoinConsumers
  BY <1>21 DEF JoinConsumers
<1>22. CASE TallyOne
  BY <1>22 DEF TallyOne, threadVars
<1>23. ASSUME NEW t \in Threads, SpuriousWake(t) PROVE FlagInv'
  BY <1>23 DEF SpuriousWake
<1>24. CASE UNCHANGED vars
  BY <1>24 DEF vars, threadVars
<1> QED
  BY <1>1, <1>2, <1>3, <1>4, <1>5, <1>6, <1>7, <1>8, <1>9, <1>10, <1>11, <1>12,
     <1>13, <1>14, <1>15, <1>16, <1>17, <1>18, <1>19, <1>20, <1>21, <1>22, <1>23, <1>24,
     <1>11a DEF Next, ProducerStep, ConsumerStep, MainStep, MainReturned

\* A consumer leaves only while another one is settled, and only a push with a
\* packet on the stack unsettles one.
LEMMA SettledStep ==
  ASSUME ThreadInv, ConsumersInv, [Next]_vars
  PROVE  OneSettled'
<1> USE RedextractAssumption
    DEF ThreadInv, TypeOK, Waiting, Phases, ConsumersInv, FlagInv, OneSettled,
        Settled, StackNum, Goto, MainGoto, Threads, condVars, flagVars, mainVars
<1>1. CASE ReadPacket
  BY <1>1 DEF ReadPacket
<1>2. CASE PushLock
  BY <1>2 DEF PushLock
<1>3. CASE PushStore
  BY <1>3 DEF PushStore
<1>4. CASE PushSleep
  BY <1>4 DEF PushSleep
<1>5. CASE PushWake
  BY <1>5 DEF PushWake
<1>6. CASE ProducerExit
  BY <1>6 DEF ProducerExit
<1>7. ASSUME NEW c \in Consumers, PopLock(c) PROVE OneSettled'
  BY <1>7 DEF PopLock
<1>8. ASSUME NEW c \in Consumers, PopSleep(c) PROVE OneSettled'
  BY <1>8 DEF PopSleep
<1>9. ASSUME NEW c \in Consumers, PopWake(c) PROVE OneSettled'
  BY <1>9 DEF PopWake
<1>10. ASSUME NEW c \in Consumers, PopLeave(c) PROVE OneSettled'
  BY <1>10 DEF PopLeave, MayLeave
<1>11. ASSUME NEW c \in Consumers, PopRetest(c) PROVE OneSettled'
  BY <1>11 DEF PopRetest
<1>11a. ASSUME NEW c \in Consumers, PopReturn(c) PROVE OneSettled'
  BY <1>11a DEF PopReturn
<1>12. ASSUME NEW c \in Consumers, PopTake(c) PROVE OneSettled'
  BY <1>12 DEF PopTake
<1>13. ASSUME NEW c \in Consumers, TableLock(c) PROVE OneSettled'
  BY <1>13 DEF TableLock
<1>14. ASSUME NEW c \in Consumers, Process(c) PROVE OneSettled'
  BY <1>14 DEF Process
<1>15. CASE CreateThreads
  <2>1. PICK c \in Consumers : TRUE
    OBVIOUS
  <2>2. pc'[c] = "loop"
    BY <1>15 DEF CreateThreads
  <2> QED
    BY <2>1, <2>2
<1>16. CASE JoinProducer
  BY <1>16 DEF JoinProducer
<1>17. CASE RaiseFinishedFlag
  BY <1>17 DEF RaiseFinishedFlag
<1>18. CASE RaiseFinished
  BY <1>18 DEF RaiseFinished
<1>19. CASE TestFinished
  BY <1>19 DEF TestFinished
<1>20. CASE BroadcastPop
  BY <1>20 DEF BroadcastPop
<1>21. CASE JoinConsumers
  BY <1>21 DEF JoinConsumers
<1>22. CASE TallyOne
  BY <1>22 DEF TallyOne, threadVars
<1>23. ASSUME NEW t \in Threads, SpuriousWake(t) PROVE OneSettled'
  BY <1>23 DEF SpuriousWake
<1>24. CASE UNCHANGED vars
  BY <1>24 DEF vars, threadVars
<1> QED
  BY <1>1, <1>2, <1>3, <1>4, <1>5, <1>6, <1>7, <1>8, <1>9, <1>10, <1>11, <1>12,
     <1>13, <1>14, <1>15, <1>16, <1>17, <1>18, <1>19, <1>20, <1>21, <1>22, <1>23, <1>24,
     <1>11a DEF Next, ProducerStep, ConsumerStep, MainStep, MainReturned

\* A push wakes a sleeper, or finds none and thus a consumer that is up; nobody
\* sleeps or leaves with a packet there.
LEMMA StrandedStep ==
  ASSUME ThreadInv, ConsumersInv, [Next]_vars
  PROVE  NoStrandedPacket' /\ EmptyBetween'
<1> USE RedextractAssumption
    DEF ThreadInv, TypeOK, Waiting, Phases, ConsumersInv, NoStrandedPacket,
        EmptyBetween, StackNum, Goto, MainGoto, Threads, condVars, flagVars, mainVars
<1>1. CASE ReadPacket
  BY <1>1 DEF ReadPacket
<1>2. CASE PushLock
  BY <1>2 DEF PushLock
<1>3. CASE PushStore
  <2>1. PICK c \in Consumers :
          /\ pc[c] # "gone"
          /\ PopCond = {} \/ PopCond' = PopCond \ {c}
    <3>1. CASE PopCond = {}
      BY <1>3, <3>1, ConsumerThere DEF PushStore, SomeConsumerStays
    <3>2. CASE PopCond # {}
      <4>1. PICK c \in PopCond : PopCond' = PopCond \ {c}
        BY <1>3, <3>2 DEF PushStore, SignalPop, Signal
      <4> QED
        BY <4>1
    <3> QED
      BY <3>1, <3>2
  <2>2. c \notin PopCond' /\ pc'[c] # "gone"
    BY <1>3, <2>1, SignalShrinks DEF PushStore, SignalPop
  <2>3. NoStrandedPacket'
    BY <2>1, <2>2
  <2>4. EmptyBetween'
    <3>1. \A d \in Consumers : pc[d] # "leaving" /\ pc'[d] = pc[d]
      BY <1>3 DEF PushStore, MutualExclusion, InStackSection
    <3>2. mainPc' \notin {"create", "tally"}
      BY <1>3 DEF PushStore
    <3> QED
      BY <3>1, <3>2
  <2> QED
    BY <2>3, <2>4
<1>4. CASE PushSleep
  BY <1>4 DEF PushSleep
<1>5. CASE PushWake
  BY <1>5 DEF PushWake
<1>6. CASE ProducerExit
  BY <1>6 DEF ProducerExit
<1>7. ASSUME NEW c \in Consumers, PopLock(c) PROVE NoStrandedPacket' /\ EmptyBetween'
  BY <1>7 DEF PopLock
<1>8. ASSUME NEW c \in Consumers, PopSleep(c) PROVE NoStrandedPacket' /\ EmptyBetween'
  BY <1>8 DEF PopSleep
<1>9. ASSUME NEW c \in Consumers, PopWake(c) PROVE NoStrandedPacket' /\ EmptyBetween'
  BY <1>9 DEF PopWake
<1>10. ASSUME NEW c \in Consumers, PopLeave(c) PROVE NoStrandedPacket' /\ EmptyBetween'
  BY <1>10 DEF PopLeave, MayLeave
<1>11. ASSUME NEW c \in Consumers, PopRetest(c) PROVE NoStrandedPacket' /\ EmptyBetween'
  BY <1>11 DEF PopRetest
<1>11a. ASSUME NEW c \in Consumers, PopReturn(c) PROVE NoStrandedPacket' /\ EmptyBetween'
  BY <1>11a DEF PopReturn
<1>12. ASSUME NEW c \in Consumers, PopTake(c) PROVE NoStrandedPacket' /\ EmptyBetween'
  BY <1>12 DEF PopTake
<1>13. ASSUME NEW c \in Consumers, TableLock(c) PROVE NoStrandedPacket' /\ EmptyBetween'
  BY <1>13 DEF TableLock
<1>14. ASSUME NEW c \in Consumers, Process(c) PROVE NoStrandedPacket' /\ EmptyBetween'
  BY <1>14 DEF Process
<1>15. CASE CreateThreads
  BY <1>15 DEF CreateThreads
<1>16. CASE JoinProducer
  BY <1>16 DEF JoinProducer
<1>17. CASE RaiseFinishedFlag
  BY <1>17 DEF RaiseFinishedFlag
<1>18. CASE RaiseFinished
  BY <1>18 DEF RaiseFinished
<1>19. CASE TestFinished
  BY <1>19 DEF TestFinished
<1>20. CASE BroadcastPop
  BY <1>20 DEF BroadcastPop, Broadcast
<1>21. CASE JoinConsumers
  BY <1>21 DEF JoinConsumers
<1>22. CASE TallyOne
  BY <1>22 DEF TallyOne, threadVars
<1>23. ASSUME NEW t \in Threads, SpuriousWake(t) PROVE NoStrandedPacket' /\ EmptyBetween'
  BY <1>23 DEF SpuriousWake
<1>24. CASE UNCHANGED vars
  BY <1>24 DEF vars, threadVars
<1> QED
  BY <1>1, <1>2, <1>3, <1>4, <1>5, <1>6, <1>7, <1>8, <1>9, <1>10, <1>11, <1>12,
     <1>13, <1>14, <1>15, <1>16, <1>17, <1>18, <1>19, <1>20, <1>21, <1>22, <1>23, <1>24,
     <1>11a DEF Next, ProducerStep, ConsumerStep, MainStep, MainReturned

\* While no wait ends by itself after the first file, ConsumersInv holds.
THEOREM ConsumersInvariance ==
  SpuriousFiles \subseteq {1} /\ Spec => [](ThreadInv /\ ConsumersInv)
<1>1. SpuriousFiles \subseteq {1} /\ Init => ConsumersInv
  BY RedextractAssumption
     DEF Init, ConsumersInv, FlagInv, OneSettled, NoStrandedPacket, EmptyBetween,
         StackNum, Threads
<1>2. ThreadInv /\ ConsumersInv /\ [Next]_vars => ConsumersInv'
  BY FlagStep, SettledStep, StrandedStep DEF ConsumersInv
<1> QED
  BY <1>1, <1>2, ThreadInvariance, PTL DEF Spec

\* No packet is left on the stack to consumers that all sleep or are gone,
\* although they sleep without a look at the flags.
THEOREM NoPacketStranded ==
  SpuriousFiles \subseteq {1} /\ Spec => []NoStrandedPacket
<1>1. ConsumersInv => NoStrandedPacket
  BY DEF ConsumersInv
<1> QED
  BY <1>1, ConsumersInvariance, PTL

\* The last consumer does not leave before the producer is done and the stack
\* empty, however stale the flag.
THEOREM ConsumerStays ==
  SpuriousFiles \subseteq {1} /\ Spec => []SomeConsumerStays
<1>1. ThreadInv /\ ConsumersInv => SomeConsumerStays
  BY ConsumerThere
<1> QED
  BY <1>1, ConsumersInvariance, PTL

\* When main tallies, every packet that was read has been through the table.
THEOREM EverythingProcessed ==
  SpuriousFiles \subseteq {1} /\ Spec => []AllProcessed
<1>1. ASSUME ThreadInv, ConsumersInv, mainPc = "tally"
      PROVE  /\ AllRead \cap Fated("new") = {}
             /\ \A t \in Threads : pc[t] = "gone"
  <2>1. /\ StackNum = 0 /\ file = Len(Files) /\ \A t \in Threads : pc[t] = "gone"
        /\ next > Len(Reads(file))
    BY <1>1 DEF ThreadInv, Phases, ConsumersInv, EmptyBetween, Threads
  <2>2. Unread = {}
    <3> SUFFICES ASSUME NEW f \in DOMAIN Files, NEW i \in DOMAIN Reads(f),
                        f >= file, f = file => i >= next
                 PROVE  FALSE
      BY <1>1 DEF Unread
    <3>1. f = file
      BY <2>1, RedextractAssumption
    <3>2. i <= Len(Reads(f)) /\ Len(Reads(f)) \in Nat /\ i \in Nat /\ next \in Nat
      BY <1>1, ReadsType DEF ThreadInv, TypeOK
    <3> QED
      BY <2>1, <3>1, <3>2
  <2>3. \A p \in AllRead : ~InHand(p) /\ ~OnStack(p)
    BY <1>1, <2>1, AllReadPackets DEF ThreadInv, Hands, InHand, OnStack, Threads
  <2>4. \A p \in AllRead : fate[p] # "new"
    BY <1>1, <2>2, <2>3 DEF ThreadInv, Covered
  <2> QED
    BY <2>1, <2>4 DEF Fated
<1>2. ThreadInv /\ ConsumersInv => AllProcessed
  BY <1>1 DEF AllProcessed
<1> QED
  BY <1>2, ConsumersInvariance, PTL

=============================================================================
