------------------------- MODULE PacketTableProofs --------------------------
(***************************************************************************)
(* Theorems about PacketTable, for any packets, contents and table size.   *)
(***************************************************************************)
EXTENDS PacketTable, Sums

\* A packet that was not processed yet has not been freed, and every packet
\* that was processed is counted.
MemoryInv ==
  /\ TableTypeOK
  /\ PacketMemory
  /\ \A p \in Packets : fate[p] = "new" => freed[p] = 0

\* The table starts empty, with every packet new.
LEMMA MemoryInit == TableInit => MemoryInv
  BY PacketTableAssumption
     DEF TableInit, MemoryInv, TableTypeOK, PacketMemory, Fates, Entries,
         EmptyEntry, Slots

\* An entry that was hit is an entry, for the same packet.
LEMMA CountHitEntry ==
  ASSUME NEW e \in Entries, NEW size \in Int
  PROVE  /\ CountHit(e, size) \in Entries
         /\ CountHit(e, size).ThePacket = e.ThePacket
<1>1. AddBytes(e.RedundantBytes, size) \in 0..U32 - 1
  BY PacketTableAssumption DEF AddBytes, Entries
<1>2. ASSUME NEW h \in Nat, NEW b \in 0..U32 - 1
      PROVE  LET new == [e EXCEPT !.HitCount = h, !.RedundantBytes = b]
             IN  new \in Entries /\ new.ThePacket = e.ThePacket
  BY DEF Entries
<1>3. e.HitCount + 1 \in Nat
  BY DEF Entries
<1> QED
  BY <1>1, <1>2, <1>3 DEF CountHit

\* A processed packet was new: it is counted, and then ignored, stored,
\* discarded as a hit, or dropped.
LEMMA ProcessStep ==
  ASSUME MemoryInv, NEW p \in Packets, fate[p] = "new", processPacket(p)
  PROVE  MemoryInv'
<1> USE PacketTableAssumption
    DEF MemoryInv, TableTypeOK, PacketMemory, Fates, Became, discardPacket,
        processPacket, CountSeen, hitVars
<1>1. LengthIncluded[p] \in Nat
  OBVIOUS
<1>2. CASE ProcessIgnored(p)
  BY <1>1, <1>2 DEF ProcessIgnored
<1>3. ASSUME NEW j \in Slots, ProcessStored(p, j)
      PROVE  MemoryInv'
  <2>1. [EmptyEntry EXCEPT !.ThePacket = p] \in Entries
    BY DEF EmptyEntry, Entries
  <2>2. BigTable' \in [Slots -> Entries]
    BY <1>3, <2>1 DEF ProcessStored
  <2>3. \A i \in Slots : BigTable'[i].ThePacket =
                           IF i = j THEN p ELSE BigTable[i].ThePacket
    BY <1>3 DEF ProcessStored, EmptyEntry
  <2>4. fate' = [fate EXCEPT ![p] = "kept"] /\ freed' = freed
    BY <1>3 DEF ProcessStored
  <2>5. TableTypeOK'
    BY <1>1, <2>2, <2>4
  <2>6. PacketMemory'
    BY <2>3, <2>4
  <2>7. \A q \in Packets : fate'[q] = "new" => freed'[q] = 0
    BY <2>4
  <2> QED
    BY <2>5, <2>6, <2>7
<1>4. ASSUME NEW j \in Slots, ProcessHit(p, j)
      PROVE  MemoryInv'
  <2>1. BigTable[j] \in Entries
    OBVIOUS
  <2>2. PayloadSize(p) \in Int
    BY DEF PayloadSize
  <2> DEFINE entry == CountHit(BigTable[j], PayloadSize(p))
  <2>3. BigTable' = [BigTable EXCEPT ![j] = entry]
    BY <1>4 DEF ProcessHit
  <2>4. entry \in Entries /\ entry.ThePacket = BigTable[j].ThePacket
    BY <2>1, <2>2, CountHitEntry
  <2> HIDE DEF entry
  <2>5. BigTable' \in [Slots -> Entries]
    BY <2>3, <2>4
  <2>6. \A i \in Slots : BigTable'[i].ThePacket = BigTable[i].ThePacket
    BY <2>3, <2>4
  <2>7. /\ fate' = [fate EXCEPT ![p] = "hit"]
        /\ freed' = [freed EXCEPT ![p] = @ + 1]
    BY <1>4 DEF ProcessHit
  <2>8. TableTypeOK'
    BY <1>1, <2>5, <2>7
  <2>9. PacketMemory'
    BY <2>6, <2>7
  <2>10. \A q \in Packets : fate'[q] = "new" => freed'[q] = 0
    BY <2>7
  <2> QED
    BY <2>8, <2>9, <2>10
<1>5. ASSUME NEW j \in Slots, ProcessDropped(p, j)
      PROVE  MemoryInv'
  BY <1>1, <1>5 DEF ProcessDropped
<1> QED
  BY <1>2, <1>3, <1>4, <1>5

\* The tally frees the packet of an entry and empties the entry.
LEMMA TallyStep ==
  ASSUME MemoryInv, TallyEntry
  PROVE  MemoryInv'
<1> USE PacketTableAssumption
    DEF MemoryInv, TableTypeOK, PacketMemory, discardPacket, hitVars, seenVars
<1>1. tallied \in Slots
  BY DEF TallyEntry, Slots
<1>2. tallied' \in 0..BigTableSize
  BY DEF TallyEntry
<1>3. CASE BigTable[tallied].ThePacket = NoPacket
  BY <1>2, <1>3 DEF TallyEntry
<1>4. CASE BigTable[tallied].ThePacket # NoPacket
  <2> DEFINE p == BigTable[tallied].ThePacket
  <2>1. BigTable[tallied] \in Entries
    BY <1>1
  <2>2. p \in Packets /\ freed[p] = 0 /\ fate[p] = "kept"
    BY <1>1, <1>4, <2>1 DEF Entries
  <2>3. EmptyEntry \in Entries
    BY DEF EmptyEntry, Entries
  <2>4. BigTable' \in [Slots -> Entries]
    BY <1>4, <2>3 DEF TallyEntry
  <2>5. \A i \in Slots : BigTable'[i].ThePacket =
                IF i = tallied THEN NoPacket ELSE BigTable[i].ThePacket
    BY <1>4 DEF TallyEntry, EmptyEntry
  <2>6. freed' = [freed EXCEPT ![p] = @ + 1] /\ fate' = fate
    BY <1>4 DEF TallyEntry
  <2>7. gPacketHitCount' \in Nat /\ gPacketHitBytes' \in Nat
    BY <1>4, <2>1 DEF TallyEntry, Entries
  <2>8. gPacketSeenCount' \in Nat /\ gPacketSeenBytes' \in Nat
    BY DEF TallyEntry
  <2>9. \A i \in Slots : BigTable[i].ThePacket = p => i = tallied
    BY <1>1, <1>4
  <2> HIDE DEF p
  <2>10. TableTypeOK'
    BY <1>2, <2>2, <2>4, <2>6, <2>7, <2>8
  <2>11. PacketMemory'
    BY <2>2, <2>5, <2>6, <2>9
  <2>12. \A q \in Packets : fate'[q] = "new" => freed'[q] = 0
    BY <2>2, <2>6
  <2> QED
    BY <2>10, <2>11, <2>12
<1> QED
  BY <1>3, <1>4

\* Every step of the table preserves it.
LEMMA MemoryStep ==
  ASSUME MemoryInv, [TableNext]_tableVars
  PROVE  MemoryInv'
<1>1. CASE UNCHANGED tableVars
  BY <1>1 DEF tableVars, MemoryInv, TableTypeOK, PacketMemory
<1> QED
  BY <1>1, ProcessStep, TallyStep DEF TableNext, Reported

\* MemoryInv holds however the packets are ordered and the slots chosen.
THEOREM MemoryInvariance == TableSpec => []MemoryInv
BY MemoryInit, MemoryStep, PTL DEF TableSpec

\* The entries and the counters keep their types; the redundant bytes of an
\* entry stay within a uint32_t.
THEOREM TableTypeCorrect == TableSpec => []TableTypeOK
<1>1. MemoryInv => TableTypeOK
  BY DEF MemoryInv
<1> QED
  BY <1>1, MemoryInvariance, PTL

\* No comparison reads a freed packet, and no packet is freed twice.
THEOREM MemorySafe == TableSpec => []PacketMemory
<1>1. MemoryInv => PacketMemory
  BY DEF MemoryInv
<1> QED
  BY <1>1, MemoryInvariance, PTL

\* Every packet handed to processPacket, ignored or not, is seen exactly once.
THEOREM SeenCorrect == TableSpec => []SeenExact
<1>1. TableInit => SeenExact
  <2> SUFFICES ASSUME TableInit PROVE SeenExact
    OBVIOUS
  <2>1. Packets \ Fated("new") = {}
    BY DEF TableInit, Fated
  <2> QED
    BY <2>1, FS_EmptySet DEF TableInit, SeenExact
<1>2. ASSUME MemoryInv, SeenExact, [TableNext]_tableVars
      PROVE  SeenExact'
  <2>1. ASSUME NEW p \in Packets, fate[p] = "new", processPacket(p)
        PROVE  SeenExact'
    <3> DEFINE Seen == Packets \ Fated("new")
    <3>1. PICK w \in {"ignored", "kept", "hit", "dropped"} :
             fate' = [fate EXCEPT ![p] = w]
      BY <2>1 DEF processPacket, ProcessIgnored, ProcessStored, ProcessHit,
         ProcessDropped, Became
    <3>2. p \notin Seen /\ Seen' = Seen \cup {p}
      BY <1>2, <2>1, <3>1 DEF Fated, MemoryInv, TableTypeOK
    <3>3. IsFiniteSet(Seen)
      BY FS_Subset, PacketTableAssumption
    <3>4. Cardinality(Seen') = Cardinality(Seen) + 1
      BY <3>2, <3>3, FS_AddElement
    <3> QED
      BY <1>2, <2>1, <3>4 DEF SeenExact, processPacket, CountSeen
  <2>2. ASSUME UNCHANGED <<fate, gPacketSeenCount>>
        PROVE  SeenExact'
    BY <1>2, <2>2 DEF SeenExact, Fated
  <2>3. CASE TallyEntry
    BY <2>2, <2>3 DEF TallyEntry, seenVars
  <2>4. CASE UNCHANGED tableVars
    BY <2>2, <2>4 DEF tableVars
  <2> QED
    BY <1>2, <2>1, <2>3, <2>4 DEF TableNext, Reported
<1> QED
  BY <1>1, <1>2, MemoryInvariance, PTL DEF TableSpec

-----------------------------------------------------------------------------
(* The hits.                                                               *)

\* An entry without a packet counts nothing, and the payload of a hit has a
\* size.
HitInv ==
  /\ \A j \in Slots : BigTable[j].ThePacket = NoPacket =>
       BigTable[j].HitCount = 0 /\ BigTable[j].RedundantBytes = 0
  /\ \A p \in Fated("hit") : PayloadSize(p) \in Nat

\* The slots are finitely many, and what is added up over them is natural, in
\* this state and in the next.
LEMMA SlotsFinite == IsFiniteSet(Slots)
<1>1. 0 \in Int /\ BigTableSize - 1 \in Int
  BY PacketTableAssumption
<1> QED
  BY <1>1, FS_Interval DEF Slots

LEMMA PendingNat ==
  ASSUME TableTypeOK
  PROVE  /\ IsFiniteSet(Slots)
         /\ \A j \in Slots : HitsPending[j] \in Nat /\ BytesPending[j] \in Nat
         /\ SumFunctionOnSet(HitsPending, Slots) \in Nat
         /\ SumFunctionOnSet(BytesPending, Slots) \in Nat
<1>1. \A j \in Slots : HitsPending[j] \in Nat /\ BytesPending[j] \in Nat
  BY PacketTableAssumption DEF TableTypeOK, Entries, HitsPending, BytesPending
<1> QED
  BY <1>1, SlotsFinite, SumInNat

LEMMA PendingNatNext ==
  ASSUME TableTypeOK'
  PROVE  /\ \A j \in Slots : HitsPending'[j] \in Nat /\ BytesPending'[j] \in Nat
         /\ SumFunctionOnSet(HitsPending', Slots) \in Nat
         /\ SumFunctionOnSet(BytesPending', Slots) \in Nat
<1>1. \A j \in Slots : HitsPending'[j] \in Nat /\ BytesPending'[j] \in Nat
  BY PacketTableAssumption DEF TableTypeOK, Entries, HitsPending, BytesPending
<1> QED
  BY <1>1, SlotsFinite, SumInNat

\* The hits are finitely many.
LEMMA HitsFinite ==
  IsFiniteSet(Fated("hit")) /\ Cardinality(Fated("hit")) \in Nat
BY FS_Subset, FS_CardinalityType, PacketTableAssumption DEF Fated

\* A packet whose payload is compared has a payload.
LEMMA PayloadNat ==
  ASSUME NEW p \in Packets, ~Ignored(p)
  PROVE  PayloadSize(p) \in Nat
BY PacketTableAssumption DEF Ignored, PayloadSize

\* Every step keeps the empty entries empty and the sizes natural.
LEMMA HitStep ==
  ASSUME MemoryInv, HitInv, [TableNext]_tableVars
  PROVE  HitInv'
<1> USE DEF MemoryInv, TableTypeOK, HitInv, Fated, Became
<1>1. ASSUME NEW p \in Packets, processPacket(p)
      PROVE  HitInv'
  <2>1. CASE ProcessIgnored(p)
    BY <2>1 DEF ProcessIgnored, PayloadSize
  <2>2. ASSUME NEW j \in Slots, ProcessStored(p, j)
        PROVE  HitInv'
    BY <2>2 DEF ProcessStored, EmptyEntry, PayloadSize
  <2>3. ASSUME NEW j \in Slots, ProcessHit(p, j)
        PROVE  HitInv'
    <3>1. PayloadSize(p) \in Nat
      BY <2>3, PayloadNat DEF ProcessHit
    <3>2. PICK e : e = CountHit(BigTable[j], PayloadSize(p))
      OBVIOUS
    <3>3. e.ThePacket # NoPacket
      <4>1. BigTable[j] \in Entries /\ PayloadSize(p) \in Int
        BY <3>1
      <4>2. e.ThePacket = BigTable[j].ThePacket
        BY <3>2, <4>1, CountHitEntry
      <4> QED
        BY <2>3, <4>2 DEF ProcessHit
    <3>4. BigTable' = [BigTable EXCEPT ![j] = e]
          /\ fate' = [fate EXCEPT ![p] = "hit"]
      BY <2>3, <3>2 DEF ProcessHit
    <3> QED
      BY <3>1, <3>3, <3>4 DEF PayloadSize
  <2>4. ASSUME NEW j \in Slots, ProcessDropped(p, j)
        PROVE  HitInv'
    BY <2>4 DEF ProcessDropped, PayloadSize
  <2> QED
    BY <1>1, <2>1, <2>2, <2>3, <2>4 DEF processPacket
<1>2. CASE TallyEntry
  BY <1>2 DEF TallyEntry, EmptyEntry, PayloadSize
<1>3. CASE UNCHANGED tableVars
  BY <1>3 DEF tableVars, PayloadSize
<1> QED
  BY <1>1, <1>2, <1>3 DEF TableNext, Reported

\* A step that changes no count and makes no packet a hit.
LEMMA NoHit ==
  ASSUME TableTypeOK, HitAccounting, UNCHANGED <<gPacketHitCount, gPacketHitBytes>>,
         Fated("hit")' = Fated("hit"),
         \A j \in Slots : /\ BigTable'[j].HitCount = BigTable[j].HitCount
                          /\ BigTable'[j].RedundantBytes = BigTable[j].RedundantBytes
  PROVE  HitAccounting'
<1>1. /\ \A j \in Slots : HitsPending'[j] = HitsPending[j]
      /\ \A j \in Slots : BytesPending'[j] = BytesPending[j]
  BY DEF HitsPending, BytesPending
<1>2. /\ SumFunctionOnSet(HitsPending', Slots) = SumFunctionOnSet(HitsPending, Slots)
      /\ SumFunctionOnSet(BytesPending', Slots) = SumFunctionOnSet(BytesPending, Slots)
  BY <1>1, PendingNat, SumSame
<1> QED
  BY <1>2 DEF HitAccounting, PayloadSizes, PayloadSize

\* A hit counts one packet and the bytes of its payload in its entry, whose
\* counter of bytes may wrap around.
LEMMA AccountHit ==
  ASSUME MemoryInv, MemoryInv', HitInv, HitInv', HitAccounting,
         NEW p \in Packets, fate[p] = "new",
         NEW j \in Slots, ProcessHit(p, j), UNCHANGED hitVars
  PROVE  HitAccounting'
<1> USE DEF MemoryInv
<1>1. PICK size \in Nat : size = PayloadSize(p)
  BY PayloadNat DEF ProcessHit
<1>2. Fated("hit")' = Fated("hit") \cup {p} /\ p \notin Fated("hit")
  BY DEF ProcessHit, Became, Fated, TableTypeOK
<1>3. PICK e : e = CountHit(BigTable[j], size)
  OBVIOUS
<1>4. BigTable' = [BigTable EXCEPT ![j] = e] /\ BigTable \in [Slots -> Entries]
  BY <1>1, <1>3 DEF ProcessHit, TableTypeOK
<1>5. /\ e.HitCount = BigTable[j].HitCount + 1
      /\ e.RedundantBytes = AddBytes(BigTable[j].RedundantBytes, size)
  <2>1. BigTable[j] \in Entries
    BY <1>4
  <2> QED
    BY <1>3, <2>1 DEF CountHit, Entries
<1>6. /\ HitsPending'[j] = HitsPending[j] + 1
      /\ \A i \in Slots \ {j} : HitsPending'[i] = HitsPending[i]
  BY <1>4, <1>5 DEF HitsPending
<1>7. /\ BytesPending'[j] = AddBytes(BytesPending[j], size)
      /\ \A i \in Slots \ {j} : BytesPending'[i] = BytesPending[i]
  BY <1>4, <1>5 DEF BytesPending
<1>8. /\ \A i \in Slots : HitsPending'[i] \in Nat /\ BytesPending'[i] \in Nat
      /\ SumFunctionOnSet(HitsPending', Slots) \in Nat
      /\ SumFunctionOnSet(BytesPending', Slots) \in Nat
  BY PendingNatNext
<1>9. SumFunctionOnSet(HitsPending', Slots)
        = SumFunctionOnSet(HitsPending, Slots) - HitsPending[j] + HitsPending'[j]
  BY <1>6, <1>8, PendingNat, SumUpdate
<1>10. SumFunctionOnSet(BytesPending', Slots)
        = SumFunctionOnSet(BytesPending, Slots) - BytesPending[j] + BytesPending'[j]
  BY <1>7, <1>8, PendingNat, SumUpdate
<1>11. Cardinality(Fated("hit")') = Cardinality(Fated("hit")) + 1
  BY <1>2, HitsFinite, FS_AddElement
<1>12. SumFunctionOnSet(PayloadSizes, Fated("hit")')
         = SumFunctionOnSet(PayloadSizes, Fated("hit")) + size
       /\ SumFunctionOnSet(PayloadSizes, Fated("hit")) \in Nat
  <2>1. \A q \in Fated("hit") \cup {p} : PayloadSizes[q] \in Nat
    BY <1>1 DEF HitInv, PayloadSizes, Fated
  <2>2. PayloadSizes[p] = size
    BY <1>1 DEF PayloadSizes
  <2> QED
    BY <1>2, <2>1, <2>2, HitsFinite, SumAdd, SumInNat
<1>13. gPacketHitCount' + SumFunctionOnSet(HitsPending', Slots)
         = Cardinality(Fated("hit")')
  BY <1>6, <1>9, <1>11, PendingNat, HitsFinite DEF HitAccounting, hitVars, TableTypeOK
<1> DEFINE a == gPacketHitBytes + SumFunctionOnSet(BytesPending, Slots)
           t == SumFunctionOnSet(PayloadSizes, Fated("hit"))
           b == BytesPending[j]
           c == BytesPending'[j]
<1>14. a \in Nat /\ t \in Nat /\ b \in Nat /\ c \in Nat
  BY <1>8, <1>12, PendingNat DEF TableTypeOK
<1>15. gPacketHitBytes' + SumFunctionOnSet(BytesPending', Slots) = a - b + c
  BY <1>10, <1>8, PendingNat DEF hitVars, TableTypeOK
<1>16. Congruent(a, t, U32)
  BY DEF HitAccounting, Congruent
<1>17. c = (b + size) % U32
  BY <1>7 DEF AddBytes
<1> HIDE DEF a, t, b, c
<1>18. Congruent(b + size, c, U32)
  <2>1. b + size \in Int
    BY <1>14
  <2> QED
    BY <1>17, <2>1, RemainderCongruent, PacketTableAssumption
<1>19. Congruent(a - b + c, t + size, U32)
  <2>1. a \in Int /\ t \in Int /\ b \in Int /\ c \in Int /\ size \in Int
    BY <1>14
  <2>2. U32 \in Nat \ {0}
    BY PacketTableAssumption
  <2> QED
    BY <1>16, <1>18, <2>1, <2>2, WrappedSum, Zenon
<1> QED
  BY <1>12, <1>13, <1>15, <1>19 DEF HitAccounting, Congruent, t, PayloadSizes, PayloadSize

\* The tally moves what an entry counts to the report.
LEMMA AccountTally ==
  ASSUME MemoryInv, MemoryInv', HitAccounting, TallyEntry
  PROVE  HitAccounting'
<1> USE DEF MemoryInv
<1>1. tallied \in Slots /\ BigTable \in [Slots -> Entries]
  BY PacketTableAssumption DEF TableTypeOK, TallyEntry, Slots
<1>2. Fated("hit")' = Fated("hit")
  BY DEF TallyEntry, Fated
<1>3. CASE BigTable[tallied].ThePacket = NoPacket
  <2>1. BigTable' = BigTable /\ UNCHANGED <<gPacketHitCount, gPacketHitBytes>>
    BY <1>3 DEF TallyEntry, hitVars
  <2> QED
    BY <1>2, <2>1, NoHit
<1>4. CASE BigTable[tallied].ThePacket # NoPacket
  <2>1. /\ gPacketHitCount' = gPacketHitCount + HitsPending[tallied]
        /\ gPacketHitBytes' = gPacketHitBytes + BytesPending[tallied]
        /\ BigTable' = [BigTable EXCEPT ![tallied] = EmptyEntry]
    BY <1>1, <1>4 DEF TallyEntry, HitsPending, BytesPending
  <2>2. /\ HitsPending'[tallied] = 0
        /\ \A i \in Slots \ {tallied} : HitsPending'[i] = HitsPending[i]
    BY <1>1, <2>1 DEF HitsPending, EmptyEntry
  <2>3. /\ BytesPending'[tallied] = 0
        /\ \A i \in Slots \ {tallied} : BytesPending'[i] = BytesPending[i]
    BY <1>1, <2>1 DEF BytesPending, EmptyEntry
  <2>4. SumFunctionOnSet(HitsPending', Slots)
          = SumFunctionOnSet(HitsPending, Slots) - HitsPending[tallied]
    BY <1>1, <2>2, PendingNat, PendingNatNext, SumUpdate
  <2>5. SumFunctionOnSet(BytesPending', Slots)
          = SumFunctionOnSet(BytesPending, Slots) - BytesPending[tallied]
    BY <1>1, <2>3, PendingNat, PendingNatNext, SumUpdate
  <2>6. gPacketHitCount \in Nat /\ gPacketHitBytes \in Nat
    BY DEF TableTypeOK
  <2>7. gPacketHitCount' + SumFunctionOnSet(HitsPending', Slots)
          = gPacketHitCount + SumFunctionOnSet(HitsPending, Slots)
    BY <1>1, <2>1, <2>4, <2>6, PendingNat
  <2>8. gPacketHitBytes' + SumFunctionOnSet(BytesPending', Slots)
          = gPacketHitBytes + SumFunctionOnSet(BytesPending, Slots)
    BY <1>1, <2>1, <2>5, <2>6, PendingNat
  <2> QED
    BY <1>2, <2>7, <2>8 DEF HitAccounting, PayloadSizes, PayloadSize
<1> QED
  BY <1>3, <1>4

\* Every step keeps the account of the hits.
LEMMA AccountStep ==
  ASSUME MemoryInv, MemoryInv', HitInv, HitInv', HitAccounting,
         [TableNext]_tableVars
  PROVE  HitAccounting'
<1> USE DEF MemoryInv
<1>1. ASSUME NEW p \in Packets, fate[p] = "new", processPacket(p)
      PROVE  HitAccounting'
  <2>1. UNCHANGED hitVars /\ UNCHANGED <<gPacketHitCount, gPacketHitBytes>>
    BY <1>1 DEF processPacket, hitVars
  <2>2. ASSUME NEW w \in {"ignored", "kept", "dropped"}, Became(p, w)
        PROVE  Fated("hit")' = Fated("hit")
    BY <1>1, <2>2 DEF Became, Fated, TableTypeOK
  <2>3. CASE ProcessIgnored(p)
    <3>1. BigTable' = BigTable /\ Fated("hit")' = Fated("hit")
      BY <2>2, <2>3 DEF ProcessIgnored
    <3> QED
      BY <2>1, <3>1, NoHit
  <2>4. ASSUME NEW j \in Slots, ProcessDropped(p, j)
        PROVE  HitAccounting'
    <3>1. BigTable' = BigTable /\ Fated("hit")' = Fated("hit")
      BY <2>2, <2>4 DEF ProcessDropped
    <3> QED
      BY <2>1, <3>1, NoHit
  <2>5. ASSUME NEW j \in Slots, ProcessStored(p, j)
        PROVE  HitAccounting'
    <3>1. Fated("hit")' = Fated("hit")
      BY <2>2, <2>5 DEF ProcessStored
    <3>2. \A i \in Slots :
            /\ BigTable'[i].HitCount = BigTable[i].HitCount
            /\ BigTable'[i].RedundantBytes = BigTable[i].RedundantBytes
      BY <2>5 DEF ProcessStored, EmptyEntry, HitInv, TableTypeOK
    <3> QED
      BY <2>1, <3>1, <3>2, NoHit
  <2>6. ASSUME NEW j \in Slots, ProcessHit(p, j)
        PROVE  HitAccounting'
    BY <1>1, <2>1, <2>6, AccountHit
  <2> QED
    BY <1>1, <2>3, <2>4, <2>5, <2>6 DEF processPacket
<1>2. CASE TallyEntry
  BY <1>2, AccountTally
<1>3. CASE UNCHANGED tableVars
  <2>1. /\ BigTable' = BigTable /\ Fated("hit")' = Fated("hit")
        /\ UNCHANGED <<gPacketHitCount, gPacketHitBytes>>
    BY <1>3 DEF tableVars, Fated
  <2> QED
    BY <2>1, NoHit
<1> QED
  BY <1>1, <1>2, <1>3 DEF TableNext, Reported

LEMMA AccountInit ==
  ASSUME TableInit
  PROVE  HitInv /\ HitAccounting
<1>1. Fated("hit") = {}
  BY DEF TableInit, Fated
<1>2. IsFiniteSet(Slots)
  BY SlotsFinite
<1>3. \A j \in Slots : HitsPending[j] = 0 /\ BytesPending[j] = 0
  BY DEF TableInit, EmptyEntry, HitsPending, BytesPending
<1>4. SumFunctionOnSet(HitsPending, Slots) = 0 /\ SumFunctionOnSet(BytesPending, Slots) = 0
  BY <1>2, <1>3, SumZero
<1>5. SumFunctionOnSet(PayloadSizes, Fated("hit")) = 0
  BY <1>1, SumEmpty
<1>6. HitInv
  BY <1>1 DEF TableInit, EmptyEntry, HitInv
<1>7. HitAccounting
  BY <1>1, <1>4, <1>5, FS_EmptySet DEF TableInit, HitAccounting
<1> QED
  BY <1>6, <1>7

\* The hits reported, and those still counted in the table, are the packets
\* discarded as hits; the redundant bytes are the sizes of their payloads up to
\* the width of the counter of an entry.
THEOREM HitsAccounted == TableSpec => []HitAccounting
<1>1. TableInit => MemoryInv /\ HitInv /\ HitAccounting
  BY MemoryInit, AccountInit
<1>2. MemoryInv /\ HitInv /\ HitAccounting /\ [TableNext]_tableVars
        => (MemoryInv /\ HitInv /\ HitAccounting)'
  BY MemoryStep, HitStep, AccountStep
<1> QED
  BY <1>1, <1>2, PTL DEF TableSpec

\* The entries that were tallied stay empty.
TalliedEmpty ==
  \A j \in Slots : j < tallied => BigTable[j].ThePacket = NoPacket

\* What main prints after the tally: the number of packets that were discarded as
\* hits, and the bytes of their payloads up to 2^32.
Report ==
  tallied = BigTableSize =>
    /\ gPacketHitCount = Cardinality(Fated("hit"))
    /\ gPacketHitBytes % U32 = SumFunctionOnSet(PayloadSizes, Fated("hit")) % U32

\* The report is right whatever the payloads, the slots and the order of the
\* packets: an entry is added to the totals once, and no hit is lost.
THEOREM ReportCorrect == TableSpec => []Report
<1>1. TableInit => TalliedEmpty
  BY DEF TableInit, TalliedEmpty, EmptyEntry
<1>2. MemoryInv /\ TalliedEmpty /\ [TableNext]_tableVars => TalliedEmpty'
  <2> SUFFICES ASSUME MemoryInv, TalliedEmpty, [TableNext]_tableVars
               PROVE  TalliedEmpty'
    OBVIOUS
  <2> USE DEF MemoryInv, TableTypeOK, TalliedEmpty
  <2>1. CASE tallied = 0 /\ \E p \in Packets : fate[p] = "new" /\ processPacket(p)
    BY <2>1 DEF processPacket, Slots
  <2>2. CASE TallyEntry
    BY <2>2, PacketTableAssumption DEF TallyEntry, EmptyEntry, Slots
  <2>3. CASE UNCHANGED tableVars
    BY <2>3 DEF tableVars
  <2> QED
    BY <2>1, <2>2, <2>3 DEF TableNext, Reported
<1>3. MemoryInv /\ HitInv /\ HitAccounting /\ TalliedEmpty => Report
  <2> SUFFICES ASSUME MemoryInv, HitInv, HitAccounting, TalliedEmpty,
                      tallied = BigTableSize
               PROVE  Report
    BY DEF Report
  <2>1. \A j \in Slots : HitsPending[j] = 0 /\ BytesPending[j] = 0
    BY PacketTableAssumption DEF TalliedEmpty, HitInv, HitsPending, BytesPending, Slots
  <2>2. /\ SumFunctionOnSet(HitsPending, Slots) = 0
        /\ SumFunctionOnSet(BytesPending, Slots) = 0
    BY <2>1, SlotsFinite, SumZero
  <2>3. gPacketHitCount \in Nat /\ gPacketHitBytes \in Nat
    BY DEF MemoryInv, TableTypeOK
  <2>4. /\ gPacketHitCount + 0 = gPacketHitCount
        /\ gPacketHitBytes + 0 = gPacketHitBytes
    BY <2>3
  <2> QED
    BY <2>2, <2>4 DEF HitAccounting, Report
<1>4. TableInit => MemoryInv /\ HitInv /\ HitAccounting
  BY MemoryInit, AccountInit
<1>5. MemoryInv /\ HitInv /\ HitAccounting /\ [TableNext]_tableVars
        => (MemoryInv /\ HitInv /\ HitAccounting)'
  BY MemoryStep, HitStep, AccountStep
<1> QED
  BY <1>1, <1>2, <1>3, <1>4, <1>5, PTL DEF TableSpec
=============================================================================
