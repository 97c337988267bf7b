----------------------------- MODULE PacketTable -----------------------------
(***************************************************************************)
(* Project04/Code/pcap-process.c: the table that looks for packets whose   *)
(* payload was seen before, and the counters of the final report.          *)
(*                                                                         *)
(* processPacket is called by one consumer thread at a time, under         *)
(* LockTable, and tallyProcessing by main after the consumers are joined,  *)
(* so each call is one step.  The slot a payload hashes to is any slot:    *)
(* the seed handed to spooky_hash128 is an uninitialised variable.         *)
(***************************************************************************)
EXTENDS Integers, FiniteSets, Functions

CONSTANTS
  Packets,         \* the packet objects that are ever allocated
  NoPacket,        \* the NULL packet pointer
  BigTableSize,    \* entries of the table
  MIN_PKT_SIZE,    \* packets up to this length are ignored
  U32,             \* 2^32: the entries count redundant bytes in a uint32_t
  LengthIncluded,  \* captured length of each packet
  IsTransport,     \* whether each packet is IPv4 carrying TCP or UDP
  PayloadOffset,   \* where the payload starts in its buffer
  Data             \* the bytes of its buffer

Slots == 0..BigTableSize - 1

ASSUME PacketTableAssumption ==
  /\ IsFiniteSet(Packets) /\ NoPacket \notin Packets
  /\ BigTableSize \in Nat \ {0}
  /\ MIN_PKT_SIZE \in Nat
  /\ U32 \in Nat \ {0}
  /\ LengthIncluded \in [Packets -> Nat]
  /\ IsTransport \in [Packets -> BOOLEAN]
  /\ PayloadOffset \in [Packets -> Nat]
  /\ \A p \in Packets : IsTransport[p] /\ LengthIncluded[p] > MIN_PKT_SIZE
                          => PayloadOffset[p] <= LengthIncluded[p]

VARIABLES
  BigTable,                            \* the table
  gPacketSeenCount, gPacketSeenBytes,  \* packets and bytes looked at
  gPacketHitCount, gPacketHitBytes,    \* hits and redundant bytes tallied
  freed,                               \* discardPacket calls on each packet
  fate,                                \* history: what became of each packet
  tallied                              \* entries tallyProcessing has reset

seenVars == <<gPacketSeenCount, gPacketSeenBytes>>
hitVars == <<gPacketHitCount, gPacketHitBytes>>
tableVars == <<BigTable, gPacketSeenCount, gPacketSeenBytes, gPacketHitCount,
               gPacketHitBytes, freed, fate, tallied>>

EmptyEntry == [ThePacket |-> NoPacket, HitCount |-> 0, RedundantBytes |-> 0]

TableInit ==
  /\ BigTable = [j \in Slots |-> EmptyEntry]
  /\ gPacketSeenCount = 0 /\ gPacketSeenBytes = 0
  /\ gPacketHitCount = 0 /\ gPacketHitBytes = 0
  /\ freed = [p \in Packets |-> 0]
  /\ fate = [p \in Packets |-> "new"]
  /\ tallied = 0

-----------------------------------------------------------------------------
(* A definition named Mut... is a plausible slip in the one after it.      *)

\* discardPacket frees the buffer and the packet.
discardPacket(p) == freed' = [freed EXCEPT ![p] = @ + 1]

PayloadSize(p) == LengthIncluded[p] - PayloadOffset[p]

\* processPacket ignores what is too short, not IPv4, or neither TCP nor UDP.
Ignored(p) == LengthIncluded[p] <= MIN_PKT_SIZE \/ ~IsTransport[p]

\* The loop over the payload stops before its end: both buffers are read at
\* the payload offset of the new packet.
BreaksOff(old, new) ==
  \E k \in 0..PayloadSize(old) - 1 :
     Data[old][k + PayloadOffset[new]] # Data[new][k + PayloadOffset[new]]

\* What is reported as a hit: equal sizes and a comparison that broke off.
Matches(old, new) ==
  PayloadSize(old) = PayloadSize(new) /\ BreaksOff(old, new)

\* Additions to the per-entry counter of redundant bytes, a uint32_t.
MutAddBytes(n, m) == n + m
AddBytes(n, m) == (n + m) % U32

\* The statistics every packet enters, before anything is ignored.
MutCountSeen(p) ==
  IF Ignored(p)
  THEN UNCHANGED seenVars
  ELSE /\ gPacketSeenCount' = gPacketSeenCount + 1
       /\ gPacketSeenBytes' = gPacketSeenBytes + LengthIncluded[p]
CountSeen(p) ==
  /\ gPacketSeenCount' = gPacketSeenCount + 1
  /\ gPacketSeenBytes' = gPacketSeenBytes + LengthIncluded[p]

Became(p, what) == fate' = [fate EXCEPT ![p] = what]

ProcessIgnored(p) ==
  /\ Ignored(p)
  /\ discardPacket(p)
  /\ Became(p, "ignored")
  /\ UNCHANGED BigTable

\* The slot is empty: the table takes the packet.
MutProcessStored(p, j) ==
  /\ ~Ignored(p)
  /\ BigTable[j].ThePacket = NoPacket
  /\ BigTable' = [BigTable EXCEPT ![j] = [EmptyEntry EXCEPT !.ThePacket = p]]
  /\ Became(p, "kept")
  /\ discardPacket(p)
ProcessStored(p, j) ==
  /\ ~Ignored(p)
  /\ BigTable[j].ThePacket = NoPacket
  /\ BigTable' = [BigTable EXCEPT ![j] = [EmptyEntry EXCEPT !.ThePacket = p]]
  /\ Became(p, "kept")
  /\ UNCHANGED freed

\* The counters of an entry that was hit once more.
MutCountHit(e, size) ==
  [e EXCEPT !.HitCount = 1, !.RedundantBytes = AddBytes(@, size)]
CountHit(e, size) ==
  [e EXCEPT !.HitCount = @ + 1, !.RedundantBytes = AddBytes(@, size)]

\* The slot holds a matching packet: count the hit, discard the new packet.
ProcessHit(p, j) ==
  /\ ~Ignored(p)
  /\ BigTable[j].ThePacket # NoPacket
  /\ Matches(BigTable[j].ThePacket, p)
  /\ BigTable' = [BigTable EXCEPT ![j] = CountHit(@, PayloadSize(p))]
  /\ discardPacket(p)
  /\ Became(p, "hit")

\* The slot holds a packet that does not match.  The branch that would evict
\* the oldest entry tests the hash slot against BigTableSize, which a remainder
\* never reaches, so the packet is neither stored nor discarded.
ProcessDropped(p, j) ==
  /\ ~Ignored(p)
  /\ BigTable[j].ThePacket # NoPacket
  /\ ~Matches(BigTable[j].ThePacket, p)
  /\ Became(p, "dropped")
  /\ UNCHANGED <<BigTable, freed>>

\* processPacket on a packet that was not processed before.
processPacket(p) ==
  /\ CountSeen(p)
  /\ \/ ProcessIgnored(p)
     \/ \E j \in Slots : \/ ProcessStored(p, j)
                         \/ ProcessHit(p, j)
                         \/ ProcessDropped(p, j)
  /\ UNCHANGED <<hitVars, tallied>>

\* One turn of tallyProcessing: resetAndSaveEntry on the next entry.
TallyEntry ==
  /\ tallied < BigTableSize
  /\ tallied' = tallied + 1
  /\ IF BigTable[tallied].ThePacket = NoPacket
     THEN UNCHANGED <<BigTable, hitVars, freed>>
     ELSE /\ gPacketHitCount' = gPacketHitCount + BigTable[tallied].HitCount
          /\ gPacketHitBytes' = gPacketHitBytes
                                + BigTable[tallied].RedundantBytes
          /\ discardPacket(BigTable[tallied].ThePacket)
          /\ BigTable' = [BigTable EXCEPT ![tallied] = EmptyEntry]
  /\ UNCHANGED <<seenVars, fate>>

\* Everything is tallied: main prints the report and returns.
Reported == tallied = BigTableSize /\ UNCHANGED tableVars

\* The table on its own: each packet is processed at most once, in any order,
\* and the tally starts when main decides that no more will come.
TableNext ==
  \/ /\ tallied = 0
     /\ \E p \in Packets : fate[p] = "new" /\ processPacket(p)
  \/ TallyEntry
  \/ Reported

TableSpec == TableInit /\ [][TableNext]_tableVars

-----------------------------------------------------------------------------
Fates == {"new", "ignored", "kept", "hit", "dropped"}
Entries == [ThePacket : Packets \cup {NoPacket}, HitCount : Nat,
            RedundantBytes : 0..U32 - 1]

\* The values of the variables.
TableTypeOK ==
  /\ BigTable \in [Slots -> Entries]
  /\ gPacketSeenCount \in Nat /\ gPacketSeenBytes \in Nat
  /\ gPacketHitCount \in Nat /\ gPacketHitBytes \in Nat
  /\ freed \in [Packets -> Nat]
  /\ fate \in [Packets -> Fates]
  /\ tallied \in 0..BigTableSize

\* Memory: a packet is in at most one entry, one that is in an entry has not
\* been freed (so no comparison reads freed memory), and none is freed twice.
PacketMemory ==
  /\ \A i, j \in Slots :
       BigTable[i].ThePacket = BigTable[j].ThePacket =>
         i = j \/ BigTable[i].ThePacket = NoPacket
  /\ \A j \in Slots : BigTable[j].ThePacket \in Packets =>
       freed[BigTable[j].ThePacket] = 0 /\ fate[BigTable[j].ThePacket] = "kept"
  /\ \A p \in Packets : freed[p] <= 1

\* The packets of the given fate.
Fated(what) == { p \in Packets : fate[p] = what }

\* Each packet handed over is seen once.
SeenExact == gPacketSeenCount = Cardinality(Packets \ Fated("new"))

\* What the entries count and tallyProcessing has not added up yet.
HitsPending == [j \in Slots |-> BigTable[j].HitCount]
BytesPending == [j \in Slots |-> BigTable[j].RedundantBytes]
PayloadSizes == [p \in Packets |-> PayloadSize(p)]

\* The hits reported and the hits still in the table are the packets that were
\* discarded as hits, and the redundant bytes are theirs up to the width of the
\* per-entry counter.
HitAccounting ==
  /\ gPacketHitCount + SumFunctionOnSet(HitsPending, Slots)
       = Cardinality(Fated("hit"))
  /\ (gPacketHitBytes + SumFunctionOnSet(BytesPending, Slots)) % U32
       = SumFunctionOnSet(PayloadSizes, Fated("hit")) % U32

\* pcap-process.c:220 says of a hit that "the payloads match up": a packet is
\* counted as a hit only if an earlier one has the same payload.
SamePayload(p, q) ==
  /\ PayloadSize(p) = PayloadSize(q)
  /\ \A k \in 0..PayloadSize(p) - 1 :
       Data[p][k + PayloadOffset[p]] = Data[q][k + PayloadOffset[q]]
HitsAreDuplicates ==
  \A p \in Fated("hit") : \E q \in Fated("kept") : SamePayload(p, q)
=============================================================================
