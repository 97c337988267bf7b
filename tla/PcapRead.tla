------------------------------ MODULE PcapRead ------------------------------
(***************************************************************************)
(* Project04/Code/pcap-read.c: how the producer of redextract reads one    *)
(* capture file, byte by byte, until feof: the file header, the header of  *)
(* every record with its byte order, the records that do not fit, and the  *)
(* reads that fail at the end.  What Redextract calls the packets of a     *)
(* file is what this module returns.                                       *)
(***************************************************************************)
EXTENDS Integers, Sequences, Functions

CONSTANTS
  FIELD,                \* bytes of a 32-bit field
  RADIX,                \* values of a byte
  DEFAULT_READ_BUFFER,  \* bytes a packet has room for
  MaxPackets,           \* packets after which to stop, or 0: main asks for 0
  Captures              \* the capture files: records with the fields below

\* RADIX to the n.  With FIELD = 4 and RADIX = 256 the U32 of the code is 2^32, and
\* the 2048 bytes that a packet has room for are more than a byte can say.
Power[n \in Nat] == IF n = 0 THEN 1 ELSE RADIX * Power[n - 1]
U32 == Power[FIELD]
FileHeader == 6 * FIELD
RecordHeader == 4 * FIELD

(***************************************************************************)
(* A capture file c is what tcpdump writes, in the byte order of the       *)
(* machine it ran on: c.magic is "native" or "flipped" ("other" for a file *)
(* that does not open or is no capture), c.lens the lengths of the packets *)
(* in it, c.fill every other byte, and c.cut how many bytes are missing at *)
(* the end.                                                                *)
(***************************************************************************)
ASSUME PcapReadAssumption ==
  /\ FIELD \in Nat \ {0} /\ RADIX \in Nat \ {0, 1}
  /\ DEFAULT_READ_BUFFER \in RADIX - 1..U32 - 1 /\ MaxPackets \in Nat
  /\ \A c \in Captures :
       /\ c.magic \in {"native", "flipped", "other"}
       /\ c.lens \in Seq(0..U32 - 1) /\ c.fill \in 0..RADIX - 1 /\ c.cut \in Nat

VARIABLES
  file,        \* the file
  pos, eof,    \* its FILE: where it is read, and the end-of-file indicator
  EndianFlip, Packets, BytesRead,  \* the fields of FilePcapInfo
  pc,          \* how far readPcapFile is
  returned     \* what each call of readNextPacket returned

vars == <<file, pos, eof, EndianFlip, Packets, BytesRead, pc, returned>>

Init ==
  /\ file \in Captures
  /\ pos = 0 /\ eof = FALSE
  /\ EndianFlip = FALSE /\ Packets = 0 /\ BytesRead = 0
  /\ pc = "open" /\ returned = <<>>

-----------------------------------------------------------------------------
(* The bytes of a file.                                                    *)

\* Where record k starts, and where the file ends.
Start(c, k) ==
  FileHeader + (k - 1) * RecordHeader + SumFunctionOnSet(c.lens, 1..k - 1)
Whole(c) == Start(c, Len(c.lens) + 1)
Size(c) == IF c.cut < Whole(c) THEN Whole(c) - c.cut ELSE 0

\* Digit n of a number, the lowest first, or in a flipped file the highest.
Digit(c, v, n) ==
  (v \div Power[IF c.magic = "flipped" THEN FIELD - 1 - n ELSE n]) % RADIX

\* A record starts with two fields for the time and two for the length.
Byte(c, o) ==
  LET length == { k \in DOMAIN c.lens :
                    o - Start(c, k) \in 2 * FIELD..4 * FIELD - 1 }
  IN IF length = {} THEN c.fill
     ELSE LET k == CHOOSE k \in length : TRUE
          IN Digit(c, c.lens[k], (o - Start(c, k)) % FIELD)

\* fread of up to n bytes at p: where the file is left.
After(p, n) == IF p >= Size(file) THEN p
               ELSE IF p + n > Size(file) THEN Size(file) ELSE p + n
Short(p, n) == p + n > Size(file)

\* fread of a field at p into a variable that held 0, of a little-endian machine.
Field(p) ==
  SumFunction([n \in 0..FIELD - 1 |->
    IF p + n < Size(file) THEN Byte(file, p + n) * Power[n] ELSE 0])

-----------------------------------------------------------------------------
(* A definition named Mut... is a plausible slip in the one after it.      *)

\* The magic number of a file too short to hold one is whatever was in the
\* variable before.
MagicNumber(c) ==
  IF Size(c) < FIELD THEN {"native", "flipped", "other"} ELSE {c.magic}

\* Two fields are read; the magic number among them may end it all.  Two are skipped
\* by fseek, which clears the indicator and goes beyond the end, and two are read.
AfterSkip == After(0, 2 * FIELD) + 2 * FIELD
parsePcapFileStart ==
  /\ pc = "open"
  /\ \E magic \in MagicNumber(file) :
       IF magic = "other"
       THEN /\ pc' = "failed"
            /\ pos' = After(0, 2 * FIELD) /\ eof' = Short(0, 2 * FIELD)
            /\ UNCHANGED EndianFlip
       ELSE /\ pc' = "reading"
            /\ EndianFlip' = (magic = "flipped")
            /\ pos' = After(AfterSkip, 2 * FIELD)
            /\ eof' = Short(AfterSkip, 2 * FIELD)
  /\ UNCHANGED <<file, Packets, BytesRead, returned>>

\* The fix of the byte order takes the top byte for the whole.
endianfixl(v) == v \div Power[FIELD - 1]

LengthIncluded(p) ==
  IF EndianFlip THEN endianfixl(Field(p)) ELSE Field(p)

Null == [len |-> -1]

\* fseek over the data of a record that does not fit, by a length that is read
\* from the packet after it was freed: the packet went to the list of freed chunks
\* of this thread, whose links do not reach that far into it, so the length is
\* still there.
MutSkip(p, n) == n
Skip(p, n) == p + n

DataAt == After(pos, RecordHeader)

\* The slip goes back to the header of a record that does not fit, to try again.
MutreadNextPacket ==
  LET len == LengthIncluded(pos + 2 * FIELD)
  IN IF len > DEFAULT_READ_BUFFER
     THEN /\ eof' = FALSE
          /\ UNCHANGED <<pos, returned, Packets, BytesRead>>
     ELSE /\ pos' = After(DataAt, len)
          /\ eof' = (Short(pos, RecordHeader) \/ Short(DataAt, len))
          /\ returned' = Append(returned, Null)
          /\ UNCHANGED <<Packets, BytesRead>>

\* readNextPacket, of a record that does not fit and of one that does.
readNextPacket ==
  LET len == LengthIncluded(pos + 2 * FIELD)
  IN IF len > DEFAULT_READ_BUFFER
     THEN /\ pos' = Skip(DataAt, len) /\ eof' = FALSE
          /\ returned' = Append(returned, Null)
          /\ UNCHANGED <<Packets, BytesRead>>
     ELSE /\ pos' = After(DataAt, len)
          /\ eof' = (Short(pos, RecordHeader) \/ Short(DataAt, len))
          /\ returned' = Append(returned,
               [len |-> len, from |-> DataAt, got |-> After(DataAt, len) - DataAt])
          /\ Packets' = (Packets + 1) % U32
          /\ BytesRead' = (BytesRead + len) % U32

\* The end of the loop: nothing was read beyond the last byte so far, or the
\* limit on packets is reached.
MutEnough == Packets' >= MaxPackets
Enough == MaxPackets # 0 /\ Packets' >= MaxPackets

\* One turn of the loop of readPcapFile; a packet that is not Null is pushed on
\* the stack of Redextract.  The slip takes a record that does not fit for the end.
MutReadRecord ==
  /\ pc = "reading" /\ ~eof
  /\ readNextPacket
  /\ pc' = IF Enough \/ returned'[Len(returned')] = Null THEN "done" ELSE "reading"
  /\ UNCHANGED <<file, EndianFlip>>
ReadRecord ==
  /\ pc = "reading" /\ ~eof
  /\ readNextPacket
  /\ pc' = IF Enough THEN "done" ELSE "reading"
  /\ UNCHANGED <<file, EndianFlip>>

\* feof: the file is closed and the counters are printed.
Finish ==
  /\ pc = "reading" /\ eof
  /\ pc' = "done"
  /\ UNCHANGED <<file, pos, eof, EndianFlip, Packets, BytesRead, returned>>

Ended == pc \in {"done", "failed"} /\ UNCHANGED vars

Next == parsePcapFileStart \/ ReadRecord \/ Finish \/ Ended

Spec == Init /\ [][Next]_vars

\* readPcapFile waits for nobody but in its pushes, which Redextract models.
FairSpec == Spec /\ WF_vars(Next)

-----------------------------------------------------------------------------
(* Properties.                                                             *)

\* The records that are wholly in the file, and those among them up to which the
\* byte order fix preserves every length.
Present(c) == { k \in DOMAIN c.lens : Start(c, k + 1) <= Size(c) }
Fixable(c, k) == c.magic = "native" \/ c.lens[k] < RADIX
Framed(c) == { k \in Present(c) : \A j \in 1..k : Fixable(c, j) }

\* Record k as the packet it should be returned as.
Record(c, k) ==
  IF c.lens[k] > DEFAULT_READ_BUFFER THEN Null
  ELSE [len |-> c.lens[k], from |-> Start(c, k) + RecordHeader,
        got |-> c.lens[k]]

\* What reading a capture is: the k-th call of readNextPacket returns the k-th
\* record, whole, from its own bytes, "fixing" the byte order of a file of the
\* other one, and NULL if the record is too big or there is none.
RecordsInOrder ==
  \A k \in DOMAIN returned :
    returned[k] = IF k \in Present(file) THEN Record(file, k) ELSE Null

\* As much of it as does not ask for more records than there are, or endianfixl for
\* a length of more than a byte: every record of a file of the machine's own byte
\* order, also behind records that were skipped and wherever the file is cut off.
FramedInOrder ==
  \A k \in Framed(file) \cap DOMAIN returned : returned[k] = Record(file, k)

\* The loop does not end before every such record was returned.
AllReturned == pc = "done" => Framed(file) \subseteq DOMAIN returned

\* Framed or not, no byte of the file is left unread, or skipped, at the end ...
ReadsAll == pc = "done" => pos >= Size(file)

\* ... and the end is always reached, although skipping a record clears the
\* end-of-file indicator.
Termination == <>(pc \in {"done", "failed"})
=============================================================================
