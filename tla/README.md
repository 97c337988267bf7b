# Verification of pcm4, redextract and SimpleFS

The repository holds three programs, each of its own directory, that share no
code. The specifications here model the first three; this file says what each module
stands for, what the runs of TLC show on small instances, and what the proofs
show for every instance.

    Milestone04          pcm4: producer and consumer threads over a bounded stack
    Project04/Code       redextract: redundant payloads in packet captures
    Project06            SimpleFS: a file system on an emulated disk, with a shell
    Milestone06          an earlier SimpleFS, of which only fs_debug is written; not modelled

## 1. Inventory

### pcm4 (Milestone04/main.c, byteblock.c)

* State: an array `StackItems` with a fill level `StackSize` under `StackLock`,
  the conditions `PushWait` and `PopWait`, the counter `CountDone` under
  `DoneLock`, the counter `CountFound` under `FoundLock`; per producer the
  iterations to go, per consumer the block in hand. `CountExpected` is set before
  any thread starts.
* Operations: a producer computes a block and pushes it; a consumer compares
  `CountDone` with `CountExpected`, pops a block, searches it for a string and
  adds the matches; `main` joins the consumers and prints the total.
* Two builds: with `USE_CONDITION_VARS`, the one compiled, a thread sleeps on a
  full or empty stack; without it the call returns at once and is tried again.
* Hard: wake-ups. A push signals one consumer; a pop signals one producer and one
  consumer; the consumer that finds the stack empty and the work done broadcasts.
  `DoneLock` nests in `StackLock`. The counter a consumer tests is older than the
  stack it then pops.
* Correct when: the stack is a stack, every block is searched once, no consumer
  leaves before the work is done, nobody sleeps for ever, and the total is right.

### redextract (Project04/Code/main.c, pcap-read.c, pcap-process.c, packet.c)

* State: the shared stack under `LockStack` with two conditions, the table
  `BigTable` and the counters of the report under `LockTable`, the two flags
  `FinishedFlag` and `Finished`, which are plain variables under no lock.
* Operations: for every file of the list, `main` creates one producer, which reads
  packets and pushes them, and N - 1 consumers, which pop and process them; it
  joins the producer, raises both flags, broadcasts as long as `Finished` is up,
  and joins the consumers. At the end the table is tallied and the report printed.
* The producer reads a capture with `fread` until `feof`: a file header with a magic
  number that tells the byte order, then records with a length; a record that does not
  fit its buffer is skipped with `fseek`.
* Interactions: a packet belongs to the producer, the stack, one consumer, and
  then to the table or to nobody. A consumer that leaves lowers `Finished` and so
  ends the broadcasts. The flags are not lowered for the next file.
* Hard: consumers that sleep without a look at the flag, flags left over from the
  previous file, one signal per push, a hash whose seeds are uninitialised, and
  the ownership of memory; a file that is cut off, or of the other byte order; an
  end-of-file indicator that `fseek` clears.
* Correct when: every record is returned once, from its own bytes, and the reading
  ends; every packet read goes through the table once, before the tally;
  a packet is never freed twice or read after it is freed; the counters agree
  with what was processed; the joins return.

### SimpleFS (Project06/fs.c, disk.c, shell.c)

* State: the disk image, which survives; in memory the mounted flag and the bitmap
  of blocks in use, which do not; the locals of the call in progress.
* Operations: format, mount, create, delete, getsize, read, write, debug; the
  shell adds copyin (writes of one file, chunk by chunk) and copyout (reads of a
  file). There is one thread.
* Hard: one call makes several disk writes and the program can end between two of
  them; blocks are reused with their old bytes; inodes keep their old pointers;
  the bitmap must agree with pointers on disk.
* Correct when: no block is in two places, the bitmap marks what is used and
  nothing else, a call changes no other file, and what was written is read back.

## 2. Modules and how they correspond to the code

| module | models | state | actions |
|---|---|---|---|
| `Pthreads` | POSIX mutexes and conditions (external) | none | operators |
| `BoundedStack` | abstract: what a shared stack promises | `stack`, `fresh`, `taken` | `Put`, `Take` |
| `Pcm4` | Milestone04/main.c | the globals, and a control point per thread | one per stretch between two synchronisation points |
| `BlockSearch` | the search loop of one block | none | function `Found` |
| `Pcm4Search` | the program of Milestone04: EXTENDS `Pcm4` and `BlockSearch` | the bytes of each block (constant) | those of `Pcm4` |
| `MCPcm4` | instances of `Pcm4Search` | | |
| `Pcm4Proofs`, `Pcm4SearchProofs` | theorems about `Pcm4` and `Pcm4Search` | | |
| `PacketTable` | pcap-process.c, packet.c | the table and counters, and per packet a count of frees | `processPacket`, `TallyEntry` |
| `MCPacketTable`, `PacketTableProofs` | instances, theorems | | |
| `Redextract` | main.c and the reading loop of pcap-read.c; EXTENDS `PacketTable` | threads, stack, flags, files | producer, consumers, `main` |
| `RedextractProofs` | theorems about `Redextract` | | |
| `MCRedextract` | instances | | |
| `PcapRead` | the functions of pcap-read.c, reading one file byte by byte | the FILE, the fields of `FilePcapInfo`, and what was returned so far | one per call of `parsePcapFileStart` and `readNextPacket` |
| `MCPcapRead`, `PcapReadProofs` | instances (the captures), theorems | | |
| `SimpleFS` | fs.c, disk.c, the commands of shell.c | `disk`, `isMounted`, `freeBitmapBlock`, `call` | one per disk write |
| `FsDebug` | the scan of `fs_debug` | none | operator `Report` |
| `FileStore` | abstract: what a file system promises its user | `files`, `up`, `op` | one per command |
| `MCSimpleFS` | instances | | |
| `SimpleFSProofs`, `SimpleFSStoreProofs` | theorems about `SimpleFS`: where blocks are; what the user sees | | |
| `Sums` | lemmas: induction, sums over finite sets, remainders and quotients | | |

**Threads (`Pcm4`, `Redextract`).** `pc[t]` is a control point. A step runs from
one point where another thread can be noticed to the next: taking a mutex, going
to sleep, releasing a mutex. What a critical section does is one step when the
section takes no second lock, and is split where it does (`PopEmptyLock` and
`PopFinish` or `PopSleep`; `PopTake`, `CountLock`, `Count`). `CountFound++` is a read
(`SearchLock`) and a write (`SearchCount`) for every match, so that a forgotten
`FoundLock` would lose one. A condition is a set of
sleepers; a signal removes any one of them; a thread that was removed must still
take the mutex before `pthread_cond_wait` returns. Spurious wake-ups are steps
that remove a sleeper without a signal. The flags of redextract are read and
written one access per step, in program order (`PopLeave` reads `FinishedFlag`,
`PopReturn` lowers `Finished`): the Makefile asks for no
optimisation, and what an optimiser may make of the data race is not modelled.
The thread that `main` has not created yet is one that has not run yet.

The two builds of pcm4 differ by a symbol of the preprocessor; a behaviour of `Pcm4` is
one of those in `Builds`, and `USE_CONDITION_VARS` is a variable that no step changes.

**Data abstracted.** A block of pcm4 is named by its producer and iteration, with a
constant number of matches; `Pcm4Search` gives it bytes, and the number is what
`BlockSearch` counts in them. A
packet is a model value with a length, a payload offset, a kind and its bytes; the
slot it hashes to is any slot, since `spooky_hash128` gets seeds that were never
set. `fate` and `freed` are history variables: what became of a packet and how
often it was given to `discardPacket`.

**`SimpleFS`.** A block is an array of words that is read as a superblock, inodes,
pointers or data depending on the reader, like the union of fs.h; so a block that
changes its role keeps its bytes, which is what goes wrong in fs.c when
it goes wrong. A byte of data is as wide as a word. `call` holds what a call in
progress keeps in locals; a step ends with at most one `disk_write`, and `Crash`
(the program quits, is killed, or aborts in `disk_read`) may come between any two.
copyout is the function `Contents`, which computes what `fs_read` returns, and
`fs_getsize` and `fs_debug` are functions of the disk as well. The constant `Habits`
holds what the user may do: whether files are deleted, whether a file that is not empty
is copied into, whether a disk is formatted again, and then with files in its last block of
inodes, how many files there are and how long; a behaviour picks one of them, `habit`.

**`PcapRead`.** A file is what tcpdump wrote, in either byte order, with some bytes
missing at its end; it is read byte by byte with the C library's rules (`fread` sets
the end-of-file indicator only when it is asked for more than there is, `fseek` clears
it and may go beyond the end). A field is `FIELD` bytes with `RADIX` values each, and
`endianfixl` works on these digits. `Redextract` takes from it what a file yields: its
packets in order, NULL for a record that does not fit, and one packet more at the end,
the `EofPacket` there, which is a packet of any length: it has none behind a whole file, and
may have one where the file is cut off within its last record.

**`FsDebug`** has the layout of an inode as constants; `SimpleFS` uses it with direct
pointers from word 4 on and inode 0 of block 1 skipped, as in Project06.

**Abstract specifications.** `BoundedStack` is implemented by both programs: by
`Pcm4` (`StackSpec`, and with progress `StackFairSpec`) with the array read as a
sequence, and by `Redextract` with packets still to be read as `fresh` and packets
in the hands of a consumer or through the table as `taken`. `PacketTable` is a
specification of its own (`TableSpec`: each packet at most once, in any order,
never after the tally has begun) and also a part of `Redextract`, which is shown
to call it only that way. `FileStore` is implemented by `SimpleFS` (`StoreSpec`): a file
is what copyout gives of it; a copy of n bytes replaces the first n bytes of the file, in
the order of the bytes, all of them unless something cuts it short; a format ends when no
file is left; no call changes another file; a crash changes none. `FileStore` says what the
comments of fs.c promise, not what fs.c does: two habits of the user break it (section 6).

Definitions named `Mut...` are plausible slips of the definition after them; no
specification uses them.

## 3. What the runs show

| run | instance | shows |
|---|---|---|
| `pcm4` | both builds: 2 producers x 2 blocks, 3 consumers, 2 slots, spurious wake-ups; 129,049 states up to symmetry | types, `MutualExclusion`, `Accounting`, `NoEarlyExit`, `NoStrandedBlock`, `NoStrandedConsumer`, `DrumrollExact`, `FoundExact`, `StackSpec` |
| `pcm4_cv_live` | 3 producers x 1 block, 2 consumers, 1 slot; 42,392 states | `Termination`; the stack implements `BoundedStack` with its fairness |
| `table` | 7 packets of each kind, 2 entries, a byte counter that wraps at 4; 5,380 states | `PacketMemory`, `SeenExact`, `HitAccounting` |
| `pcap` | up to 3 records of 4 lengths, both byte orders, cut off at every byte; fields of 2 bytes of 4 values; 88,516 states | `FramedInOrder`, `AllReturned`, `ReadsAll`, `Termination` |
| `red_one` | 1 consumer, 3 files, one with a bad header, 1 slot, no spurious wake-ups; 355 states | types, `Termination` |
| `red_files` | 3 consumers, 2 files, 2 slots, spurious wake-ups during the first; 66,152 states | `MutualExclusion`, `NoStrandedPacket`, `SomeConsumerStays`, `AllProcessed`, `StackSpec`, `TableSpec` |
| `fs` | 11 blocks, 2 of them of inodes, and three kinds of users; 87,644 states | types, `NoSharedBlock`, `BitmapExact`, `SizeBacked`, `DebugExact`, `StoreSpec` |

Five runs show a disagreement of the code with a text of the repository, each by a
property that states the text; section 6 says what each trace is.

| run | instance | violates |
|---|---|---|
| `table_hits` | that of `table` | `HitsAreDuplicates` |
| `pcap_records` | whole files of up to 3 records, both byte orders | `RecordsInOrder` |
| `red_join` | 2 consumers, 1 file | `Termination` |
| `fs_wipe` | that of `fs`: 2 files with an indirect block, delete | `CreateSparesFiles` |
| `fs_format` | that of `fs`: 2 files of direct blocks, any format | `FormatClears` |

The configurations that `PROJECT.json` does not list are further instances, to be run by
hand. TLC finds no error in `fs_direct.cfg`, users of direct blocks who overwrite files and format
any disk (`NoSharedBlock`, `BitmapExact`; the theorems of section 5 are about them as well). The
others are counterexamples too:

| configuration | instance | violates |
|---|---|---|
| `pcm4_total.cfg` | 1 producer, 2 consumers | `TotalAppearances` |
| `pcap_flipped.cfg` | files of the other byte order with a record; one packet is read | `RecordsInOrder` |
| `red_early.cfg` | 2 consumers, 2 files, no spurious wake-ups | `NoEarlyReturn` |
| `fs_overwrite.cfg` | that of `fs_direct.cfg` | `SizeBacked` |
| `fs_full.cfg` | that of `fs`: 2 files with an indirect block, no delete | `ShortCopyCounted` |
| `fs_stale.cfg` | that of `fs`: 1 file with an indirect block, the disk formatted again | `WritesOwnBlocks` |

`MCPcm4` also asserts, for every block of seven bytes over two letters, that the
search loop counts the matches it can reach (`SearchCounts`).

**Why the bounds are enough.** In the stacks, one slot and at least two threads on
either side make every wait happen and let a signal reach the wrong thread; three
consumers allow one to sleep, one to be woken and one to overtake. `pcm4` has two slots, so
that order in the stack matters, and `pcm4_cv_live` one. No definition of `Pcm4` or
`Pcm4Search` tells two consumers, or two producers, apart (`Alike`; the blocks of all producers
have the same texts), so the symmetry of `pcm4`, which has no liveness, is sound. The proofs of
section 5 remove the bounds for every invariant of the passing runs, and for the
refinements; those of `SimpleFS` are about direct blocks. The packets of `MCPacketTable` differ in
each thing `processPacket` looks at; two entries let packets collide or not, and a
wrap at 4 is reached by two hits. Two files make the flags of the first matter to
the second, a third with no packets makes a producer that ends at once. In
SimpleFS two direct pointers (the code has three) and a few pointers per indirect
block tell first, middle and beyond apart; a disk of 11 blocks has two blocks of inodes, of
which a format clears one; two files are needed for a block to be shared. The users of `fs`
(`CarefulHabits`) are three: one of two files of direct blocks that are deleted and made again,
and lost by formats; one of two files with an indirect block that stay, which together do not
fit the eight blocks of data, so that the disk fills up at a direct, an indirect or a data
block; one of a single file with an indirect block that is deleted and made again.
`MaxSize`, `maxFiles`, `maxLength` and `Lengths` bound the instance, in guards of `CopyIn` and of
the two create actions. The bytes of a block differ from the zeroes of a fresh disk and from
those of the file's other blocks; which file a block belongs to is a matter of `NoSharedBlock`.
In `pcap` two digits are the fewest that a byte order can swap; the four lengths
are an empty record, one that fits a digit, the longest that fits the buffer (two digits,
so the swap loses it) and one too long; the filler bytes make other lengths wherever a
misread length leads to. A third record follows a second that was skipped or misread.

**What the restrictions on the user mean.** Six habits break SimpleFS as it is
(section 6): deleting a file with an indirect block while others are in use, copying into
a file that is not empty, formatting a disk that has files in its last block of inodes,
filling the inode table, giving inode numbers between the table and the end of
the disk, and formatting a disk again before a file with an indirect block is copied in.
`fs` says how far it can be trusted without these. Files of direct blocks may
be deleted, and lost by a format, and the user gets what `FileStore` promises; who overwrites as
well, and formats any disk, still has no block shared or lost (`fs_direct.cfg` and section 5).
With indirect blocks `FileStore` is implemented on a disk formatted once, as long as nothing is
deleted, or as long as there is one file.

**`CHECK_DEADLOCK FALSE`** in `red_files`, `red_join` and `red_early.cfg`: with two or more
consumers redextract really can stop in its joins, which is what `red_join` shows. All
other runs check deadlock; a program that has ended stutters by an action of its own
(`Exited`, `Reported`, `MainReturned`, `Ended`).

**Fairness.** Weak fairness of each thread (`FairSpec`): a thread that can go on
for ever, does. A POSIX scheduler gives no more for mutexes, so a thread that
waits for a mutex others keep taking may starve; TLC finds termination
without assuming more, because every other thread in the end sleeps or leaves.
In `PcapRead` it says no more than that the producer goes on reading.
There is no fairness for spurious wake-ups, and the liveness runs with threads have none.
In pcm4, where a thread that wakes tests everything again, they could only hide a missing
signal. In redextract they do harm from the second file on: with the flag left over from the
first, a consumer that wakes by itself on an empty stack leaves while the producer reads. If
it is the only one, the producer fills the stack and sleeps for good. So `red_one` shows
termination for a `pthread_cond_wait` without spurious wake-ups and no more; with
`SpuriousFiles = {1, 2}` TLC finds the hang. The same goes for `SomeConsumerStays`,
`NoStrandedPacket` and `AllProcessed` of `red_files`. `red_join` states fairness as well, so that
what it finds is a hang and not a scheduler that stopped.

## 4. Hazards

`PROJECT.json` lists, at their lines, the behaviours a test would hardly reach and
the properties that watch each.

* pcm4: the chain of wake-ups (`NoStrandedBlock`, `NoStrandedConsumer`), the test of
  `CountDone` against the pop after it (`NoEarlyExit`), nested locks
  (`Termination`), blocks searched outside the lock (`FoundExact`, `DrumrollExact`),
  the end of a block (`TotalAppearances`, in `pcm4_total.cfg`).
* redextract: the flags (`SomeConsumerStays`, `Termination`), the
  hand-over from the stack to the table (`AllProcessed`, `TableSpec`), the owner of
  a packet (`PacketMemory`), the width of the counter (`HitAccounting`); lengths of the
  other byte order (`RecordsInOrder`), records that are skipped (`FramedInOrder`), the end of
  a file (`RecordsInOrder`, `AllReturned`, `ReadsAll`, `Termination` of `PcapRead`).
* SimpleFS: crashes within a call and the bitmap that is rebuilt (`BitmapExact`,
  `NoSharedBlock`), other files, reused blocks and copies that end early (`StoreSpec`,
  `CreateSparesFiles`; `WritesOwnBlocks` and `ShortCopyCounted` in configurations), what is counted and listed
  (`SizeBacked`, `DebugExact`), what a format leaves (`FormatClears`).

## 5. What is proved

All proofs are checked by TLAPS. They assume only `Pcm4Assumption`, `BlockSearchAssumption`, `Pcm4SearchAssumption`,
`PacketTableAssumption`, `RedextractAssumption`, `ReadsAssumption`, `PcapReadAssumption` and
`SimpleFSAssumption`:
finite disjoint sets of threads, a stack of at least one slot, any number of iterations, any `Occurrences`;
blocks of one length that the search string fits in; fields of any number of bytes of any
number of values, and a packet buffer that holds what a byte can count (2048 and 255 in the code);
finite packets with a payload that starts within the packet, a table of at least one
entry; at least one consumer and one file, and every packet read once; blocks of any
size, inodes of any number of pointers, and a disk with room for a block of data.

**`Pcm4Proofs`**, for both builds, with or without spurious wake-ups:

* `Invariance`: `Spec => []IInv`, from which follow `TypeCorrect`, `MutexSafe`,
  `AccountingSafe`, `ExitSafe`, `BlockNotStranded` and `ConsumerNotStranded`.
* `IInv` is `ControlInv` and the four safety invariants. `ControlInv` adds
  `ThreadState` to types and mutual exclusion: a sleeper is at its wait, a
  thread past a pop holds a block, a consumer that looks at the counters found the
  stack empty. Without it `Accounting` is not inductive (a pop could take the NULL
  block), nor are the two about stranding (a thread in the wait set could be
  anywhere).
* The argument for `NoEarlyExit`: `Accounting` makes `CountDone` the number of
  blocks popped; there are at most `CountExpected` blocks (`BlocksCount`, by an
  injection into 1..|Producers| * Iterations), so a counter that has reached it leaves
  none unpopped (`AllCounted`), and what is popped stays popped (`PoppedGrows`).
* The argument for the wake-ups: a step that puts the last awake consumer to
  sleep finds an empty stack and work not done; a step that pushes, or counts the
  last block, signals; the woken consumer is the witness until it acts.
* `Refinement`: `Spec => StackSpec`. A push is a `Put`, a `PopTake` is a `Take`, all
  else stutters.

**`Sums`.** The induction theorems of the library take an operator as a parameter, which
no installed prover can instantiate. Induction is done here in first-order terms: for a
property that is a *set* `G` of naturals, the least element outside `G`
(`Smallest`, from the library's well-foundedness of finite subsets) gives `NatSetInduction`,
and the number of elements gives `SetInduction` for sets of finite sets. From that comes what
`SumFunctionOnSet` of the community modules does when an element is added, a value changes
or two functions are added, and that sums may be taken with remainders at each step
(`WrappedSum`).

**`Pcm4SearchProofs`**, for any bytes, any search string, any number of threads:

* `FoundSafe` and `DrumrollSafe`. The inductive invariant is `IInv`, `FoundExact` itself and
  `HandInv`: a consumer has a block exactly from the pop to the end of its search, it has
  counted no more of it than there is, what it read of `CountFound` under `FoundLock` is
  still the value, and `main` has returned only when all are gone. A pop moves the matches of
  a block from nowhere to a hand, a `SearchCount` one of them from the hand to `CountFound`;
  both change one element of a sum. At the end no hand is full and `Popped` is `Blocks`.
* `TotalSafe`: if no block ends with the search string (`NoneAtEnd`), the total is the number
  of times it appears (`TotalAppearances`). `pcm4_total.cfg` shows that the condition is needed.
* `SearchExact`: the recursive function `Found` counts the matches before the last byte, by
  induction over the length of the block.

**`PacketTableProofs`**:

* `MemorySafe`, `SeenCorrect` and `TableTypeCorrect`, from
  the inductive invariant `MemoryInv`, which adds that a packet not processed yet has
  not been freed; else storing it could put a freed packet in the table.
* `HitsAccounted` (`HitAccounting`): the hits in the entries and in the report are the packets
  discarded as hits. `ReportCorrect`: after the tally, with every entry empty
  (`TalliedEmpty`), the report gives their number, and their bytes up to 2^32 although the
  counter of each entry may have wrapped on the way.

**`PcapReadProofs`**, for any width of fields and bytes, and any file, cut off anywhere:

* `Framing` (`FramedInOrder`), from `ReadInvariance`. The inductive invariant is `PlaceInv`:
  as long as every record so far was in the file and its length read right, the FILE stands at
  the first byte of the next one. `LengthIs` says what the `FIELD` bytes at a
  record's length give: the length in the machine's own order, its lowest digit through
  `endianfixl` in the other; it rests on `SumOfDigits` (the digits of a number add up to
  it). `Power` is a function of the specification's own because the prover has no `^`.
* `WholeFileRead` (`ReadsAll`) and `RecordsReturned` (`AllReturned`) for `MaxPackets = 0`,
  which is what `main` asks for; with a limit the reading ends earlier, on purpose. Both rest
  on `EndInv`: the loop ends with every byte behind it.
* A lemma, `OneMoreRead`, says what the last call does, which is not what pcap-read.h:39 says
  of it (section 6): just one packet that is no record is returned, after all that are.
  It is why `Redextract` ends each file with one `EofPacket`.

**`RedextractProofs`**, for any number of consumers, files, packets and slots:

* `ThreadInvariance`: `Spec => []ThreadInv`, from which `TypeCorrect` and
  `MutuallyExclusive`. Its parts: a thread has a packet in hand exactly while it pushes or
  processes it (`Hands`), a sleeper is in its wait (`Waiting`), where the threads are
  while `main` is at each of its steps (`Phases`), a packet that is still new is in one
  place only (`Apart`) and in some place (`Covered`). `Apart` is what lets a step of
  a consumer be a `Take` and a step of the table a `processPacket`: without it a packet
  could be processed twice.
* `TableRefined` and `StackRefined`: `Spec` implies `TableSpec` and `StackSpec`.
  `TableSafe` then follows from the theorems about `PacketTable` alone: what holds of every
  use of the table that keeps its rules, hits and report included, holds in redextract.
* Under the assumption `SpuriousFiles \subseteq {1}` (no wait ends by itself after the
  first file; section 6 says what happens else): `ConsumersInvariance`, from which
  `NoPacketStranded`, `ConsumerStays` and `EverythingProcessed`. A single consumer may leave
  early (`red_early.cfg`); that one stays is what can be proved. The argument: a consumer leaves only after a wake-up, and while the producer runs a
  wake-up comes from a push. When the woken consumer tests the flag, the packet of that
  push is still on the stack, or another consumer took it, which cannot be leaving then.
  So with the flag up and the producer running, either the stack is not empty or some
  consumer is *settled*: not gone, and not on its way out of its wait (`OneSettled`). The
  flag is down during the first file, and then nobody leaves (`FlagInv`); between two
  files the stack is empty (`EmptyBetween`).

**`SimpleFSProofs`**, for any size of the disk, its blocks and inodes:

* `TypeCorrect`, whatever the user does, with indirect blocks as well.
* Under the assumption `DirectUse`: `DirectBlocksApart` (`NoSharedBlock`) and
  `DirectBitmapExact` (`BitmapExact`). It says that every file fits the direct pointers,
  that there are fewer files than the table has inodes, that the numbers typed are those
  of the table or lead beyond the disk, and that memory which was never set is zero.
  Deleting, overwriting, full disks, remounts and crashes between any two disk writes are all
  allowed, and `fs_direct.cfg` is an instance. Section 6 says what happens to
  users who break one of the first three; the last keeps indirect pointers out of a
  table that was just formatted.
* The inductive invariant `DirectInv` speaks of slots of the table and of the words of
  an inode: the table on the disk has no indirect pointer (`TableOK`), the pointers of
  different files or words differ and lead beyond it (`PointersApart`), and the bitmap
  has exactly these (`BitmapOf`). The two invariants alone are not inductive, since
  fs_write writes back an inode block it read earlier: `CopyInv` says that this copy
  differs from the disk in the size of the file only. `ChunkInv` keeps a copy in
  several chunks within the direct pointers (a chunk that is followed by another is
  whole blocks), and `FormatInv` says the blocks fs_format writes hold no file.
* What each call does to the table is a lemma of its own (`CreatingKeeps`,
  `DeletingKeeps`, `AllocatingKeeps`, `ClearingKeeps`, `SameKeeps`), without a word of
  where inodes lie in blocks; `WordsApart` and `OneQuotient` are where that matters.
  `FirstFreeInTable` counts: with fewer files than inodes, fs_create never gets to the
  block after the table.

**`SimpleFSStoreProofs`**, under `DirectUse`:

* `StoreInvariance`: `DirectInv`; the superblock of a formatted disk is what fs_format wrote,
  else a mount would read another table (`SuperInv`); and `WriteInv`, which says during a copy
  what every block of the file written so far holds, that a block is full while bytes are left,
  and that the size in the copy of the inode counts no byte of an empty file that was not
  written. `PointersApart` of `DirectInv` is what keeps the other files' bytes.
* `DirectSizeBacked` (`SizeBacked`) with `NoOverwrite` (the user does not copy into a file
  that has contents). `BackedInv` adds that the size in the copy is just what was written. It
  uses of each step only what `KeptSlot` says: an inode is unused after it, or empty, or as it
  was, or the one being written.
* `DirectStore`: `Spec => StoreSpec`, the refinement of `FileStore`, with `NoOverwrite` and
  `NoReformat` (the user does not format a disk with files in its last block of inodes);
  the first user of `fs` is an instance. There is one lemma for each action (`CopyInStore`,
  `AllocateStore`, ...). A copy of one chunk after the other is one operation of `FileStore`:
  its steps before the inode is written change no byte that the size lets a reader see. That
  the file is then the data and nothing behind it is `BackedInv`. That a format leaves
  no file is `ToDestroy`: while it is under way, the files there are lie in blocks it has still
  to write, which the last block of inodes is not.
* `DirectDebugExact` (`DebugExact`): the scan of fs_debug, as `FsDebug` gives it, finds each
  pointer once and each pointer's block beyond the table.

**Only model-checked**: liveness (`Termination`, `StackFairSpec`), which the prover does not
do; and, for users of files with indirect blocks, everything about `SimpleFS` but its types
(`fs`). `FramedInOrder` needs no assumption on `MaxPackets`; the instance `pcap` is
the one of `main`, 0.

## 6. Where the code and its text disagree

Five disagreements have a run, and a finding in `PROJECT.json` that quotes the text:

* `table_hits`: pcap-process.c:218 counts a hit if the comparison broke off with a
  mismatch, so equal payloads are no hit and different payloads of one size are.
* `pcap_records`: the read that fails at the end of a file yields one more packet, which is no
  record (`EofPacket` in `Redextract`), where pcap-read.h:39 promises NULL.
* `red_join`: the first consumer that leaves lowers `Finished` (main.c:73), `main`
  stops to broadcast, and a consumer that sleeps, or goes to sleep after that,
  is never woken.
* `fs_wipe`: fs_delete leaves the indirect pointer in the inode, and fs_create
  clears that block (fs.c:396) although it may belong to another file by then.
* `fs_format`: fs_format leaves the last block of inodes as it is (fs.c:85), all of them if
  there is one; fs.c:47 says that it "clears the inode table".

Six have a configuration, and a property that states the text:

* `pcm4_total.cfg`: the loop of main.c:253 of pcm4 ends before the last start at which the search
  string fits, so a match at the very end of a block is missing from the total, although
  main.c:252 speaks of "how many times the requested string appears". `DrumrollExact` of the
  run `pcm4` does not say that the search is right, only that its results are added up.
* `pcap_flipped.cfg`: packet.h:44 calls `endianfixl` a "Helper to do the endian magic fix"; it keeps
  one byte and drops the others, so a record of 256 bytes or more of a file of the other byte
  order is read with a wrong length, and the records after it from wrong places.
* `red_early.cfg`: `FinishedFlag` is never lowered, so a consumer of the second file that is woken
  and finds that another took the packet leaves while the producer reads (main.c:71).
* `fs_overwrite.cfg`: fs_write adds overwritten bytes to the size again (fs.c:749), so the file
  reads on past its blocks, from block 0.
* `fs_full.cfg`: fs_write returns from a full disk without writing the inode (fs.c:723), so the
  size does not count what fs_write says was written in that chunk.
* `fs_stale.cfg`: a new indirect block is used with the bytes it held before (fs.c:789); data or
  pointers from before a format are then taken for pointers, and fs_write writes where they lead.

Others were seen while modelling. The model does what the code does in
each case; the instances avoid them:

* Without `USE_CONDITION_VARS` nothing increments `CountDone`, so no consumer ever
  leaves; only the safety of that build is checked.
* A packet whose slot is taken by a different one is neither stored nor freed: the
  branch that would evict (pcap-process.c:239) compares a remainder with its modulus. No
  property of the table says that nothing leaks.
* A file with a bad header is not closed (pcap-read.c:209), and one too short for a magic
  number is judged by a variable that was never set (pcap-read.c:69).
* fs.c:520 says `fs_getsize` returns -1 on failure; on a disk that is not mounted it
  returns 0 (fs.c:525), "a valid logical size".
* With a spurious wake-up for each, all consumers of a file after the first can leave before
  the producer has ended; `red_files` has such wake-ups during the first file only
  (`SpuriousFiles`).
* fs_create looks for a free inode one block past the table (fs.c:350), fs_delete
  accepts one number past it (fs.c:463).

## 7. Not modelled

* `spooky.c` is vendored; its value is any value. `byteblock.c` is malloc and memset.
* Milestone06: its `fs_debug` is the scan of Project06 over an inode with five direct pointers
  and none skipped, its other calls return a constant, and its disk and shell are those of
  Project06 with counters that are printed.
* Argument parsing, usage texts, timing, sleeps and random delays, what is printed.
* The fields of a capture that nothing depends on (versions, time, snapshot length).
* An image that is opened with another number of blocks than it was formatted with.
* Out-of-memory, and behaviour that is undefined: an index past the indirect block, a
  comparison that reads past a payload's buffer, negative inode numbers. `Lengths` and
  `Inumbers` keep to the rest. `Garbage`, the words of the uninitialised superblock, is
  zero in the runs.

## 8. Plan

Done, in this order: `Pthreads`, `BoundedStack`, `Pcm4` with its proofs;
`PacketTable` with its proofs; `Redextract`; `SimpleFS`; `BlockSearch`; `PcapRead`;
`FileStore` and `FsDebug` with the refinement of the one and the use of the other in
`SimpleFS`; `RedextractProofs`; `SimpleFSProofs`; `Sums`, with `Pcm4SearchProofs`, the hits of
`PacketTableProofs`, `SimpleFSStoreProofs` and `PcapReadProofs`.

Left:

1. `SimpleFSProofs` for files with an indirect block that are never deleted: `NoSharedBlock`
   and `BitmapExact`, then `StoreSpec`.
2. A property of the packet table that sees the leak of section 6.
