------------------------------ MODULE FileStore ------------------------------
(***************************************************************************)
(* What a file system promises the user of its shell, with no word about   *)
(* blocks, inodes and bitmaps: files have numbers and contents, a call     *)
(* changes the file it is about and no other, a format leaves no file,     *)
(* what was copied in can be read, and a copy that was cut short (no room  *)
(* left, or a crash) has replaced a beginning of the file by the same      *)
(* beginning of the data, and nothing else.                                *)
(***************************************************************************)
EXTENDS Integers

CONSTANT Inumbers  \* the numbers a file can have

VARIABLES
  files,           \* the contents of each file there is, byte by byte
  up,              \* whether the file system is mounted
  op               \* the operation in progress

vars == <<files, up, op>>

Idle == [kind |-> "idle"]
Formatting == [kind |-> "format"]
Empty == [o \in {} |-> 0]

\* The first m bytes of contents d, and contents d written over contents c.
Beginning(d, m) == [o \in { o \in DOMAIN d : o < m } |-> d[o]]
Overlaid(d, c) ==
  [o \in DOMAIN d \cup DOMAIN c |-> IF o \in DOMAIN d THEN d[o] ELSE c[o]]

Init == files = [i \in {} |-> Empty] /\ up = FALSE /\ op = Idle

\* No file but those in S is changed.
OnlyChanges(S) ==
  /\ DOMAIN files' \ S = DOMAIN files \ S
  /\ \A i \in DOMAIN files \ S : files'[i] = files[i]

Mount == op = Idle /\ up' = TRUE /\ UNCHANGED <<files, op>>
Crash == up' = FALSE /\ op' = Idle /\ UNCHANGED files

\* A format, of a file system that is not mounted, destroys files, one or more
\* at a time, keeps the others whole until then, and ends when none is left.
BeginFormat == ~up /\ op = Idle /\ op' = Formatting /\ UNCHANGED <<files, up>>
Format ==
  /\ op = Formatting
  /\ DOMAIN files' \subseteq DOMAIN files
  /\ OnlyChanges(DOMAIN files \ DOMAIN files')
  /\ UNCHANGED <<up, op>>
EndFormat ==
  op = Formatting /\ DOMAIN files = {} /\ op' = Idle /\ UNCHANGED <<files, up>>

Create(i) ==
  /\ up /\ op = Idle /\ i \notin DOMAIN files
  /\ i \in DOMAIN files' /\ files'[i] = Empty
  /\ OnlyChanges({i}) /\ UNCHANGED <<up, op>>

Delete(i) ==
  /\ up /\ op = Idle /\ i \in DOMAIN files /\ i \notin DOMAIN files'
  /\ OnlyChanges({i}) /\ UNCHANGED <<up, op>>

\* A copy of op.length bytes, op.data, over the start of file i; op.left of them
\* are still to be written.
BeginCopy(i) ==
  /\ up /\ op = Idle /\ i \in DOMAIN files
  /\ op'.kind = "copy" /\ op'.file = i /\ op'.left = op'.length
  /\ UNCHANGED <<files, up>>

\* Some bytes are written, and may be visible before the copy is complete.
Copy ==
  /\ op.kind = "copy" /\ op'.kind = "copy"
  /\ op'.left <= op.left /\ op' = [op EXCEPT !.left = op'.left]
  /\ op.file \in DOMAIN files'
  /\ OnlyChanges({op.file})
  /\ \E m \in 0..op.length - op'.left :
       files'[op.file] = Overlaid(Beginning(op.data, m), files[op.file])
  /\ UNCHANGED up

\* The copy is complete, or there was no room for all bytes.
EndCopy ==
  /\ op.kind = "copy" /\ op.left = 0 /\ op' = Idle
  /\ op.file \in DOMAIN files'
  /\ OnlyChanges({op.file})
  /\ files'[op.file] = Overlaid(op.data, files[op.file])
  /\ UNCHANGED up
NoRoom == op.kind = "copy" /\ op.left > 0 /\ op' = Idle /\ UNCHANGED <<files, up>>

Next ==
  \/ Mount \/ Crash \/ BeginFormat \/ Format \/ EndFormat
  \/ \E i \in Inumbers : Create(i) \/ Delete(i) \/ BeginCopy(i)
  \/ Copy \/ EndCopy \/ NoRoom

Spec == Init /\ [][Next]_vars
=============================================================================
