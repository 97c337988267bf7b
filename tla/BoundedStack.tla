---------------------------- MODULE BoundedStack ----------------------------
(***************************************************************************)
(* What the shared stack of a producer/consumer program promises, whatever *)
(* its locks and condition variables do: it never holds more than Capacity *)
(* items, an item enters it at most once, the item taken is the one put    *)
(* last, and an item is taken at most once.                                *)
(***************************************************************************)
EXTENDS Naturals, Sequences

CONSTANTS Items,    \* everything that will ever be put
          Capacity  \* the most the stack may hold

VARIABLES stack,    \* the items held, the next one to take last
          fresh,    \* the items not yet put
          taken     \* the items already taken

vars == <<stack, fresh, taken>>

Init == stack = <<>> /\ fresh = Items /\ taken = {}

Put(x) ==
  /\ x \in fresh
  /\ Len(stack) < Capacity
  /\ stack' = Append(stack, x)
  /\ fresh' = fresh \ {x}
  /\ UNCHANGED taken

Take ==
  /\ stack # <<>>
  /\ stack' = SubSeq(stack, 1, Len(stack) - 1)
  /\ taken' = taken \cup {stack[Len(stack)]}
  /\ UNCHANGED fresh

Next == Take \/ \E x \in Items : Put(x)

\* The safety part of the promise.
Spec == Init /\ [][Next]_vars

\* With progress: as long as something can be put or taken, something is.
FairSpec == Spec /\ WF_vars(Next)
=============================================================================
