-------------------------------- MODULE Sums --------------------------------
(***************************************************************************)
(* Induction over natural numbers and over finite sets, stated with a set  *)
(* of the elements it holds for; the sum of a function over a finite set;  *)
(* products, quotients and remainders: the lemmas that the proofs about    *)
(* totals and about positions rest on.                                     *)
(***************************************************************************)
EXTENDS Integers, FiniteSets, Functions, FiniteSetTheorems,
        WellFoundedInduction, TLAPS

-----------------------------------------------------------------------------
(* Induction.                                                              *)

\* Every set of naturals that is not empty has a least element.
LEMMA Smallest ==
  ASSUME NEW S \in SUBSET Nat, S # {}
  PROVE  \E x \in S : \A y \in S : x <= y
<1> DEFINE T == { 0..x : x \in S }
<1>1. T \subseteq FiniteSubsetsOf(Nat)
  <2> SUFFICES ASSUME NEW x \in S PROVE 0..x \in SUBSET Nat /\ IsFiniteSet(0..x)
    BY DEF FiniteSubsetsOf
  <2>1. x \in Int /\ 0 \in Int
    OBVIOUS
  <2> QED
    BY <2>1, FS_Interval
<1>2. PICK x \in S : \A y \in S : <<0..y, 0..x>> \notin StrictSubsetOrdering(Nat)
  <2>1. T # {}
    OBVIOUS
  <2>2. \E I \in T : \A J \in T : <<J, I>> \notin StrictSubsetOrdering(Nat)
    BY <1>1, <2>1, FS_StrictSubsetOrderingWellFounded, WFMin
  <2> QED
    BY <2>2
<1>3. ASSUME NEW y \in S, y < x
      PROVE  FALSE
  <2>1. 0..y \subseteq 0..x /\ 0..y \in SUBSET Nat /\ 0..x \in SUBSET Nat
    BY <1>3
  <2>2. x \in 0..x /\ x \notin 0..y
    BY <1>3
  <2> QED
    BY <1>2, <2>1, <2>2 DEF StrictSubsetOrdering
<1> QED
  BY <1>3

\* A set that has 0, and with a natural the next one, has them all.
LEMMA NatSetInduction ==
  ASSUME NEW G, 0 \in G, \A n \in Nat : n \in G => n + 1 \in G
  PROVE  Nat \subseteq G
<1> SUFFICES ASSUME Nat \ G # {} PROVE FALSE
  OBVIOUS
<1>1. PICK n \in Nat \ G : \A m \in Nat \ G : n <= m
  <2>1. Nat \ G \in SUBSET Nat
    OBVIOUS
  <2> QED
    BY <2>1, Smallest
<1>2. n # 0 /\ n - 1 \in Nat /\ n - 1 < n
  BY <1>1
<1>3. n - 1 \in G
  BY <1>1, <1>2
<1>4. n \in G
  BY <1>2, <1>3
<1> QED
  BY <1>1, <1>4

\* Removing an element from a finite set leaves a smaller one.
LEMMA RemoveSmaller ==
  ASSUME NEW T, IsFiniteSet(T), NEW x \in T
  PROVE  /\ IsFiniteSet(T \ {x})
         /\ Cardinality(T \ {x}) \in Nat /\ Cardinality(T) \in Nat
         /\ Cardinality(T \ {x}) = Cardinality(T) - 1
BY FS_RemoveElement, FS_CardinalityType

\* A set of subsets of a finite set that has the empty one, and every subset
\* that it has all but one element of, has them all.
LEMMA SetInduction ==
  ASSUME NEW S, IsFiniteSet(S), NEW G, {} \in G,
         \A T \in SUBSET S : T # {} /\ (\A x \in T : T \ {x} \in G) => T \in G
  PROVE  SUBSET S \subseteq G
<1> DEFINE B == { n \in Nat : \E T \in SUBSET S : T \notin G /\ Cardinality(T) = n }
<1>1. \A T \in SUBSET S : IsFiniteSet(T) /\ Cardinality(T) \in Nat
  BY FS_Subset, FS_CardinalityType
<1> SUFFICES ASSUME B # {} PROVE FALSE
  BY <1>1
<1>2. PICK n \in B : \A m \in B : n <= m
  <2>1. B \in SUBSET Nat
    OBVIOUS
  <2> HIDE DEF B
  <2> QED
    BY <2>1, Smallest
<1>3. PICK T \in SUBSET S : T \notin G /\ Cardinality(T) = n
  BY <1>2
<1>4. ASSUME NEW x \in T
      PROVE  T \ {x} \in G
  <2>1. Cardinality(T \ {x}) \in Nat /\ Cardinality(T \ {x}) < n
    BY <1>1, <1>3, RemoveSmaller
  <2>2. Cardinality(T \ {x}) \notin B
    BY <1>2, <2>1
  <2> QED
    BY <2>1, <2>2
<1> QED
  BY <1>3, <1>4

-----------------------------------------------------------------------------
(* The recursive function behind SumFunctionOnSet.                         *)

Chosen(T) == CHOOSE x \in T : TRUE

\* g adds up f over each of the sets in D, one element after the other.
AddsUp(g, f, D) ==
  g = [T \in D |-> IF T = {} THEN 0 ELSE f[Chosen(T)] + g[T \ {Chosen(T)}]]

\* What that says of the subsets of S.
AddsParts(g, f, S) ==
  \A T \in SUBSET S :
    g[T] = IF T = {} THEN 0 ELSE f[Chosen(T)] + g[T \ {Chosen(T)}]

LEMMA ChosenIn ==
  ASSUME NEW T, T # {} PROVE Chosen(T) \in T
BY DEF Chosen

LEMMA SumIs ==
  ASSUME NEW f, NEW S
  PROVE  SumFunctionOnSet(f, S) = (CHOOSE g : AddsUp(g, f, SUBSET S))[S]
BY DEF SumFunctionOnSet, FoldFunctionOnSet, MapThenFoldSet, AddsUp, Chosen

\* The function exists over the subsets of a finite set: one that adds up the
\* sets with at most n elements is extended to those with n + 1.
LEMMA AdderExists ==
  ASSUME NEW f, NEW S, IsFiniteSet(S)
  PROVE  \E g : AddsUp(g, f, SUBSET S)
<1> DEFINE Small(n) == { T \in SUBSET S : Cardinality(T) <= n }
           G == { n \in Nat : \E g : AddsUp(g, f, Small(n)) }
<1>1. \A T \in SUBSET S : IsFiniteSet(T) /\ Cardinality(T) \in Nat
  BY FS_Subset, FS_CardinalityType
<1>2. 0 \in G
  <2> DEFINE g == [T \in Small(0) |-> 0]
  <2>1. \A T \in Small(0) : T = {}
    <3> SUFFICES ASSUME NEW T \in Small(0), NEW x \in T PROVE FALSE
      OBVIOUS
    <3>1. IsFiniteSet(T) /\ Cardinality(T) = 0
      BY <1>1
    <3> QED
      BY <3>1, FS_EmptySet
  <2>2. AddsUp(g, f, Small(0))
    BY <2>1 DEF AddsUp
  <2> HIDE DEF g
  <2> QED
    BY <2>2
<1>3. ASSUME NEW n \in Nat, n \in G
      PROVE  n + 1 \in G
  <2>1. PICK g : AddsUp(g, f, Small(n))
    BY <1>3
  <2> DEFINE h == [T \in Small(n + 1) |->
                     IF T = {} THEN 0 ELSE f[Chosen(T)] + g[T \ {Chosen(T)}]]
  <2>2. ASSUME NEW T \in Small(n + 1), T # {}
        PROVE  h[T \ {Chosen(T)}] = g[T \ {Chosen(T)}]
    <3> DEFINE U == T \ {Chosen(T)}
    <3>1. Chosen(T) \in T
      BY <2>2, ChosenIn
    <3>2. U \in SUBSET S /\ Cardinality(U) \in Nat
      BY <1>1
    <3>3. Cardinality(U) = Cardinality(T) - 1 /\ Cardinality(T) \in Nat
      BY <1>1, <3>1, RemoveSmaller
    <3>4. U \in Small(n) /\ U \in Small(n + 1)
      BY <3>2, <3>3
    <3> HIDE DEF U
    <3>5. g[U] = IF U = {} THEN 0 ELSE f[Chosen(U)] + g[U \ {Chosen(U)}]
      BY <2>1, <3>4 DEF AddsUp
    <3>6. h[U] = g[U]
      BY <3>4, <3>5
    <3> QED
      BY <3>6 DEF U
  <2>3. AddsUp(h, f, Small(n + 1))
    BY <2>2 DEF AddsUp
  <2> HIDE DEF h, Small
  <2>4. n + 1 \in Nat /\ \E k : AddsUp(k, f, Small(n + 1))
    BY <2>3
  <2> QED
    BY <2>4
<1>4. Nat \subseteq G
  <2> HIDE DEF G
  <2> QED
    BY <1>2, <1>3, NatSetInduction
<1>5. Cardinality(S) \in G
  BY <1>1, <1>4
<1>6. Small(Cardinality(S)) = SUBSET S
  <2> SUFFICES ASSUME NEW T \in SUBSET S PROVE Cardinality(T) <= Cardinality(S)
    OBVIOUS
  <2> QED
    BY FS_Subset
<1> QED
  BY <1>5, <1>6

\* It is the same over the subsets of a part of the set.
LEMMA AddersAgree ==
  ASSUME NEW f, NEW S, IsFiniteSet(S), NEW R, R \subseteq S,
         NEW g, AddsParts(g, f, S), NEW h, AddsParts(h, f, R)
  PROVE  g[R] = h[R]
<1> DEFINE G == { T \in SUBSET R : g[T] = h[T] }
<1>1. IsFiniteSet(R)
  BY FS_Subset
<1>2. \A T \in SUBSET R :
        g[T] = IF T = {} THEN 0 ELSE f[Chosen(T)] + g[T \ {Chosen(T)}]
  BY DEF AddsParts
<1>3. \A T \in SUBSET R :
        h[T] = IF T = {} THEN 0 ELSE f[Chosen(T)] + h[T \ {Chosen(T)}]
  BY DEF AddsParts
<1>4. {} \in G
  BY <1>2, <1>3
<1>5. ASSUME NEW T \in SUBSET R, T # {}, \A x \in T : T \ {x} \in G
      PROVE  T \in G
  <2>1. T \ {Chosen(T)} \in G
    BY <1>5, ChosenIn
  <2> QED
    BY <1>2, <1>3, <1>5, <2>1
<1>6. SUBSET R \subseteq G
  <2> HIDE DEF G
  <2> QED
    BY <1>1, <1>4, <1>5, SetInduction
<1> QED
  BY <1>6

LEMMA SumParts ==
  ASSUME NEW f, NEW S, IsFiniteSet(S)
  PROVE  \E g : AddsParts(g, f, S) /\ SumFunctionOnSet(f, S) = g[S]
<1>1. PICK g : AddsUp(g, f, SUBSET S) /\ SumFunctionOnSet(f, S) = g[S]
  BY AdderExists, SumIs
<1>2. AddsParts(g, f, S)
  BY <1>1 DEF AddsUp, AddsParts
<1> QED
  BY <1>1, <1>2

-----------------------------------------------------------------------------
(* The sum of a function over a finite set.                                *)

LEMMA SumEmpty ==
  ASSUME NEW f
  PROVE  SumFunctionOnSet(f, {}) = 0
<1>1. PICK g : AddsParts(g, f, {}) /\ SumFunctionOnSet(f, {}) = g[{}]
  BY FS_EmptySet, SumParts
<1> QED
  BY <1>1 DEF AddsParts

\* The element that the recursion starts with.
LEMMA SumChosen ==
  ASSUME NEW f, NEW S, IsFiniteSet(S), S # {}
  PROVE  SumFunctionOnSet(f, S)
           = f[Chosen(S)] + SumFunctionOnSet(f, S \ {Chosen(S)})
<1>1. PICK g : AddsParts(g, f, S) /\ SumFunctionOnSet(f, S) = g[S]
  BY SumParts
<1>2. PICK Rest : Rest = S \ {Chosen(S)} /\ IsFiniteSet(Rest) /\ Rest \subseteq S
  BY FS_Subset
<1>3. PICK h : AddsParts(h, f, Rest) /\ SumFunctionOnSet(f, Rest) = h[Rest]
  BY <1>2, SumParts
<1>4. g[S] = f[Chosen(S)] + g[Rest]
  BY <1>1, <1>2 DEF AddsParts
<1>5. g[Rest] = h[Rest]
  BY <1>1, <1>2, <1>3, AddersAgree
<1> QED
  BY <1>1, <1>2, <1>3, <1>4, <1>5

LEMMA SumInNat ==
  ASSUME NEW f, NEW S, IsFiniteSet(S), \A x \in S : f[x] \in Nat
  PROVE  SumFunctionOnSet(f, S) \in Nat
<1> DEFINE G == { T \in SUBSET S : SumFunctionOnSet(f, T) \in Nat }
<1>1. {} \in G
  BY SumEmpty
<1>2. ASSUME NEW T \in SUBSET S, T # {}, \A x \in T : T \ {x} \in G
      PROVE  T \in G
  <2>1. IsFiniteSet(T) /\ Chosen(T) \in T
    BY <1>2, ChosenIn, FS_Subset
  <2>2. T \ {Chosen(T)} \in G /\ f[Chosen(T)] \in Nat
    BY <1>2, <2>1
  <2> QED
    BY <1>2, <2>1, <2>2, SumChosen
<1>3. SUBSET S \subseteq G
  <2> HIDE DEF G
  <2> QED
    BY <1>1, <1>2, SetInduction
<1> QED
  BY <1>3

\* Whichever element is taken out first: the recursion goes on without both.
LEMMA SumRemove ==
  ASSUME NEW f, NEW S, IsFiniteSet(S), \A x \in S : f[x] \in Nat, NEW e \in S
  PROVE  /\ SumFunctionOnSet(f, S) = f[e] + SumFunctionOnSet(f, S \ {e})
         /\ SumFunctionOnSet(f, S \ {e}) \in Nat
<1> DEFINE G == { T \in SUBSET S : \A x \in T :
                    SumFunctionOnSet(f, T) = f[x] + SumFunctionOnSet(f, T \ {x}) }
<1>1. {} \in G
  OBVIOUS
<1>2. ASSUME NEW T \in SUBSET S, T # {}, \A x \in T : T \ {x} \in G
      PROVE  T \in G
  <2> SUFFICES ASSUME NEW x \in T
               PROVE  SumFunctionOnSet(f, T) = f[x] + SumFunctionOnSet(f, T \ {x})
    OBVIOUS
  <2>1. PICK c : c = Chosen(T)
    OBVIOUS
  <2>2. IsFiniteSet(T) /\ c \in T
    BY <1>2, <2>1, ChosenIn, FS_Subset
  <2>3. SumFunctionOnSet(f, T) = f[c] + SumFunctionOnSet(f, T \ {c})
    BY <1>2, <2>1, <2>2, SumChosen
  <2>4. CASE x = c
    BY <2>3, <2>4
  <2>5. CASE x # c
    <3>1. (T \ {c}) \ {x} = (T \ {x}) \ {c}
      OBVIOUS
    <3>2. SumFunctionOnSet(f, T \ {c})
            = f[x] + SumFunctionOnSet(f, (T \ {c}) \ {x})
      BY <1>2, <2>2, <2>5
    <3>3. SumFunctionOnSet(f, T \ {x})
            = f[c] + SumFunctionOnSet(f, (T \ {x}) \ {c})
      BY <1>2, <2>2, <2>5
    <3>4. SumFunctionOnSet(f, (T \ {c}) \ {x}) \in Nat
      <4>1. IsFiniteSet((T \ {c}) \ {x})
        BY <2>2, FS_Subset
      <4> QED
        BY <4>1, SumInNat
    <3>5. f[x] \in Nat /\ f[c] \in Nat
      BY <2>2
    <3> QED
      BY <2>3, <3>1, <3>2, <3>3, <3>4, <3>5
  <2> QED
    BY <2>4, <2>5
<1>3. SUBSET S \subseteq G
  <2> HIDE DEF G
  <2> QED
    BY <1>1, <1>2, SetInduction
<1>4. SumFunctionOnSet(f, S \ {e}) \in Nat
  <2>1. IsFiniteSet(S \ {e})
    BY FS_Subset
  <2> QED
    BY <2>1, SumInNat
<1> QED
  BY <1>3, <1>4

LEMMA SumAdd ==
  ASSUME NEW f, NEW S, IsFiniteSet(S), NEW e, e \notin S,
         \A x \in S \cup {e} : f[x] \in Nat
  PROVE  SumFunctionOnSet(f, S \cup {e}) = SumFunctionOnSet(f, S) + f[e]
<1>1. IsFiniteSet(S \cup {e}) /\ (S \cup {e}) \ {e} = S
  BY FS_AddElement
<1>2. SumFunctionOnSet(f, S) \in Nat /\ f[e] \in Nat
  BY SumInNat
<1>3. SumFunctionOnSet(f, S \cup {e})
        = f[e] + SumFunctionOnSet(f, (S \cup {e}) \ {e})
  <2>1. e \in S \cup {e}
    OBVIOUS
  <2> QED
    BY <1>1, <2>1, SumRemove
<1> QED
  BY <1>1, <1>2, <1>3

LEMMA SumSame ==
  ASSUME NEW f, NEW g, NEW S, IsFiniteSet(S), \A x \in S : f[x] = g[x]
  PROVE  SumFunctionOnSet(f, S) = SumFunctionOnSet(g, S)
<1> DEFINE G == { T \in SUBSET S :
                    SumFunctionOnSet(f, T) = SumFunctionOnSet(g, T) }
<1>1. {} \in G
  BY SumEmpty
<1>2. ASSUME NEW T \in SUBSET S, T # {}, \A x \in T : T \ {x} \in G
      PROVE  T \in G
  <2>1. IsFiniteSet(T) /\ Chosen(T) \in T
    BY <1>2, ChosenIn, FS_Subset
  <2>2. T \ {Chosen(T)} \in G /\ f[Chosen(T)] = g[Chosen(T)]
    BY <1>2, <2>1
  <2>3. /\ SumFunctionOnSet(f, T)
             = f[Chosen(T)] + SumFunctionOnSet(f, T \ {Chosen(T)})
        /\ SumFunctionOnSet(g, T)
             = g[Chosen(T)] + SumFunctionOnSet(g, T \ {Chosen(T)})
    BY <1>2, <2>1, SumChosen
  <2> QED
    BY <2>2, <2>3
<1>3. SUBSET S \subseteq G
  <2> HIDE DEF G
  <2> QED
    BY <1>1, <1>2, SetInduction
<1> QED
  BY <1>3

\* The value at one element changes.
LEMMA SumUpdate ==
  ASSUME NEW f, NEW g, NEW S, IsFiniteSet(S), NEW e \in S,
         \A x \in S : f[x] \in Nat /\ g[x] \in Nat,
         \A x \in S \ {e} : g[x] = f[x]
  PROVE  /\ SumFunctionOnSet(g, S) = SumFunctionOnSet(f, S) - f[e] + g[e]
         /\ SumFunctionOnSet(f, S) \in Nat /\ SumFunctionOnSet(g, S) \in Nat
<1>1. PICK Rest : Rest = S \ {e} /\ IsFiniteSet(Rest)
  BY FS_Subset
<1>2. SumFunctionOnSet(f, Rest) = SumFunctionOnSet(g, Rest)
  <2>1. \A x \in Rest : f[x] = g[x]
    BY <1>1
  <2> QED
    BY <1>1, <2>1, SumSame
<1>3. /\ SumFunctionOnSet(f, S) = f[e] + SumFunctionOnSet(f, Rest)
      /\ SumFunctionOnSet(f, Rest) \in Nat
  BY <1>1, SumRemove
<1>4. SumFunctionOnSet(g, S) = g[e] + SumFunctionOnSet(g, Rest)
  BY <1>1, SumRemove
<1>5. f[e] \in Nat /\ g[e] \in Nat
  OBVIOUS
<1> QED
  BY <1>2, <1>3, <1>4, <1>5

LEMMA SumZero ==
  ASSUME NEW f, NEW S, IsFiniteSet(S), \A x \in S : f[x] = 0
  PROVE  SumFunctionOnSet(f, S) = 0
<1> DEFINE G == { T \in SUBSET S : SumFunctionOnSet(f, T) = 0 }
<1>1. {} \in G
  BY SumEmpty
<1>2. ASSUME NEW T \in SUBSET S, T # {}, \A x \in T : T \ {x} \in G
      PROVE  T \in G
  <2>1. IsFiniteSet(T) /\ Chosen(T) \in T
    BY <1>2, ChosenIn, FS_Subset
  <2>2. T \ {Chosen(T)} \in G /\ f[Chosen(T)] = 0
    BY <1>2, <2>1
  <2> QED
    BY <1>2, <2>1, <2>2, SumChosen
<1>3. SUBSET S \subseteq G
  <2> HIDE DEF G
  <2> QED
    BY <1>1, <1>2, SetInduction
<1> QED
  BY <1>3

-----------------------------------------------------------------------------
(* Products and quotients.                                                 *)

LEMMA ProductMonotone ==
  ASSUME NEW a \in Nat, NEW b \in Nat, NEW c \in Nat, a <= b
  PROVE  a * c <= b * c
<1>1. (b - a) * c >= 0
  OBVIOUS
<1>2. (b - a) * c = b * c - a * c
  OBVIOUS
<1>3. a * c \in Nat /\ b * c \in Nat
  OBVIOUS
<1> QED
  BY <1>1, <1>2, <1>3

\* A number is written in one way as a multiple of K and a remainder.
LEMMA OneQuotient ==
  ASSUME NEW K \in Nat \ {0}, NEW q \in Nat, NEW r \in 0..K - 1,
         NEW s \in Nat, NEW t \in 0..K - 1, q * K + r = s * K + t
  PROVE  q = s /\ r = t
<1>1. ASSUME NEW a \in Nat, NEW b \in Nat, a < b, NEW u \in 0..K - 1,
             NEW v \in 0..K - 1
      PROVE  a * K + u < b * K + v
  <2>1. (a + 1) * K <= b * K
    BY <1>1, ProductMonotone
  <2>2. (a + 1) * K = a * K + K
    OBVIOUS
  <2>3. a * K \in Nat /\ b * K \in Nat
    OBVIOUS
  <2> QED
    BY <2>1, <2>2, <2>3
<1>2. q * K + r \in Nat /\ s * K + t \in Nat
  OBVIOUS
<1>3. ~(q < s) /\ ~(s < q)
  BY <1>1, <1>2
<1> QED
  BY <1>3

LEMMA Divided ==
  ASSUME NEW K \in Nat \ {0}, NEW n \in Nat
  PROVE  /\ n \div K \in Nat /\ n % K \in 0..K - 1
         /\ n = (n \div K) * K + (n % K)
OBVIOUS
-----------------------------------------------------------------------------
(* Remainders.                                                             *)

\* A multiple of u that is less than u apart from 0 is 0.
LEMMA SmallMultiple ==
  ASSUME NEW u \in Nat \ {0}, NEW q \in Int, -u < u * q, u * q < u
  PROVE  q = 0
<1>1. CASE q >= 1
  <2>1. q - 1 \in Nat
    BY <1>1
  <2>2. u * (q - 1) \in Nat /\ u * q = u * (q - 1) + u
    BY <2>1
  <2> QED
    BY <2>2
<1>2. CASE q <= -1
  <2>1. -1 - q \in Nat
    BY <1>2
  <2>2. u * (-1 - q) \in Nat /\ u * q = -(u * (-1 - q)) - u
    BY <2>1
  <2> QED
    BY <2>2
<1> QED
  BY <1>1, <1>2

\* Two remainders that differ by a multiple of u are the same.
LEMMA RemainderUnique ==
  ASSUME NEW u \in Nat \ {0}, NEW r \in Int, NEW s \in Int, NEW x \in Int,
         0 <= r, r < u, 0 <= s, s < u, s - r = u * x
  PROVE  r = s
<1>1. x = 0
  <2>1. -u < u * x /\ u * x < u
    OBVIOUS
  <2> QED
    BY <2>1, SmallMultiple
<1> QED
  BY <1>1

\* A number and its remainder differ by a multiple.
LEMMA RemainderApart ==
  ASSUME NEW u \in Nat \ {0}, NEW a \in Int
  PROVE  /\ (a % u) \in Int /\ 0 <= (a % u) /\ (a % u) < u
         /\ \E q \in Int : a = (a % u) + u * q
<1>1. /\ a = u * (a \div u) + (a % u) /\ (a \div u) \in Int
      /\ (a % u) \in Int /\ 0 <= (a % u) /\ (a % u) < u
  OBVIOUS
<1>2. u * (a \div u) \in Int
  BY <1>1
<1>3. a = (a % u) + u * (a \div u)
  BY <1>1, <1>2
<1> QED
  BY <1>1, <1>3

\* The numbers have the same remainder.
Congruent(a, b, u) == a % u = b % u

\* So have numbers that differ by a multiple of u ...
LEMMA CongruentIf ==
  ASSUME NEW u \in Nat \ {0}, NEW a \in Int, NEW b \in Int,
         NEW k \in Int, a = b + u * k
  PROVE  Congruent(a, b, u)
<1>1. PICK r \in Int : r = a % u
  BY RemainderApart
<1>2. PICK s \in Int : s = b % u
  BY RemainderApart
<1>3. 0 <= r /\ r < u /\ \E q \in Int : a = r + u * q
  BY <1>1, RemainderApart
<1>4. 0 <= s /\ s < u /\ \E p \in Int : b = s + u * p
  BY <1>2, RemainderApart
<1>5. PICK q \in Int : a = r + u * q
  BY <1>3
<1>6. PICK p \in Int : b = s + u * p
  BY <1>4
<1>7. s - r = u * (q - p - k)
  <2>1. u * (q - p - k) = u * q - u * p - u * k
    OBVIOUS
  <2>2. u * q \in Int /\ u * p \in Int /\ u * k \in Int
    OBVIOUS
  <2> QED
    BY <1>5, <1>6, <2>1, <2>2
<1>8. r = s
  BY <1>3, <1>4, <1>7, RemainderUnique
<1> QED
  BY <1>1, <1>2, <1>8 DEF Congruent

\* ... and only those.
LEMMA CongruentOnlyIf ==
  ASSUME NEW u \in Nat \ {0}, NEW a \in Int, NEW b \in Int, Congruent(a, b, u)
  PROVE  \E k \in Int : a = b + u * k
<1>1. PICK r \in Int : r = a % u /\ r = b % u
  BY RemainderApart DEF Congruent
<1>2. PICK q \in Int : a = r + u * q
  <2>1. \E q \in Int : a = (a % u) + u * q
    BY RemainderApart
  <2> QED
    BY <1>1, <2>1
<1>3. PICK p \in Int : b = r + u * p
  <2>1. \E p \in Int : b = (b % u) + u * p
    BY RemainderApart
  <2> QED
    BY <1>1, <2>1
<1>4. u * (q - p) = u * q - u * p /\ u * q \in Int /\ u * p \in Int
  OBVIOUS
<1>5. a = b + u * (q - p)
  BY <1>2, <1>3, <1>4
<1> QED
  BY <1>5

\* A number is congruent to its remainder.
LEMMA RemainderCongruent ==
  ASSUME NEW u \in Nat \ {0}, NEW a \in Int
  PROVE  (a % u) \in Int /\ Congruent(a, a % u, u)
<1>1. PICK r \in Int : r = a % u /\ \E q \in Int : a = r + u * q
  BY RemainderApart
<1>2. Congruent(a, r, u)
  BY <1>1, CongruentIf
<1> QED
  BY <1>1, <1>2

\* One term of a sum takes an addition modulo u: so does the sum.
LEMMA WrappedSum ==
  ASSUME NEW u \in Nat \ {0}, NEW a \in Int, NEW t \in Int, NEW b \in Int,
         NEW c \in Int, NEW n \in Int,
         Congruent(a, t, u), Congruent(b + n, c, u)
  PROVE  Congruent(a - b + c, t + n, u)
<1>1. PICK k \in Int : a = t + u * k
  BY CongruentOnlyIf
<1>2. PICK q \in Int : b + n = c + u * q
  <2>1. b + n \in Int
    OBVIOUS
  <2> QED
    BY <2>1, CongruentOnlyIf
<1>3. u * (k - q) = u * k - u * q /\ u * k \in Int /\ u * q \in Int
  OBVIOUS
<1>4. a - b + c = (t + n) + u * (k - q)
  BY <1>1, <1>2, <1>3
<1>5. a - b + c \in Int /\ t + n \in Int /\ k - q \in Int
  OBVIOUS
<1> QED
  BY <1>4, <1>5, CongruentIf
=============================================================================
