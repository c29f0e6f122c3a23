------------------------------ MODULE Cache_proofs ------------------------------
(***************************************************************************)
(* The linked list of internal/lru is sound for every set of cells and      *)
(* implements a sequence ordered by recency, and the cache built on such a  *)
(* sequence is correct for every set of keys and values, every maxSize and  *)
(* every mix of calls.                                                      *)
(*                                                                          *)
(* The first part is about folds over finite sets, in which CleanupExpired  *)
(* removes nodes and MemoryExact adds up sizes.  Where induction is needed, *)
(* it is the argument by a smallest counterexample.                         *)
(*                                                                          *)
(* DoublyLinked is inductive together with the types and the finiteness of  *)
(* held.  The argument is about the chain s that DoublyLinked asserts:      *)
(* RemoveNode of s[p] chains s without its p-th element, addToFront of a    *)
(* new cell chains s with that cell pushed in front.  Following the next    *)
(* pointers meets that chain (WalkIsChain), so each operation is the        *)
(* sequence's.                                                              *)
(*                                                                          *)
(* The cache's inductive invariant is CacheInv.  SortedByUse is what makes  *)
(* the eviction property inductive: the list is at every moment sorted by   *)
(* the history of uses, so its tail is the least recently used key.         *)
(* ListMatchesData carries that over to the keys of the map.                *)
(***************************************************************************)
EXTENDS Cache, LRU, FiniteSetTheorems, WellFoundedInduction, TLAPS

--------------------------------------------------------------------------------
\* Folds over finite sets.

\* A set of numbers has a least one: the form in which the proofs below argue by
\* induction.
LEMMA SmallestNumber ==
  ASSUME NEW N \in SUBSET Nat, N # {}
  PROVE  \E n \in N : \A m \in N : n <= m
<1>1. PICK n \in N : \A m \in N : ~(<<m, n>> \in OpToRel(<, Nat))
  BY NatLessThanWellFounded, WFMin, Zenon
<1>2. \A m \in N : ~(m < n)
  BY <1>1 DEF OpToRel
<1> QED BY <1>2

\* What holds of some subset of a finite set holds of a smallest one.
LEMMA SmallestSubset ==
  ASSUME NEW S, IsFiniteSet(S), NEW B \in SUBSET (SUBSET S), B # {}
  PROVE  \E s \in B : \A t \in SUBSET s : t # s => t \notin B
<1> DEFINE N == {Cardinality(s) : s \in B}
<1>1. \A s \in SUBSET S : IsFiniteSet(s) /\ Cardinality(s) \in Nat
  BY FS_Subset, FS_CardinalityType
<1>2. N \in SUBSET Nat /\ N # {}
  BY <1>1
<1>3. PICK n \in N : \A m \in N : n <= m
  <2> HIDE DEF N
  <2> QED BY <1>2, SmallestNumber
<1>4. PICK s \in B : n = Cardinality(s)
  OBVIOUS
<1>5. ASSUME NEW t \in SUBSET s, t # s, t \in B PROVE FALSE
  <2>1. Cardinality(t) < Cardinality(s)
    BY <1>1, <1>5, FS_Subset
  <2>2. Cardinality(t) \in N /\ Cardinality(t) \in Nat /\ Cardinality(s) \in Nat
    BY <1>1, <1>5
  <2> QED BY <1>3, <1>4, <2>1, <2>2
<1> QED BY <1>5

\* The element of s that a fold takes first.
Any(s) == CHOOSE x \in s : TRUE

\* It is one.
LEMMA AnyIn ==
  ASSUME NEW s, s # {}
  PROVE  Any(s) \in s
BY DEF Any

\* Without it a subset is smaller by one.
LEMMA FirstRemoved ==
  ASSUME NEW S, IsFiniteSet(S)
  PROVE  \A s \in SUBSET S : s # {} => /\ Any(s) \in S /\ s \ {Any(s)} \in SUBSET S
                                       /\ Cardinality(s \ {Any(s)}) = Cardinality(s) - 1
<1> TAKE s \in SUBSET S
<1> HAVE s # {}
<1>1. PICK x \in s : x = Any(s)
  BY AnyIn
<1>2. IsFiniteSet(s)
  BY FS_Subset
<1>3. Cardinality(s \ {x}) = Cardinality(s) - 1
  BY <1>2, FS_RemoveElement
<1> QED BY <1>1, <1>3

\* g[s] folds f over s, one element at a time, beginning with base.
FoldsAt(g, f, base, s) == g[s] = IF s = {} THEN base ELSE f[Any(s)][g[s \ {Any(s)}]]
Folds(g, f, base, S) == \A s \in SUBSET S : FoldsAt(g, f, base, s)

\* The recursive definition of a fold has a solution.
LEMMA FoldsExist ==
  ASSUME NEW S, IsFiniteSet(S), NEW R, NEW f \in [S -> [R -> R]], NEW base \in R
  PROVE  \E g \in [SUBSET S -> R] : Folds(g, f, base, S)
<1> DEFINE Upto(g, n) == \A s \in SUBSET S : Cardinality(s) < n => FoldsAt(g, f, base, s)
           N == {n \in Nat : ~ \E g \in [SUBSET S -> R] : Upto(g, n)}
<1>1. \A s \in SUBSET S : Cardinality(s) \in Nat /\ Cardinality(s) <= Cardinality(S)
  BY FS_Subset, FS_CardinalityType
<1>2. ASSUME N # {} PROVE FALSE
  <2>1. PICK n \in Nat : n \in N /\ \A m \in N : n <= m
    <3>1. N \in SUBSET Nat
      OBVIOUS
    <3> HIDE DEF N
    <3> QED BY <1>2, <3>1, SmallestNumber
  <2>2. n # 0
    <3>1. [s \in SUBSET S |-> base] \in [SUBSET S -> R] /\ Upto([s \in SUBSET S |-> base], 0)
      BY <1>1
    <3> HIDE DEF Upto
    <3> QED BY <2>1, <3>1
  <2>3. n - 1 \in Nat /\ n - 1 \notin N
    <3> HIDE DEF N
    <3> QED BY <2>1, <2>2
  <2>4. PICK g \in [SUBSET S -> R] : Upto(g, n - 1)
    BY <2>3
  <2> DEFINE h == [s \in SUBSET S |-> IF Cardinality(s) < n - 1 THEN g[s]
                                      ELSE IF s = {} THEN base ELSE f[Any(s)][g[s \ {Any(s)}]]]
  <2>5. \A s \in SUBSET S : s # {} => /\ Any(s) \in S /\ s \ {Any(s)} \in SUBSET S
                                      /\ Cardinality(s \ {Any(s)}) = Cardinality(s) - 1
    BY FirstRemoved
  <2>6. h \in [SUBSET S -> R]
    BY <2>5
  <2>7. Upto(h, n)
    <3> SUFFICES ASSUME NEW s \in SUBSET S, Cardinality(s) < n PROVE FoldsAt(h, f, base, s)
      OBVIOUS
    <3>1. h[s] = IF s = {} THEN base ELSE f[Any(s)][g[s \ {Any(s)}]]
      BY <2>4 DEF FoldsAt
    <3>2. s # {} => h[s \ {Any(s)}] = g[s \ {Any(s)}]
      BY <1>1, <2>3, <2>5
    <3> HIDE DEF h
    <3> QED BY <3>1, <3>2 DEF FoldsAt
  <2> HIDE DEF h, Upto
  <2> QED BY <2>1, <2>6, <2>7
<1>3. Cardinality(S) + 1 \in Nat /\ Cardinality(S) + 1 \notin N
  <2>1. Cardinality(S) \in Nat
    BY <1>1
  <2> HIDE DEF N
  <2> QED BY <1>2, <2>1
<1>4. PICK g \in [SUBSET S -> R] : Upto(g, Cardinality(S) + 1)
  BY <1>3
<1>5. Folds(g, f, base, S)
  BY <1>1, <1>4 DEF Folds
<1> QED BY <1>5

\* g[s] is the sum of w over s.
Sums(g, w, S) ==
  \A s \in SUBSET S : g[s] = IF s = {} THEN 0 ELSE w[Any(s)] + g[s \ {Any(s)}]

\* The sums of functions that agree on the smaller of two sets agree there.
LEMMA SumsAgree ==
  ASSUME NEW S, IsFiniteSet(S), NEW w, NEW v, \A x \in S : v[x] = w[x],
         NEW g, NEW h, Sums(g, w, S), Sums(h, v, S)
  PROVE  g[S] = h[S]
<1> DEFINE B == {s \in SUBSET S : g[s] # h[s]}
<1>1. SUFFICES ASSUME B # {} PROVE FALSE
  OBVIOUS
<1>2. PICK s \in B : \A t \in SUBSET s : t # s => t \notin B
  <2>1. B \in SUBSET (SUBSET S)
    OBVIOUS
  <2> HIDE DEF B
  <2> QED BY <1>1, <2>1, SmallestSubset
<1>3. s # {} => Any(s) \in s
  BY AnyIn
<1>4. s # {} => g[s \ {Any(s)}] = h[s \ {Any(s)}]
  BY <1>2, <1>3
<1> QED BY <1>2, <1>3, <1>4 DEF Sums

\* Any element may be taken first.
Splits(g, w, S) == \A x \in S : g[S] = w[x] + g[S \ {x}]

LEMMA SumsInAnyOrder ==
  ASSUME NEW S, IsFiniteSet(S), NEW w \in [S -> Int], NEW g \in [SUBSET S -> Int], Sums(g, w, S)
  PROVE  Splits(g, w, S)
<1> DEFINE B == {s \in SUBSET S : \E y \in s : g[s] # w[y] + g[s \ {y}]}
<1>1. SUFFICES ASSUME B # {} PROVE FALSE
  BY DEF Splits
<1>2. PICK s \in B : \A t \in SUBSET s : t # s => t \notin B
  <2>1. B \in SUBSET (SUBSET S)
    OBVIOUS
  <2> HIDE DEF B
  <2> QED BY <1>1, <2>1, SmallestSubset
<1>3. PICK y \in s : g[s] # w[y] + g[s \ {y}]
  BY <1>2
<1>4. PICK a \in s : a = Any(s) /\ g[s] = w[a] + g[s \ {a}]
  BY <1>3, AnyIn DEF Sums
<1>5. a # y
  BY <1>3, <1>4
<1>6. g[s \ {a}] = w[y] + g[(s \ {a}) \ {y}] /\ g[s \ {y}] = w[a] + g[(s \ {y}) \ {a}]
  BY <1>2, <1>5
<1>7. (s \ {a}) \ {y} = (s \ {y}) \ {a} /\ (s \ {a}) \ {y} \in SUBSET S
  OBVIOUS
<1>8. PICK i \in Int, j \in Int, m \in Int :
        i = w[a] /\ j = w[y] /\ m = g[(s \ {a}) \ {y}]
  BY <1>7
<1>9. g[s] = i + (j + m) /\ w[y] + g[s \ {y}] = j + (i + m)
  BY <1>4, <1>6, <1>7, <1>8
<1> QED BY <1>3, <1>8, <1>9

\* SumFunction is such a sum.
LEMMA SumFunctionSums ==
  ASSUME NEW S, IsFiniteSet(S), NEW w \in [S -> Int]
  PROVE  \E g \in [SUBSET S -> Int] : Sums(g, w, S) /\ SumFunction(w) = g[S]
<1> DEFINE Step(g) == [s \in SUBSET S |-> IF s = {} THEN 0
                         ELSE w[CHOOSE x \in s : TRUE] + g[s \ {CHOOSE x \in s : TRUE}]]
           iter == CHOOSE g : g = Step(g)
<1>1. DOMAIN w = S
  OBVIOUS
<1>2. SumFunction(w) = iter[S]
  BY <1>1, Zenon DEF SumFunction, SumFunctionOnSet, FoldFunctionOnSet, MapThenFoldSet
<1>3. PICK g \in [SUBSET S -> Int] : Sums(g, w, S)
  <2> DEFINE f == [x \in S |-> [i \in Int |-> w[x] + i]]
  <2>1. f \in [S -> [Int -> Int]] /\ 0 \in Int
    OBVIOUS
  <2>2. PICK g \in [SUBSET S -> Int] : Folds(g, f, 0, S)
    <3> HIDE DEF f
    <3> QED BY <2>1, FoldsExist, Zenon
  <2>3. ASSUME NEW s \in SUBSET S, s # {}
        PROVE  g[s] = w[Any(s)] + g[s \ {Any(s)}]
    <3>1. Any(s) \in S /\ g[s \ {Any(s)}] \in Int
      BY <2>3, AnyIn
    <3> QED BY <2>2, <2>3, <3>1 DEF Folds, FoldsAt
  <2>4. g[{}] = 0
    BY <2>2 DEF Folds, FoldsAt
  <2> QED BY <2>3, <2>4 DEF Sums
<1>4. g = Step(g)
  BY <1>3 DEF Sums, Any
<1>5. iter = Step(iter)
  BY <1>4, Zenon
<1>6. Sums(iter, w, S)
  <2> HIDE DEF iter
  <2> QED BY <1>5 DEF Sums, Any
<1>7. iter[S] = g[S]
  <2> HIDE DEF iter
  <2> QED BY <1>3, <1>6, SumsAgree
<1> QED BY <1>2, <1>3, <1>7

\* A sum is that of any of its values and of the rest.
SumSplits(w, S) ==
  \A x \in S : /\ SumFunction(w) = w[x] + SumFunction([y \in S \ {x} |-> w[y]])
               /\ SumFunction([y \in S \ {x} |-> w[y]]) \in Int

\* Every sum over a finite set is.
LEMMA SumFunctionSplits ==
  ASSUME NEW S, IsFiniteSet(S), NEW w \in [S -> Int]
  PROVE  SumSplits(w, S)
<1> SUFFICES ASSUME NEW x \in S
             PROVE  /\ SumFunction(w) = w[x] + SumFunction([y \in S \ {x} |-> w[y]])
                    /\ SumFunction([y \in S \ {x} |-> w[y]]) \in Int
  BY DEF SumSplits
<1> DEFINE T == S \ {x}
           v == [y \in T |-> w[y]]
<1>1. IsFiniteSet(T) /\ v \in [T -> Int]
  BY FS_RemoveElement
<1>2. PICK g \in [SUBSET S -> Int] : Sums(g, w, S) /\ SumFunction(w) = g[S]
  BY SumFunctionSums
<1>3. PICK h \in [SUBSET T -> Int] : Sums(h, v, T) /\ SumFunction(v) = h[T]
  <2> HIDE DEF T, v
  <2> QED BY <1>1, SumFunctionSums
<1>4. g[S] = w[x] + g[T]
  <2>1. Splits(g, w, S)
    BY <1>2, SumsInAnyOrder
  <2> QED BY <2>1 DEF Splits
<1>5. g[T] = h[T]
  <2>1. Sums(g, w, T)
    BY <1>2 DEF Sums
  <2>2. \A y \in T : v[y] = w[y]
    OBVIOUS
  <2> HIDE DEF T, v
  <2> QED BY <1>1, <1>3, <2>1, <2>2, SumsAgree
<1> QED BY <1>2, <1>3, <1>4, <1>5

\* The empty sum.
LEMMA SumOfNothing ==
  ASSUME NEW w, DOMAIN w = {}, w \in [{} -> Int]
  PROVE  SumFunction(w) = 0
<1>1. PICK g \in [SUBSET {} -> Int] : Sums(g, w, {}) /\ SumFunction(w) = g[{}]
  BY FS_EmptySet, SumFunctionSums
<1> QED BY <1>1 DEF Sums

\* Parts add up.
LEMMA SumOfParts ==
  ASSUME NEW S, IsFiniteSet(S), NEW w \in [S -> Int], NEW G \in SUBSET S
  PROVE  /\ SumFunction(w) = SumFunction([y \in G |-> w[y]]) + SumFunction([y \in S \ G |-> w[y]])
         /\ SumFunction([y \in G |-> w[y]]) \in Int
         /\ SumFunction([y \in S \ G |-> w[y]]) \in Int
<1> DEFINE Part(T) == SumFunction([y \in T |-> w[y]])
           B == {T \in SUBSET S : Part(S) # Part(T) + Part(S \ T)}
<1>1. \A T \in SUBSET S : IsFiniteSet(T)
  BY FS_Subset
<1>2. ASSUME NEW T \in SUBSET S PROVE Part(T) \in Int
  <2>1. PICK v \in [T -> Int] : v = [y \in T |-> w[y]]
    OBVIOUS
  <2>2. PICK g \in [SUBSET T -> Int] : SumFunction(v) = g[T]
    BY <1>1, SumFunctionSums
  <2> QED BY <2>1, <2>2
<1>3. ASSUME NEW T \in SUBSET S, NEW x \in T PROVE Part(T) = w[x] + Part(T \ {x})
  <2>1. PICK v \in [T -> Int] : v = [y \in T |-> w[y]]
    OBVIOUS
  <2>2. SumSplits(v, T)
    BY <1>1, SumFunctionSplits
  <2>3. SumFunction(v) = v[x] + SumFunction([y \in T \ {x} |-> v[y]])
    BY <2>2 DEF SumSplits
  <2>4. [y \in T \ {x} |-> v[y]] = [y \in T \ {x} |-> w[y]] /\ v[x] = w[x]
    BY <2>1
  <2> QED BY <2>1, <2>3, <2>4
<1>4. Part({}) = 0
  <2>1. PICK v \in [{} -> Int] : v = [y \in {} |-> w[y]]
    OBVIOUS
  <2> QED BY <2>1, SumOfNothing
<1>5. Part(S) = SumFunction(w)
  <2>1. w = [y \in S |-> w[y]]
    OBVIOUS
  <2> QED BY <2>1
<1> HIDE DEF Part
<1>6. ASSUME B # {} PROVE FALSE
  <2>1. PICK T \in SUBSET S : T \in B /\ \A t \in SUBSET T : t # T => t \notin B
    <3>1. B \in SUBSET (SUBSET S)
      OBVIOUS
    <3> HIDE DEF B
    <3> QED BY <1>6, <3>1, SmallestSubset
  <2>2. T # {}
    <3>1. Part(S) \in Int /\ Part(S) # Part(T) + Part(S \ T)
      BY <1>2, <2>1
    <3>2. T = {} => Part(T) = 0 /\ Part(S \ T) = Part(S)
      <4>1. T = {} => S \ T = S
        OBVIOUS
      <4> QED BY <1>4, <4>1, Zenon
    <3> QED BY <3>1, <3>2
  <2>3. PICK x \in T : TRUE
    BY <2>2
  <2>4. PICK P \in SUBSET S : P = T \ {x} /\ P # T
    <3>1. T \ {x} \in SUBSET S /\ T \ {x} # T
      BY <2>3
    <3> QED BY <3>1
  <2>5. (S \ P) \ {x} = S \ T /\ x \in S \ P /\ S \ P \in SUBSET S /\ S \ T \in SUBSET S
    BY <2>4
  <2>6. Part(S) = Part(P) + Part(S \ P)
    BY <2>1, <2>4
  <2>7. Part(T) = w[x] + Part(P)
    BY <1>3, <2>4
  <2>8. Part(S \ P) = w[x] + Part(S \ T)
    BY <1>3, <2>5
  <2>9. w[x] \in Int /\ Part(P) \in Int /\ Part(S \ T) \in Int
    BY <1>2, <2>5
  <2>10. Part(S) = Part(T) + Part(S \ T)
    BY <2>6, <2>7, <2>8, <2>9
  <2> QED BY <2>1, <2>10
<1>7. Part(S) = Part(G) + Part(S \ G) /\ Part(G) \in Int /\ Part(S \ G) \in Int
  <2>1. G \notin B
    BY <1>6
  <2>2. S \ G \in SUBSET S
    OBVIOUS
  <2> QED BY <2>1, <2>2, <1>2
<1> QED BY <1>5, <1>7 DEF Part

--------------------------------------------------------------------------------
\* The pointers of the list.

Chain(l, s, n, H) ==
  /\ s \in [1..n -> H]
  /\ Chained(l, s, n)
  /\ Enumerates(s, n, H)

Drop(s, n, p) == [j \in 1..(n - 1) |-> IF j < p THEN s[j] ELSE s[j + 1]]

Push(s, n, x) == [j \in 1..(n + 1) |-> IF j = 1 THEN x ELSE s[j - 1]]

\* The record operators keep the shape of the list.
LEMMA RemoveNodeType ==
  ASSUME NEW l \in ListType, NEW x \in Node
  PROVE  RemoveNode(l, x) \in ListType
BY DEF RemoveNode, Bypass, ListType

\* addToFront keeps the shape of the list too.
LEMMA AddToFrontType ==
  ASSUME NEW l \in ListType, NEW x \in Node
  PROVE  addToFront(l, x) \in ListType
BY DEF addToFront, ListType

\* Unlinking the p-th cell of a chain of n leaves the chain of the others.
LEMMA RemoveNodeChain ==
  ASSUME NEW l \in ListType, NEW H \in SUBSET Node, NEW n \in Nat, NEW s,
         Chain(l, s, n, H), NEW p \in 1..n
  PROVE  Chain(RemoveNode(l, s[p]), Drop(s, n, p), n - 1, H \ {s[p]})
<1> DEFINE x == s[p]
           t == Drop(s, n, p)
           m == RemoveNode(l, x)
<1>1. s \in [1..n -> H] /\ n >= 1 /\ x \in H /\ x \in Node /\ n - 1 \in Nat
  BY DEF Chain
<1>2. \A i, j \in 1..n : s[i] = s[j] => i = j
  BY DEF Chain, Chained
<1>3. l.head = s[1] /\ l.tail = s[n]
  BY <1>1 DEF Chain, Chained
<1>4. /\ \A i \in 1..n : l.next[s[i]] = IF i = n THEN Nil ELSE s[i + 1]
      /\ \A i \in 1..n : l.prev[s[i]] = IF i = 1 THEN Nil ELSE s[i - 1]
  BY DEF Chain, Chained
<1>5. \A i \in 1..(n - 1) : t[i] = IF i < p THEN s[i] ELSE s[i + 1]
  BY DEF Drop
<1>6. t \in [1..(n - 1) -> H \ {x}]
  BY <1>1, <1>2 DEF Drop
<1>7. Enumerates(t, n - 1, H \ {x})
  <2> SUFFICES ASSUME NEW y \in H \ {x}
               PROVE  \E i \in 1..(n - 1) : t[i] = y
    BY DEF Enumerates
  <2>1. PICK i \in 1..n : s[i] = y
    BY DEF Chain, Enumerates
  <2>2. CASE i < p
    BY <2>1, <2>2, <1>5
  <2>3. CASE i > p
    <3>1. i - 1 \in 1..(n - 1) /\ ~(i - 1 < p)
      BY <2>3
    <3>2. t[i - 1] = s[i]
      BY <3>1, <1>5
    <3> QED BY <3>1, <3>2, <2>1
  <2> QED BY <2>1, <2>2, <2>3
<1>8. Chained(m, t, n - 1)
  <2>1. \A i, j \in 1..(n - 1) : t[i] = t[j] => i = j
    BY <1>1, <1>2, <1>5
  <2>2. CASE n = 1
    <3>1. m = [l EXCEPT !.head = Nil, !.tail = Nil]
      BY <2>2, <1>3 DEF RemoveNode
    <3> QED BY <3>1, <2>2 DEF Chained, ListType
  <2>3. CASE n > 1 /\ p = 1
    <3>1. l.head = x /\ l.tail # x /\ l.next[x] = s[2] /\ s[2] \in Node
      BY <2>3, <1>1, <1>2, <1>3, <1>4
    <3>2. m = [l EXCEPT !.head = s[2], !.prev[s[2]] = Nil]
      BY <3>1 DEF RemoveNode
    <3>3. /\ m.head = s[2] /\ m.tail = s[n] /\ m.next = l.next
          /\ m.prev = [l.prev EXCEPT ![s[2]] = Nil]
      BY <3>2, <1>3 DEF ListType
    <3>4. \A i \in 1..(n - 1) : t[i] = s[i + 1]
      BY <2>3, <1>5
    <3>5. \A i \in 1..(n - 1) : m.next[t[i]] = IF i = n - 1 THEN Nil ELSE t[i + 1]
      BY <3>3, <3>4, <1>4
    <3>6. \A i \in 1..(n - 1) : m.prev[t[i]] = IF i = 1 THEN Nil ELSE t[i - 1]
      BY <3>3, <3>4, <1>1, <1>2, <1>4, <2>3 DEF ListType
    <3> QED BY <2>1, <2>3, <3>3, <3>4, <3>5, <3>6 DEF Chained
  <2>4. CASE n > 1 /\ p = n
    <3>1. l.head # x /\ l.tail = x /\ l.prev[x] = s[n - 1] /\ s[n - 1] \in Node
      BY <2>4, <1>1, <1>2, <1>3, <1>4
    <3>2. m = [l EXCEPT !.tail = s[n - 1], !.next[s[n - 1]] = Nil]
      BY <3>1 DEF RemoveNode
    <3>3. /\ m.head = s[1] /\ m.tail = s[n - 1] /\ m.prev = l.prev
          /\ m.next = [l.next EXCEPT ![s[n - 1]] = Nil]
      BY <3>2, <1>3 DEF ListType
    <3>4. \A i \in 1..(n - 1) : t[i] = s[i]
      BY <2>4, <1>5
    <3>5. \A i \in 1..(n - 1) : m.next[t[i]] = IF i = n - 1 THEN Nil ELSE t[i + 1]
      BY <3>3, <3>4, <1>1, <1>2, <1>4, <2>4 DEF ListType
    <3>6. \A i \in 1..(n - 1) : m.prev[t[i]] = IF i = 1 THEN Nil ELSE t[i - 1]
      BY <3>3, <3>4, <1>4
    <3> QED BY <2>1, <2>4, <3>3, <3>4, <3>5, <3>6 DEF Chained
  <2>5. CASE p > 1 /\ p < n
    <3>1. /\ l.head # x /\ l.tail # x
          /\ l.prev[x] = s[p - 1] /\ s[p - 1] \in Node
          /\ l.next[x] = s[p + 1] /\ s[p + 1] \in Node
      <4>1. 1 \in 1..n /\ n \in 1..n /\ p - 1 \in 1..n /\ p + 1 \in 1..n
        BY <2>5
      <4>2. l.head # x /\ l.tail # x
        BY <4>1, <2>5, <1>2, <1>3
      <4>3. l.prev[x] = s[p - 1] /\ l.next[x] = s[p + 1]
        BY <2>5, <1>4
      <4> QED BY <4>1, <4>2, <4>3, <1>1
    <3>2. m = [l EXCEPT !.next[s[p - 1]] = s[p + 1], !.prev[s[p + 1]] = s[p - 1]]
      BY <3>1 DEF RemoveNode, Bypass
    <3>3. /\ m.head = s[1] /\ m.tail = s[n]
          /\ m.next = [l.next EXCEPT ![s[p - 1]] = s[p + 1]]
          /\ m.prev = [l.prev EXCEPT ![s[p + 1]] = s[p - 1]]
      BY <3>2, <1>3 DEF ListType
    <3>4. t[1] = s[1] /\ t[n - 1] = s[n]
      BY <2>5, <1>5
    <3>5. ASSUME NEW i \in 1..(n - 1)
          PROVE  m.next[t[i]] = IF i = n - 1 THEN Nil ELSE t[i + 1]
      <4>1. CASE i < p - 1
        BY <4>1, <3>3, <2>5, <1>1, <1>2, <1>4, <1>5 DEF ListType
      <4>2. CASE i = p - 1
        BY <4>2, <3>1, <3>3, <2>5, <1>5 DEF ListType
      <4>3. CASE i >= p
        BY <4>3, <3>3, <2>5, <1>1, <1>2, <1>4, <1>5 DEF ListType
      <4> QED BY <4>1, <4>2, <4>3
    <3>6. ASSUME NEW i \in 1..(n - 1)
          PROVE  m.prev[t[i]] = IF i = 1 THEN Nil ELSE t[i - 1]
      <4>1. CASE i < p
        <5>1. i \in 1..n /\ p + 1 \in 1..n /\ i # p + 1
          BY <4>1, <2>5
        <5>2. t[i] = s[i] /\ s[i] # s[p + 1] /\ s[i] \in Node
          BY <5>1, <4>1, <1>1, <1>2, <1>5
        <5>3. m.prev[t[i]] = l.prev[s[i]]
          BY <5>2, <3>3 DEF ListType
        <5>4. i # 1 => t[i - 1] = s[i - 1]
          BY <4>1, <1>5
        <5> QED BY <5>1, <5>3, <5>4, <1>4
      <4>2. CASE i = p
        BY <4>2, <3>1, <3>3, <2>5, <1>5 DEF ListType
      <4>3. CASE i > p
        BY <4>3, <3>3, <2>5, <1>1, <1>2, <1>4, <1>5 DEF ListType
      <4> QED BY <4>1, <4>2, <4>3
    <3> QED BY <2>1, <2>5, <3>3, <3>4, <3>5, <3>6 DEF Chained
  <2> QED BY <1>1, <2>2, <2>3, <2>4, <2>5
<1> QED BY <1>6, <1>7, <1>8 DEF Chain

\* Pushing a cell that is not in the chain gives the chain with a new head.
LEMMA AddToFrontChain ==
  ASSUME NEW l \in ListType, NEW H \in SUBSET Node, NEW n \in Nat, NEW s,
         Chain(l, s, n, H), NEW x \in Node \ H
  PROVE  Chain(addToFront(l, x), Push(s, n, x), n + 1, H \cup {x})
<1> DEFINE t == Push(s, n, x)
           m == addToFront(l, x)
<1>1. s \in [1..n -> H] /\ n + 1 \in Nat
  BY DEF Chain
<1>2. \A i, j \in 1..n : s[i] = s[j] => i = j
  BY DEF Chain, Chained
<1>3. /\ \A i \in 1..n : l.next[s[i]] = IF i = n THEN Nil ELSE s[i + 1]
      /\ \A i \in 1..n : l.prev[s[i]] = IF i = 1 THEN Nil ELSE s[i - 1]
      /\ l.head = IF n = 0 THEN Nil ELSE s[1]
      /\ l.tail = IF n = 0 THEN Nil ELSE s[n]
  BY DEF Chain, Chained
<1>4. /\ t[1] = x
      /\ \A i \in 1..n : t[i + 1] = s[i]
      /\ \A i \in 1..(n + 1) : t[i] = IF i = 1 THEN x ELSE s[i - 1]
  BY DEF Push
<1>5. t \in [1..(n + 1) -> H \cup {x}]
  BY <1>1 DEF Push
<1>6. Enumerates(t, n + 1, H \cup {x})
  <2> SUFFICES ASSUME NEW y \in H \cup {x}
               PROVE  \E i \in 1..(n + 1) : t[i] = y
    BY DEF Enumerates
  <2>1. CASE y = x
    BY <2>1, <1>4
  <2>2. CASE y \in H
    <3>1. PICK i \in 1..n : s[i] = y
      BY <2>2 DEF Chain, Enumerates
    <3>2. t[i + 1] = y /\ i + 1 \in 1..(n + 1)
      BY <3>1, <1>4
    <3> QED BY <3>2
  <2> QED BY <2>1, <2>2
<1>7. Chained(m, t, n + 1)
  <2>1. \A i, j \in 1..(n + 1) : t[i] = t[j] => i = j
    BY <1>1, <1>2, <1>4
  <2>2. CASE n = 0
    <3>1. m = [l EXCEPT !.head = x, !.tail = x, !.next[x] = Nil, !.prev[x] = Nil]
      BY <2>2, <1>3 DEF addToFront
    <3>2. m.head = x /\ m.tail = x /\ m.next[x] = Nil /\ m.prev[x] = Nil
      BY <3>1 DEF ListType
    <3> QED BY <3>2, <2>1, <2>2, <1>4 DEF Chained
  <2>3. CASE n > 0
    <3>1. l.head = s[1] /\ s[1] \in Node /\ s[1] # Nil /\ s[1] # x
      BY <2>3, <1>1, <1>3, NilAssumption
    <3>2. m = [l EXCEPT !.head = x, !.next[x] = s[1],
                        !.prev = [l.prev EXCEPT ![x] = Nil, ![s[1]] = x]]
      BY <3>1 DEF addToFront
    <3>3. /\ m.head = x /\ m.tail = s[n]
          /\ m.next = [l.next EXCEPT ![x] = s[1]]
          /\ m.prev = [l.prev EXCEPT ![x] = Nil, ![s[1]] = x]
      BY <3>2, <2>3, <1>3 DEF ListType
    <3>4. ASSUME NEW i \in 1..(n + 1)
          PROVE  m.next[t[i]] = IF i = n + 1 THEN Nil ELSE t[i + 1]
      <4>1. CASE i = 1
        BY <4>1, <3>3, <2>3, <1>4 DEF ListType
      <4>2. CASE i > 1
        BY <4>2, <3>3, <2>3, <1>1, <1>3, <1>4 DEF ListType
      <4> QED BY <4>1, <4>2
    <3>5. ASSUME NEW i \in 1..(n + 1)
          PROVE  m.prev[t[i]] = IF i = 1 THEN Nil ELSE t[i - 1]
      <4>1. CASE i = 1
        BY <4>1, <3>1, <3>3, <1>4 DEF ListType
      <4>2. CASE i = 2
        BY <4>2, <3>1, <3>3, <2>3, <1>4 DEF ListType
      <4>3. CASE i > 2
        <5>1. i - 1 \in 1..n /\ 1 \in 1..n /\ i - 1 # 1
          BY <4>3, <2>3
        <5>2. t[i] = s[i - 1] /\ s[i - 1] \in H /\ s[i - 1] # s[1]
          BY <5>1, <4>3, <1>1, <1>2, <1>4
        <5>3. m.prev[t[i]] = l.prev[s[i - 1]]
          BY <5>2, <3>3 DEF ListType
        <5>4. l.prev[s[i - 1]] = s[(i - 1) - 1] /\ t[i - 1] = s[(i - 1) - 1]
          BY <5>1, <4>3, <1>3, <1>4
        <5> QED BY <5>3, <5>4, <4>3
      <4> QED BY <4>1, <4>2, <4>3
    <3>6. t[n + 1] = s[n]
      BY <2>3, <1>4
    <3> QED BY <2>1, <3>3, <3>4, <3>5, <3>6, <1>4 DEF Chained
  <2> QED BY <2>2, <2>3
<1> QED BY <1>5, <1>6, <1>7 DEF Chain

\* The inductive invariant.  held is finite because it starts empty and grows
\* by one cell at a time; its cardinality is the length of the chain.
ListInv == ListTyped /\ IsFiniteSet(held) /\ DoublyLinked

\* New establishes the invariant.
LEMMA InitListInv == ListInit => ListInv
<1> SUFFICES ASSUME ListInit PROVE ListInv
  OBVIOUS
<1>1. ListTyped
  BY DEF ListInit, ListTyped, ListType
<1>2. IsFiniteSet(held) /\ Cardinality(held) = 0
  BY FS_EmptySet DEF ListInit
<1>3. DoublyLinked
  <2>1. Chained(list, [i \in 1..0 |-> Nil], 0)
    BY DEF ListInit, Chained
  <2>2. [i \in 1..0 |-> Nil] \in [1..0 -> held]
    OBVIOUS
  <2>3. Enumerates([i \in 1..0 |-> Nil], 0, held)
    BY DEF ListInit, Enumerates
  <2> QED BY <1>2, <2>1, <2>2, <2>3 DEF DoublyLinked
<1> QED BY <1>1, <1>2, <1>3 DEF ListInv

\* Every operation of lru.go keeps the invariant.
LEMMA NextListInv == ListInv /\ [ListNext]_listVars => ListInv'
<1> SUFFICES ASSUME ListInv, [ListNext]_listVars PROVE ListInv'
  OBVIOUS
<1> DEFINE n == Cardinality(held)
<1>1. list \in ListType /\ held \in SUBSET Node /\ IsFiniteSet(held)
  BY DEF ListInv, ListTyped
<1>2. n \in Nat
  BY <1>1, FS_CardinalityType
<1>3. PICK s \in [1..n -> held] :
        Chained(list, s, n) /\ Enumerates(s, n, held)
  BY DEF ListInv, DoublyLinked
<1>4. Chain(list, s, n, held)
  BY <1>3 DEF Chain
\* What the removal of a held cell establishes, shared by three actions.
<1>5. ASSUME NEW x \in held
      PROVE  /\ RemoveNode(list, x) \in ListType
             /\ IsFiniteSet(held \ {x}) /\ Cardinality(held \ {x}) = n - 1
             /\ n - 1 \in Nat
             /\ \E t : Chain(RemoveNode(list, x), t, n - 1, held \ {x})
  <2>1. PICK p \in 1..n : s[p] = x
    BY <1>4 DEF Chain, Enumerates
  <2>2. Chain(RemoveNode(list, x), Drop(s, n, p), n - 1, held \ {x})
    BY <1>1, <1>2, <1>4, <2>1, RemoveNodeChain
  <2>3. IsFiniteSet(held \ {x}) /\ Cardinality(held \ {x}) = n - 1
    BY <1>1, FS_RemoveElement
  <2>4. RemoveNode(list, x) \in ListType
    BY <1>1, RemoveNodeType
  <2>5. n - 1 \in Nat
    BY <1>2
  <2>6. \E t : Chain(RemoveNode(list, x), t, n - 1, held \ {x})
    BY <2>2
  <2> QED BY <2>3, <2>4, <2>5, <2>6
<1>6. ASSUME list' \in ListType, held' \in SUBSET Node, IsFiniteSet(held'),
             NEW t, Chain(list', t, Cardinality(held'), held')
      PROVE  ListInv'
  BY <1>6 DEF Chain, ListInv, ListTyped, DoublyLinked
<1>7. ASSUME NEW x \in Node, Add(x) PROVE ListInv'
  <2>1. Chain(list', Push(s, n, x), n + 1, held')
    BY <1>1, <1>2, <1>4, <1>7, AddToFrontChain DEF Add
  <2>2. IsFiniteSet(held') /\ Cardinality(held') = n + 1
    BY <1>1, <1>7, FS_AddElement DEF Add
  <2>3. list' \in ListType /\ held' \in SUBSET Node
    BY <1>1, <1>7, AddToFrontType DEF Add
  <2> QED BY <1>6, <2>1, <2>2, <2>3
<1>8. ASSUME NEW x \in Node, MoveToFront(x) PROVE ListInv'
  <2>1. CASE list.head = x
    BY <2>1, <1>1, <1>2, <1>4, <1>6, <1>8 DEF MoveToFront
  <2>2. CASE list.head # x
    <3> DEFINE m == RemoveNode(list, x)
               G == held \ {x}
    <3>1. x \in held /\ held' = held /\ list' = addToFront(m, x)
      BY <1>8, <2>2 DEF MoveToFront
    <3>2. PICK t : Chain(m, t, n - 1, G)
      BY <3>1, <1>5
    <3>3. m \in ListType /\ n - 1 \in Nat
      BY <3>1, <1>5
    <3>4. G \in SUBSET Node /\ x \in Node \ G
      BY <1>1
    <3>5. Chain(addToFront(m, x), Push(t, n - 1, x), (n - 1) + 1, G \cup {x})
      <4> HIDE DEF m, G
      <4> QED BY <3>2, <3>3, <3>4, AddToFrontChain
    <3>6. Chain(list', Push(t, n - 1, x), n, held')
      <4>1. G \cup {x} = held' /\ (n - 1) + 1 = n
        BY <3>1, <1>2
      <4> QED BY <4>1, <3>1, <3>5
    <3>7. list' \in ListType
      BY <3>1, <3>3, AddToFrontType
    <3> QED BY <3>1, <3>6, <3>7, <1>1, <1>6
  <2> QED BY <2>1, <2>2
<1>9. ASSUME NEW x \in Node, Remove(x) PROVE ListInv'
  BY <1>1, <1>5, <1>6, <1>9 DEF Remove
<1>10. CASE RemoveLRU
  <2>1. CASE list.tail = Nil
    BY <2>1, <1>10, <1>1, <1>4, <1>6 DEF RemoveLRU, listVars
  <2>2. CASE list.tail # Nil
    <3>1. list.tail \in held
      BY <2>2, <1>2, <1>3 DEF Chained
    <3> QED BY <2>2, <3>1, <1>10, <1>1, <1>5, <1>6 DEF RemoveLRU
  <2> QED BY <2>1, <2>2
<1>11. CASE UNCHANGED listVars
  BY <1>11, <1>1, <1>4, <1>6 DEF listVars
<1> QED BY <1>7, <1>8, <1>9, <1>10, <1>11 DEF ListNext

(***************************************************************************)
(* After any sequence of Add, MoveToFront, RemoveNode and RemoveLRU the     *)
(* pointers of internal/lru/lru.go form one doubly linked chain over        *)
(* exactly the cells the cache holds, for every set of cells.               *)
(***************************************************************************)
THEOREM ListSound == ListSpec => []DoublyLinked
<1>1. ListInit => ListInv
  BY InitListInv
<1>2. ListInv /\ [ListNext]_listVars => ListInv'
  BY NextListInv
<1>3. ListInv => DoublyLinked
  BY DEF ListInv
<1> QED BY <1>1, <1>2, <1>3, PTL DEF ListSpec

--------------------------------------------------------------------------------
\* The list implements a sequence ordered by recency.

\* Following the next pointers of a chain meets its cells and then nil.
LEMMA WalkIsChain ==
  ASSUME NEW l, NEW H \in SUBSET Node, IsFiniteSet(H), NEW s, Chain(l, s, Cardinality(H), H)
  PROVE  Walk(l, H) = s
<1> DEFINE n == Cardinality(H)
           f == [i \in 1..(n + 1) |-> IF i = n + 1 THEN Nil ELSE s[i]]
           at == Visited(l, H)
           Step(g) == [i \in 1..(n + 1) |->
                         IF i = 1 THEN l.head ELSE IF g[i - 1] = Nil THEN Nil ELSE l.next[g[i - 1]]]
<1>1. n \in Nat
  BY FS_CardinalityType
<1>2. /\ s \in [1..n -> H] /\ l.head = IF n = 0 THEN Nil ELSE s[1]
      /\ \A i \in 1..n : l.next[s[i]] = IF i = n THEN Nil ELSE s[i + 1]
      /\ \A i \in 1..n : s[i] # Nil
  BY NilAssumption DEF Chain, Chained
<1> HIDE DEF n
<1>3. f = Step(f)
  BY <1>1, <1>2
<1>4. at = CHOOSE g : g = Step(g)
  BY DEF Visited, n
<1> HIDE DEF f, at, Step
<1>5. at = Step(at)
  BY <1>3, <1>4
<1>6. at = f
  <2>1. at = [i \in 1..(n + 1) |-> at[i]] /\ f = [i \in 1..(n + 1) |-> f[i]]
    BY <1>5 DEF f, Step
  <2>2. SUFFICES ASSUME \E i \in 1..(n + 1) : at[i] # f[i] PROVE FALSE
    BY <2>1
  <2>3. PICK i \in 1..(n + 1) : at[i] # f[i] /\ \A j \in 1..(i - 1) : at[j] = f[j]
    <3> DEFINE D == {j \in 1..(n + 1) : at[j] # f[j]}
    <3>1. D \in SUBSET Nat /\ D # {}
      BY <1>1, <2>2
    <3>2. PICK i \in D : \A j \in D : i <= j
      <4> HIDE DEF D
      <4> QED BY <3>1, SmallestNumber
    <3> QED BY <1>1, <3>2
  <2>4. CASE i = 1
    BY <1>1, <1>3, <1>5, <2>3, <2>4 DEF Step
  <2>5. CASE i # 1
    <3>1. at[i - 1] = f[i - 1]
      BY <1>1, <2>3, <2>5
    <3>2. /\ at[i] = IF at[i - 1] = Nil THEN Nil ELSE l.next[at[i - 1]]
          /\ f[i] = IF f[i - 1] = Nil THEN Nil ELSE l.next[f[i - 1]]
      BY <1>3, <1>5, <2>5 DEF Step
    <3> QED BY <2>3, <3>1, <3>2
  <2> QED BY <2>4, <2>5
<1>7. {j \in 1..(n + 1) : at[j] # Nil} = 1..n
  BY <1>1, <1>2, <1>6 DEF f
<1>8. Cardinality(1..n) = n
  BY <1>1, FS_Interval
<1>9. Walk(l, H) = [i \in 1..n |-> at[i]]
  BY <1>7, <1>8 DEF Walk, at, n
<1>10. [i \in 1..n |-> at[i]] = s
  BY <1>1, <1>2, <1>6 DEF f
<1> QED BY <1>9, <1>10

\* The chain of the list, as the sequence it is.
LEMMA OrderOf ==
  ASSUME ListInv
  PROVE  /\ Chain(list, Walk(list, held), Cardinality(held), held)
         /\ Cardinality(held) \in Nat
         /\ Walk(list, held) \in Seq(held) /\ Len(Walk(list, held)) = Cardinality(held)
<1>1. PICK s \in [1..Cardinality(held) -> held] :
        Chained(list, s, Cardinality(held)) /\ Enumerates(s, Cardinality(held), held)
  BY DEF ListInv, DoublyLinked
<1>2. Chain(list, s, Cardinality(held), held) /\ held \in SUBSET Node /\ IsFiniteSet(held)
  BY <1>1 DEF Chain, ListInv, ListTyped
<1>3. Walk(list, held) = s
  BY <1>2, WalkIsChain
<1>4. Cardinality(held) \in Nat
  BY <1>2, FS_CardinalityType
<1> QED BY <1>1, <1>2, <1>3, <1>4

\* Unlinking the p-th cell is Without on the sequence, and pushing is PushFront.
LEMMA DropIsWithout ==
  ASSUME NEW H, NEW s \in Seq(H), NEW p \in 1..Len(s), \A i, j \in 1..Len(s) : s[i] = s[j] => i = j
  PROVE  Drop(s, Len(s), p) = Abstract!Without(s, s[p])
<1>1. Abstract!Position(s, s[p]) = p
  BY DEF Abstract!Position
<1> QED BY <1>1 DEF Drop, Abstract!Without, Abstract!DropAt

LEMMA PushIsPushFront ==
  ASSUME NEW s, NEW x
  PROVE  Push(s, Len(s), x) = Abstract!PushFront(s, x)
BY DEF Push, Abstract!PushFront

\* Every operation of lru.go is one of the sequence's, or changes nothing.
LEMMA StepSimulation ==
  ASSUME ListInv, ListInv', [ListNext]_listVars
  PROVE  [Abstract!Next]_(Walk(list, held))
<1>1. PICK s : s = Walk(list, held)
  OBVIOUS
<1>2. PICK H : H = held
  OBVIOUS
<1>3. /\ Chain(list, s, Cardinality(H), H) /\ Cardinality(H) \in Nat
      /\ s \in Seq(H) /\ Len(s) = Cardinality(H)
      /\ list \in ListType /\ H \in SUBSET Node /\ IsFiniteSet(H)
  BY <1>1, <1>2, OrderOf DEF ListInv, ListTyped
<1>4. ASSUME NEW t, Chain(list', t, Cardinality(held'), held')
      PROVE  Walk(list, held)' = t
  <2>1. held' \in SUBSET Node /\ IsFiniteSet(held')
    BY DEF ListInv, ListTyped
  <2>2. Walk(list', held') = t
    BY <1>4, <2>1, WalkIsChain
  <2> QED BY <2>2
<1>5. /\ \A i, j \in 1..Len(s) : s[i] = s[j] => i = j
      /\ \A x \in H : \E i \in 1..Len(s) : s[i] = x
      /\ Abstract!Elements(s) = H
      /\ list.head = IF Len(s) = 0 THEN Nil ELSE s[1]
      /\ list.tail = IF Len(s) = 0 THEN Nil ELSE s[Len(s)]
  BY <1>3 DEF Chain, Chained, Enumerates, Abstract!Elements
\* Unlinking a cell.
<1>6. ASSUME NEW p \in 1..Len(s)
      PROVE  /\ Chain(RemoveNode(list, s[p]), Abstract!Without(s, s[p]), Len(s) - 1, H \ {s[p]})
             /\ RemoveNode(list, s[p]) \in ListType
             /\ Cardinality(H \ {s[p]}) = Len(s) - 1 /\ Len(s) - 1 \in Nat
             /\ Len(Abstract!Without(s, s[p])) = Len(s) - 1
  <2>1. Chain(RemoveNode(list, s[p]), Drop(s, Len(s), p), Len(s) - 1, H \ {s[p]})
    BY <1>3, RemoveNodeChain
  <2>2. Drop(s, Len(s), p) = Abstract!Without(s, s[p])
    BY <1>3, <1>5, DropIsWithout
  <2>3. s[p] \in H /\ Len(s) - 1 \in Nat
    BY <1>3
  <2>4. Cardinality(H \ {s[p]}) = Len(s) - 1
    <3>1. \A x \in H : Cardinality(H \ {x}) = Cardinality(H) - 1
      BY <1>3, FS_RemoveElement
    <3> QED BY <1>3, <2>3, <3>1
  <2>5. RemoveNode(list, s[p]) \in ListType
    BY <1>3, <2>3, RemoveNodeType
  <2>6. Len(Drop(s, Len(s), p)) = Len(s) - 1
    BY <2>3 DEF Drop
  <2> QED BY <2>1, <2>2, <2>3, <2>4, <2>5, <2>6
<1>7. ASSUME NEW x \in Node, Add(x) PROVE Abstract!Next
  <2>1. x \notin H /\ list' = addToFront(list, x) /\ held' = H \cup {x}
    BY <1>2, <1>7 DEF Add
  <2>2. Chain(list', Push(s, Len(s), x), Len(s) + 1, held')
    BY <1>3, <2>1, AddToFrontChain
  <2>3. Cardinality(held') = Len(s) + 1
    BY <1>3, <2>1, FS_AddElement
  <2>4. Walk(list, held)' = Abstract!PushFront(s, x)
    BY <1>4, <2>2, <2>3, PushIsPushFront
  <2> QED BY <1>1, <1>5, <2>1, <2>4 DEF Abstract!Next, Abstract!Add
<1>8. ASSUME NEW x \in Node, MoveToFront(x) PROVE Abstract!Next
  <2>1. x \in H /\ held' = H /\ list' = IF list.head = x THEN list ELSE addToFront(RemoveNode(list, x), x)
    BY <1>2, <1>8 DEF MoveToFront
  <2>2. PICK p \in 1..Len(s) : s[p] = x
    BY <1>5, <2>1
  <2>3. PICK w : w = Abstract!Without(s, x)
    OBVIOUS
  <2>4. /\ Chain(RemoveNode(list, x), w, Len(s) - 1, H \ {x}) /\ RemoveNode(list, x) \in ListType
        /\ Len(s) - 1 \in Nat /\ Len(w) = Len(s) - 1
    BY <1>6, <2>2, <2>3
  <2>5. Walk(list, held)' = Abstract!PushFront(w, x)
    <3>1. CASE list.head = x
      <4>1. p = 1
        BY <1>3, <1>5, <2>2, <3>1
      <4>2. w = [j \in 1..(Len(s) - 1) |-> s[j + 1]]
        <5>1. w = Drop(s, Len(s), p)
          BY <1>3, <1>5, <2>2, <2>3, DropIsWithout
        <5> QED BY <1>3, <4>1, <5>1 DEF Drop
      <4>3. Abstract!PushFront(w, x) = s
        BY <1>3, <2>2, <2>4, <4>1, <4>2 DEF Abstract!PushFront
      <4>4. Chain(list', s, Cardinality(held'), held')
        BY <1>3, <2>1, <3>1
      <4> QED BY <1>4, <4>3, <4>4
    <3>2. CASE list.head # x
      <4>1. PICK l : l = RemoveNode(list, x)
        OBVIOUS
      <4>2. Chain(addToFront(l, x), Push(w, Len(s) - 1, x), (Len(s) - 1) + 1, (H \ {x}) \cup {x})
        BY <1>3, <2>1, <2>4, <4>1, AddToFrontChain
      <4>3. (Len(s) - 1) + 1 = Len(s) /\ (H \ {x}) \cup {x} = H
        BY <1>3, <2>1
      <4>4. Chain(list', Push(w, Len(w), x), Cardinality(held'), held')
        BY <1>3, <2>1, <2>4, <3>2, <4>1, <4>2, <4>3
      <4> QED BY <1>4, <4>4, PushIsPushFront
    <3> QED BY <3>1, <3>2
  <2> QED BY <1>1, <1>5, <2>1, <2>3, <2>5 DEF Abstract!Next, Abstract!MoveToFront, Abstract!ToFront
<1>9. ASSUME NEW x \in H, list' = RemoveNode(list, x), held' = H \ {x}
      PROVE  Walk(list, held)' = Abstract!Without(s, x)
  <2>1. PICK p \in 1..Len(s) : s[p] = x
    BY <1>5
  <2>2. Chain(list', Abstract!Without(s, x), Cardinality(held'), held')
    BY <1>6, <1>9, <2>1
  <2> QED BY <1>4, <2>2
<1>10. ASSUME NEW x \in Node, Remove(x) PROVE Abstract!Next
  <2>1. x \in H /\ Walk(list, held)' = Abstract!Without(s, x)
    BY <1>2, <1>9, <1>10 DEF Remove
  <2> QED BY <1>1, <1>5, <2>1 DEF Abstract!Next, Abstract!Remove
<1>11. CASE RemoveLRU
  <2>1. CASE list.tail = Nil
    BY <1>11, <2>1 DEF RemoveLRU, listVars
  <2>2. CASE list.tail # Nil
    <3>1. Len(s) # 0 /\ list.tail = s[Len(s)] /\ s[Len(s)] \in H /\ s # <<>>
      BY <1>3, <1>5, <2>2
    <3>2. list' = RemoveNode(list, list.tail) /\ held' = H \ {list.tail}
      BY <1>2, <1>11, <2>2 DEF RemoveLRU
    <3>3. Walk(list, held)' = Abstract!Without(s, s[Len(s)])
      BY <1>9, <3>1, <3>2
    <3> QED BY <1>1, <3>1, <3>3 DEF Abstract!Next, Abstract!RemoveLRU, Abstract!LeastRecent
  <2> QED BY <2>1, <2>2
<1>12. CASE UNCHANGED listVars
  BY <1>12 DEF listVars
<1> QED BY <1>7, <1>8, <1>10, <1>11, <1>12 DEF ListNext

(***************************************************************************)
(* Read from head to tail, the pointers of lru.go are a list ordered by     *)
(* recency: each call does to the sequence of cells what RecencyList says,  *)
(* and nothing else.                                                        *)
(***************************************************************************)
THEOREM ListImplementsOrder == ListSpec => ImplementsRecencyList
<1>1. ListInit => Abstract!Init
  <2> SUFFICES ASSUME ListInit PROVE Walk(list, held) = <<>>
    BY DEF Abstract!Init
  <2>1. ListInv /\ Cardinality(held) = 0
    BY InitListInv, FS_EmptySet DEF ListInit
  <2> QED BY <2>1, OrderOf
<1>2. ListInit => ListInv
  BY InitListInv
<1>3. ListInv /\ [ListNext]_listVars => ListInv'
  BY NextListInv
<1>4. ListInv /\ ListInv' /\ [ListNext]_listVars => [Abstract!Next]_(Walk(list, held))
  BY StepSimulation
<1> QED BY <1>1, <1>2, <1>3, <1>4, PTL DEF ListSpec, ImplementsRecencyList, Abstract!Spec

--------------------------------------------------------------------------------
\* Facts about the recency order.

\* Position finds a key that is in the list.
LEMMA PositionIs ==
  ASSUME NEW S, NEW s \in Seq(S), NEW k \in Elements(s)
  PROVE  Position(s, k) \in 1..Len(s) /\ s[Position(s, k)] = k
BY DEF Elements, Position

\* Removing a key from a list without duplicates: what remains, in which order.
LEMMA WithoutIs ==
  ASSUME NEW S, NEW s \in Seq(S), NEW k \in Elements(s), NoDuplicates(s)
  PROVE  /\ Without(s, k) \in Seq(S)
         /\ Len(Without(s, k)) = Len(s) - 1
         /\ Elements(Without(s, k)) = Elements(s) \ {k}
         /\ NoDuplicates(Without(s, k))
         /\ \A R : SortedBy(s, R) => SortedBy(Without(s, k), R)
<1> DEFINE p == Position(s, k)
           t == Without(s, k)
<1>1. p \in 1..Len(s) /\ s[p] = k /\ Len(s) \in Nat /\ Len(s) - 1 \in Nat
  BY PositionIs
<1>2. t = [j \in 1..(Len(s) - 1) |-> IF j < p THEN s[j] ELSE s[j + 1]]
  BY DEF Without, DropAt
<1> HIDE DEF p, t
<1>3. t \in Seq(S) /\ Len(t) = Len(s) - 1
  <2>1. \A j \in 1..(Len(s) - 1) : j \in 1..Len(s) /\ j + 1 \in 1..Len(s)
    BY <1>1
  <2>2. t \in [1..(Len(s) - 1) -> S]
    BY <1>1, <1>2, <2>1
  <2> QED BY <1>1, <2>2
<1>4. \A j \in 1..Len(t) : t[j] = IF j < p THEN s[j] ELSE s[j + 1]
  BY <1>2, <1>3
<1>5. \A i, j \in 1..Len(s) : s[i] = s[j] => i = j
  BY DEF NoDuplicates
<1>6. Elements(t) = Elements(s) \ {k}
  <2>1. ASSUME NEW x \in Elements(t) PROVE x \in Elements(s) \ {k}
    <3>1. PICK j \in 1..Len(t) : x = t[j]
      BY DEF Elements
    <3>2. j \in 1..Len(s) /\ j + 1 \in 1..Len(s)
      BY <1>1, <1>3
    <3>3. CASE j < p
      BY <3>1, <3>2, <3>3, <1>1, <1>4, <1>5 DEF Elements
    <3>4. CASE ~(j < p)
      BY <3>1, <3>2, <3>4, <1>1, <1>4, <1>5 DEF Elements
    <3> QED BY <3>3, <3>4
  <2>2. ASSUME NEW x \in Elements(s) \ {k} PROVE x \in Elements(t)
    <3>1. PICK i \in 1..Len(s) : x = s[i]
      BY DEF Elements
    <3>2. i # p
      BY <3>1, <1>1
    <3>3. CASE i < p
      BY <3>1, <3>3, <1>1, <1>3, <1>4 DEF Elements
    <3>4. CASE i > p
      <4>1. i - 1 \in 1..Len(t) /\ ~(i - 1 < p)
        BY <3>4, <1>1, <1>3
      <4>2. t[i - 1] = x
        BY <4>1, <3>1, <1>4
      <4> QED BY <4>1, <4>2 DEF Elements
    <3> QED BY <3>2, <3>3, <3>4, <1>1
  <2> QED BY <2>1, <2>2
<1>7. NoDuplicates(t)
  BY <1>1, <1>3, <1>4, <1>5 DEF NoDuplicates
<1>8. ASSUME NEW R, SortedBy(s, R) PROVE SortedBy(t, R)
  BY <1>1, <1>3, <1>4, <1>8 DEF SortedBy
<1> QED BY <1>3, <1>6, <1>7, <1>8 DEF t

\* A key pushed to the front: positions and elements of the new list.
LEMMA PushFrontIs ==
  ASSUME NEW S, NEW s \in Seq(S), NEW k \in S
  PROVE  /\ PushFront(s, k) \in Seq(S)
         /\ Len(PushFront(s, k)) = Len(s) + 1
         /\ PushFront(s, k)[1] = k
         /\ \A i \in 2..(Len(s) + 1) : PushFront(s, k)[i] = s[i - 1]
         /\ Elements(PushFront(s, k)) = Elements(s) \cup {k}
<1> DEFINE t == PushFront(s, k)
<1>1. t = [j \in 1..(Len(s) + 1) |-> IF j = 1 THEN k ELSE s[j - 1]]
  BY DEF PushFront
<1> HIDE DEF t
<1>2. t \in Seq(S) /\ Len(t) = Len(s) + 1
  <2>1. t \in [1..(Len(s) + 1) -> S]
    BY <1>1
  <2> QED BY <2>1
<1>3. t[1] = k /\ \A i \in 2..(Len(s) + 1) : t[i] = s[i - 1]
  BY <1>1
<1>4. Elements(t) = Elements(s) \cup {k}
  <2>1. ASSUME NEW x \in Elements(t) PROVE x \in Elements(s) \cup {k}
    <3>1. PICK j \in 1..Len(t) : x = t[j]
      BY DEF Elements
    <3>2. j = 1 \/ (j \in 2..(Len(s) + 1) /\ j - 1 \in 1..Len(s))
      BY <1>2
    <3> QED BY <3>1, <3>2, <1>3 DEF Elements
  <2>2. ASSUME NEW x \in Elements(s) PROVE x \in Elements(t)
    <3>1. PICK i \in 1..Len(s) : x = s[i]
      BY DEF Elements
    <3>2. i + 1 \in 1..Len(t) /\ i + 1 \in 2..(Len(s) + 1) /\ (i + 1) - 1 = i
      BY <1>2
    <3>3. t[i + 1] = x
      BY <3>1, <3>2, <1>3
    <3> QED BY <3>2, <3>3 DEF Elements
  <2>3. k \in Elements(t)
    BY <1>2, <1>3 DEF Elements
  <2> QED BY <2>1, <2>2, <2>3
<1> QED BY <1>2, <1>3, <1>4 DEF t

\* PushFront adds exactly the key.
LEMMA PushFrontElements ==
  ASSUME NEW S, NEW s \in Seq(S), NEW k \in S
  PROVE  Elements(PushFront(s, k)) = Elements(s) \cup {k}
BY PushFrontIs

\* PushFront of a new key makes no duplicate.
LEMMA PushFrontNoDuplicates ==
  ASSUME NEW S, NEW s \in Seq(S), NEW k \in S, k \notin Elements(s), NoDuplicates(s)
  PROVE  NoDuplicates(PushFront(s, k))
<1> DEFINE t == PushFront(s, k)
<1>0. /\ Len(t) = Len(s) + 1 /\ t[1] = k
      /\ \A i \in 2..(Len(s) + 1) : t[i] = s[i - 1]
  BY PushFrontIs
<1> HIDE DEF t
<1> SUFFICES ASSUME NEW i \in 1..Len(t), NEW j \in 1..Len(t), t[i] = t[j], i # j
             PROVE  FALSE
  BY DEF NoDuplicates, t
<1>1. CASE i = 1
  <2>1. j \in 2..(Len(s) + 1) /\ j - 1 \in 1..Len(s)
    BY <1>1, <1>0
  <2> QED BY <1>1, <2>1, <1>0 DEF Elements
<1>2. CASE j = 1
  <2>1. i \in 2..(Len(s) + 1) /\ i - 1 \in 1..Len(s)
    BY <1>2, <1>0
  <2> QED BY <1>2, <2>1, <1>0 DEF Elements
<1>3. CASE i # 1 /\ j # 1
  <2>1. /\ i \in 2..(Len(s) + 1) /\ i - 1 \in 1..Len(s)
        /\ j \in 2..(Len(s) + 1) /\ j - 1 \in 1..Len(s)
    BY <1>3, <1>0
  <2>2. s[i - 1] = s[j - 1]
    BY <2>1, <1>0
  <2>3. i - 1 = j - 1
    BY <2>1, <2>2 DEF NoDuplicates
  <2> QED BY <2>1, <2>3
<1> QED BY <1>1, <1>2, <1>3

\* Bringing a listed key to the front, sorted by the history of uses.
LEMMA ToFrontIs ==
  ASSUME NEW s \in Seq(Key), NEW k \in Elements(s), NoDuplicates(s)
  PROVE  /\ ToFront(s, k) \in Seq(Key)
         /\ Elements(ToFront(s, k)) = Elements(s)
         /\ NoDuplicates(ToFront(s, k))
<1>1. k \in Key
  <2>1. PICK i \in 1..Len(s) : k = s[i]
    BY DEF Elements
  <2> QED BY <2>1
<1>2. /\ Without(s, k) \in Seq(Key)
      /\ Elements(Without(s, k)) = Elements(s) \ {k}
      /\ NoDuplicates(Without(s, k))
  BY WithoutIs
<1> DEFINE w == Without(s, k)
<1>3. k \notin Elements(w) /\ Elements(w) \cup {k} = Elements(s)
  BY <1>2
<1> HIDE DEF w
<1>4. w \in Seq(Key) /\ NoDuplicates(w)
  BY <1>2 DEF w
<1>5. /\ PushFront(w, k) \in Seq(Key)
      /\ Elements(PushFront(w, k)) = Elements(w) \cup {k}
  BY <1>1, <1>4, PushFrontIs
<1>6. NoDuplicates(PushFront(w, k))
  BY <1>1, <1>3, <1>4, PushFrontNoDuplicates
<1> QED BY <1>3, <1>5, <1>6 DEF ToFront, w

\* Using k keeps a list sorted when k is pushed in front of keys other than k.
LEMMA PushFrontSorted ==
  ASSUME NEW s \in Seq(Key), NEW k \in Key, k \notin Elements(s),
         SortedBy(s, recent)
  PROVE  SortedBy(PushFront(s, k), Touch(k))
<1> DEFINE t == PushFront(s, k)
<1>1. /\ Len(t) = Len(s) + 1 /\ t[1] = k
      /\ \A i \in 2..(Len(s) + 1) : t[i] = s[i - 1]
  BY PushFrontIs
<1> HIDE DEF t
<1> SUFFICES ASSUME NEW i \in 1..Len(t), NEW j \in 1..Len(t), i < j
             PROVE  <<t[i], t[j]>> \in Touch(k)
  BY DEF SortedBy, t
<1>2. j \in 2..(Len(s) + 1) /\ j - 1 \in 1..Len(s)
  BY <1>1
<1>3. t[j] = s[j - 1] /\ s[j - 1] \in Key /\ s[j - 1] # k
  BY <1>1, <1>2 DEF Elements
<1>4. CASE i = 1
  BY <1>1, <1>3, <1>4 DEF Touch
<1>5. CASE i > 1
  <2>1. i \in 2..(Len(s) + 1) /\ i - 1 \in 1..Len(s) /\ i - 1 < j - 1
    BY <1>1, <1>2, <1>5
  <2>2. t[i] = s[i - 1] /\ s[i - 1] # k
    BY <2>1, <1>1 DEF Elements
  <2>3. <<s[i - 1], s[j - 1]>> \in recent
    BY <2>1, <1>2 DEF SortedBy
  <2> QED BY <2>2, <2>3, <1>3 DEF Touch
<1> QED BY <1>4, <1>5

\* Removing what may not be there leaves a list.
LEMMA WithoutType ==
  ASSUME NEW S, NEW s \in Seq(S), NEW k
  PROVE  Without(s, k) \in Seq(S)
<1> DEFINE p == Position(s, k)
<1>1. PICK n \in Nat : n = Len(s) /\ s \in [1..n -> S]
  OBVIOUS
<1>2. ASSUME NEW j \in 1..(n - 1) PROVE (IF j < p THEN s[j] ELSE s[j + 1]) \in S
  <2>1. j \in 1..n /\ j + 1 \in 1..n
    BY <1>1
  <2>2. s[j] \in S /\ s[j + 1] \in S
    BY <1>1, <2>1
  <2> QED BY <2>2
<1>3. PICK m \in Nat : 1..m = 1..(n - 1)
  <2>1. CASE n = 0
    <3>1. 1..0 = 1..(n - 1)
      BY <2>1
    <3> QED BY <3>1
  <2>2. CASE n # 0
    <3>1. n - 1 \in Nat
      BY <2>2
    <3> QED BY <3>1
  <2> QED BY <2>1, <2>2
<1>4. Without(s, k) = [j \in 1..m |-> IF j < p THEN s[j] ELSE s[j + 1]]
  BY <1>1, <1>3 DEF Without, DropAt
<1> HIDE DEF p
<1> QED BY <1>2, <1>3, <1>4

\* Removing several keys one after the other: what remains, in which order.
LEMMA WithoutAllIs ==
  ASSUME NEW K, NEW l \in Seq(K), NoDuplicates(l), NEW R, SortedBy(l, R),
         NEW G \in SUBSET Elements(l), IsFiniteSet(G)
  PROVE  /\ WithoutAll(l, G) \in Seq(K)
         /\ Elements(WithoutAll(l, G)) = Elements(l) \ G
         /\ NoDuplicates(WithoutAll(l, G)) /\ SortedBy(WithoutAll(l, G), R)
<1> DEFINE Step(g) == [s \in SUBSET G |-> IF s = {} THEN l
                         ELSE Without(g[s \ {CHOOSE x \in s : TRUE}], CHOOSE x \in s : TRUE)]
           iter == CHOOSE g : g = Step(g)
           Left(t, s) == /\ t \in Seq(K) /\ Elements(t) = Elements(l) \ s
                         /\ NoDuplicates(t) /\ SortedBy(t, R)
<1>1. WithoutAll(l, G) = iter[G]
  BY Zenon DEF WithoutAll, FoldSet, MapThenFoldSet
<1>2. \E g : g = Step(g)
  <2> DEFINE f == [x \in G |-> [t \in Seq(K) |-> Without(t, x)]]
  <2>1. f \in [G -> [Seq(K) -> Seq(K)]]
    BY WithoutType
  <2>2. PICK g \in [SUBSET G -> Seq(K)] : Folds(g, f, l, G)
    <3> HIDE DEF f
    <3> QED BY <2>1, FoldsExist, Zenon
  <2>3. ASSUME NEW s \in SUBSET G, s # {}
        PROVE  g[s] = Without(g[s \ {Any(s)}], Any(s))
    <3>1. Any(s) \in G /\ g[s \ {Any(s)}] \in Seq(K)
      BY <2>3, AnyIn
    <3> QED BY <2>2, <2>3, <3>1 DEF Folds, FoldsAt
  <2>4. g[{}] = l
    BY <2>2 DEF Folds, FoldsAt
  <2>5. g = Step(g)
    BY <2>3, <2>4 DEF Any
  <2> QED BY <2>5
<1>3. iter = Step(iter)
  BY <1>2, Zenon
<1> HIDE DEF iter
<1>4. iter[{}] = l
  BY <1>3
<1>5. \A s \in SUBSET G : s # {} => iter[s] = Without(iter[s \ {Any(s)}], Any(s))
  BY <1>3 DEF Any
<1> HIDE DEF Step
<1>6. \A s \in SUBSET G : Left(iter[s], s)
  <2> DEFINE B == {s \in SUBSET G : ~Left(iter[s], s)}
  <2>1. SUFFICES ASSUME B # {} PROVE FALSE
    OBVIOUS
  <2>2. PICK s \in SUBSET G : s \in B /\ \A t \in SUBSET s : t # s => t \notin B
    <3>1. B \in SUBSET (SUBSET G)
      OBVIOUS
    <3> HIDE DEF B
    <3> QED BY <2>1, <3>1, SmallestSubset
  <2>3. s # {}
    BY <2>2, <1>4
  <2>4. PICK x \in s : x = Any(s)
    BY <2>3, AnyIn
  <2>5. PICK t \in Seq(K) : t = iter[s \ {x}] /\ Left(t, s \ {x})
    <3>1. s \ {x} \in SUBSET s /\ s \ {x} # s /\ s \ {x} \in SUBSET G
      OBVIOUS
    <3>2. Left(iter[s \ {x}], s \ {x})
      BY <2>2, <3>1
    <3> QED BY <3>2
  <2>6. x \in Elements(t)
    BY <2>5
  <2>7. iter[s] = Without(t, x)
    BY <1>5, <2>3, <2>4, <2>5
  <2>8. Left(Without(t, x), s)
    <3>1. /\ Without(t, x) \in Seq(K) /\ Elements(Without(t, x)) = Elements(t) \ {x}
          /\ NoDuplicates(Without(t, x)) /\ SortedBy(Without(t, x), R)
      BY <2>5, <2>6, WithoutIs
    <3> QED BY <2>5, <3>1
  <2> QED BY <2>2, <2>7, <2>8
<1> QED BY <1>1, <1>6

--------------------------------------------------------------------------------
CacheInv ==
  /\ TypeOK
  /\ IsFiniteSet(DOMAIN data)
  /\ ListMatchesData
  /\ SizeBounded
  /\ SortedByUse

\* NewCache establishes the invariant.
LEMMA InitCacheInv == Init => CacheInv
<1> SUFFICES ASSUME Init PROVE CacheInv
  OBVIOUS
<1>1. DOMAIN data = {} /\ data \in [DOMAIN data -> CacheItem]
  BY DEF Init
<1>2. IsFiniteSet(DOMAIN data) /\ Cardinality(DOMAIN data) = 0
  BY <1>1, FS_EmptySet
<1>3. lru \in Seq(Key) /\ Len(lru) = 0
  BY DEF Init
<1>4. TypeOK
  BY <1>1, <1>3 DEF Init, TypeOK
<1>5. ListMatchesData
  BY <1>1, <1>3 DEF ListMatchesData, NoDuplicates, Elements
<1>6. SizeBounded
  BY <1>2, SizeAssumption DEF SizeBounded
<1>7. SortedByUse
  BY <1>3 DEF SortedByUse, SortedBy
<1> QED BY <1>2, <1>4, <1>5, <1>6, <1>7 DEF CacheInv

\* Every call keeps the invariant, one step per operation of cache.go.
LEMMA NextCacheInv == CacheInv /\ [Next]_vars => CacheInv'
<1> SUFFICES ASSUME CacheInv, [Next]_vars PROVE CacheInv'
  OBVIOUS
<1> DEFINE D == DOMAIN data
<1>1. /\ D \subseteq Key /\ data \in [D -> CacheItem] /\ lru \in Seq(Key)
      /\ currentMemoryBytes \in Int /\ now \in Nat /\ recent \subseteq Key \X Key
  BY DEF CacheInv, TypeOK
<1>2. IsFiniteSet(D) /\ Cardinality(D) \in Nat
  BY FS_CardinalityType DEF CacheInv
<1>3. NoDuplicates(lru) /\ Elements(lru) = D
  BY DEF CacheInv, ListMatchesData
<1>4. SortedBy(lru, recent)
  BY DEF CacheInv, SortedByUse
<1>5. Cardinality(D) <= IF MaxSize = 0 THEN 1 ELSE MaxSize
  BY DEF CacheInv, SizeBounded
<1>6. \A k \in Key : Touch(k) \subseteq Key \X Key
  BY <1>1 DEF Touch
<1>7. \A k \in Key, v \in Value : calculateItemSize(k, v) \in Nat
  BY LenAssumption DEF calculateItemSize
<1>8. \A ttl \in TTL : ExpiryOf(ttl) \in Nat
  BY <1>1, ClockAssumption DEF ExpiryOf, Never
\* Bringing a stored key to the front, shared by Update and GetHit.
<1>9. ASSUME NEW k \in D
      PROVE  /\ ToFront(lru, k) \in Seq(Key)
             /\ Elements(ToFront(lru, k)) = D
             /\ NoDuplicates(ToFront(lru, k))
             /\ SortedBy(ToFront(lru, k), Touch(k))
  <2>1. k \in Elements(lru) /\ k \in Key
    BY <1>1, <1>3
  <2>2. /\ ToFront(lru, k) \in Seq(Key)
        /\ Elements(ToFront(lru, k)) = D
        /\ NoDuplicates(ToFront(lru, k))
    BY <2>1, <1>1, <1>3, ToFrontIs
  <2>3. /\ Without(lru, k) \in Seq(Key)
        /\ Elements(Without(lru, k)) = Elements(lru) \ {k}
        /\ SortedBy(Without(lru, k), recent)
    BY <2>1, <1>1, <1>3, <1>4, WithoutIs
  <2>4. SortedBy(ToFront(lru, k), Touch(k))
    BY <2>1, <2>3, PushFrontSorted DEF ToFront
  <2> QED BY <2>2, <2>4
<1>10. ASSUME NEW k \in Key, NEW v \in Value, NEW ttl \in TTL, Update(k, v, ttl)
       PROVE  CacheInv'
  <2>1. k \in D /\ DOMAIN data' = D /\ data' \in [D -> CacheItem]
    BY <1>1, <1>8, <1>10 DEF Update, CacheItem
  <2>2. lru' = ToFront(lru, k) /\ recent' = Touch(k) /\ now' = now
    BY <1>10 DEF Update
  <2>3. currentMemoryBytes' \in Int
    <3>1. data[k].value \in Value
      BY <2>1, <1>1 DEF CacheItem
    <3>2. calculateItemSize(k, data[k].value) \in Nat /\ calculateItemSize(k, v) \in Nat
      BY <3>1, <1>7
    <3> QED BY <3>2, <1>1, <1>10 DEF Update
  <2>4. TypeOK'
    BY <2>1, <2>2, <2>3, <1>1, <1>6, <1>9 DEF TypeOK
  <2>5. ListMatchesData' /\ SortedByUse'
    BY <2>1, <2>2, <1>9 DEF ListMatchesData, SortedByUse
  <2>6. SizeBounded' /\ IsFiniteSet(DOMAIN data')
    BY <2>1, <1>2, <1>5 DEF SizeBounded
  <2> QED BY <2>4, <2>5, <2>6 DEF CacheInv
<1>11. ASSUME NEW k \in Key, NEW v \in Value, NEW ttl \in TTL, Insert(k, v, ttl)
       PROVE  CacheInv'
  <2> DEFINE kept == IF Victims = {} THEN lru ELSE Without(lru, LeastRecent(lru))
             E == D \ Victims
  <2>1. k \notin D /\ lru' = PushFront(kept, k) /\ recent' = Touch(k) /\ now' = now
    BY <1>11 DEF Insert
  <2>2. /\ kept \in Seq(Key) /\ Elements(kept) = E /\ NoDuplicates(kept)
        /\ SortedBy(kept, recent)
        /\ IsFiniteSet(E) /\ Cardinality(E) \in Nat
        /\ Cardinality(E) + 1 <= IF MaxSize = 0 THEN 1 ELSE MaxSize
    <3>1. CASE Victims = {}
      <4>1. E = D /\ kept = lru
        BY <3>1
      <4>2. Cardinality(D) < MaxSize \/ lru = <<>>
        BY <3>1, <1>2, SizeAssumption DEF Victims
      <4>3. lru = <<>> => Cardinality(D) = 0
        <5>1. ASSUME lru = <<>>, NEW y \in Elements(lru) PROVE FALSE
          <6>1. PICK i \in 1..Len(lru) : y = lru[i]
            BY DEF Elements
          <6> QED BY <5>1, <6>1
        <5>2. lru = <<>> => D = {}
          BY <5>1, <1>3
        <5> QED BY <5>2, FS_EmptySet
      <4>4. Cardinality(D) + 1 <= IF MaxSize = 0 THEN 1 ELSE MaxSize
        BY <4>2, <4>3, <1>2, SizeAssumption
      <4> QED BY <4>1, <4>4, <1>1, <1>2, <1>3, <1>4
    <3>2. CASE Victims # {}
      <4> DEFINE x == LeastRecent(lru)
      <4>1. Victims = {x} /\ lru # <<>> /\ kept = Without(lru, x)
        BY <3>2 DEF Victims
      <4>2. x \in Elements(lru)
        <5>1. Len(lru) \in 1..Len(lru)
          BY <4>1, <1>1
        <5> QED BY <5>1 DEF Elements, LeastRecent
      <4>3. /\ kept \in Seq(Key) /\ Elements(kept) = D \ {x} /\ NoDuplicates(kept)
            /\ SortedBy(kept, recent)
        BY <4>1, <4>2, <1>1, <1>3, <1>4, WithoutIs
      <4>4. IsFiniteSet(D \ {x}) /\ Cardinality(D \ {x}) = Cardinality(D) - 1
        BY <4>2, <1>2, <1>3, FS_RemoveElement
      <4>5. Cardinality(D \ {x}) \in Nat
        BY <4>4, FS_CardinalityType
      <4>6. Cardinality(D \ {x}) + 1 <= IF MaxSize = 0 THEN 1 ELSE MaxSize
        BY <4>4, <1>2, <1>5, SizeAssumption
      <4>7. E = D \ {x}
        BY <4>1
      <4> HIDE DEF E, x, kept
      <4> QED BY <4>3, <4>4, <4>5, <4>6, <4>7
    <3> QED BY <3>1, <3>2
  <2>3. DOMAIN data' = E \cup {k} /\ k \notin E /\ E \subseteq D
    BY <2>1, <1>11 DEF Insert
  <2>4. data' \in [DOMAIN data' -> CacheItem]
    <3>1. [value |-> v, expiresAt |-> ExpiryOf(ttl)] \in CacheItem
      BY <1>8 DEF CacheItem
    <3>2. \A j \in E : data[j] \in CacheItem
      BY <1>1, <2>3
    <3>3. data' = [j \in E \cup {k} |->
                     IF j = k THEN [value |-> v, expiresAt |-> ExpiryOf(ttl)]
                              ELSE data[j]]
      BY <1>11 DEF Insert
    <3> HIDE DEF E
    <3> QED BY <3>1, <3>2, <3>3
  <2>5. currentMemoryBytes' \in Int
    <3>1. calculateItemSize(k, v) \in Nat
      BY <1>7
    <3>2. EvictedBytes \in Nat
      <4> DEFINE x == LeastRecent(lru)
      <4>1. x \in D => data[x].value \in Value /\ x \in Key
        BY <1>1 DEF CacheItem
      <4>2. x \in D => calculateItemSize(x, data[x].value) \in Nat
        BY <4>1, <1>7
      <4> QED BY <4>2 DEF EvictedBytes
    <3> QED BY <3>1, <3>2, <1>1, <1>11 DEF Insert
  <2> HIDE DEF kept, E
  <2>6. PushFront(kept, k) \in Seq(Key)
    BY <2>2, PushFrontIs
  <2>7. Elements(PushFront(kept, k)) = E \cup {k} /\ NoDuplicates(PushFront(kept, k))
    <3>1. Elements(PushFront(kept, k)) = E \cup {k}
      <4>1. kept \in Seq(Key)
        BY <2>2
      <4>2. Elements(PushFront(kept, k)) = Elements(kept) \cup {k}
        BY <4>1, PushFrontElements
      <4> QED BY <4>2, <2>2
    <3>2. NoDuplicates(PushFront(kept, k))
      <4>1. kept \in Seq(Key) /\ NoDuplicates(kept) /\ k \notin Elements(kept)
        BY <2>2, <2>3
      <4> QED BY <4>1, PushFrontNoDuplicates
    <3> QED BY <3>1, <3>2
  <2>8. SortedBy(PushFront(kept, k), Touch(k))
    BY <2>2, <2>3, PushFrontSorted
  <2>9. IsFiniteSet(E \cup {k}) /\ Cardinality(E \cup {k}) = Cardinality(E) + 1
    BY <2>2, <2>3, FS_AddElement
  <2>10. TypeOK'
    BY <2>1, <2>3, <2>4, <2>5, <2>6, <1>1, <1>6 DEF TypeOK
  <2>11. ListMatchesData' /\ SortedByUse'
    BY <2>1, <2>3, <2>7, <2>8 DEF ListMatchesData, SortedByUse
  <2>12. SizeBounded' /\ IsFiniteSet(DOMAIN data')
    BY <2>2, <2>3, <2>9 DEF SizeBounded
  <2> QED BY <2>10, <2>11, <2>12 DEF CacheInv
<1>12. ASSUME NEW k \in Key, GetHit(k) PROVE CacheInv'
  <2>1. /\ k \in D /\ data' = data /\ lru' = ToFront(lru, k) /\ recent' = Touch(k)
        /\ now' = now /\ currentMemoryBytes' = currentMemoryBytes
    BY <1>12 DEF GetHit
  <2>2. TypeOK'
    BY <2>1, <1>1, <1>6, <1>9 DEF TypeOK
  <2>3. ListMatchesData' /\ SortedByUse'
    BY <2>1, <1>9 DEF ListMatchesData, SortedByUse
  <2>4. SizeBounded' /\ IsFiniteSet(DOMAIN data')
    BY <2>1, <1>2, <1>5 DEF SizeBounded
  <2> QED BY <2>2, <2>3, <2>4 DEF CacheInv
<1>13. ASSUME NEW k \in Key, Delete(k) PROVE CacheInv'
  <2>1. CASE k \notin D
    <3>1. UNCHANGED vars
      BY <2>1, <1>13 DEF Delete, vars
    <3> QED BY <3>1 DEF vars, CacheInv, TypeOK, ListMatchesData, SizeBounded, SortedByUse
  <2>2. CASE k \in D
    <3>1. /\ data' = [j \in D \ {k} |-> data[j]] /\ lru' = Without(lru, k)
          /\ currentMemoryBytes' =
               currentMemoryBytes - calculateItemSize(k, data[k].value)
          /\ now' = now /\ recent' = recent
      BY <2>2, <1>13 DEF Delete, Restrict
    <3>2. DOMAIN data' = D \ {k} /\ data' \in [D \ {k} -> CacheItem]
      BY <3>1, <1>1
    <3>3. /\ lru' \in Seq(Key) /\ Elements(lru') = D \ {k} /\ NoDuplicates(lru')
          /\ SortedBy(lru', recent')
      BY <3>1, <2>2, <1>1, <1>3, <1>4, WithoutIs
    <3>4. currentMemoryBytes' \in Int
      <4>1. data[k].value \in Value
        BY <2>2, <1>1 DEF CacheItem
      <4>2. calculateItemSize(k, data[k].value) \in Nat
        BY <4>1, <1>7
      <4> QED BY <4>2, <3>1, <1>1
    <3>5. IsFiniteSet(D \ {k}) /\ Cardinality(D \ {k}) = Cardinality(D) - 1
      BY <2>2, <1>2, FS_RemoveElement
    <3>6. TypeOK'
      BY <3>1, <3>2, <3>3, <3>4, <1>1 DEF TypeOK
    <3>7. ListMatchesData' /\ SortedByUse'
      BY <3>2, <3>3 DEF ListMatchesData, SortedByUse
    <3>8. SizeBounded' /\ IsFiniteSet(DOMAIN data')
      BY <3>2, <3>5, <1>2, <1>5, SizeAssumption DEF SizeBounded
    <3> QED BY <3>6, <3>7, <3>8 DEF CacheInv
  <2> QED BY <2>1, <2>2
<1>14. CASE Tick
  <2>1. TypeOK'
    BY <1>14, <1>1 DEF Tick, TypeOK
  <2> QED BY <2>1, <1>14 DEF Tick, CacheInv, ListMatchesData, SizeBounded, SortedByUse
<1>15. CASE UNCHANGED vars
  BY <1>15 DEF vars, CacheInv, TypeOK, ListMatchesData, SizeBounded, SortedByUse
<1>16. ASSUME NEW k \in Key, GetMiss(k) PROVE CacheInv'
  BY <1>15, <1>16 DEF GetMiss
<1>17. CASE CleanupExpired
  <2> DEFINE gone == {k \in D : Expired(k)}
             sizes == [k \in gone |-> calculateItemSize(k, data[k].value)]
  <2>1. /\ data' = [j \in D \ gone |-> data[j]] /\ lru' = WithoutAll(lru, gone)
        /\ currentMemoryBytes' = currentMemoryBytes - SumFunction(sizes)
        /\ now' = now /\ recent' = recent
    BY <1>17 DEF CleanupExpired, Restrict
  <2>2. IsFiniteSet(gone) /\ IsFiniteSet(D \ gone) /\ Cardinality(D \ gone) <= Cardinality(D)
    BY <1>2, FS_Subset
  <2>3. DOMAIN data' = D \ gone /\ data' \in [D \ gone -> CacheItem]
    BY <2>1, <1>1
  <2>4. /\ lru' \in Seq(Key) /\ Elements(lru') = D \ gone
        /\ NoDuplicates(lru') /\ SortedBy(lru', recent')
    <3>1. gone \in SUBSET Elements(lru)
      BY <1>3
    <3> HIDE DEF gone
    <3> QED BY <3>1, <2>1, <2>2, <1>1, <1>3, <1>4, WithoutAllIs
  <2>5. currentMemoryBytes' \in Int
    <3>1. \A k \in D : k \in Key /\ data[k].value \in Value
      BY <1>1 DEF CacheItem
    <3>2. \A k \in D : calculateItemSize(k, data[k].value) \in Int
      BY <3>1, <1>7
    <3>3. sizes \in [gone -> Int]
      BY <3>2
    <3>4. SumFunction(sizes) \in Int
      <4> HIDE DEF gone, sizes
      <4>1. PICK g \in [SUBSET gone -> Int] : SumFunction(sizes) = g[gone]
        BY <2>2, <3>3, SumFunctionSums
      <4> QED BY <4>1
    <3> QED BY <2>1, <3>4, <1>1
  <2> HIDE DEF gone
  <2>6. TypeOK'
    BY <2>1, <2>3, <2>4, <2>5, <1>1 DEF TypeOK
  <2>7. ListMatchesData' /\ SortedByUse'
    BY <2>3, <2>4 DEF ListMatchesData, SortedByUse
  <2>8. SizeBounded' /\ IsFiniteSet(DOMAIN data')
    <3>1. Cardinality(D \ gone) \in Nat
      BY <2>2, FS_CardinalityType
    <3> QED BY <3>1, <2>2, <2>3, <1>2, <1>5, SizeAssumption DEF SizeBounded
  <2> QED BY <2>6, <2>7, <2>8 DEF CacheInv
<1> QED
  BY <1>10, <1>11, <1>12, <1>13, <1>14, <1>15, <1>16, <1>17 DEF Next, Set, Get

\* The invariant holds of a cache of any maxSize, whatever is called on it.
LEMMA CacheAlways == Spec => []CacheInv
BY InitCacheInv, NextCacheInv, PTL DEF Spec

\* Map, list, memory counter and clock keep their types: every node of the list
\* has a key, every stored item its value, expiry and node.
THEOREM CacheTyped == Spec => []TypeOK
<1>1. CacheInv => TypeOK
  BY DEF CacheInv
<1> QED BY <1>1, CacheAlways, PTL

\* Every stored key has exactly one node in the recency list and every node a
\* stored key, whatever the mix of updates, evictions, lazy expiry and deletions.
THEOREM MapAndListAgree == Spec => []ListMatchesData
<1>1. CacheInv => ListMatchesData
  BY DEF CacheInv
<1> QED BY <1>1, CacheAlways, PTL

\* The cache never holds more than maxSize keys (one, if maxSize is 0).
THEOREM CacheBounded == Spec => []SizeBounded
<1>1. CacheInv => SizeBounded
  BY DEF CacheInv
<1> QED BY <1>1, CacheAlways, PTL

\* The list is always in the order of last use, which is why its tail is the key
\* to evict.
THEOREM ListInOrderOfUse == Spec => []SortedByUse
<1>1. CacheInv => SortedByUse
  BY DEF CacheInv
<1> QED BY <1>1, CacheAlways, PTL

\* The sizes of the stored items.
Sizes == [k \in DOMAIN data |-> calculateItemSize(k, data[k].value)]

\* An item is added, replaced or removed: how the sum changes.
LEMMA OneSizeChanges ==
  ASSUME NEW S, IsFiniteSet(S), NEW w \in [S -> Int], NEW x \in S, NEW T, NEW v \in [T -> Int],
         T \ {x} = S \ {x}, IsFiniteSet(T), \A y \in S \ {x} : v[y] = w[y]
  PROVE  /\ SumFunction(w) \in Int
         /\ x \in T => SumFunction(v) = SumFunction(w) - w[x] + v[x]
         /\ x \notin T => SumFunction(v) = SumFunction(w) - w[x]
<1>1. PICK r \in [S \ {x} -> Int] : r = [y \in S \ {x} |-> w[y]]
  OBVIOUS
<1>2. SumFunction(w) = w[x] + SumFunction(r) /\ SumFunction(r) \in Int
  <2>1. SumSplits(w, S)
    BY SumFunctionSplits
  <2> QED BY <1>1, <2>1 DEF SumSplits
<1>3. ASSUME x \in T PROVE SumFunction(v) = v[x] + SumFunction(r)
  <2>1. SumSplits(v, T)
    BY SumFunctionSplits
  <2>2. [y \in T \ {x} |-> v[y]] = r
    BY <1>1
  <2> QED BY <1>3, <2>1, <2>2 DEF SumSplits
<1>4. ASSUME x \notin T PROVE v = r
  <2>1. T = S \ {x}
    BY <1>4
  <2> QED BY <1>1, <2>1
<1>5. w[x] \in Int /\ (x \in T => v[x] \in Int)
  OBVIOUS
<1> QED BY <1>2, <1>3, <1>4, <1>5

\* Each operation changes the counter by what it changes of the sum.
LEMMA MemoryNext == CacheInv /\ MemoryExact /\ [Next]_vars => MemoryExact'
<1> SUFFICES ASSUME CacheInv, MemoryExact, [Next]_vars PROVE MemoryExact'
  OBVIOUS
<1>1. CacheInv'
  BY NextCacheInv
<1>2. PICK S : S = DOMAIN data /\ IsFiniteSet(S) /\ S \subseteq Key /\ \A k \in S : data[k].value \in Value
  BY DEF CacheInv, TypeOK, CacheItem
<1>3. PICK T : T = DOMAIN data' /\ IsFiniteSet(T) /\ T \subseteq Key /\ \A k \in T : data'[k].value \in Value
  BY <1>1 DEF CacheInv, TypeOK, CacheItem
<1>4. \A k \in Key, b \in Value : calculateItemSize(k, b) \in Int
  BY LenAssumption DEF calculateItemSize
<1>5. PICK w \in [S -> Int] : w = Sizes /\ \A k \in S : w[k] = calculateItemSize(k, data[k].value)
  <2>1. Sizes = [k \in S |-> calculateItemSize(k, data[k].value)]
    BY <1>2 DEF Sizes
  <2>2. \A k \in S : calculateItemSize(k, data[k].value) \in Int
    BY <1>2, <1>4
  <2> QED BY <2>1, <2>2
<1>6. PICK v \in [T -> Int] : v = Sizes' /\ \A k \in T : v[k] = calculateItemSize(k, data'[k].value)
  <2>1. Sizes' = [k \in T |-> calculateItemSize(k, data'[k].value)]
    BY <1>3 DEF Sizes
  <2>2. \A k \in T : calculateItemSize(k, data'[k].value) \in Int
    BY <1>3, <1>4
  <2> QED BY <2>1, <2>2
<1>7. PICK b \in Int : b = currentMemoryBytes /\ b = SumFunction(w)
  BY <1>5 DEF CacheInv, TypeOK, MemoryExact, Sizes
<1>8. SUFFICES currentMemoryBytes' = SumFunction(v)
  BY <1>6 DEF MemoryExact, Sizes
<1>9. ASSUME data' = data, currentMemoryBytes' = currentMemoryBytes
      PROVE  currentMemoryBytes' = SumFunction(v)
  BY <1>5, <1>6, <1>7, <1>9 DEF Sizes
<1>10. ASSUME NEW k \in Key, NEW a \in Value, NEW ttl \in TTL, Update(k, a, ttl)
       PROVE  currentMemoryBytes' = SumFunction(v)
  <2>1. T = S /\ k \in S /\ \A j \in S \ {k} : data'[j] = data[j]
    BY <1>2, <1>3, <1>10 DEF Update
  <2>2. data'[k].value = a
    BY <1>2, <2>1, <1>10 DEF Update
  <2>3. v[k] = calculateItemSize(k, a) /\ w[k] = calculateItemSize(k, data[k].value)
    BY <1>5, <1>6, <2>1, <2>2
  <2>4. currentMemoryBytes' = b - w[k] + v[k]
    BY <1>7, <1>10, <2>3 DEF Update
  <2>5. \A j \in S \ {k} : v[j] = w[j]
    BY <1>5, <1>6, <2>1
  <2>6. SumFunction(v) = SumFunction(w) - w[k] + v[k]
    BY <1>2, <1>3, <2>1, <2>5, OneSizeChanges
  <2> QED BY <1>7, <2>4, <2>6
<1>11. ASSUME NEW k \in Key, NEW a \in Value, NEW ttl \in TTL, Insert(k, a, ttl)
       PROVE  currentMemoryBytes' = SumFunction(v)
  <2>1. PICK E : E = S \ Victims
    OBVIOUS
  <2>2. /\ k \notin S /\ T = E \cup {k} /\ data'[k].value = a
        /\ \A j \in E : data'[j] = data[j]
        /\ currentMemoryBytes' = b - EvictedBytes + calculateItemSize(k, a)
    BY <1>2, <1>3, <1>7, <2>1, <1>11 DEF Insert
  <2>3. PICK r \in [E -> Int] : r = [j \in E |-> w[j]]
    BY <2>1
  <2>4. SumFunction(r) = b - EvictedBytes /\ EvictedBytes \in Int
    <3>1. CASE Victims = {}
      <4>1. E = S
        BY <2>1, <3>1
      <4>2. r = w
        BY <2>3, <4>1
      <4>3. EvictedBytes = 0
        BY <3>1 DEF EvictedBytes
      <4> QED BY <1>7, <4>2, <4>3
    <3>2. CASE Victims # {}
      <4>1. PICK x : x = LeastRecent(lru) /\ Victims = {x} /\ x \in S
        <5>1. Victims = {LeastRecent(lru)} /\ lru # <<>>
          BY <3>2 DEF Victims
        <5>2. Len(lru) \in 1..Len(lru)
          BY <5>1 DEF CacheInv, TypeOK
        <5>3. LeastRecent(lru) \in DOMAIN data
          BY <5>2 DEF LeastRecent, CacheInv, ListMatchesData, Elements
        <5> QED BY <1>2, <5>1, <5>3
      <4>2. EvictedBytes = w[x]
        BY <1>2, <1>5, <3>2, <4>1 DEF EvictedBytes
      <4>3. E = S \ {x} /\ x \notin E /\ IsFiniteSet(E)
        BY <1>2, <2>1, <4>1, FS_RemoveElement
      <4>4. E \ {x} = S \ {x} /\ \A j \in S \ {x} : r[j] = w[j]
        BY <2>3, <4>3
      <4>5. SumFunction(r) = SumFunction(w) - w[x]
        BY <1>2, <4>1, <4>3, <4>4, OneSizeChanges
      <4> QED BY <1>7, <4>1, <4>2, <4>5
    <3> QED BY <3>1, <3>2
  <2>5. v[k] = calculateItemSize(k, a) /\ k \in T /\ k \notin E
    BY <1>6, <2>1, <2>2
  <2>6. E \ {k} = T \ {k} /\ IsFiniteSet(E)
    BY <1>2, <2>1, <2>2, FS_Subset
  <2>7. \A j \in T \ {k} : r[j] = v[j]
    BY <1>5, <1>6, <2>1, <2>2, <2>3
  <2>8. SumFunction(r) = SumFunction(v) - v[k] /\ SumFunction(v) \in Int
    BY <1>3, <2>5, <2>6, <2>7, OneSizeChanges
  <2>9. v[k] \in Int
    BY <2>5
  <2> QED BY <2>2, <2>4, <2>5, <2>8, <2>9
<1>12. ASSUME NEW k \in Key, Delete(k) PROVE currentMemoryBytes' = SumFunction(v)
  <2>1. CASE k \notin S
    BY <1>2, <1>9, <1>12, <2>1 DEF Delete
  <2>2. CASE k \in S
    <3>1. /\ data' = [j \in S \ {k} |-> data[j]]
          /\ currentMemoryBytes' = currentMemoryBytes - calculateItemSize(k, data[k].value)
      BY <1>2, <1>12, <2>2 DEF Delete, Restrict
    <3>2. T \ {k} = S \ {k} /\ k \notin T /\ \A j \in S \ {k} : v[j] = w[j]
      BY <1>3, <1>5, <1>6, <3>1
    <3>3. SumFunction(v) = SumFunction(w) - w[k]
      BY <1>2, <1>3, <2>2, <3>2, OneSizeChanges
    <3> QED BY <1>5, <1>7, <2>2, <3>1, <3>3
  <2> QED BY <2>1, <2>2
<1>13. CASE CleanupExpired
  <2>1. PICK G \in SUBSET S : G = {k \in DOMAIN data : Expired(k)}
    BY <1>2
  <2>2. /\ data' = [j \in S \ G |-> data[j]]
        /\ currentMemoryBytes' =
             b - SumFunction([k \in G |-> calculateItemSize(k, data[k].value)])
    BY <1>2, <1>7, <1>13, <2>1 DEF CleanupExpired, Restrict
  <2>3. [k \in G |-> calculateItemSize(k, data[k].value)] = [y \in G |-> w[y]]
    BY <1>5
  <2>4. v = [y \in S \ G |-> w[y]]
    BY <1>3, <1>5, <1>6, <2>2
  <2>5. /\ SumFunction(w) = SumFunction([y \in G |-> w[y]]) + SumFunction([y \in S \ G |-> w[y]])
        /\ SumFunction([y \in G |-> w[y]]) \in Int
        /\ SumFunction([y \in S \ G |-> w[y]]) \in Int
    <3>1. IsFiniteSet(S)
      BY <1>2
    <3> QED BY <3>1, SumOfParts, Zenon
  <2> QED BY <1>7, <2>2, <2>3, <2>4, <2>5
<1>14. ASSUME NEW k \in Key, Get(k) PROVE currentMemoryBytes' = SumFunction(v)
  BY <1>9, <1>14 DEF Get, GetHit, GetMiss, vars
<1>15. CASE Tick \/ UNCHANGED vars
  BY <1>9, <1>15 DEF Tick, vars
<1> QED
  BY <1>10, <1>11, <1>12, <1>13, <1>14, <1>15 DEF Next, Set

(***************************************************************************)
(* The byte counter, which Set, Delete and CleanupExpired adjust by         *)
(* differences and nothing ever recomputes, is always the sum of the sizes  *)
(* of the stored items.                                                     *)
(***************************************************************************)
THEOREM MemoryCounted == Spec => []MemoryExact
<1>1. Init => MemoryExact
  <2> SUFFICES ASSUME Init PROVE MemoryExact
    OBVIOUS
  <2>1. PICK w \in [{} -> Int] : w = Sizes
    BY DEF Init, Sizes
  <2>2. SumFunction(w) = 0
    BY <2>1, SumOfNothing
  <2> QED BY <2>1, <2>2 DEF Init, MemoryExact, Sizes
<1>2. CacheInv /\ MemoryExact /\ [Next]_vars => MemoryExact'
  BY MemoryNext
<1> QED BY <1>1, <1>2, CacheAlways, PTL DEF Spec

(***************************************************************************)
(* Set evicts at most one key, only from a full cache, and that key is the  *)
(* one used longest ago: for every maxSize and every history of calls.      *)
(***************************************************************************)
THEOREM EvictionIsLRU == Spec => EvictsLeastRecent
<1> DEFINE Evicts ==
      DOMAIN data' \ DOMAIN data # {} =>
        \A k \in DOMAIN data \ DOMAIN data' :
          /\ Cardinality(DOMAIN data) >= MaxSize
          /\ \A j \in DOMAIN data \ {k} :
               j \in DOMAIN data' /\ <<j, k>> \in recent
<1>1. CacheInv /\ [Next]_vars => [Evicts]_vars
  <2> SUFFICES ASSUME CacheInv, Next,
                      DOMAIN data' \ DOMAIN data # {},
                      NEW k \in DOMAIN data \ DOMAIN data'
               PROVE  /\ Cardinality(DOMAIN data) >= MaxSize
                      /\ \A j \in DOMAIN data \ {k} :
                           j \in DOMAIN data' /\ <<j, k>> \in recent
    OBVIOUS
  <2>1. PICK y \in Key, v \in Value, ttl \in TTL : Insert(y, v, ttl)
    <3>1. \A y \in Key, v \in Value, ttl \in TTL : ~Update(y, v, ttl)
      BY DEF Update
    <3>2. \A y \in Key : ~GetHit(y) /\ ~GetMiss(y)
      BY DEF GetHit, GetMiss, vars
    <3>3. \A y \in Key : ~Delete(y)
      BY DEF Delete, Restrict
    <3>4. ~Tick
      BY DEF Tick
    <3>5. ~CleanupExpired
      BY DEF CleanupExpired, Restrict
    <3> QED BY <3>1, <3>2, <3>3, <3>4, <3>5 DEF Next, Set, Get
  <2>2. DOMAIN data' = (DOMAIN data \ Victims) \cup {y}
    BY <2>1 DEF Insert
  <2>3. k \in Victims
    BY <2>2
  <2>4. /\ Cardinality(DOMAIN data) >= MaxSize /\ lru # <<>>
        /\ k = LeastRecent(lru) /\ Victims = {k}
    BY <2>3 DEF Victims
  <2>5. ASSUME NEW j \in DOMAIN data \ {k}
        PROVE  j \in DOMAIN data' /\ <<j, k>> \in recent
    <3>1. j \in DOMAIN data'
      BY <2>2, <2>4
    <3>2. lru \in Seq(Key) /\ Elements(lru) = DOMAIN data /\ SortedBy(lru, recent)
      BY DEF CacheInv, TypeOK, ListMatchesData, SortedByUse
    <3>3. PICK i \in 1..Len(lru) : j = lru[i]
      BY <3>2 DEF Elements
    <3>4. i < Len(lru) /\ Len(lru) \in 1..Len(lru)
      BY <3>2, <3>3, <2>4 DEF LeastRecent
    <3>5. <<lru[i], lru[Len(lru)]>> \in recent
      BY <3>2, <3>4 DEF SortedBy
    <3> QED BY <3>1, <3>3, <3>5, <2>4 DEF LeastRecent
  <2> QED BY <2>4, <2>5
<1>2. Init => CacheInv
  BY InitCacheInv
<1>3. CacheInv /\ [Next]_vars => CacheInv'
  BY NextCacheInv
<1> QED BY <1>1, <1>2, <1>3, PTL DEF Spec, EvictsLeastRecent
================================================================================
