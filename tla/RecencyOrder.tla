------------------------------ MODULE RecencyOrder ------------------------------
(***************************************************************************)
(* The recency list of internal/lru as a value: a sequence of keys, most    *)
(* recently used first.  These operators say what each operation of the     *)
(* linked list does to that sequence.  Cache.tla uses them directly; LRU.tla *)
(* has the pointers, and is shown to implement them.                        *)
(***************************************************************************)
EXTENDS Naturals, Sequences

Elements(s) == {s[i] : i \in 1..Len(s)}

NoDuplicates(s) == \A i, j \in 1..Len(s) : s[i] = s[j] => i = j

\* Earlier elements of s are R-related to later ones.
SortedBy(s, R) == \A i, j \in 1..Len(s) : i < j => <<s[i], s[j]>> \in R

Position(s, k) == CHOOSE i \in 1..Len(s) : s[i] = k

\* s with its i-th element taken out.
DropAt(s, i) == [j \in 1..(Len(s) - 1) |-> IF j < i THEN s[j] ELSE s[j + 1]]

\* RemoveNode: k leaves the list, the others keep their order.
Without(s, k) == DropAt(s, Position(s, k))

\* addToFront: the list gets a new head.
PushFront(s, k) ==
  [j \in 1..(Len(s) + 1) |-> IF j = 1 THEN k ELSE s[j - 1]]

\* MoveToFront: k becomes the head (also when it already is).
ToFront(s, k) == PushFront(Without(s, k), k)

\* RemoveLRU on a non-empty list: the tail leaves.
LeastRecent(s) == s[Len(s)]
================================================================================
