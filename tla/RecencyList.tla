------------------------------- MODULE RecencyList ------------------------------
(***************************************************************************)
(* What the doubly linked list of internal/lru/lru.go promises its only     *)
(* user, the cache: an ordered list of nodes, most recent first, in which a *)
(* node can be added, brought to the front, removed, or dropped from the    *)
(* tail.  LRU.tla, the pointer-level model, implements this specification.  *)
(***************************************************************************)
EXTENDS RecencyOrder

CONSTANT Node

VARIABLE order

Init == order = <<>>

Add(n) == n \notin Elements(order) /\ order' = PushFront(order, n)

MoveToFront(n) == n \in Elements(order) /\ order' = ToFront(order, n)

Remove(n) == n \in Elements(order) /\ order' = Without(order, n)

RemoveLRU == order # <<>> /\ order' = Without(order, LeastRecent(order))

Next ==
  \/ \E n \in Node : Add(n) \/ MoveToFront(n) \/ Remove(n)
  \/ RemoveLRU

Spec == Init /\ [][Next]_order
================================================================================
