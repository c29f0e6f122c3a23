----------------------------------- MODULE LRU ----------------------------------
(***************************************************************************)
(* internal/lru/lru.go at the level of its pointers.                        *)
(*                                                                          *)
(* The list is the record of the LRU's two fields and of every node's two   *)
(* fields.  A Node is a heap cell; Add allocates one, so a cell that has    *)
(* left the list may be allocated again (its key is the cell's identity,    *)
(* since the cache never has two cells for one key).  RemoveNode does not   *)
(* clear the pointers of the cell it unlinks: they stay, stale.             *)
(***************************************************************************)
EXTENDS RecencyOrder, FiniteSets

CONSTANTS Node,   \* the heap cells
          Nil     \* the nil pointer

ASSUME NilAssumption == Nil \notin Node

VARIABLES list,   \* [head, tail, prev, next]
          held    \* the cells that some CacheItem.node of the cache points at

listVars == <<list, held>>

ListType ==
  [head : Node \cup {Nil}, tail : Node \cup {Nil},
   prev : [Node -> Node \cup {Nil}], next : [Node -> Node \cup {Nil}]]

\* A plausible bug: the backward pointer of the successor is forgotten.
BypassForwardOnly(l, n) == [l EXCEPT !.next[l.prev[n]] = l.next[n]]

\* The last case of RemoveNode: both neighbours skip n.
Bypass(l, n) ==
  [l EXCEPT !.next[l.prev[n]] = l.next[n],
            !.prev[l.next[n]] = l.prev[n]]

\* The four cases of RemoveNode, in the order the code tries them.
RemoveNode(l, n) ==
  CASE l.head = n /\ l.tail = n ->
         [l EXCEPT !.head = Nil, !.tail = Nil]
    [] l.head = n /\ l.tail # n ->
         [l EXCEPT !.head = l.next[n], !.prev[l.next[n]] = Nil]
    [] l.head # n /\ l.tail = n ->
         [l EXCEPT !.tail = l.prev[n], !.next[l.prev[n]] = Nil]
    [] OTHER -> Bypass(l, n)

addToFront(l, n) ==
  IF l.head = Nil /\ l.tail = Nil
  THEN [l EXCEPT !.head = n, !.tail = n, !.next[n] = Nil, !.prev[n] = Nil]
  ELSE [l EXCEPT !.head = n,
                 !.next[n] = l.head,
                 !.prev = [l.prev EXCEPT ![n] = Nil, ![l.head] = n]]

ListInit ==
  /\ list = [head |-> Nil, tail |-> Nil,
             prev |-> [n \in Node |-> Nil], next |-> [n \in Node |-> Nil]]
  /\ held = {}

Add(n) ==
  /\ n \notin held
  /\ list' = addToFront(list, n)
  /\ held' = held \cup {n}

\* A plausible bug: the node is pushed without being unlinked first.
MoveToFrontWithoutUnlink(n) ==
  /\ n \in held
  /\ list' = IF list.head = n THEN list ELSE addToFront(list, n)
  /\ UNCHANGED held

MoveToFront(n) ==
  /\ n \in held
  /\ list' = IF list.head = n THEN list ELSE addToFront(RemoveNode(list, n), n)
  /\ UNCHANGED held

\* RemoveNode called by Cache.Delete and Cache.CleanupExpired.
Remove(n) ==
  /\ n \in held
  /\ list' = RemoveNode(list, n)
  /\ held' = held \ {n}

\* Returns the tail's key; the cache then drops the item of that key.  On an
\* empty list it returns "" and changes nothing.
RemoveLRU ==
  IF list.tail = Nil
  THEN UNCHANGED listVars
  ELSE list' = RemoveNode(list, list.tail) /\ held' = held \ {list.tail}

ListNext ==
  \/ \E n \in Node : Add(n) \/ MoveToFront(n) \/ Remove(n)
  \/ RemoveLRU

ListSpec == ListInit /\ [][ListNext]_listVars

--------------------------------------------------------------------------------

ListTyped == list \in ListType /\ held \in SUBSET Node

\* The n cells s[1], ..., s[n] are chained by l in both directions, from head
\* to tail, and no cell is met twice.
Chained(l, s, n) ==
  /\ \A i, j \in 1..n : s[i] = s[j] => i = j
  /\ l.head = IF n = 0 THEN Nil ELSE s[1]
  /\ l.tail = IF n = 0 THEN Nil ELSE s[n]
  /\ \A i \in 1..n : l.next[s[i]] = IF i = n THEN Nil ELSE s[i + 1]
  /\ \A i \in 1..n : l.prev[s[i]] = IF i = 1 THEN Nil ELSE s[i - 1]

Enumerates(s, n, S) == \A x \in S : \E i \in 1..n : s[i] = x

(***************************************************************************)
(* The list is sound whatever sequence of calls led here: its pointers form *)
(* one doubly linked chain that holds exactly the cells the cache still has *)
(* items for.  A cell lost from the chain could never be evicted; a stale   *)
(* one would be evicted in place of a live key, and a nil next or prev      *)
(* inside the chain would make RemoveNode dereference nil.                  *)
(***************************************************************************)
DoublyLinked ==
  \E s \in [1..Cardinality(held) -> held] :
    /\ Chained(list, s, Cardinality(held))
    /\ Enumerates(s, Cardinality(held), held)

--------------------------------------------------------------------------------
\* Refinement.

\* The cells met when the next pointers of l are followed from head, for one step
\* more than there are cells in H.
Visited(l, H) ==
  LET at[i \in 1..(Cardinality(H) + 1)] ==
        IF i = 1 THEN l.head
        ELSE IF at[i - 1] = Nil THEN Nil ELSE l.next[at[i - 1]]
  IN  at

\* The sequence of those cells, up to the first nil.
Walk(l, H) ==
  [i \in 1..Cardinality({j \in 1..(Cardinality(H) + 1) : Visited(l, H)[j] # Nil}) |-> Visited(l, H)[i]]

Abstract == INSTANCE RecencyList WITH order <- Walk(list, held)

(***************************************************************************)
(* Every call on the linked list does to the sequence of its cells what the *)
(* recency list promises, and nothing else: the cells keep their relative   *)
(* order, only the named one moves, and RemoveLRU drops the last.           *)
(***************************************************************************)
ImplementsRecencyList == Abstract!Spec

================================================================================
