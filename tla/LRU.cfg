\* Four cells: a cell can have two neighbours on either side of every operation,
\* and be allocated again with the stale pointers of its earlier life.
CONSTANTS
  Node = {n1, n2, n3, n4}
  Nil = Nil
SPECIFICATION ListSpec
INVARIANT
  DoublyLinked
PROPERTY
  ImplementsRecencyList
