------------------------------ MODULE MCMembership ------------------------------
\* A leader n1 that monitors n2, two shards with one place each and n2 with two
\* among five places: every order around the ring occurs.
EXTENDS Membership, TLC

CONSTANTS n1, n2, s1, s2

Layout(p, q, places) == (s1 :> {p}) @@ (s2 :> {q}) @@ (n2 :> places)

MCLayouts ==
  UNION {{Layout(p, q, places) : q \in {q \in Pos \ places : p < q}} :
           <<p, places>> \in {<<p, places>> \in Pos \X kSubset(2, Pos) : p \notin places}}

Users == Permutations(User)
================================================================================
