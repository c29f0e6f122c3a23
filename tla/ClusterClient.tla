------------------------------ MODULE ClusterClient ------------------------------
(***************************************************************************)
(* pkg/client/cluster_client.go and client.go: the client that keeps a ring *)
(* and one connection per node, used by several goroutines, with its        *)
(* topology refresh and its Close.                                          *)
(*                                                                          *)
(* Abstractions.  A node is its id and its address.  A request is a key of  *)
(* any hash, so that it may go to any node of the ring; Get, Set,           *)
(* SetWithTTL and Delete differ in the bytes only.  The locks of the ring   *)
(* and of c.mu are held for one step.                                       *)
(***************************************************************************)
EXTENDS Naturals, FiniteSets

CONSTANTS Server,        \* the nodes a client may talk to
          User,          \* goroutines that use the client
          MaxRefreshes   \* bound on discoveries that succeed

NoServer == "no server"

\* Who runs discoverTopology: the refresh loop, and the caller of
\* NewClusterClient and then of RefreshTopology.
Discoverer == {"loop", "caller"}

VARIABLES
  nodes,     \* c.nodes: [Server -> the status in the last CLUSTER NODES]
  added,     \* the nodes of c.hashRing
  conns,     \* c.conns: [Server -> "none", "open" or "closed" (its net.Conn)]
  use,       \* [User -> where its request is]
  target,    \* [User -> the node its request goes to]
  refresh,   \* [Discoverer -> where its discoverTopology is]
  refreshes, \* how many have succeeded
  closing,   \* where Close is
  \* The world:
  sockets,   \* [Server -> open TCP connections that requests go over]
  seedConns, \* [Discoverer -> open TCP connections to seeds]
  \* History:
  late       \* the nodes that were dialled for a request after Close

clientVars ==
  <<nodes, added, conns, use, target, refresh, refreshes, closing, sockets, seedConns, late>>

ClientInit ==
  /\ nodes = [n \in Server |-> "none"]
  /\ added = {}
  /\ conns = [n \in Server |-> "none"]
  /\ use = [u \in User |-> "idle"]
  /\ target = [u \in User |-> NoServer]
  /\ refresh = [d \in Discoverer |-> "idle"] /\ refreshes = 0
  /\ closing = "no"
  /\ sockets = [n \in Server |-> 0]
  /\ seedConns = [d \in Discoverer |-> 0]
  /\ late = {}

--------------------------------------------------------------------------------
\* discoverTopology.

\* A seed is dialled; where it does not answer nothing changes and the next one
\* is tried.  NewClusterClient returns only after a success; the loop, which may
\* take its ticker before stopCh, ends before Close does, but RefreshTopology
\* looks at neither.
DialSeed(d) ==
  /\ refresh[d] = "idle"
  /\ refreshes + Cardinality({e \in Discoverer : refresh[e] # "idle"}) < MaxRefreshes
  /\ d = "loop" => refreshes > 0 /\ closing # "done"
  /\ refresh' = [refresh EXCEPT ![d] = "asked"]
  /\ seedConns' = [seedConns EXCEPT ![d] = @ + 1]
  /\ UNCHANGED <<nodes, added, conns, use, target, refreshes, closing, sockets, late>>

\* CLUSTER NODES fails, and so does the discovery or it tries the next seed.
SeedFails(d) ==
  /\ refresh[d] = "asked"
  /\ refresh' = [refresh EXCEPT ![d] = "idle"]
  /\ seedConns' = [seedConns EXCEPT ![d] = @ - 1]
  /\ UNCHANGED <<nodes, added, conns, use, target, refreshes, closing, sockets, late>>

\* The seed answers; reply is what CLUSTER NODES says of each node.
Fetch(d, reply) ==
  /\ refresh[d] = "asked"
  /\ refresh' = [refresh EXCEPT ![d] = "parsed"]
  /\ seedConns' = [seedConns EXCEPT ![d] = @ - 1]
  /\ nodes' = reply
  /\ UNCHANGED <<added, conns, use, target, refreshes, closing, sockets, late>>

\* The ring is added to, never cleared, by what c.nodes then holds; places that
\* are added again have the same owner.
BuildHashRing(d) ==
  /\ refresh[d] = "parsed"
  /\ refresh' = [refresh EXCEPT ![d] = "idle"]
  /\ refreshes' = refreshes + 1
  /\ added' = added \cup {n \in Server : nodes[n] = "active"}
  /\ UNCHANGED <<nodes, conns, use, target, closing, sockets, seedConns, late>>

--------------------------------------------------------------------------------
\* Requests.

\* The request is over.
Returns(u) ==
  /\ use' = [use EXCEPT ![u] = "idle"]
  /\ target' = [target EXCEPT ![u] = NoServer]

\* GetNode and GetNodeAddress, and the look of getOrCreateConnection under the
\* read lock: one step, as a ring that only grows answers as well later.  On an
\* empty ring the request fails.
FindConn(u, n) ==
  /\ use[u] = "idle" /\ n \in added
  /\ use' = [use EXCEPT ![u] = IF conns[n] = "none" THEN "create" ELSE "send"]
  /\ target' = [target EXCEPT ![u] = n]
  /\ UNCHANGED <<nodes, added, conns, refresh, refreshes, closing, sockets, seedConns, late>>

\* A plausible bug: no second look under the write lock.
NoSecondLook(n) == FALSE

Exists(n) == conns[n] # "none"

\* The second look, and the dial, under the write lock.  Nothing tells that the
\* client was closed.
CreateConn(u, up) ==
  LET n == target[u] IN
  /\ use[u] = "create"
  /\ \/ /\ Exists(n)
        /\ use' = [use EXCEPT ![u] = "send"]
        /\ UNCHANGED <<conns, sockets, target, late>>
     \/ /\ ~Exists(n) /\ up[n]
        /\ conns' = [conns EXCEPT ![n] = "open"]
        /\ sockets' = [sockets EXCEPT ![n] = @ + 1]
        /\ late' = IF closing = "done" THEN late \cup {n} ELSE late
        /\ use' = [use EXCEPT ![u] = "send"]
        /\ UNCHANGED target
     \/ /\ ~Exists(n) /\ ~up[n]
        /\ Returns(u)
        /\ UNCHANGED <<conns, sockets, late>>
  /\ UNCHANGED <<nodes, added, refresh, refreshes, closing, seedConns>>

\* Client.executeCommandWithRedirect: the reply comes, or an error.
Execute(u) ==
  /\ use[u] = "send"
  /\ Returns(u)
  /\ UNCHANGED <<nodes, added, conns, refresh, refreshes, closing, sockets, seedConns, late>>

\* The reply is MOVED: the connection is closed and the address in it dialled.
\* The server writes "MOVED id host:port" and ParseRedirect takes "id host" for
\* the host, so the dial fails; conns keeps the Client with its closed
\* connection.  ClusterClient looks for MOVED in the error and never finds it.
ExecuteMoved(u) ==
  /\ use[u] = "send" /\ conns[target[u]] = "open"
  /\ conns' = [conns EXCEPT ![target[u]] = "closed"]
  /\ sockets' = [sockets EXCEPT ![target[u]] = @ - 1]
  /\ Returns(u)
  /\ UNCHANGED <<nodes, added, refresh, refreshes, closing, seedConns, late>>

--------------------------------------------------------------------------------
\* Close stops the refresh loop and waits for it, then closes what is in conns: the
\* requests that go over it fail.

CloseBegins ==
  /\ closing = "no" /\ refreshes > 0
  /\ closing' = "waiting"
  /\ UNCHANGED <<nodes, added, conns, use, target, refresh, refreshes, sockets, seedConns, late>>

CloseConns ==
  /\ closing = "waiting" /\ refresh["loop"] = "idle"
  /\ closing' = "done"
  /\ sockets' = [n \in Server |-> IF conns[n] = "open" THEN sockets[n] - 1 ELSE sockets[n]]
  /\ conns' = [n \in Server |-> "none"]
  /\ use' = [u \in User |-> IF use[u] = "send" THEN "idle" ELSE use[u]]
  /\ target' = [u \in User |-> IF use[u] = "send" THEN NoServer ELSE target[u]]
  /\ UNCHANGED <<nodes, added, refresh, refreshes, seedConns, late>>

--------------------------------------------------------------------------------
\* However requests, redirects, discoveries and Close interleave, a node has at
\* most one connection for requests and conns holds it; a discovery has one to a
\* seed just while it waits for the answer (cluster_client.go:69-86, 236-266); and
\* Close leaves none of the earlier connections open: what is open after it was
\* dialled by a request that came to getOrCreateConnection after Close had
\* cleared conns (cluster_client.go:474).  Those stay open for good: a second
\* Close panics on stopCh before it comes to them (cluster_client.go:459).
ConnectionsAccounted ==
  /\ \A n \in Server : sockets[n] = IF conns[n] = "open" THEN 1 ELSE 0
  /\ \A d \in Discoverer : seedConns[d] = IF refresh[d] = "asked" THEN 1 ELSE 0
  /\ closing = "done" => \A n \in Server : sockets[n] > 0 => n \in late
================================================================================
