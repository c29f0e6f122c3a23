-------------------------------- MODULE MCPubSub --------------------------------
\* Connections, channels and Subscriber objects are interchangeable.
EXTENDS PubSub, TLC

Symmetry == Permutations(Conn) \cup Permutations(Channel) \cup Permutations(Sub)
================================================================================
