\* Two channels: leaving one of them must not end subscriber mode.  Two Subscriber
\* objects let a connection subscribe again while the sender of its first
\* subscription still runs.  A buffer of one drops messages.
CONSTANTS
  Conn = {c1, c2}
  Channel = {x, y}
  Sub = {s1, s2}
  BufferSize = 1
  MaxMessages = 2
SPECIFICATION Spec
SYMMETRY Symmetry
INVARIANTS
  TypeOK
  MapsAgree
  NoPanic
  DeliveredOnceToAudience
  ModeMatchesSubscriptions
  NoOrphanSender
\* Once every client has hung up nothing is left to do.
CHECK_DEADLOCK FALSE
