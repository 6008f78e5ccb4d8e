\* The server may really stop: every connection finished, the parent waiting.
SPECIFICATION FairSpec
CONSTANTS
  Conns = {c1, c2, c3, c4}
  LISTEN = LISTEN
  NoConn = NoConn
  BACKLOG = 1
INVARIANTS
  TypeOK
  NoLostZombie
  OwnSocketOnly
  ReleasedWithChild
  NoOrphanSocket
  ParentFds
PROPERTIES
  ImplementsService
  KeepsServing
  ZombiesReaped
  AllServed
  PortReleased
CHECK_DEADLOCK FALSE
