SPECIFICATION Spec
CONSTANTS
  Store = {"membership", "records"}
  EVENTS_CAP = 1
  STORE_CAPACITY = 2
  BOUND = 1
  Client = {c1}
  Peer = {p1, p2, p3}
  PEERS_PER_DOC_CACHE_SIZE = 2
  Cases <- StoreCases
CHECK_DEADLOCK FALSE
INVARIANTS FlushedIsDurable JudgedAsServed AuthorNamed RecentPeers LossTold
PROPERTIES ActorGoesOn
