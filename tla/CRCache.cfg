SPECIFICATION FairSpec
CONSTANTS
  Threads = {t1, t2}
  Nodes = {node}
  Lists = {list}
  TTLs = {0, 2}
  MaxVersion = 2
  MaxFlight = 1
  None = None
INVARIANTS
  IInv
  StalenessBounded
  StaleOnlyIfOvertaken
PROPERTIES
  OutdatedIsDropped
  ImplementsStaleStore
