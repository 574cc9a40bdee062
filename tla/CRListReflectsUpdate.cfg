SPECIFICATION Spec
CONSTANTS
  Threads = {t1, t2}
  Nodes = {}
  Lists = {list}
  TTLs = {2}
  MaxVersion = 3
  MaxFlight = 1
  None = None
INVARIANTS
  ListReflectsUpdate
