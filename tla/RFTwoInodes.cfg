SPECIFICATION Spec
CONSTANTS
  t1 = t1
  t2 = t2
  i1 = i1
  i2 = i2
  h1 = h1
  h2 = h2
  Threads = {t1, t2}
  Inodes = {i1, i2}
  Handles = {h1, h2}
  Mounts <- SyncYaml
  MaxVersion = 2
  Parts = {"head"}
  MaxBuf = 1
  None = None
SYMMETRY Symmetry
INVARIANTS
  IInv
  OneFetchPerEpoch
  CachedSinceInvalidated
  ReadsNeverGoBack
