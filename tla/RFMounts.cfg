SPECIFICATION FairSpec
CONSTANTS
  t1 = t1
  t2 = t2
  i1 = i1
  i2 = i2
  h1 = h1
  h2 = h2
  Threads = {t1, t2}
  Inodes = {i1}
  Handles = {h1}
  Mounts <- MountOptions
  MaxVersion = 2
  Parts = {"head", "rest"}
  MaxBuf = 2
  None = None
INVARIANTS
  TypeOK
  ReadOnlyMountIsInert
PROPERTIES
  Answered
  ImplementsRegister
