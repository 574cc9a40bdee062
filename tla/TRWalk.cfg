SPECIFICATION SaveSpec
CONSTANTS
  n1 = n1
  n2 = n2
  host = host
  Nodes = {n1, n2}
  Hosts = {host}
  NodeLists <- MCNodeLists
  Catalogs <- MCCatalogs
  Words = {"links", "routes"}
  Namespaces = {"network", "config"}
  Ids <- MCIds
  None = None
  Integers64 = {3, 5, 7}
  Mantissa = 2
INVARIANTS
  IInv
  PathNamesInode
  ListedIsFound
  SavedWherePathSays
  UneditedIsFaithful
  SaveDropsItsList
