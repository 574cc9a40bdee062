SPECIFICATION FairSpec
CONSTANTS
  Nodes = {n1, n2}
  Hosts = {host}
  None = None
INVARIANTS
  IInv
  OmniContextNeverWritable
PROPERTIES
  LabelsSettled
  StartsOrFails
