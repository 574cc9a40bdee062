SPECIFICATION Spec
CONSTANTS
  Nodes = {n1}
  Hosts = {host}
  None = None
INVARIANTS
  OmniNeverWritable
