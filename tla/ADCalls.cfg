SPECIFICATION FairSpec
CONSTANTS
  n1 = n1
  n2 = n2
  Callers = {t1}
  Nodes = {n1, n2}
  NoNode = NoNode
  FlagNodes <- MCFlagNodes
  ContextNodes <- MCContextNodes
  Codes = {"NotFound", "Unimplemented", "PermissionDenied", "Unauthenticated", "Unavailable"}
  MaxVersion = 3
INVARIANTS
  IInv
  NoClientLeaks
  AskedOfItsNode
  ErrnoTellsCause
PROPERTIES
  CallReturns
  ImplementsRepository
