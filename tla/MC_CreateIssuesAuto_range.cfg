CONSTANTS
  MaxIssues <- MCMaxIssues
  StartArgs <- MCStartArgs
  EndArgs <- MCEndArgs
  None = None

SPECIFICATION Spec

INVARIANT CreatesRequestedRange

CHECK_DEADLOCK FALSE
