CONSTANTS
  MaxIssues <- MCMaxIssues
  StartArgs <- MCStartArgs
  EndArgs <- MCEndArgs
  None = None
  GhPostsThenFails = TRUE
  MaxReruns = 2

SPECIFICATION RSpec

INVARIANT NoDuplicateIssues

\* The last process may end without a rerun: the operator may stop.
CHECK_DEADLOCK FALSE
