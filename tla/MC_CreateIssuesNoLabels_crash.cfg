CONSTANTS
  MaxIssues <- MCMaxIssues
  None = None

SPECIFICATION Spec

INVARIANT EveryIssueAttempted

CHECK_DEADLOCK FALSE
