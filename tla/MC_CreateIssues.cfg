CONSTANTS
  MaxIssues <- MCMaxIssues
  StartArgs <- MCStartArgs
  EndArgs <- MCEndArgs
  None = None

SPECIFICATION Spec

INVARIANT TypeOK
INVARIANT ExitZeroMeansAllCreated
INVARIANT SummaryAccounts
INVARIANT DryRunNoSideEffects
INVARIANT RateLimitSpacing
PROPERTY ImplementsIssueBatch

\* main() returns: pc = "done" has no successor.
CHECK_DEADLOCK FALSE
