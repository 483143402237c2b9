CONSTANTS
  MaxIssues <- MCMaxIssues
  StartArgs <- MCStartArgs
  EndArgs <- MCEndArgs
  None = None

SPECIFICATION Spec

INVARIANT TypeOK
INVARIANT ExitZeroMeansAllCreated
INVARIANT SummaryAccounts
INVARIANT DryRunNoSideEffects
INVARIANT RateLimitSpacing

PROPERTY ImplementsIssueBatch

\* main() returns: every maximal behaviour ends in pc = "done", which the
\* fairness of IssueBatch demands, so a stuck state still shows up as a
\* violation of ImplementsIssueBatch.
CHECK_DEADLOCK FALSE
