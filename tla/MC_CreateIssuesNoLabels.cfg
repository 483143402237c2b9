CONSTANTS
  MaxIssues <- MCMaxIssues
  None = None

SPECIFICATION Spec

INVARIANT TypeOK
INVARIANT ExitZeroMeansAllCreated
INVARIANT SummaryAccounts

\* main() returns or the interpreter exits: pc = "done" has no successor.
CHECK_DEADLOCK FALSE
