CONSTANTS
  MaxBlocks <- MCMaxBlocks
  DescLayouts <- MCDescLayouts
  Drifts <- MCDriftsStale
SPECIFICATION Spec
CHECK_DEADLOCK FALSE
INVARIANT ScriptsAgree
