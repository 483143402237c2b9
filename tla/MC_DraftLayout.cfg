CONSTANTS
  MaxBlocks <- MCMaxBlocks
  DescLayouts <- MCDescLayouts
  Drifts <- MCDrifts
SPECIFICATION Spec
CHECK_DEADLOCK FALSE
INVARIANT ParseFollowsLayout
INVARIANT ScriptsAgree
