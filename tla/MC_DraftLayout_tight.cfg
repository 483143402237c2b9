CONSTANTS
  MaxBlocks <- MCMaxBlocks
  DescLayouts <- MCDescLayoutsAll
  Drifts <- MCDrifts
SPECIFICATION Spec
CHECK_DEADLOCK FALSE
INVARIANT ParseFollowsLayout
