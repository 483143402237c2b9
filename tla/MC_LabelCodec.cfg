CONSTANTS
  Alphabet <- MCAlphabet
  MaxTokens = 2
  MaxTokenLen = 2
SPECIFICATION Spec
CHECK_DEADLOCK FALSE
INVARIANT LabelsRoundTrip
