CONSTANTS
  Word = 4
  PageSize = 2
  Count = 2
  Permitted = {0}
  Words <- MCWords
  Memories <- MCMemories
  Addresses = {1, 5}
  Lengths = {0, 1, 2}
  EnableDmi = TRUE
  MaxGrants = 1
SPECIFICATION Spec
INVARIANT DmiAgrees
