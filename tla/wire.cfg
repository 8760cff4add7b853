\* Word stands for 2^32 and MaxTransfer for 2^31 - 4096; the file is longer
\* than Word, and the sizes lie on both sides of Half, Word and Word + Half.
SPECIFICATION FairSpec
CONSTANTS
  Word = 16
  FileSize = 20
  Count = {1, 4, 7, 8, 16, 19, 24}
  MaxTransfer = 6
INVARIANTS
  TypeOK
  SizesSurvive
  PositionsAgree
PROPERTY
  WholeFileRead
CHECK_DEADLOCK FALSE
