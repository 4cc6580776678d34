CONSTANTS
  NegInf = NegInf
  PosInf = PosInf
  Zero = Zero
  NaN = NaN
  Pad = Pad
  Undef = Undef
  Unwritten = Unwritten
  N = 5
  Threads = 4
  StripChoices = {1, 2}
  Dim = 4
  RowPad = 1
  TileSizes = {2, 4}
  Prefetch = {TRUE, FALSE}
  Holder <- MCHolder
  ScoreChoices <- MCScoreChoices
SPECIFICATION FairSpec
INVARIANTS
  OperandsFresh
  StateExact
  CollectivesUniform
PROPERTIES
  ImplementsAttention
  BlockCompletes
