CONSTANTS
  NegInf = NegInf
  PosInf = PosInf
  Zero = Zero
  NaN = NaN
  Pad = Pad
  Undef = Undef
  NotYet = NotYet
  Unwritten = Unwritten
  N = 4
  Br = 3
  Dim = 3
  TileSizes = {1, 2, 3, 5}
  ScoreChoices <- MCScoreChoices
SPECIFICATION FairSpec
INVARIANTS
  TypeOK
  WholeTiles
  BarrierUniform
PROPERTIES
  RowsAreRowSoftmax
  ImplementsAttention
  BlockCompletes
