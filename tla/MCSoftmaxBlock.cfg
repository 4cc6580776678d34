CONSTANTS
  NegInf = NegInf
  PosInf = PosInf
  Zero = Zero
  NaN = NaN
  Unwritten = Unwritten
  N = 5
  Warps = 2
  WarpSize = 2
  Stages = {1, 2}
  RawScores <- MCRawScores
SPECIFICATION FairSpec
INVARIANTS
  ReductionsAgree
  RowExact
PROPERTIES
  BlockFinishes
