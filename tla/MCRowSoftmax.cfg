SPECIFICATION Spec
CONSTANTS
  NegInf = NegInf
  PosInf = PosInf
  Zero = Zero
  NaN = NaN
  NotYet = NotYet
  N = 5
  Br = 2
  TileSizes <- MCTileSizes
  RawScores <- MCRawScores
INVARIANTS RunningMax SumsExact SumAtLeastOne RowExact
CHECK_DEADLOCK FALSE
