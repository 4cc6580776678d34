CONSTANTS
  NegInf = NegInf
  PosInf = PosInf
  Zero = Zero
  NaN = NaN
  NotYet = NotYet
  Nq = 3
  Nkv = 3
  BlockM = {1, 2, 3}
  BlockN = {1, 2, 3, 4}
  ScoreChoices <- MCScoreChoices
  MaskChoices <- MCMaskChoices
SPECIFICATION Spec
INVARIANTS
  RunningExact
  RowsExact
  RatioVerdict
