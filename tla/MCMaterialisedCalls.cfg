CONSTANTS
  NegInf = NegInf
  PosInf = PosInf
  Zero = Zero
  NaN = NaN
  Undef = Undef
  Unwritten = Unwritten
  st1 = st1
  st2 = st2
  ws1 = ws1
  ws2 = ws2
  N = 2
  Heads = 2
  Dim = 2
  BlockThreads = 3
  Calls = 2
  Stream <- MCStream
  Workspace <- MCWorkspace
  CausalChoices <- MCCausalChoices
  StreamChoices <- MCStreamChoices
  ScoreChoices <- MCScoreChoices
SPECIFICATION Spec
INVARIANTS
  ErrorWritesNothing
  SuccessCompletes
PROPERTIES
  ImplementsAttention
SYMMETRY MCSymmetry
