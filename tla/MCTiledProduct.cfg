CONSTANTS
  NegInf = NegInf
  PosInf = PosInf
  Zero = Zero
  NaN = NaN
  Undef = Undef
  Unwritten = Unwritten
  N = 6
  D = 4
  Edge = 4
  Depth = 2
  Vec = 2
  Kernels = {"qk", "pv"}
SPECIFICATION FairProduct
INVARIANTS
  ProductExact
PROPERTIES
  TileFinishes
