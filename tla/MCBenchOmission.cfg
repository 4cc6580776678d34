CONSTANTS
  OurImpls <- MCOurImpls
  BaselineImpls <- MCBaselineImpls
  StageOf <- MCStageOf
  Probed = {"sdpa_efficient"}
  Materialising = {"naive", "torch_unfused"}
  InputDtype = {"torch_unfused"}
  Matrix <- MCMatrix
  TotalMem = 32
  StageChoices <- MCStages
  BaselineChoices <- MCBaselines
  BrokenChoices <- MCBroken
  MaxFaults = 0
SPECIFICATION Spec
INVARIANT OomByDesignShown
