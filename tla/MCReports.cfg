CONSTANTS
  StageFiles <- MCStageFiles
  Tuning = 99
  Gpt = 98
  OUR_IMPLS <- MCOur
  BASELINE_IMPLS <- MCBaseline
  Naive = "naive"
  Sdpa = "sdpa"
  Header = Header
  Junk = "impl"
  NoNumber = NoNumber
  Refused = Refused
  OomByDesign = OomByDesign
  CorrectnessFailed = CorrectnessFailed
  OomRuntime = OomRuntime
  Dash = Dash
  NoBaseline = NoBaseline
  Withheld = Withheld
  NoText = NoText
  NoBlock = NoBlock
  Session = {s1, s2, s3}
  KeysOf <- MCKeysOf
  MsOf <- MCMsOf
  Failing <- MCFailing
  OldRows <- MCOldRows
  Kernel = {"k1", "k2"}
  Metric = {"ld", "st"}
  Launches <- MCLaunches
  Bounds <- MCBounds
SPECIFICATION RSpec
SYMMETRY Symmetry
INVARIANTS
  TableNewest
  ComparisonFair
  SummaryCurrent
  CommitTrue
  ReasonShown
  NoneMisscaled
