CONSTANTS
  th1 = th1
  th2 = th2
  half = half
  bfloat = bfloat
  small = small
  Bits = 2
  HostThread <- MCThreads
  Instantiation <- MCKernels
  Device <- MCDevices
  OptIn <- MCOptIn
  Bf16 <- MCBf16
  Supported <- MCSupported
  OverCap <- MCOverCap
  OldBinary <- MCOldBinary
SPECIFICATION HostSpec
INVARIANTS
  TypeOK
  LaunchPrepared
  NoStubLaunch
PROPERTIES
  SuccessMeansQueued
SYMMETRY MCSymmetry
