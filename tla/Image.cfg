SPECIFICATION MCSpec
CONSTANTS
  k1 = k1
  k2 = k2
  Names <- MCNames
  SafeName <- MCSafeName
  NameSize <- MCNameSize
  Trailer <- MCTrailer
  Unsafe <- MCUnsafe
  HeaderSize = 110
  Modes = {"0755"}
  Texts <- MCTexts
  Configs <- MCConfigs
  Keys = {k1, k2}
  Comment = Comment
  Bad = Bad
  Absent = Absent
  Torn = Torn
  MaxPayload = 6144
  RunLimit = 2
  Kernels <- MCKernels
  UImageSizes = {0, 1, 3}
  KernelPhys = 1
  InitrdLoad = 10
  Scratch = 1
  Nothing = Nothing
INVARIANTS
  RoundTrip
  LoginNeedsKeys
  UnpacksPrivately
  VerdictIsMemoryMap
CHECK_DEADLOCK FALSE
