CONSTANTS
  f1 = f1
  f2 = f2
  f3 = f3
  Cpus = {c1, c2}
  Flows = {f1, f2, f3}
  Frames <- MixedFrames
  MaxEntries = 2
  MaxFrames = 2
SPECIFICATION ProgramSpec
INVARIANTS
  ProgramTypeOK
  CountedExactly
  HeadersAreLinear
  Conservation
  FullIsFull
CHECK_DEADLOCK FALSE
