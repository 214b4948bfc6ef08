CONSTANTS
  f1 = f1
  f2 = f2
  NoFlow = NoFlow
  Cpus = {c1, c2}
  Flows = {f1, f2}
  Frames <- TwoFlows
  MaxEntries = 2
  MaxFrames = 1
  MaxCount = 2
SPECIFICATION PipelineSpec
SYMMETRY CpuSymmetry
INVARIANTS
  RowsWithinArrivals
PROPERTIES
  RefinesCollector
  RefinesMeter
