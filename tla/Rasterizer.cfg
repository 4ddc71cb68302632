SPECIFICATION FairSpec
CONSTANTS
  Docs <- AllDocs
  Dpi = 6
  MinDpi = 2
  BudgetPx = 4
  CpuBudgets = {1, 2, 3}
  UsablePx = 13
  DefaultPeak = 6
  Ceiling = 8
  MaxStrays = 1
  Earlier <- SecondPage
INVARIANTS
  ResultIsDocument
  RendersFitMemory
  QuietWhenOver
PROPERTY RasterizeEnds
CHECK_DEADLOCK FALSE
