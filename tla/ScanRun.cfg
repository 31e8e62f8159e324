SPECIFICATION Spec
CONSTANTS
  Root = {A, B}
  Item = {i, j}
  MaxRuns = 3
SYMMETRY Symmetric
INVARIANTS
  HistoryCoversContent
  CompletedIsDescribed
PROPERTIES
  NeverWipedSilently
