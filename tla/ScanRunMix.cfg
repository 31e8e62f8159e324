SPECIFICATION Spec
CONSTANTS
  Root = {A, B}
  Item = {i, j}
  MaxRuns = 3
SYMMETRY Symmetric
PROPERTIES
  NeverMixedSilently
