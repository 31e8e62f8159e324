SPECIFICATION Spec
CONSTANTS
  zip1 = zip1  e = e  gz = gz  x = x  sz = sz  p = p  zip2 = zip2  y = y
  tgz = tgz  o = o  s = s  t = t  bz = bz  w = w  v = v
  pgz = pgz  q = q  ogz = ogz  r = r
  Node <- Nodes
  Tops = {zip1, tgz}
  Format <- Formats
  Members <- MembersOf
  Name <- Names
  Stem <- Stems
  Small = {s}
  MaxDepth = 2
  MaxRuns = 3
INVARIANTS
  WithinDepth
  Accounted
PROPERTIES
  SettledForGood
  ResumesAtTheGap
