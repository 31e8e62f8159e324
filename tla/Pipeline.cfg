SPECIFICATION FairSpec
CONSTANTS
  top = top
  sub = sub
  b = b
  zip = zip
  m1 = m1
  m2 = m2
  Main = Main
  Item = {b, zip}
  ArchiveItem = {zip}
  Dir = {top, sub}
  Under <- MCUnder
  Unit = {b, m1, m2}
  Units <- MCUnits
  Passed = {}
  Recorded = {m2}
  NetTimeouts = FALSE
  Workers = {w1, w2}
INVARIANTS
  CountedOnce
  NothingDropped
PROPERTIES
  Terminates
