SPECIFICATION Spec
CONSTANTS
  a = a
  b = b
  Walkers = {a, b}
  Workers = {w}
  Ticker = Ticker
  Main = Main
  Listing <- MCListing
  ArchiveSize = 1
  MaxTicks = 1
INVARIANTS
  NeverOverstates
  EndsExact
  StaysCanceled
PROPERTIES
  NeverBack
