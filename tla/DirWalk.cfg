CONSTANTS
  r = r
  a = a
  b = b
  c = c
  book = book
  zip = zip
  other = other
  Main = Main
  Closer = Closer
  NoDir = NoDir
  Root = r
  Dirs <- MCDirs
  Children <- MCChildren
  Contents <- MCContents
  Under <- MCUnder
  File = {book, zip, other}
  Ebook = {book}
  Archive = {zip}
  Walkers = {w1, w2}
SPECIFICATION FairSpec
INVARIANTS
  TypeOK
  RemainingExact
  NoEarlyClose
  CompleteWalk
PROPERTIES
  Terminates
  ListedOnce
  ImplementsDiscovery
