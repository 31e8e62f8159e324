SPECIFICATION Spec
CONSTANTS
  u1 = u1  u2 = u2  u3 = u3
  a = a  A = A  b = b  u = u
  s = s  S = S  t = t
  w1 = w1  w2 = w2
  Unit <- Units
  PathOf <- Distinct
  Hash <- Hashes
  Skippable <- SkipSome
  Author <- Names
  AuthorsOf <- Authors
  CreditsOf <- Credits
  VoteKey <- Ballot
  Preferred <- Preference
  RecoveredOf <- FromPath
  Subject <- Topics
  SubjectsOf <- Topic
  KeyOf <- Keys
  Bands <- BandsOf
  Similarity <- Similar
  InitDisk <- Copies
  Workers = {w1, w2}
  NetTimeouts = FALSE
  MaxRuns = 2
  MaxChanges = 1
SYMMETRY Symmetric
INVARIANTS
  RecordedOnce
  GroupsAreSimilar
  NothingLost
  CanonicalIsSmallest
PROPERTIES
  Idempotent
