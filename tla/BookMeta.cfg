SPECIFICATION BookSpec
CONSTANTS
  Lex <- MCLex
  Lists <- MCLists
  PlaceholderTitles <- MCPlaceholders
  PlaceholderAuthors <- MCPlaceholders
  TitleArticle <- MCTitleArticle
  TagOf <- MCTagOf
  NoTag <- MCNoTag
  ISBN13 <- MCISBN13
  DateOf <- MCDateOf
  Content = {"clean", "noisy", "stamp", "nobody", "echo", "credit", "shout", "twice"}
  Meta <- MCMeta
  PathOf <- MCPathOf
  MaxFiles = 3
INVARIANTS
  VotesRight
  MetadataFirst
  WashedRight
  ScheduleFree
  MergedRight
CHECK_DEADLOCK FALSE
