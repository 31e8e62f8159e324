SPECIFICATION Spec
CONSTANTS
  Beginnings <- MCBeginnings
  MaxTokens = 4
  Samples = {"utf8BOM", "utf16LEBOM", "utf16BEBOM", "valid", "cut", "legacy", "unread"}
  Results <- MCResults
  UnknownLabels = {"x-odd"}
  CandidateLimit = 3
  MaxResults = 4
  Size = 2
  Texts <- MCTexts
  HeadLimit = 2
  MinText = 2
  PipeSize = 1
INVARIANTS
  DecodedRight
  EncodingRight
  PdfVerdictRight
  NothingLeftBehind
PROPERTIES
  PdfReturns
CHECK_DEADLOCK FALSE
