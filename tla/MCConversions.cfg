\* A request and a fetch come to an end.
SPECIFICATION MCSpec
CONSTANTS
  Parts <- MCParts
  Histories <- MCHistories
  MaxRounds = 3
  MaxItems = 2
  MaxTokens = 5
  MaxChars = 3
  MaxRedirects = 2
INVARIANTS ProvidersAgree CallsComeBack OutputsFollowCalls WordsVisible
CHECK_DEADLOCK FALSE
