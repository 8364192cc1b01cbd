SPECIFICATION MCSpec
CONSTANTS
  None = None
  GeneratedName = "ulid"
  MaxInt32 = 3
  Regexes <- MCRegexes
  UpperCase <- MCUpperCase
  CanonicalHeaderKey <- MCCanonicalHeaderKey
  Documents <- MCDocuments
  Files <- MCFiles
  Requests <- MCRequests
  MaxWrites = 2
  MaxFiles = 2
  Names <- MCNames
  ContainsFold <- MCContainsFold
  Bodies <- MCBodies
  Queries <- MCQueries
  PageSizes <- MCPageSizes
  DefaultListPageSize = 1
  MaxPageSize = 2
  MaxEdits = 2
  Absent = Absent
INVARIANTS ServedAsWritten AgentAcceptsStored RedactionRoundTrip ChannelsAgree
  CompleteFileApplies PagingExact
CHECK_DEADLOCK FALSE
