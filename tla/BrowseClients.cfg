SPECIFICATION FairSpec
CONSTANTS
  a = a s = s
  Clients = {a, s}
  Commands = {a}
  Searcher = s
  NoClient = NoClient
  NoItem = NoItem
  Parents <- MCParents
  Listing <- MCListing
  ItemOf <- MCItems
  Matching <- MCMatching
  Searches <- MCSearches
  Sizes = {1, 2}
  Caps = {1, 3}
  SearchPageSize = 2
  ChannelSize = 1
  MaxBound = 1
  MaxCached = 2
  MaxNodes = 8
  MaxFetches = 4
INVARIANTS
  PrintedIsPrefix
  RefreshIsFresh
  CompleteSearchIsWhole
PROPERTIES
  CommandsEnd
  AbandonedSearchEnds
CHECK_DEADLOCK FALSE
\* Fails, in place of the others:
\* PROPERTY TokensAreFollowed
