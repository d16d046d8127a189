\* Lookup: two calls, pthread_create may fail, signals act at any time.
\* Parameters: every member present or absent, strings that do not parse, codecs
\* that fail.
CONSTANTS
  Url = {u1, u2}
  NoIP = NoIP
  MaxCalls = 2
  CreateMayFail = TRUE
  Field = {"city"}
  Other = {"note"}
  Text <- Values
  Format = {1, 2, 3}
  Quality <- Qualities
  Seconds = {0, 3}
  Junk <- Leftovers
  ABSENT = ABSENT
  UNPARSABLE = UNPARSABLE
  NULL = NULL
  UNSET = UNSET
SPECIFICATION Setup
CHECK_DEADLOCK FALSE
INVARIANTS
  LookupInv
  PublishedWithAddress
  EmptyMeansPodFailed
  SessionWorks
  NothingLeaked
  EachMemberTold
PROPERTIES
  ParsingReturns
