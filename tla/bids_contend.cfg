CONSTANTS
  p = p
  q = q
  r = r
  Controllers = {p, q, r}
  Priority <- OneHigher
  Id <- Ids
  BidLimit = 2
  MaxClock = 2
  MaxDeaths = 1
SPECIFICATION BidsFairSpec
INVARIANT RecoveredOnce
PROPERTY BidsLeadToRelease
CHECK_DEADLOCK FALSE
