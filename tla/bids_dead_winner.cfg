\* Three bids of one priority; the first bidder dies before it has recovered the run.
CONSTANTS
  p = p
  q = q
  r = r
  Controllers = {p, q, r}
  Priority <- Same
  Id <- Ids
  BidLimit = 2
  MaxClock = 1
  MaxDeaths = 1
SPECIFICATION BidsSpec
PROPERTY RefusedForTheLiving
CHECK_DEADLOCK FALSE
