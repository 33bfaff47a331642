CONSTANTS
  p = p
  q = q
  r = r
  Controllers = {p, q, r}
  Priority <- Same
  Id <- Ids
  BidLimit = 3
  MaxClock = 1
  MaxDeaths = 0
SPECIFICATION BidsSpec
INVARIANT OneWinner
CHECK_DEADLOCK FALSE
