\* Two processes in one repository, one in another, room for one source; three
\* updates of the first repository, one of the other;
\* one process of the first may die.
CONSTANTS
  p = p
  q = q
  r = r
  main = main
  other = other
  Procs = {p, q, r}
  Projects = {main, other}
  ProjectOf <- Repositories
  None = None
  SourceLimit = 1
  MaxUpdates <- Updates
  Mortals = {p}
SPECIFICATION FairSpec
INVARIANT TasksArchived
INVARIANT SourcesHaveFiles
PROPERTY FeedCatchesUp
CHECK_DEADLOCK FALSE
