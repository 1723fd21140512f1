SPECIFICATION FairSpec
CONSTANTS
  Actions = {a1}
  Fetches = {f1, f2}
  MaxStore = 2
  MaxSends = 2
  MaxLosses = 1
INVARIANT ShownIsTrue
PROPERTY PollShowsActions
CHECK_DEADLOCK FALSE
