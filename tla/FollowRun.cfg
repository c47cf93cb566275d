CONSTANTS
  Runs = {r}
  run = r
  MaxEvents = 3
  FromSeqs = {0, 1, 5}
SPECIFICATION FollowFairSpec
INVARIANTS
  PrintedIsFeed
  SuccessIsWhole
PROPERTY FollowEnds
