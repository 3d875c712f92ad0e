CONSTANTS
  Browsers = {b1, b2}
  NoBrowser = NoBrowser
  MaxOnline = 2
  MaxCasts = 2
SPECIFICATION FeedFairSpec
INVARIANTS FeedType HeardAll
PROPERTIES GoneIsForgotten
