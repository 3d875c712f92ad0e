CONSTANTS
  Browsers = {b1, b2}
  NoBrowser = NoBrowser
  MaxOnline = 2
  MaxCasts = 2
SPECIFICATION FeedSpec
INVARIANTS WritesExclude
