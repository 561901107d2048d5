SPECIFICATION Spec
CONSTANTS
  Mails = {1, 2}
  Limit = 1
  MaxMoves = 3
INVARIANT NothingMissed NothingTwice FirstPageIsNewest
