SPECIFICATION Spec
CONSTANTS
  Mails = {1, 2, 3}
  Limit = 2
  MaxMoves = 0
INVARIANT AllMailsPaged
