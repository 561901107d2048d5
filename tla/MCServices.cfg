SPECIFICATION FairSpec
CONSTANTS
  Kinds <- MCKinds
  Slots = {r1}
INVARIANT ServesOnSchema NotMissedByItself

PROPERTY EverythingEnds
