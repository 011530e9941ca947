\* Three chains, one cellstore: the list against what is being tracked.
CONSTANTS
  Chain = {0, 1, 2}
  Pmt = {p1, p2, p3}
  NIL = NIL
SPECIFICATION FairSpec
INVARIANTS TypeOK CurrentIsStoredOnce LeftoversWereOvertaken NewestLast
  QuietListIsExact
PROPERTIES ListContract ListCatchesUp
