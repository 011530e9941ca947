\* README.rst:89: max time in seconds to perform search.
CONSTANTS
  Chain = {0, 1, 2}
  Pmt = {p1, p2, p3}
  NIL = NIL
SPECIFICATION FairSpec
PROPERTIES TimeOutIsMax
CHECK_DEADLOCK FALSE
