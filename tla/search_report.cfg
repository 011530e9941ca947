\* A search with every combination of options.
CONSTANTS
  Chain = {0, 1, 2}
  Pmt = {p1, p2, p3}
  NIL = NIL
SPECIFICATION FairSpec
INVARIANTS TypeOK ReportIsFinal ReportAccountsForAll
PROPERTIES ReportContract TimeOutEndsSearch InputEndEndsSearch FoundEndsSearch
CHECK_DEADLOCK FALSE
