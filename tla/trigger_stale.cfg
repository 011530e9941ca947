\* cellstore.h:36: stores any cell currently being tracked.
CONSTANTS
  Chain = {0, 1, 2}
  Pmt = {p1, p2, p3}
  NIL = NIL
SPECIFICATION Spec
INVARIANTS StoresOnlyTracked
