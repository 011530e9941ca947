\* A chain that keeps watching: the streams, the resets, the two ports.
CONSTANTS
  track_after = 2
  N_id_2 = 0
  N_id_1 = {0}
  StreamCap = 2
  NofPorts = {1}
  exit_on_success = FALSE
  Run = {r1, r2, r3}
  NIL = NIL
SPECIFICATION FairSpec
INVARIANTS TypeOK PrefixOfOneRun CellOfThisRun BufferSettles
PROPERTIES PortContract DroppedAfterLoss
CHECK_DEADLOCK FALSE
