\* mib_impl.cc:69: if set to 0, detects nof_ports.
CONSTANTS
  track_after = 2
  N_id_2 = 0
  N_id_1 = {0, 1}
  StreamCap = 2
  NofPorts = {1}
  exit_on_success = FALSE
  Run = {r1, r2}
  NIL = NIL
SPECIFICATION Spec
INVARIANTS DetectsPorts
CHECK_DEADLOCK FALSE
