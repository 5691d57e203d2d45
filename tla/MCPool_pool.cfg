SPECIFICATION Spec
CONSTANTS
  Conns = {1, 2, 3}
  Openers = {o1, o2}
  NoConn = NoConn
  NoOne = NoOne
  target_pool_size = 1
  initial_connection_count = 1
  MaxStreams = 1
  MaxTrouble = 2
SYMMETRY Interchangeable
INVARIANTS LiveBounded SessionsOwned
PROPERTIES StateAdvances
CHECK_DEADLOCK FALSE
