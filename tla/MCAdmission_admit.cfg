SPECIFICATION Spec
CONSTANTS
  k1 = k1
  k2 = k2
  e1 = e1
  e2 = e2
  e3 = e3
  a1 = a1
  a2 = a2
  Keys = {k1, k2}
  Ephemerals = {e1, e2, e3}
  Addresses = {a1, a2}
  Conns <- C
  key <- Key
  seq <- Seq1
  eph <- Eph
  ip <- Ip
  hello <- Hello
  W = 2
  MaxHandshakes = 2
  MaxSessions = 2
  MaxFallbacks = 2
  MaxFallbacksPerIp = 1
  CounterEntries = 1
  ReplayEntries = 2
INVARIANTS LimitsKept WindowExact
PROPERTIES NeverTwice FreshServed
CHECK_DEADLOCK FALSE
