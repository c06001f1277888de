\* Two servers, the watchdog and one administrator; what the table has at the start.
SPECIFICATION FairSpec
CONSTANTS
  Servers = {s1, s2}
  Conns = {k1, k2, k3, k4, k5, k6}
  NoConn = NoConn
  Watchdogs = {w1}
  Admins = {m1}
  MaxChanges = 1
  MaxFaults = 2
INVARIANTS InTurn
PROPERTIES ServersComeOnline
CHECK_DEADLOCK FALSE
