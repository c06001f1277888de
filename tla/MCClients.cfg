\* Payments, the tools and the browser sessions, one component at a time.
SPECIFICATION FairSpec
CONSTANTS
  ViaStripe = {"stripe"}
  ViaRobokassa = {"robokassa"}
  ViaAlfa = {"alfa"}
  Handlers = {"h1", "h2"}
  MaxFaults = 1
  AbortsOnError = FALSE
  Connects = {"k1", "k2"}
  Disconnects = {"d1"}
  Deletes = {"x1"}
  SocketCasts <- SomeSockets
  MaxAttempts = 2
  MaxSockets = 3
  Names = {"n1", "n2"}
  Syncs = {"s1", "s2"}
  Toggles = {"t1"}
  ToolCasts <- SomeTools
  MaxCalls = 1
  MaxRows = 4
  MaxPolicies = 1
  ToolCalls = {"c1", "c2"}
  Consents = {"g1", "g2"}
  Keyed = {"b1"}
  Direct = {"w1"}
  Removals = {"e1", "e2"}
  Uses = {"u1"}
  UseCasts <- SomeUses
  MaxServers = 3
  MaxEdits = 1
  Offers = {"o1", "o2"}
  Hangups = {"h1", "h2"}
  KeyLimit = 1
  MaxCrashes = 1
  Visits = {"s1", "s2"}
  Leaves = {"x1", "x2"}
  Inits = {"i1", "i2"}
  Stops = {"s1", "s2"}
  Unset = Unset
INVARIANTS TypeOK PaymentsRight McpSound SessionsReleased
PROPERTIES PaidIsCredited
CHECK_DEADLOCK FALSE
