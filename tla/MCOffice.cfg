\* Invoices, documents, their parties, users, accounts and SIP, one component at a time.
SPECIFICATION Spec
CONSTANTS
  Customers = {"o1", "o2"}
  Requests = {"r1", "r2"}
  Calendar <- TwoYears
  ViaEdo = {TRUE}
  MinWidth = 5
  Earlier = 9
  MaxSeq = 1
  Outgoing = {"d1", "d2"}
  Resends = {"h1", "h2"}
  Retries = {"t1"}
  Payments = {"p1", "p2"}
  AutoSend = TRUE
  DocumentCasts = {{"d1", "h1", "h2"}, {"d1", "h1", "t1"}, {"d1", "h1", "p1"}, {"d1", "t1", "p1"}, {"d1", "d2", "p1", "p2"}}
  Deferred = TRUE
  Signing = {"none", "prepared", "deferred"}
  MaxAttempts = 3
  MaxManual = 1
  Parties = {"w1", "w2"}
  Issuers = {"i1"}
  Home = "i1"
  Sends = {"d1", "d2"}
  Syncs = {"y1"}
  Checks = {"k1"}
  EdoCasts = {{"y1", "k1"}, {"d1", "y1"}}
  MaxInvites = 2
  MaxEdits = 1
  Edits = {"q1", "q2", "q3"}
  MaxOrgs = 3
  Branches = {"b1", "b2"}
  Lookups = {"q1", "q2"}
  NoKpp = "none"
  MaxEvents = 2
  Logins = {"l1", "l2"}
  Signups = {"s1"}
  Activations = {"a1", "a2"}
  Socials = {"g1"}
  MaxCodes = 3
  Creates = {"c1"}
  SubCreates = {"s1"}
  Moves = {"m1", "m2"}
  Deletes = {"d1"}
  UserCasts = {{"c1", "m1"}, {"c1", "d1"}, {"s1", "m1"}, {"s1", "d1"}, {"m1", "m2", "d1"}}
  MaxUsers = 5
  Trunks = {"t1"}
  TrunkServers = {"p1"}
  Assistants = {"a1"}
  TrunkCreates = {"k1"}
  TrunkUpdates = {"u1"}
  Removes = {"x1"}
  TrunkCasts = {{"k1", "u1"}, {"k1", "x1"}, {"k1", "u1", "x1"}}
  MaxRetechs = 1
  Prefixed = FALSE
  NoOne = "none"
  Servers = {"p1", "p2"}
  UriCreates = {"k1", "k2"}
  UriUpdates = {"u1"}
  UriDeletes = {"x1"}
  UriCasts = {{"k1", "u1", "x1"}, {"k1", "k2"}}
  NoFile = NoFile
  MaxFaults = 1
INVARIANTS TypeOK Gapless DocumentsTrue RoutesTrue OwnersSound SipInStep
CHECK_DEADLOCK FALSE
