\* Two visitors of a key for one, one run of a hangup, a restart; every request goes on.
SPECIFICATION FairSpec
CONSTANTS
  Offers = {o1, o2}
  Hangups = {h1}
  Limit = 1
  MaxCrashes = 1
PROPERTIES SlotsComeBack
CHECK_DEADLOCK FALSE
