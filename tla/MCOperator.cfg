\* A batch of two recordings of the same sound, one of them analysed again.
SPECIFICATION FairSpec
CONSTANTS
  Urls = {}  Files = {r1, r2}
  Regenerations = {g1}  Target = r1  Alike = {r1, r2}
  Dedup = TRUE  ReplaceCost = FALSE
  Opening = 2 MaxClock = 1 MaxFaults = 1
INVARIANTS BooksSound BatchTallies
PROPERTIES NoneStuck
CHECK_DEADLOCK FALSE
