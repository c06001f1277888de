\* Chats, assistants, support, analyses and alerts, one at a time.
SPECIFICATION Spec
INVARIANTS TypeOK AsAsked AnalysisKept NoticesRight
CHECK_DEADLOCK FALSE
