\* Every component that serves a call, one at a time.
SPECIFICATION Spec
CONSTANTS
  Buffers = 4
  Packets = 2
  Starts = 2
  Interrupts = 2
  MaxReconnect = 5
  Configured = {TRUE, FALSE}
  Messages = 14
  Moh = {TRUE, FALSE}
  MaxFaults = 2
  MaxAddresses = 2
  Calls = {c1, c2}
  Translated = {TRUE, FALSE}
  PortKnown = {TRUE, FALSE}
  MaxUpdates = 2
  MaxResponses = 2
  MaxPending = 2
  MaxTurns = 2
  MaxRounds = 1
  Keep = 5
INVARIANTS TypeOK AudioFlows ConnectionSound SessionEnds VoiceRight TurnsSettled
PROPERTIES InterruptSilences
CHECK_DEADLOCK FALSE
