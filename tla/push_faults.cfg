SPECIFICATION PushFairSpec
CONSTANTS
  p1 = p1
  c1 = c1
  None = None
  Suggestion <- MCSuggestion
  Choice <- MCOneChoice
  Origin <- MCOrigin
  s1 = s1
  s2 = s2
  Sender = {s1, s2}
  MaxJournals = 2
  Faults = {"refuse", "lost", "late", "db", "crash"}
INVARIANTS
  PushedIsBooked
PROPERTIES
  JournalIsKept
  SendEnds
