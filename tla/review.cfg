SPECIFICATION ReviewFairSpec
CONSTANTS
  p1 = p1
  c1 = c1
  None = None
  Suggestion <- MCSuggestion
  Choice <- MCOneChoice
  Origin <- MCOrigin
  s1 = s1
  Sender = {s1}
  MaxJournals = 2
  Faults = {"refuse", "lost", "db", "crash"}
  t1 = t1
  Tab = {t1}
  w1 = w1
  Worker = {w1}
  Ops = {"edit", "later", "hold", "unhold", "skip", "restore", "save", "skip_listed"}
INVARIANTS
  NoDoubles
  ManualIsThePersons
PROPERTIES
  ImplementsBooking
  PendingIsClassified
