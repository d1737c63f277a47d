SPECIFICATION ReviewSpec
CONSTANTS
  p1 = p1
  c1 = c1
  None = None
  Suggestion <- MCSuggestion
  Choice <- MCOneChoice
  Origin <- MCWaiting
  s1 = s1
  Sender = {s1}
  MaxJournals = 1
  Faults = {}
  t1 = t1
  Tab = {t1}
  w1 = w1
  Worker = {w1}
  Ops = {}
PROPERTY ResuggestLeavesDecidedAlone
