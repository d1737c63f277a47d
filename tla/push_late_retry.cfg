SPECIFICATION PushSpec
CONSTANTS
  p1 = p1
  c1 = c1
  None = None
  Suggestion <- MCSuggestion
  Choice <- MCOneChoice
  Origin <- MCOrigin
  s1 = s1
  Sender = {s1}
  MaxJournals = 2
  Faults = {"late"}
INVARIANT NoDoubles
