SPECIFICATION FairSpec
CONSTANTS
  c1 = c1
  c2 = c2
  Chain = {c1, c2}
  p1 = p1
  Caller = {p1}
  adm = adm
  Admin = {adm}
  w = w
  Warmer = {w}
  MaxGen = 2
  Turns <- MCTurns
  Faults = {"timeout","transient","persist","crash","rotate"}
  NoToken = NoToken
  Free = Free
INVARIANTS
  MutualExclusion
  CallUsesStoredToken
  ChainKept
  TombstoneTruthful
PROPERTIES
  BuriedOnlyIfBroken
  LiftedOnlyByInit
  NoRollback
  ServesOnlyPersisted
  Answered
  KeptWarm
