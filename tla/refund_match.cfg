SPECIFICATION Spec
CONSTANTS
    r1 = r1
    r2 = r2
    r3 = r3
    p1 = p1
    j1 = j1
    Refund = {r1, r3}
    Purchase = {p1, j1}
    Outside = {j1}
    CreditBack = {r3}
    About <- MCAbout
    Cron = cron
    Worker = {w1}
    MaxChanges = 1
PROPERTIES OverclaimedOnlyByRace MatchNeverReplaces LatePurchaseIsFound
CHECK_DEADLOCK FALSE
