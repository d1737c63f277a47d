\* Two refunds and their purchase sent by two tasks in any order.
SPECIFICATION Spec
CONSTANTS
    r1 = r1
    r2 = r2
    p1 = p1
    j1 = j1
    Row = {r1, r2, p1}
    Outside = {j1}
    Task = {t1, t2}
    Picks <- MCPicks
    HandMade <- MCHandMade
    MaxChanges = 1
    MaxFailures = 1
SYMMETRY Tasks
INVARIANTS
    LinkIsTrue
    PairsAreLinked
