SPECIFICATION Spec
CONSTANTS
    Starts <- MCStarts
    WalkDays = 800
    Uids = {1, 2}
    Todos = {3, 4}
    Reqs = {1, 2, 3}
    FirstDay <- Today
    Targets <- MCTargets
    Placements <- MCPlacements
    PendingMax = 2
    Budgets <- MCBudgets
INVARIANTS
    PanesAndDialogsAreTrue
    AskedAndRemindedOnce
    DatesAreRight
CHECK_DEADLOCK FALSE
