SPECIFICATION Spec
CONSTANTS
    a = a
    b = b
    c = c
    w1 = w1
    w2 = w2
    Msgs = {a, b, c}
    Matching = {b}
    Spam = {c}
    Budgets <- MCBudgets
    Wins = {w1, w2}
    FirstDrafts <- MCFirstDrafts
    MaxTexts = 4
    MaxOpens = 2
    MaxOthers = 1
INVARIANTS
    MessageInHand
    UnsentIsKept
PROPERTIES
    ListStepsAreTrue
    DraftsAreOwn
CHECK_DEADLOCK FALSE
