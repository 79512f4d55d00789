SPECIFICATION WinSpec
CONSTANTS
    i1 = i1
    i2 = i2
    AcctList <- MCAccts
    ConvList <- MCConvs
    AcctOf <- MCAcctOf
    Classic = {2}
    Page = 2
    Invites = {i1, i2}
    ToConv <- MCToConv
    Budgets <- MCBudgets
INVARIANTS
    LogIsRun
    TextStays
    PanesAndDialogsAgree
    NothingWaitsUnseen
CHECK_DEADLOCK FALSE
