SPECIFICATION Spec
CONSTANTS
    IDS = 16
    PPP_MAX_CONFIGURE = 4
    PPP_MAX_TERMINATE = 1
    PPP_MAX_FAILURE = 2
    TX_FRAMES = 4
    First <- MCFirst
    Budgets <- MCBudgets
INVARIANTS Orderly Agreement
PROPERTIES LinkComesUp
CHECK_DEADLOCK FALSE
