CONSTANTS
    Words = {a, b}
    Threads = {t1, t2}
    Readers = {r1}
    MaxPending = 1
    MaxIds = 2
    Budgets <- SmallBudgets
SPECIFICATION Spec
SYMMETRY Symmetry
INVARIANTS CacheIsFile NeverBothWays LessonsAreKept
CHECK_DEADLOCK FALSE
