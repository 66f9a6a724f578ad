\* Two orders, one of them without its keys, that change up to twice, and four moments:
\* an order older than the lookback, and changes between and in the middle of runs.
SPECIFICATION OrdersSpec
CONSTANTS
    Orders = {o1, o2}
    Keyless = {o2}
    MaxChanges = 2
    MaxTime = 3
    Lookback = 1
CHECK_DEADLOCK FALSE
INVARIANTS
    NothingElseLost
PROPERTIES
    ChangesArrive
