\* Sessions: one visitor over six ticks with a window of three, so that windows overlap, meet
\* and miss each other.  Inventory: two SKUs over three days, repeated runs and a local clock
\* ahead of UTC.  Users: two users with two versions over two days; runs start while the
\* dimension has fewer than three rows, enough for two changes of a user and a retry.
SPECIFICATION WarehouseSpec
CONSTANTS
    Visitors = {u1}
    Timeout = 1
    Window = 3
    MaxDelay = 1
    MaxClock = 6
    Skus = {k1, k2}
    MaxStock = 2
    Low = 1
    Zone = 1
    LastDay = 3
    MaxSnapshots = 3
    Users = {u1, u2}
    MaxVersion = 2
    MaxDay = 2
    MaxRows = 3
CHECK_DEADLOCK FALSE
INVARIANTS
    EventsCovered
    SessionsAgree
    DeltasAddUp
    OneRowPerSku
    AlertsMatchRows
    OneCurrentRow
    DimensionCaughtUp
PROPERTIES
    HistoryKept
