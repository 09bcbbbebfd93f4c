SPECIFICATION Spec
CONSTANTS
    w1 = w1
    w2 = w2
    coin = coin
    pass = pass
    NoWorker = NoWorker
    NoItem = NoItem
    NoOrder = NoOrder
    Workers = {w1, w2}
    Orders = {"o1", "o2"}
    Adds = {"a1"}
    ItemTypes = {coin, pass}
    TimeItems = {pass}
    Given <- MCGiven
    Taken <- MCTaken
    Catalogues <- MCCatalogues
    RowIds = {1, 2, 3, 4, 5}
    MaxTime = 3
SYMMETRY WorkerSymmetry
INVARIANTS
    LedgerBalances
    UsedWithinCount
    OneRowPerExpiry
    OneLiveTimeRow
PROPERTIES
    TimeIsAdded
    RevokeTakes
    ImplementsLedger
