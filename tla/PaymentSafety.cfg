SPECIFICATION Spec
CONSTANTS
    NoUser = NoUser
    NoProduct = NoProduct
    NoToken = NoToken
    NoReward = NoReward
    NoWorker = NoWorker
    Uid0 = Uid0
    ScanKey = ScanKey
    Users = {u1}
    Products = {p1}
    Orders = {1}
    Tokens = {t1}
    Rewards = {r1,r2}
    Configs = {r1,NoReward}
    Clients = {c1}
    Crons = {}
    Pullers = {g1}
    RetryCap = 1
    ExpiredOrderBatch = 1
    QueueClients = {g1}
    MaxReloads = 1
    MaxFaults = 1
    MaxCancels = 1
INVARIANTS
    PurchasedIsGranted
    RefundedIsRevoked
    ConsumedIsGranted
    RefundIsReal
PROPERTIES
    ImplementsContract
CHECK_DEADLOCK FALSE
