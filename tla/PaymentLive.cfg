SPECIFICATION LiveSpec
ACTION_CONSTRAINT FailureOrReload
CONSTANTS
    NoUser = NoUser
    NoProduct = NoProduct
    NoToken = NoToken
    NoReward = NoReward
    NoWorker = NoWorker
    Uid0 = Uid0
    ScanKey = ScanKey
    Users = {u1}
    Products = {p1, p2}
    Orders = {1}
    Tokens = {t1}
    Rewards = {r1}
    Configs = {r1, NoReward}
    Clients = {c1}
    Crons = {k1}
    Pullers = {g1}
    RetryCap = 0
    ExpiredOrderBatch = 1
    QueueClients = {c1, k1, g1}
    MaxReloads = 2
    MaxFaults = 1
    MaxCancels = 0
INVARIANTS
    TypeOK
PROPERTIES
    PurchaseIsDelivered
    ExpiredIsSettled
