SPECIFICATION Spec
CONSTANTS
    NoUser = NoUser
    NoProduct = NoProduct
    NoToken = NoToken
    NoReward = NoReward
    NoWorker = NoWorker
    Uid0 = Uid0
    ScanKey = ScanKey
    Users = {u1}
    Products = {p1}
    Orders = {1}
    Tokens = {t1}
    Rewards = {r1}
    Configs = {r1}
    Clients = {c1}
    Crons = {k1}
    Pullers = {g1}
    RetryCap = 0
    ExpiredOrderBatch = 1
    QueueClients = {c1, k1, g1}
    MaxReloads = 0
    MaxFaults = 0
    MaxCancels = 1
INVARIANTS
    RefundNotMissed
