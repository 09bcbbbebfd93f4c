SPECIFICATION Spec
CONSTANTS
    NoUser = NoUser
    NoProduct = NoProduct
    NoToken = NoToken
    NoReward = NoReward
    NoWorker = NoWorker
    Uid0 = Uid0
    ScanKey = ScanKey
    Users = {u1,u2}
    Products = {p1,p2}
    Orders = {1,2}
    Tokens = {t1}
    Rewards = {r1}
    Configs = {r1}
    Clients = {c1,c2}
    Crons = {}
    Pullers = {g1}
    RetryCap = 0
    ExpiredOrderBatch = 1
    QueueClients = {c1, c2, g1}
    MaxReloads = 0
    MaxFaults = 0
    MaxCancels = 0
INVARIANTS
    OnePendingOrder
    CredentialUsedOnce
    GrantIsCharged
SYMMETRY ClientSymmetry
