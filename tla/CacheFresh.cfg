SPECIFICATION FairSpec
CONSTANTS
    NoEntry = NoEntry
    n1 = n1
    n2 = n2
    a = a
    b = b
    c = c
    Nodes = {n1, n2}
    Readers = {a, b}
    Writers = {b, c}
    NodeOf <- TwoNodes
    MaxWrites = 2
    MaxVersion = 2
    MaxExpiries = 1
    MaxFaults = 1
INVARIANTS
    TypeOK
    EntryCovers
    FreshRead
PROPERTIES
    GetReturns
    Converges
