SPECIFICATION Spec
CONSTANTS
    NoEntry = NoEntry
    n1 = n1
    n2 = n2
    a = a
    b = b
    c = c
    Nodes = {n1}
    Readers = {a, b}
    Writers = {a, b}
    NodeOf <- OneNode
    MaxWrites = 1
    MaxVersion = 1
    MaxExpiries = 0
    MaxFaults = 0
INVARIANTS
    ReadAfterWrite
