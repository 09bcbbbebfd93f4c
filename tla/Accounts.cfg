SPECIFICATION FairSpec

CONSTANTS
    Workers = {w1, w2}
    NoWorker = NoWorker
    Uids = {u1, u2}
    NoUid = NoUid
    x1 = x1
    x2 = x2
    x3 = x3
    Idents <- MCIdents
    NoIdent = NoIdent
    Kind <- MCKind

INVARIANTS
    DirectoryInv
    ActiveHasIdentity
    RefusalIsTrue

PROPERTIES
    ImplementsDirectory
    CallsReturn
