CONSTANTS
    Ids = {i1}
    Addrs = {a1, a2}
    ContractIDs = {cid1}
    Codes = {w1}
    GuestKeys = {k1, EmptyKey}
    Vals = {v1, EmptyVal}
    Amounts = {1}
    Word = 4
    CidAddr <- MCCidAddr
    i1 = i1
    a1 = a1
    a2 = a2
    cid1 = cid1
    w1 = w1
    k1 = k1
    v1 = v1
    EmptyKey = EmptyKey
    EmptyVal = EmptyVal
    NoFile = NoFile
    Missing = Missing
    NoObj = NoObj
    NilPtr = NilPtr
    Error = Error
    Panic = Panic
    Ok = Ok
    None = None
    Threads = {t1}
    Requests <- MCRequestsSeq
    MaxCalls = 5
    MaxObjs = 3
SPECIFICATION Spec
PROPERTY StoreRefinement
