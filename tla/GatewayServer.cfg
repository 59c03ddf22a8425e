SPECIFICATION Spec
CONSTANTS
    r1 = r1
    r2 = r2
    r3 = r3
    c1 = c1
    f1 = f1
    f2 = f2
    f3 = f3
    k1 = k1
    k2 = k2
    n1 = n1
    n2 = n2
    None = None
    NoRequest = NoRequest
    Timer = Timer
    Requests <- MCRequests
    Channels = {c1}
    Fingerprints = {f1}
    Channel <- MCChannel
    Fingerprint <- SameText
    Mention <- MCMention
    Batchable <- MCBatchable
    Debouncing = TRUE
    MaxRecords = 3
    Conns = {k1, k2}
    Nodes = {n1, n2}
    Sessions = {s1, s2}
    Presented <- NoSession
    Origin <- MCOrigin
    NodeOf <- TwoNodes
    MaxInbox = 1
SYMMETRY SessionSymmetry
CHECK_DEADLOCK FALSE
INVARIANTS TypeOK RequestsSeenThrough DisconnectCleansUp
