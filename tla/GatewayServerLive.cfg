SPECIFICATION FairSpec
CONSTANTS
    r1 = r1
    r2 = r2
    r3 = r3
    c1 = c1
    f1 = f1
    f2 = f2
    f3 = f3
    k1 = k1
    k2 = k2
    n1 = n1
    n2 = n2
    None = None
    NoRequest = NoRequest
    Timer = Timer
    Requests <- Pair
    Channels = {c1}
    Fingerprints = {f1}
    Channel <- PairChannel
    Fingerprint <- PairText
    Mention <- PairMention
    Batchable <- PairBatchable
    Debouncing = TRUE
    MaxRecords = 3
    Conns = {k1, k2}
    Nodes = {n1, n2}
    Sessions = {s1, s2}
    Presented <- NoSession
    Origin <- PairOrigin
    NodeOf <- TwoNodes
    MaxInbox = 1
CHECK_DEADLOCK FALSE
PROPERTY EverythingReturns
