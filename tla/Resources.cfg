SPECIFICATION ResourcesSpec
CONSTANTS
    r1 = r1
    r2 = r2
    r3 = r3
    r4 = r4
    c1 = c1
    c2 = c2
    f1 = f1
    f2 = f2
    f3 = f3
    NoRequest = NoRequest
    Requests <- MCRequests
    Channels = {c1, c2}
    Fingerprints = {f1, f2, f3}
    Channel <- MCChannel
    Fingerprint <- MCFingerprint
    Mention <- MCMention
    Batchable <- MCBatchable
    Debouncing = FALSE
    MaxRecords = 4
    Conns = {a1, a2, a3}
    Nodes = {n1, n2}
    Sessions = {s1, s2, s3}
    Presented <- AnySession
    None = None
    a1 = a1
    a2 = a2
    a3 = a3
    g1 = g1
    g2 = g2
    g3 = g3
    Calls = {"e1", "e2", "s"}
    Suspenders = {"s"}
    Nobody = "nobody"
    MaxContainers = 3
    MaxFaults = 3
    MaxRestarts = 1
    Writers = {"w1", "w2", "w3"}
    Errands <- MCErrands
    Told <- MCTold
    Facts = {g1, g2, g3}
    Known <- MCKnown
    Similar <- MCSimilar
    Clashes <- MCClashes
    Ids = {1, 2, 3}
    Absent = Absent
    Gone = Gone
    SearchLimit = 5
    MaxPlan = 1
    MaxFailures = 1
    u1 = u1
    u2 = u2
SYMMETRY ResourceSymmetry
CHECK_DEADLOCK FALSE
INVARIANTS ResourcesTypeOK Exclusive RegistryAgrees VmsSafe MemorySafe ResourcesSafe
