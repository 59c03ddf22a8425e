SPECIFICATION RegistrySpec
CONSTANTS
    Conns = {k1, k2}
    Nodes = {n1, n2}
    Sessions = {s1, s2, s3}
    Presented = {None}
    None = None
CHECK_DEADLOCK FALSE
INVARIANT LiveFound
