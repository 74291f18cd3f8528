\* One process, in a store without chunked contents.
CONSTANTS
    p1 = p1
    p2 = p2
    a = a
    b = b
    c = c
    d = d
    n = n
    list_a = list_a
    list_b = list_b
    Process = {p1}
    Content = {a, b}
    Object = {c, d, n, list_a, list_b}
    Chunks <- MCChunks
    Nodes <- MCNodes
    RepsDir = "absent"
    MaxPuts = 3
SPECIFICATION Spec
INVARIANT ClaimNeverDangles
