\* Four commands on two documents, with crashes, power failures and checkpoints.
CONSTANTS
    d1 = d1
    d2 = d2
    add1 = add1
    add2 = add2
    tag = tag
    rename = rename
    Doc = {d1, d2}
    Batch = {add1, add2, tag, rename}
    Adds = {add1, add2}
    DocOf <- MCDocOf
    Size <- MCSize
    Nobody = Nobody
SPECIFICATION Spec
CHECK_DEADLOCK FALSE
INVARIANTS TypeOK ReadersLoad BatchesTogether AckedKept CaptureIsSettled
