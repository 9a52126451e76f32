CONSTANTS
    o1 = o1
    o2 = o2
    c1 = c1
    c2 = c2
    c3 = c3
    None = None
    Objs = {o1, o2}
    Cids = {c1, c2, c3}
    MaxTries = 2
    MaxChanges = 2
    MaxDrops = 2
    MaxRaises = 1
    Compaction = TRUE

SPECIFICATION Spec
INVARIANT TypeOK
 
\* A watch with nothing left to send waits for the next change.
CHECK_DEADLOCK FALSE
