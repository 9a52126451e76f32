CONSTANTS
    o1 = o1
    o2 = o2
    None = None
    Objs = {o1, o2}
    MaxChanges = 4
    MaxDrops = 2
    MaxRaises = 1
    Compaction = TRUE

SPECIFICATION Spec
PROPERTY ViewConverges
\* A watch with nothing left to send waits for the next change.
CHECK_DEADLOCK FALSE
