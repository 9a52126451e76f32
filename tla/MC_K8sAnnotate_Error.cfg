CONSTANTS
    a1 = a1
    a2 = a2
    v1 = v1
    v2 = v2
    None = None
    AnnKeys = {a1, a2}
    Values = {v1, v2}
    MaxWrites = 2
    MaxErrors = 1
    f1 = f1
    FieldKeys = {f1}

SPECIFICATION Spec
PROPERTY ErrorOnlyIfNotApplied
\* annotate returns or raises, and the other writers are finite.
CHECK_DEADLOCK FALSE
