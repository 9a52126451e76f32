CONSTANTS
    r1 = r1
    r2 = r2
    RegionNames = {r1, r2}
    RegionName = r2
    VersionTuples <- MCVersionTuples
    MaxVersions = 2
    MaxRegions = 2

SPECIFICATION Spec
INVARIANT TypeOK
PROPERTY ProbeDerivesFlagsFromMaximum
\* The probe runs once, at driver construction, and then stops.
CHECK_DEADLOCK FALSE
