--------------------------- MODULE CapabilityProbe ---------------------------
(***************************************************************************)
(* LBaaSv2Driver.__init__ and get_octavia_version: the version-discovery  *)
(* answer is reduced to the highest API version by a loop over the version *)
(* list of the selected region, and the feature flags are threshold        *)
(* comparisons on it.  Versions are the tuples                             *)
(* versionutils.convert_version_to_tuple makes of "major.minor[.patch]",  *)
(* compared as Python compares tuples.                                     *)
(***************************************************************************)
EXTENDS Naturals, Sequences, SequencesExt

CONSTANTS
    RegionNames,    \* names of regions in the discovery answer
    RegionName,     \* CONF.neutron.region_name (may name no region at all)
    VersionTuples,  \* parsed version entries the answer may list
    MaxVersions,    \* bound on the length of a region's version list
    MaxRegions      \* bound on the number of regions in the answer

VARIABLES
    regions,   \* discovery answer: sequence of [name, versions], dict order
    ovn,       \* endpoints_driver_octavia_provider == 'ovn'
    versions,  \* version list of the selected region
    i,         \* loop index over versions
    maxVer,    \* max_ver
    phase,     \* "init", "scan" (in the loop), "probed" (__init__ done)
    octaviaTags, octaviaAcls, octaviaDoubleListeners

vars == <<regions, ovn, versions, i, maxVer, phase,
          octaviaTags, octaviaAcls, octaviaDoubleListeners>>

OctaviaTaggingVersion == <<2, 5>>
OctaviaDlVersion == <<2, 11>>
OctaviaAclVersion == <<2, 12>>

\* Python's tuple order: the first differing component decides, and a
\* proper prefix is smaller.
RECURSIVE TupleGt(_, _)
TupleGt(a, b) ==
    CASE a = <<>>            -> FALSE
      [] b = <<>>            -> TRUE
      [] Head(a) # Head(b)   -> Head(a) > Head(b)
      [] OTHER               -> TupleGt(Tail(a), Tail(b))

VersionGe(a, b) == ~TupleGt(b, a)

VersionLists == SeqOf(VersionTuples, MaxVersions)
Answers ==
    UNION {{r \in [1..n -> [name : RegionNames, versions : VersionLists]] :
               IsInjective([j \in 1..n |-> r[j].name])} : n \in 1..MaxRegions}

TypeOK ==
    /\ regions \in Answers /\ ovn \in BOOLEAN
    /\ versions \in VersionLists /\ i \in 1..(Len(versions) + 1)
    /\ maxVer \in VersionTuples \cup {<<0, 0>>}
    /\ phase \in {"init", "scan", "probed"}
    /\ {octaviaTags, octaviaAcls, octaviaDoubleListeners} \subseteq BOOLEAN

Init ==
    /\ regions \in Answers /\ ovn \in BOOLEAN
    /\ versions = <<>> /\ i = 1 /\ maxVer = <<0, 0>> /\ phase = "init"
    /\ octaviaTags = FALSE /\ octaviaAcls = FALSE
    /\ octaviaDoubleListeners = FALSE

\* regions.get(region_name, list(regions.values())[0]): the configured
\* region, or the first one when it is not in the answer.
SelectedRegion ==
    IF \E j \in DOMAIN regions : regions[j].name = RegionName
    THEN CHOOSE r \in Range(regions) : r.name = RegionName
    ELSE regions[1]

\* get_octavia_version up to its loop: select the region's version list.
GetVersionData ==
    /\ phase = "init"
    /\ versions' = SelectedRegion.versions /\ i' = 1 /\ maxVer' = <<0, 0>>
    /\ phase' = "scan"
    /\ UNCHANGED <<regions, ovn, octaviaTags, octaviaAcls, octaviaDoubleListeners>>

\* Mutation of ScanVersion: the loop index advances by two.
ScanVersionSkip ==
    /\ phase = "scan" /\ i <= Len(versions)
    /\ maxVer' = IF TupleGt(versions[i], maxVer) THEN versions[i] ELSE maxVer
    /\ i' = i + 2
    /\ UNCHANGED <<regions, ovn, versions, phase, octaviaTags, octaviaAcls,
                   octaviaDoubleListeners>>

\* Mutation of ScanVersion: the list is taken to be sorted, the last entry wins.
ScanVersionLast ==
    /\ phase = "scan" /\ i <= Len(versions)
    /\ maxVer' = versions[i] /\ i' = i + 1
    /\ UNCHANGED <<regions, ovn, versions, phase, octaviaTags, octaviaAcls,
                   octaviaDoubleListeners>>

\* One iteration of `for version in versions`.
ScanVersion ==
    /\ phase = "scan" /\ i <= Len(versions)
    /\ maxVer' = IF TupleGt(versions[i], maxVer) THEN versions[i] ELSE maxVer
    /\ i' = i + 1
    /\ UNCHANGED <<regions, ovn, versions, phase, octaviaTags, octaviaAcls,
                   octaviaDoubleListeners>>

\* The rest of __init__: the three threshold checks on the returned version.
DeriveFlags ==
    /\ phase = "scan" /\ i > Len(versions)
    /\ octaviaAcls' = VersionGe(maxVer, OctaviaAclVersion)
    /\ octaviaDoubleListeners' = (VersionGe(maxVer, OctaviaDlVersion) /\ ~ovn)
    /\ octaviaTags' = VersionGe(maxVer, OctaviaTaggingVersion)
    /\ phase' = "probed"
    /\ UNCHANGED <<regions, ovn, versions, i, maxVer>>

Next == GetVersionData \/ ScanVersion \/ DeriveFlags

Spec == Init /\ [][Next]_vars /\ WF_vars(Next)

(***************************************************************************)
(* Properties.                                                             *)
(***************************************************************************)
\* The reference: the greatest version the selected region lists, (0, 0)
\* when it lists none.
ReferenceMax(vs) ==
    CHOOSE m \in Range(vs) \cup {<<0, 0>>} :
        \A v \in Range(vs) \cup {<<0, 0>>} : VersionGe(m, v)

\* The probe ends, whatever order the discovery answer lists versions in,
\* with every flag equal to the threshold test on the greatest version:
\* tags from 2.5, ACLs from 2.12, double listeners from 2.11 and never
\* with the OVN provider.
ProbeDerivesFlagsFromMaximum ==
    <>(/\ phase = "probed"
       /\ LET m == ReferenceMax(SelectedRegion.versions) IN
          /\ maxVer = m
          /\ octaviaTags = VersionGe(m, OctaviaTaggingVersion)
          /\ octaviaAcls = VersionGe(m, OctaviaAclVersion)
          /\ octaviaDoubleListeners = (VersionGe(m, OctaviaDlVersion) /\ ~ovn))
=============================================================================
