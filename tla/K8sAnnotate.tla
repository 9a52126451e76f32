----------------------------- MODULE K8sAnnotate -----------------------------
(***************************************************************************)
(* K8sClient.annotate (k8s_client.py): a merge-patch of metadata           *)
(* annotations, optionally conditioned on a resourceVersion, retried on    *)
(* 409 Conflict after re-reading the resource, while other clients write  *)
(* the same resource.  The API server is part of the model: a patch whose *)
(* resourceVersion is not the current one is refused with 409, any other  *)
(* is applied and bumps the version.  A key mapped to None is absent on   *)
(* the server, and a None in a merge-patch deletes the key.  The other    *)
(* writers are the K8sClient REST calls of other handlers' threads on the *)
(* same resource (K8sRest), which may also delete and re-create it.       *)
(***************************************************************************)
EXTENDS Naturals, FiniteSets

CONSTANTS
    AnnKeys,     \* annotation keys
    Values,      \* annotation values
    None,        \* Python None: an absent key, or a deleting null in a patch
    MaxWrites,   \* bound on writes by other clients
    MaxErrors,   \* bound on patches failing with another error (4xx/5xx)
    FieldKeys    \* fields of the resource's spec or status

ASSUME None \notin Values

VARIABLES
    ann,       \* the resource's annotations on the server
    version,   \* its resourceVersion
    writes,    \* writes by other clients so far
    errors,    \* failed patches so far
    req,       \* the annotations argument
    rv,        \* the resource_version the next patch carries, None if none
    pc,        \* "patch", "get" (after a 409) or "done"
    outcome,   \* "none", "ok" (returned) or "error" (raised)
    result,    \* the annotations annotate returned
    applied,   \* observation: a patch of this call was applied
    exists, uid, fields, answer   \* the rest of the resource, as in K8sRest

R == INSTANCE K8sRest

server == <<exists, uid, fields, answer>>

vars == <<ann, version, writes, errors, req, rv, pc, outcome, result, applied,
          exists, uid, fields, answer>>

Vals == Values \cup {None}
Requests == UNION {[D -> Vals] : D \in SUBSET AnnKeys \ {{}}}
MaxVersion == MaxWrites + 2

\* Mutation of Merged: the patch replaces the annotations (a PUT of the
\* requested ones) instead of merging them.
MergedReplace == [k \in AnnKeys |-> IF k \in DOMAIN req THEN req[k] ELSE None]

\* What application/merge-patch+json makes of the annotations.
Merged == [k \in AnnKeys |-> IF k \in DOMAIN req THEN req[k] ELSE ann[k]]

\* The for/else: every requested key already has its value.
AlreadyPresent == \A k \in DOMAIN req : req[k] = ann[k]

TypeOK ==
    /\ ann \in [AnnKeys -> Vals] /\ version \in 1..MaxVersion
    /\ writes \in 0..MaxWrites /\ errors \in 0..MaxErrors
    /\ req \in Requests /\ rv \in {None} \cup 0..version
    /\ pc \in {"patch", "get", "done"} /\ outcome \in {"none", "ok", "error"}
    /\ result \in [AnnKeys -> Vals] /\ applied \in BOOLEAN
    /\ R!RTypeOK /\ uid <= MaxWrites + 1

\* The caller passes no version, the one it last read, or an older one.
Init ==
    /\ ann \in [AnnKeys -> Vals] /\ version = 1 /\ writes = 0 /\ errors = 0
    /\ req \in Requests /\ rv \in {None, 0, 1}
    /\ pc = "patch" /\ outcome = "none" /\ result = [k \in AnnKeys |-> None]
    /\ applied = FALSE
    /\ exists = TRUE /\ uid = 1 /\ fields \in [FieldKeys -> Vals]
    /\ answer = [call |-> "none", result |-> "none"]

\* session.patch with metadata {annotations, resourceVersion}: applied when
\* the version matches (or none is given) and answered with the object,
\* whose metadata has no 'annotations' when none are left, so that
\* response.json()['metadata']['annotations'] raises KeyError.
Patch ==
    /\ pc = "patch" /\ exists /\ (rv = None \/ rv = version)
    /\ ann' = Merged /\ version' = version + 1 /\ applied' = TRUE
    /\ pc' = "done"
    /\ IF \A k \in AnnKeys : Merged[k] = None
       THEN outcome' = "error" /\ UNCHANGED result
       ELSE outcome' = "ok" /\ result' = Merged
    /\ UNCHANGED <<writes, errors, req, rv, server>>

\* The patch carries a stale resourceVersion: 409 Conflict.
PatchConflict ==
    /\ pc = "patch" /\ exists /\ rv # None /\ rv # version
    /\ pc' = "get"
    /\ UNCHANGED <<ann, version, writes, errors, req, rv, outcome, result, applied,
                   server>>

\* Any other error answer: _raise_from_response raises.
PatchFails ==
    /\ pc = "patch" /\ errors < MaxErrors
    /\ errors' = errors + 1 /\ pc' = "done" /\ outcome' = "error"
    /\ UNCHANGED <<ann, version, writes, req, rv, result, applied, server>>

\* Mutation of GetResource: resource_version is not updated for the retry.
GetResourceKeepsVersion ==
    /\ pc = "get" /\ exists
    /\ IF AlreadyPresent
       THEN pc' = "done" /\ outcome' = "ok" /\ result' = ann /\ UNCHANGED rv
       ELSE pc' = "patch" /\ UNCHANGED <<rv, outcome, result>>
    /\ UNCHANGED <<ann, version, writes, errors, req, applied, server>>

\* Mutation of GetResource: retries with the version after the current one.
GetResourceNextVersion ==
    /\ pc = "get" /\ exists
    /\ IF AlreadyPresent
       THEN pc' = "done" /\ outcome' = "ok" /\ result' = ann /\ UNCHANGED rv
       ELSE pc' = "patch" /\ rv' = version + 1 /\ UNCHANGED <<outcome, result>>
    /\ UNCHANGED <<ann, version, writes, errors, req, applied, server>>

\* After a 409: self.get(path); return the retrieved annotations if every
\* requested one is there, else retry with the new resourceVersion.
GetResource ==
    /\ pc = "get" /\ exists
    /\ IF AlreadyPresent
       THEN pc' = "done" /\ outcome' = "ok" /\ result' = ann /\ UNCHANGED rv
       ELSE pc' = "patch" /\ rv' = version /\ UNCHANGED <<outcome, result>>
    /\ UNCHANGED <<ann, version, writes, errors, req, applied, server>>

\* The resource was deleted: the patch, or the get after a 409, is answered
\* 404 and _raise_from_response raises K8sResourceNotFound.
ResourceGone ==
    /\ pc \in {"patch", "get"} /\ ~exists
    /\ pc' = "done" /\ outcome' = "error"
    /\ UNCHANGED <<ann, version, writes, errors, req, rv, result, applied, server>>

\* Another handler's thread makes a REST call on the resource.
OtherWrite ==
    /\ writes < MaxWrites /\ writes' = writes + 1
    /\ R!RestCall
    /\ UNCHANGED <<errors, req, rv, pc, outcome, result, applied>>

Next == Patch \/ PatchConflict \/ PatchFails \/ GetResource \/ ResourceGone \/ OtherWrite

\* annotate's loop runs without blocking; other writers are finite.
Spec ==
    /\ Init /\ [][Next]_vars
    /\ WF_vars(Patch) /\ WF_vars(PatchConflict) /\ WF_vars(GetResource)
    /\ WF_vars(ResourceGone)

(***************************************************************************)
(* Properties.                                                             *)
(***************************************************************************)
\* The retry loop re-reads the resourceVersion after each 409, so once the
\* other writers stop annotate returns or raises.
AnnotateTerminates == <>(pc = "done")

\* annotate raises only when its patch was not applied, so a caller that
\* retries on an exception does not act on a change already made.
ErrorOnlyIfNotApplied ==
    [][(pc # "done" /\ pc' = "done" /\ outcome' = "error") => ~applied']_vars

(***************************************************************************)
(* Refinement: the 409 retry loop implements the atomic merge of           *)
(* AtomicAnnotate.  A conflict and a re-read are stuttering steps; the    *)
(* applied patch is the atomic merge, the "already present" return is its *)
(* namesake, and a failed patch is a failure without a change.            *)
(***************************************************************************)
Atomic == INSTANCE AtomicAnnotate
              WITH ann <- ann, writes <- writes, req <- req,
                   outcome <- outcome, result <- result

\* annotate behaves as one atomic merge-patch interleaved with the other
\* writers: no write of another client to another key is lost by a retry,
\* no stale read is written back, and every call ends.
AtomicAnnotateSpec == Atomic!Spec
=============================================================================
