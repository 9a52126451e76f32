--------------------------- MODULE AtomicAnnotate ---------------------------
(***************************************************************************)
(* What K8sClient.annotate promises its callers, as one atomic step: the  *)
(* requested annotations are merged into the resource's current ones      *)
(* (application/merge-patch+json: requested keys take the requested       *)
(* value, a None deletes, every other key is kept, whoever wrote it), or  *)
(* the call returns the current annotations because they already hold the *)
(* requested ones, or it fails without a change.  Other clients write in  *)
(* between.  K8sAnnotate, with its 409 retry loop, implements this.       *)
(***************************************************************************)
EXTENDS Naturals

CONSTANTS AnnKeys, Values, None, MaxWrites

VARIABLES
    ann,      \* the resource's annotations
    writes,   \* writes by other clients so far
    req,      \* the annotations argument
    outcome,  \* "none", "ok" or "error"
    result    \* the annotations annotate returned

avars == <<ann, writes, req, outcome, result>>

Vals == Values \cup {None}
Requests == UNION {[D -> Vals] : D \in SUBSET AnnKeys \ {{}}}

\* annotate has returned or raised.
Done == outcome # "none"

MergePatch(a, r) == [k \in AnnKeys |-> IF k \in DOMAIN r THEN r[k] ELSE a[k]]

Init ==
    /\ ann \in [AnnKeys -> Vals] /\ writes = 0 /\ req \in Requests
    /\ outcome = "none" /\ result = [k \in AnnKeys |-> None]

\* The merge takes effect at one instant.  The answer may still be an
\* error after the change (the KeyError of an empty annotation map, a
\* finding checked on its own); the abstraction admits it so that this
\* specification is about the merge.
Apply ==
    /\ ~Done
    /\ ann' = MergePatch(ann, req)
    /\ \/ outcome' = "ok" /\ result' = ann'
       \/ outcome' = "error" /\ UNCHANGED result
    /\ UNCHANGED <<writes, req>>

\* Every requested annotation is already there: return them unchanged.
AlreadyPresent ==
    /\ ~Done
    /\ \A k \in DOMAIN req : req[k] = ann[k]
    /\ outcome' = "ok" /\ result' = ann
    /\ UNCHANGED <<ann, writes, req>>

\* The request fails and changes nothing.
Fail ==
    /\ ~Done /\ outcome' = "error"
    /\ UNCHANGED <<ann, writes, req, result>>

\* Another client's call: it may change any annotations, drop them all,
\* or delete the resource and create it again.
OtherWrite ==
    /\ writes < MaxWrites /\ writes' = writes + 1
    /\ ann' \in [AnnKeys -> Vals]
    /\ UNCHANGED <<req, outcome, result>>

Next == Apply \/ AlreadyPresent \/ Fail \/ OtherWrite

\* A call does not hang: it eventually takes one of its three ends.
Spec == Init /\ [][Next]_avars /\ WF_avars(Apply \/ AlreadyPresent \/ Fail)
=============================================================================
