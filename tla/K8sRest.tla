------------------------------- MODULE K8sRest -------------------------------
(***************************************************************************)
(* The REST calls of K8sClient (k8s_client.py) on one resource of the API *)
(* server, made by the controller's handlers from their own threads.  The *)
(* server holds the resource (its uid and resourceVersion, its            *)
(* annotations and the fields of its spec or status, a key mapped to None *)
(* being absent, a map without keys being absent itself) and answers each *)
(* request with a status code; the client turns the code into a return    *)
(* or an exception.  A JSON patch (application/json-patch+json) is applied *)
(* whole or refused whole with 422; a merge patch creates what it names.  *)
(* Values are opaque: a value written by patch_node_annotations stands    *)
(* for the JSON text jsonutils.dumps makes of the caller's value.         *)
(***************************************************************************)
EXTENDS Naturals

CONSTANTS AnnKeys, FieldKeys, Values, None

VARIABLES
    exists,   \* the resource exists on the server
    uid,      \* metadata.uid of its current incarnation
    ann,      \* metadata.annotations
    fields,   \* the fields of the patched spec or status
    version,  \* metadata.resourceVersion
    answer    \* the call last answered and what it made of the answer

restVars == <<exists, uid, ann, fields, version, answer>>

Vals == Values \cup {None}
Empty(K) == [k \in K |-> None]
Partial(K, V) == UNION {[D -> V] : D \in SUBSET K \ {{}}}
Calls == {"get", "patch", "patch_crd", "patch_node_annotations",
          "remove_node_annotations", "remove_annotations", "post", "delete"}
Results == {"none", "ok", "NotFound", "ClientException"}

RTypeOK ==
    /\ exists \in BOOLEAN /\ uid \in Nat /\ version \in Nat
    /\ ann \in [AnnKeys -> Vals] /\ fields \in [FieldKeys -> Vals]
    /\ answer \in [call : Calls \cup {"none"}, result : Results]

\* A JSON-patch path /m/k names a member of map m; /m names m itself,
\* which is there when it holds a key.
Has(m, k) == m[k] # None
Present(m) == \E k \in DOMAIN m : Has(m, k)

\* _raise_from_response: 404 raises K8sResourceNotFound, any other code
\* that is not ok raises K8sClientException.
RaiseFromResponse(status) ==
    CASE status = 404 -> "NotFound"
      [] status \in {200, 201} -> "ok"
      [] OTHER -> "ClientException"

Statuses == {200, 201, 404, 409, 422}

\* What the calls that check with _raise_from_response make of a status.
Raised == [s \in Statuses |-> RaiseFromResponse(s)]

\* The server's answer to a change of an existing resource: refused with
\* `refused` when `ok` fails, else applied with a new resourceVersion;
\* `raise` is what the client makes of the status.
Apply(ok, refused, a, f, call, raise) ==
    LET status == IF ~exists THEN 404 ELSE IF ok THEN 200 ELSE refused IN
    /\ IF status = 200
       THEN ann' = a /\ fields' = f /\ version' = version + 1
       ELSE UNCHANGED <<ann, fields, version>>
    /\ answer' = [call |-> call, result |-> raise[status]]
    /\ UNCHANGED <<exists, uid>>

\* get: the object, or 404.
Get ==
    /\ answer' = [call |-> "get", result |-> RaiseFromResponse(IF exists THEN 200 ELSE 404)]
    /\ UNCHANGED <<exists, uid, ann, fields, version>>

\* patch(field, path, data): a merge patch {field: data}, on the
\* annotations (field metadata) or on the fields of spec or status.
Patch ==
    \/ \E d \in Partial(AnnKeys, Vals) :
          Apply(TRUE, 0, [k \in AnnKeys |-> IF k \in DOMAIN d THEN d[k] ELSE ann[k]],
                fields, "patch", Raised)
    \/ \E d \in Partial(FieldKeys, Vals) :
          Apply(TRUE, 0, ann, [k \in FieldKeys |-> IF k \in DOMAIN d THEN d[k] ELSE fields[k]],
                "patch", Raised)

\* patch_crd(field, path, data, action): one op per key of data, or one
\* remove of /field/data.  add needs the map, replace and remove the member.
PatchCrd ==
    \/ \E d \in Partial(FieldKeys, Values), act \in {"add", "replace"} :
          Apply(IF act = "add" THEN Present(fields)
                ELSE \A k \in DOMAIN d : Has(fields, k),
                422, ann, [k \in FieldKeys |-> IF k \in DOMAIN d THEN d[k] ELSE fields[k]],
                "patch_crd", Raised)
    \/ \E k \in FieldKeys :
          Apply(Has(fields, k), 422, ann, [fields EXCEPT ![k] = None],
                "patch_crd", Raised)

\* patch_node_annotations: add /metadata/annotations/<name>, which needs
\* the annotations map.
PatchNodeAnnotations ==
    \E k \in AnnKeys, v \in Values :
       Apply(Present(ann), 422, [ann EXCEPT ![k] = v], fields,
             "patch_node_annotations", Raised)

\* remove_node_annotations: remove /metadata/annotations/<name>.
RemoveNodeAnnotations ==
    \E k \in AnnKeys :
       Apply(Has(ann, k), 422, [ann EXCEPT ![k] = None], fields,
             "remove_node_annotations", Raised)

\* remove_annotations(path, name): a remove of /metadata/annotations (the
\* op's 'value' member is no part of a remove), so every annotation goes;
\* any answer that is not ok raises K8sClientException, a 404 too.
RemoveAnnotations ==
    Apply(Present(ann), 422, Empty(AnnKeys), fields, "remove_annotations",
          [s \in Statuses |-> IF s = 200 THEN "ok" ELSE "ClientException"])

\* post(path, body): creates the resource, 409 AlreadyExists if it is there.
Post ==
    \/ /\ exists
       /\ answer' = [call |-> "post", result |-> RaiseFromResponse(409)]
       /\ UNCHANGED <<exists, uid, ann, fields, version>>
    \/ /\ ~exists
       /\ \E a \in [AnnKeys -> Vals], f \in [FieldKeys -> Vals] :
             ann' = a /\ fields' = f
       /\ exists' = TRUE /\ uid' = uid + 1 /\ version' = version + 1
       /\ answer' = [call |-> "post", result |-> RaiseFromResponse(201)]

\* delete(path): 404 if the resource is gone already.
Delete ==
    \/ /\ ~exists
       /\ answer' = [call |-> "delete", result |-> RaiseFromResponse(404)]
       /\ UNCHANGED <<exists, uid, ann, fields, version>>
    \/ /\ exists
       /\ exists' = FALSE /\ ann' = Empty(AnnKeys) /\ fields' = Empty(FieldKeys)
       /\ version' = version + 1 /\ UNCHANGED uid
       /\ answer' = [call |-> "delete", result |-> RaiseFromResponse(200)]

RestCall ==
    \/ Get \/ Patch \/ PatchCrd \/ PatchNodeAnnotations \/ RemoveNodeAnnotations
    \/ RemoveAnnotations \/ Post \/ Delete
=============================================================================
