------------------------------- MODULE Octavia -------------------------------
(***************************************************************************)
(* The load-balancing control plane (Octavia) as the driver sees it: one   *)
(* load balancer carrying the service's natural key, its child resources   *)
(* (listeners, pools, members), its VIP port and the security groups the   *)
(* driver creates for it, attached while the VIP port they are on exists.  *)
(* This is the environment of LBaaSv2Driver, not code of the repository: *)
(* every request is answered atomically, provisioning and deletion        *)
(* complete asynchronously, and the control plane may misbehave           *)
(* (ERROR status, lost or 500 responses, deletion by someone else) at most *)
(* MaxFaults times.                                                        *)
(***************************************************************************)
EXTENDS Naturals, FiniteSets

CONSTANTS
    Keys,            \* natural keys of child resources
    Unique,          \* keys whose duplicate create is refused with 409
    Rejected,        \* keys whose create is refused with 400 (bad protocol)
    Ids,             \* identifiers the control plane hands out
    MaxFaults,       \* bound on injected faults
    SgQuota,         \* the project's security group quota in Neutron
    ErrorStatus,     \* may provisioning end in ERROR?
    ExternalDeletes, \* may someone else delete the load balancer?
    VipPortLate      \* may the VIP port be listed only after the load balancer?

ASSUME /\ Unique \subseteq Keys /\ Rejected \subseteq Keys
       /\ MaxFaults \in Nat /\ SgQuota \in Nat
       /\ ErrorStatus \in BOOLEAN /\ ExternalDeletes \in BOOLEAN
       /\ VipPortLate \in BOOLEAN

VARIABLES
    lbId,      \* id of the load balancer with the natural key, NoId if none
    lbStatus,  \* its provisioning_status, "NONE" if there is none
    objs,      \* its child resources, records [id, key]
    vip,       \* its VIP port exists (the port _get_vip_port lists)
    sgs,       \* security groups named after it: [owner, attached, rules]
    faults     \* faults injected so far

cpVars == <<lbId, lbStatus, objs, vip, sgs, faults>>

NoId == 0
Pending == {"PENDING_CREATE", "PENDING_UPDATE", "PENDING_DELETE"}
Statuses == {"NONE", "ACTIVE", "ERROR"} \cup Pending

CanFault == faults < MaxFaults
LbPresent(id) == id # NoId /\ lbId = id
Immutable == lbStatus \in Pending
ObjsOf(k) == {o \in objs : o.key = k}
ObjPresent(id) == \E o \in objs : o.id = id
SgsOf(id) == {s \in sgs : s.owner = id}
\* The ingress rules of the groups, by the listener they were made for.
RulesOf(id) == UNION {s.rules : s \in SgsOf(id)}

CpTypeOK ==
    /\ lbId \in Ids \cup {NoId}
    /\ lbStatus \in Statuses
    /\ (lbId = NoId) <=> (lbStatus = "NONE")
    /\ objs \subseteq [id : Ids, key : Keys]
    /\ vip \in BOOLEAN /\ (vip => lbId # NoId)
    /\ sgs \subseteq [owner : Ids, attached : BOOLEAN, rules : SUBSET Keys]
    /\ faults \in 0..MaxFaults

CpInit ==
    /\ lbId = NoId /\ lbStatus = "NONE" /\ objs = {} /\ vip = FALSE
    /\ sgs = {} /\ faults = 0

(***************************************************************************)
(* Answers to the requests the driver sends, in the order Octavia's API    *)
(* checks them.                                                            *)
(***************************************************************************)
CreateLbCode == IF lbStatus = "NONE" THEN 201 ELSE 409  \* VIP address in use

CreateObjCode(lb, k) ==
    CASE ~LbPresent(lb)                      -> 404
      [] k \in Rejected                      -> 400
      [] Immutable                           -> 409
      [] k \in Unique /\ ObjsOf(k) # {}      -> 409
      [] OTHER                               -> 201

DeleteCode(present) ==
    CASE ~present  -> 404
      [] Immutable -> 409
      [] OTHER     -> 204

(* Effects of accepted requests on the control plane. *)
\* The VIP port is made with the load balancer or shortly after it becomes
\* visible (spec 4.5: a port not found yet is recoverable).
AddLb(id) ==
    /\ lbId' = id /\ lbStatus' = "PENDING_CREATE" /\ objs' = {}
    /\ vip' \in IF VipPortLate THEN BOOLEAN ELSE {TRUE}
    /\ UNCHANGED sgs

AddObj(id, k) ==
    /\ objs' = objs \cup {[id |-> id, key |-> k]}
    /\ lbStatus' = "PENDING_UPDATE"
    /\ UNCHANGED <<lbId, vip, sgs>>

RemoveObj(id) ==
    /\ objs' = {o \in objs : o.id # id}
    /\ lbStatus' = "PENDING_UPDATE"
    /\ UNCHANGED <<lbId, vip, sgs>>

RemoveLb ==
    /\ lbStatus' = "PENDING_DELETE"
    /\ UNCHANGED <<lbId, objs, vip, sgs>>

(***************************************************************************)
(* What the control plane does on its own.                                 *)
(***************************************************************************)
\* The VIP port comes while the load balancer is being created.
VipPortCreated ==
    /\ lbStatus = "PENDING_CREATE" /\ ~vip
    /\ vip' = TRUE
    /\ UNCHANGED <<lbId, lbStatus, objs, sgs, faults>>

\* A load balancer becomes ACTIVE only with its VIP port.
ProvisioningComplete ==
    /\ lbStatus \in {"PENDING_CREATE", "PENDING_UPDATE"} /\ vip
    /\ lbStatus' = "ACTIVE"
    /\ UNCHANGED <<lbId, objs, vip, sgs, faults>>

ProvisioningFails ==
    /\ ErrorStatus /\ CanFault
    /\ lbStatus \in {"PENDING_CREATE", "PENDING_UPDATE"}
    /\ lbStatus' = "ERROR"
    /\ faults' = faults + 1
    /\ UNCHANGED <<lbId, objs, vip, sgs>>

\* The cascade: children and the VIP port go with the load balancer, which
\* detaches the security groups that were on the VIP port.
DeletionComplete ==
    /\ lbStatus = "PENDING_DELETE"
    /\ lbId' = NoId /\ lbStatus' = "NONE" /\ objs' = {} /\ vip' = FALSE
    /\ sgs' = {[s EXCEPT !.attached = s.attached /\ s.owner # lbId] : s \in sgs}
    /\ UNCHANGED faults

ExternalDelete ==
    /\ ExternalDeletes /\ CanFault
    /\ lbStatus \in {"ACTIVE", "ERROR"}
    /\ lbStatus' = "PENDING_DELETE"
    /\ faults' = faults + 1
    /\ UNCHANGED <<lbId, objs, vip, sgs>>

CpNext ==
    \/ VipPortCreated
    \/ ProvisioningComplete
    \/ ProvisioningFails
    \/ DeletionComplete
    \/ ExternalDelete
=============================================================================
