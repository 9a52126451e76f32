---------------------------- MODULE LBaaSv2Driver ----------------------------
(***************************************************************************)
(* The convergence engine of LBaaSv2Driver (controller/drivers/lbaasv2.py) *)
(* for one service: the create-or-find loop (_ensure, _ensure_provisioned),*)
(* the delete loop (_release), the provisioning and deletion waiters with  *)
(* their shared timer, and the public ensure_*/release_* operations built  *)
(* on them.  Every request to the control plane is one step; the control   *)
(* plane (module Octavia) moves between any two of them.  The caller runs  *)
(* one operation at a time for the service, as the driver requires.       *)
(*                                                                         *)
(* Time is abstracted to the timer's budget: `left` is what remains of     *)
(* _ACTIVATION_TIMEOUT for the running loop, and every sleep of the timer  *)
(* spends at least one tick of it.  A waiter nested in a loop is handed    *)
(* the loop's leftover, so both share `left`.                              *)
(***************************************************************************)
EXTENDS Octavia

CONSTANTS
    Listeners,     \* keys ensured with ensure_listener (others: pools, members)
    Budget,        \* _ACTIVATION_TIMEOUT in timer ticks
    SgModeCreate   \* CONF.octavia_defaults.sg_mode == 'create'

ASSUME Listeners \subseteq Keys /\ Budget \in Nat \ {0} /\ SgModeCreate \in BOOLEAN

VARIABLES
    op,       \* public operation in progress, "idle" between operations
    key,      \* natural key of the child resource it works on
    pc,       \* the step of the operation that is next
    left,     \* ticks left on the running provisioning timer
    nested,   \* a release_loadbalancer started because the LB was in ERROR
    lb,       \* loadbalancer.id the operation works with
    obj,      \* id of the child resource it has found, created or deletes
    outcome,  \* how the last operation ended
    heldLb,   \* the load balancer id the caller holds
    held      \* the child resource ids the caller holds

drvVars == <<op, key, pc, left, nested, lb, obj, outcome, heldLb, held>>
vars == <<cpVars, drvVars>>

Ops == {"idle", "ensure_lb", "ensure_child", "release_child", "release_lb"}
Pcs == {"none", "lb_create", "lb_find", "ec_wait", "ec_create", "ec_find",
        "ec_sg", "rc_delete", "rc_wait", "rc_rule", "rl_delete", "rl_wait",
        "rl_findsg", "rl_waitdel", "rl_delsg"}
\* "null": ensure_listener swallowed an SDKException and returned None
Outcomes == {"none", "ok", "notready", "error", "null"}
Waits == {"ec_wait", "rc_wait", "rl_wait"}

\* Ids anybody still refers to; a new resource gets one nobody refers to.
Referenced == {lbId, lb, obj, heldLb} \cup {o.id : o \in objs}
                \cup {s.owner : s \in sgs} \cup {held[k] : k \in Keys}
FreshId == CHOOSE i \in Ids : i \notin Referenced

TypeOK ==
    /\ CpTypeOK
    /\ op \in Ops /\ key \in Keys /\ pc \in Pcs /\ left \in 0..Budget
    /\ nested \in BOOLEAN /\ lb \in Ids \cup {NoId} /\ obj \in Ids \cup {NoId}
    /\ outcome \in Outcomes /\ heldLb \in Ids \cup {NoId}
    /\ held \in [Keys -> Ids \cup {NoId}]

Init ==
    /\ CpInit
    /\ op = "idle" /\ key = (CHOOSE k \in Keys : TRUE) /\ pc = "none" /\ left = 0
    /\ nested = FALSE /\ lb = NoId /\ obj = NoId /\ outcome = "none"
    /\ heldLb = NoId /\ held = [k \in Keys |-> NoId]

(***************************************************************************)
(* Control flow shared by the steps.                                       *)
(***************************************************************************)
GoTo(p) ==
    /\ pc' = p
    /\ UNCHANGED <<op, key, left, nested, lb, obj, outcome, heldLb, held>>

\* The public operation returns res (with id, for an ensure) or raises it.
\* A release_loadbalancer nested in it ends it with ResourceNotReady.
Finish(res, id) ==
    LET r == IF nested THEN "notready" ELSE res IN
    /\ op' = "idle" /\ pc' = "none" /\ left' = 0 /\ nested' = FALSE
    /\ lb' = NoId /\ obj' = NoId /\ outcome' = r /\ UNCHANGED key
    /\ heldLb' = CASE r = "ok" /\ op = "ensure_lb"  -> id
                   [] r = "ok" /\ op = "release_lb" -> NoId
                   [] OTHER                          -> heldLb
    /\ held' = CASE r = "ok" /\ op = "ensure_child"  -> [held EXCEPT ![key] = id]
                 [] r = "ok" /\ op = "release_child" -> [held EXCEPT ![key] = NoId]
                 [] r = "ok" /\ op = "release_lb"    -> [k \in Keys |-> NoId]
                 [] OTHER                             -> held

\* Mutation of Sleep: the interval is not capped by timer.leftover(), so a
\* sleep can overshoot the deadline.
SleepUncapped(next, onExpiry) ==
    \/ /\ left > 0 /\ left' = left - 2 /\ pc' = next
       /\ UNCHANGED <<op, key, nested, lb, obj, outcome, heldLb, held>>
    \/ onExpiry

\* _provisioning_timer: after each loop body it sleeps
\* min(interval * 2 * gauss(0.8, 0.05), 15, leftover) and ends the loop once
\* the budget is spent; onExpiry is what the code does after the loop.
Sleep(next, onExpiry) ==
    \/ \E l \in 1..(left - 1) :
          /\ left' = l /\ pc' = next
          /\ UNCHANGED <<op, key, nested, lb, obj, outcome, heldLb, held>>
    \/ onExpiry

NotReady == Finish("notready", NoId)

\* release_loadbalancer called from a waiter or a find that saw ERROR: a
\* fresh _release loop with its own _ACTIVATION_TIMEOUT.
StartRelease(id) ==
    /\ pc' = "rl_delete" /\ lb' = id /\ left' = Budget /\ nested' = TRUE
    /\ UNCHANGED <<op, key, obj, outcome, heldLb, held>>

(***************************************************************************)
(* The public operations, as the caller invokes them.                      *)
(***************************************************************************)
Call(o, k, p, l, x) ==
    /\ op = "idle"
    /\ op' = o /\ key' = k /\ pc' = p /\ left' = Budget /\ lb' = l /\ obj' = x
    /\ UNCHANGED <<nested, outcome, heldLb, held, cpVars>>

EnsureLoadbalancer == Call("ensure_lb", key, "lb_create", NoId, NoId)

ReleaseLoadbalancer ==
    /\ heldLb # NoId
    /\ Call("release_lb", key, "rl_delete", heldLb, NoId)

EnsureListener(k) ==
    /\ k \in Listeners /\ heldLb # NoId
    /\ Call("ensure_child", k, "ec_wait", heldLb, NoId)

\* ensure_pool, ensure_pool_attached_to_lb, and ensure_member up to its
\* _ensure_provisioned (its _apply_members_security_groups is module
\* SecurityGroupSynthesizer's).
EnsurePool(k) ==
    /\ k \notin Listeners /\ heldLb # NoId
    /\ Call("ensure_child", k, "ec_wait", heldLb, NoId)

\* release_listener, release_pool and release_member
ReleaseChild(k) ==
    /\ heldLb # NoId /\ held[k] # NoId
    /\ Call("release_child", k, "rc_delete", heldLb, held[k])

(***************************************************************************)
(* ensure_loadbalancer: _ensure(_create_loadbalancer, _find_loadbalancer) *)
(* with no retry loop around it.                                           *)
(***************************************************************************)
\* loadbalancer.port_id = self._get_vip_port(loadbalancer).id, then the
\* rest (then): with no port listed _get_vip_port returns None and `.id`
\* raises AttributeError, which neither _ensure nor its callers catch.
VipPortId(port, then) == IF port THEN then ELSE Finish("error", NoId)

CreateLoadbalancer ==
    /\ pc = "lb_create"
    /\ \/ /\ CreateLbCode = 409                  \* in okay_codes: find it
          /\ GoTo("lb_find") /\ UNCHANGED cpVars
       \/ /\ CreateLbCode = 201
          /\ AddLb(FreshId)
          /\ \/ UNCHANGED faults /\ VipPortId(vip', Finish("ok", FreshId))
             \/ /\ CanFault /\ faults' = faults + 1
                /\ \/ GoTo("lb_find")           \* 500 after it was recorded
                   \/ Finish("error", NoId)     \* answer lost: 503/504 re-raised
       \/ /\ CanFault /\ faults' = faults + 1    \* 500, nothing recorded
          /\ GoTo("lb_find") /\ UNCHANGED <<lbId, lbStatus, objs, vip, sgs>>

\* Mutation of FindLoadbalancer: the provisioning_status check is missing.
FindLoadbalancerNoErrorCheck ==
    /\ pc = "lb_find"
    /\ UNCHANGED cpVars
    /\ IF lbStatus = "NONE" THEN NotReady ELSE Finish("ok", lbId)

\* An LB found in ERROR is released and None returned, which
\* ensure_loadbalancer turns into ResourceNotReady, as it does a miss.
\* The VIP port is looked up before the status is checked.
FindLoadbalancer ==
    /\ pc = "lb_find"
    /\ UNCHANGED cpVars
    /\ IF lbStatus = "NONE" THEN NotReady   \* StopIteration: None
       ELSE VipPortId(vip, IF lbStatus = "ERROR" THEN StartRelease(lbId)
                           ELSE Finish("ok", lbId))

(***************************************************************************)
(* _ensure_provisioned: wait for the LB, then _ensure(create, find); an    *)
(* SDKException or a None result is retried until the timer runs out.      *)
(***************************************************************************)
\* An SDKException leaves _ensure_provisioned: ensure_listener turns it into
\* a None result, the other ensure_* let it propagate.
SdkRaised == Finish(IF key \in Listeners THEN "null" ELSE "error", NoId)

\* `except SDKException: pass`, then the timer.
SdkSwallowed == Sleep("ec_wait", NotReady)

\* The ensure returns its result; ensure_listener in sg_mode 'create' first
\* makes sure the LB's security group has the listener's rule.
Ensured(id) ==
    IF key \in Listeners /\ SgModeCreate
    THEN /\ obj' = id /\ pc' = "ec_sg"
         /\ UNCHANGED <<op, key, left, nested, lb, outcome, heldLb, held>>
    ELSE Finish("ok", id)

\* Mutation of CreateChild: 409 is not among the okay codes, so the
\* ConflictException is swallowed by _ensure_provisioned and retried.
CreateChildConflictRetried ==
    /\ pc = "ec_create"
    /\ LET code == CreateObjCode(lb, key) IN
       \/ code \in {404, 409} /\ SdkSwallowed /\ UNCHANGED cpVars
       \/ code = 400 /\ SdkRaised /\ UNCHANGED cpVars
       \/ /\ code = 201
          /\ AddObj(FreshId, key)
          /\ \/ UNCHANGED faults /\ Ensured(FreshId)
             \/ /\ CanFault /\ faults' = faults + 1
                /\ \/ GoTo("ec_find")
                   \/ SdkSwallowed
       \/ /\ CanFault /\ faults' = faults + 1
          /\ GoTo("ec_find") /\ UNCHANGED <<lbId, lbStatus, objs, vip, sgs>>

CreateChild ==
    /\ pc = "ec_create"
    /\ LET code == CreateObjCode(lb, key) IN
       \/ code = 409 /\ GoTo("ec_find") /\ UNCHANGED cpVars
       \/ code = 404 /\ SdkSwallowed /\ UNCHANGED cpVars
       \/ code = 400 /\ SdkRaised /\ UNCHANGED cpVars  \* BadRequest re-raised
       \/ /\ code = 201
          /\ AddObj(FreshId, key)
          /\ \/ UNCHANGED faults /\ Ensured(FreshId)
             \/ /\ CanFault /\ faults' = faults + 1
                /\ \/ GoTo("ec_find")           \* 500 after it was recorded
                   \/ SdkSwallowed              \* answer lost: 503/504
       \/ /\ CanFault /\ faults' = faults + 1    \* 500, nothing recorded
          /\ GoTo("ec_find") /\ UNCHANGED <<lbId, lbStatus, objs, vip, sgs>>

\* List by natural key under loadbalancer.id and take the first match.
FindChild ==
    /\ pc = "ec_find"
    /\ UNCHANGED cpVars
    /\ IF LbPresent(lb) /\ ObjsOf(key) # {}
       THEN \E o \in ObjsOf(key) : Ensured(o.id)
       ELSE Sleep("ec_wait", NotReady)          \* None: try again

\* The listener's ingress rule in group s: created, or already there (the
\* ConflictException is passed over), or the SDKException is logged and
\* ensure_listener still returns the listener.
CreateSgRule(s) ==
    /\ \/ /\ sgs' = (sgs \ {s}) \cup {[s EXCEPT !.rules = @ \cup {key}]}
          /\ UNCHANGED faults
       \/ /\ CanFault /\ faults' = faults + 1
          /\ sgs' = sgs \cup {s}
    /\ Finish("ok", obj)

\* _create_lb_security_group_rule: find the LB's group, or create one and
\* put it on the VIP port, then create the listener's rule.  With the VIP
\* port gone _get_vip_port returns None and `vip_port.id` raises, after the
\* group was created.  Over quota, create_security_group raises out of
\* ensure_listener.
CreateLbSecurityGroup ==
    /\ pc = "ec_sg"
    /\ UNCHANGED <<lbId, lbStatus, objs, vip>>
    /\ LET new == [owner |-> lb, attached |-> LbPresent(lb) /\ vip, rules |-> {}] IN
       CASE SgsOf(lb) # {} -> \E s \in SgsOf(lb) : CreateSgRule(s)
         [] Cardinality(sgs) >= SgQuota ->
              UNCHANGED <<sgs, faults>> /\ Finish("error", NoId)
         [] ~(LbPresent(lb) /\ vip) ->
              sgs' = sgs \cup {new} /\ UNCHANGED faults /\ Finish("error", NoId)
         [] OTHER -> CreateSgRule(new)

(***************************************************************************)
(* _release: delete until done; NotFound means already gone, Conflict or  *)
(* BadRequest means the LB is not stable and is waited for.               *)
(***************************************************************************)
\* _release returned: release_loadbalancer goes on to its security group,
\* release_listener to the listener's rule.
Released ==
    CASE pc \in {"rl_delete", "rl_wait"} -> GoTo("rl_findsg")
      [] key \in Listeners               -> GoTo("rc_rule")
      [] OTHER                           -> Finish("ok", NoId)

\* Mutation of Release: NotFoundException is not caught.
ReleaseNotFoundRaised(present, Remove) ==
    LET code == DeleteCode(present) IN
    \/ code = 404 /\ Finish("error", NoId) /\ UNCHANGED cpVars
    \/ code = 409 /\ GoTo(IF pc = "rl_delete" THEN "rl_wait" ELSE "rc_wait")
                  /\ UNCHANGED cpVars
    \/ code = 204 /\ Remove /\ UNCHANGED faults /\ Released

Release(present, Remove) ==
    LET code == DeleteCode(present) IN
    \/ code = 404 /\ Released /\ UNCHANGED cpVars
    \/ code = 409 /\ GoTo(IF pc = "rl_delete" THEN "rl_wait" ELSE "rc_wait")
                  /\ UNCHANGED cpVars
    \/ code = 204 /\ Remove /\ UNCHANGED faults /\ Released

DeleteLoadbalancer == pc = "rl_delete" /\ Release(LbPresent(lb), RemoveLb)

DeleteChild == pc = "rc_delete" /\ Release(ObjPresent(obj), RemoveObj(obj))

\* release_listener after its _release: in sg_mode 'create' the LB's group
\* (_find_listeners_sg) loses the rule described by the listener's name,
\* a missing rule only logged (StopIteration); an error of
\* delete_security_group_rule raises.  In the other modes the group is
\* the first of the VIP port's, outside the model: with no port listed
\* `.security_group_ids` raises AttributeError.
DeleteListenerRule ==
    /\ pc = "rc_rule"
    /\ UNCHANGED <<lbId, lbStatus, objs, vip>>
    /\ IF SgModeCreate
       THEN \/ /\ sgs' = {IF s.owner = lb THEN [s EXCEPT !.rules = @ \ {key}] ELSE s
                          : s \in sgs}
               /\ UNCHANGED faults /\ Finish("ok", NoId)
            \/ /\ key \in RulesOf(lb) /\ CanFault /\ faults' = faults + 1
               /\ UNCHANGED sgs /\ Finish("error", NoId)
       ELSE UNCHANGED <<sgs, faults>> /\ VipPortId(vip, Finish("ok", NoId))

(***************************************************************************)
(* _wait_for_provisioning: one get_load_balancer poll.  ACTIVE returns,   *)
(* ERROR releases the LB and raises ResourceNotReady, anything else sleeps *)
(* and raises ResourceNotReady once the timer runs out.  A vanished LB     *)
(* raises NotFoundException, which _release catches as success and         *)
(* _ensure_provisioned does not catch (its wait is outside its try).       *)
(***************************************************************************)
WaitReturned ==
    IF pc = "ec_wait" THEN GoTo("ec_create")
    ELSE Sleep(IF pc = "rc_wait" THEN "rc_delete" ELSE "rl_delete", NotReady)

WaitForProvisioning ==
    /\ pc \in Waits
    /\ UNCHANGED cpVars
    /\ \/ ~LbPresent(lb) /\ (IF pc = "ec_wait" THEN SdkRaised ELSE Released)
       \/ LbPresent(lb) /\ lbStatus = "ACTIVE" /\ WaitReturned
       \/ LbPresent(lb) /\ lbStatus = "ERROR" /\ StartRelease(lb)
       \/ /\ LbPresent(lb) /\ lbStatus \notin {"ACTIVE", "ERROR"}
          /\ Sleep(pc, NotReady)

(***************************************************************************)
(* release_loadbalancer after its _release: when the LB has a security    *)
(* group, wait (a fresh _ACTIVATION_TIMEOUT) for the LB to disappear and   *)
(* delete the group; a failed delete is logged and the group orphaned.     *)
(***************************************************************************)
FindListenersSg ==
    /\ pc = "rl_findsg"
    /\ UNCHANGED cpVars
    /\ IF SgsOf(lb) # {}
       THEN /\ pc' = "rl_waitdel" /\ left' = Budget
            /\ UNCHANGED <<op, key, nested, lb, obj, outcome, heldLb, held>>
       ELSE Finish("ok", NoId)

\* _wait_for_deletion: the timer running out simply ends the loop.
WaitForDeletion ==
    /\ pc = "rl_waitdel"
    /\ UNCHANGED cpVars
    /\ IF ~LbPresent(lb)
       THEN GoTo("rl_delsg")
       ELSE Sleep("rl_waitdel",
                  /\ left' = 0 /\ pc' = "rl_delsg"
                  /\ UNCHANGED <<op, key, nested, lb, obj, outcome, heldLb, held>>)

\* delete_security_group: Neutron refuses a group still on the VIP port, and
\* any call may fail; every SDKException is logged and the group orphaned.
DeleteSecurityGroup ==
    /\ pc = "rl_delsg"
    /\ UNCHANGED <<lbId, lbStatus, objs, vip>>
    /\ \/ sgs' = {s \in sgs : s.owner # lb \/ s.attached} /\ UNCHANGED faults
       \/ CanFault /\ faults' = faults + 1 /\ UNCHANGED sgs
    /\ Finish("ok", NoId)

(***************************************************************************)
(* The specification.                                                      *)
(***************************************************************************)
Caller ==
    \/ EnsureLoadbalancer
    \/ ReleaseLoadbalancer
    \/ \E k \in Keys : EnsureListener(k) \/ EnsurePool(k) \/ ReleaseChild(k)

Driver ==
    \/ CreateLoadbalancer \/ FindLoadbalancer
    \/ CreateChild \/ FindChild \/ CreateLbSecurityGroup
    \/ DeleteLoadbalancer \/ DeleteChild \/ DeleteListenerRule \/ WaitForProvisioning
    \/ FindListenersSg \/ WaitForDeletion \/ DeleteSecurityGroup

Environment == CpNext /\ UNCHANGED drvVars

Next == Caller \/ Driver \/ Environment

Spec == Init /\ [][Next]_vars

(***************************************************************************)
(* Properties.                                                             *)
(***************************************************************************)
\* _ensure hands back what create answered or what find listed: when it
\* returns a result, that is the id of a resource that exists with its
\* natural key at that moment, and of a load balancer not in ERROR whose
\* VIP port (the port_id the caller keeps) exists (the
\* security group step of ensure_listener comes after it).
EnsureResult ==
    CASE pc' = "ec_sg"      -> obj'
      [] op = "ensure_lb"   -> heldLb'
      [] OTHER              -> held'[key]

EnsureReturnsLiveResource ==
    [][(/\ pc \in {"lb_create", "lb_find", "ec_create", "ec_find"}
        /\ \/ op' = "idle" /\ outcome' = "ok"
           \/ pc' = "ec_sg")
         => IF op = "ensure_lb"
            THEN lbId' = EnsureResult /\ lbStatus' \notin {"NONE", "ERROR"} /\ vip'
            ELSE \E o \in objs' : o.id = EnsureResult /\ o.key = key]_vars

\* ensure_listener returns None only when the provider rejects the
\* listener's protocol (spec: "catches an unsupported protocol error").
ListenerNullOnlyIfRejected ==
    [][(op = "ensure_child" /\ op' = "idle" /\ outcome' = "null")
         => key \in Rejected]_vars
=============================================================================
