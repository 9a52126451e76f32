------------------------------ MODULE Reconcile ------------------------------
(***************************************************************************)
(* The driver under the caller the specification describes: a handler that *)
(* converges one service by ensure_loadbalancer and then ensure_* of every *)
(* child, and that re-enqueues the whole reconciliation when an operation  *)
(* raises (ResourceNotReady or any other error).  A listener for which     *)
(* ensure_listener returned None is skipped, as the driver intends for an  *)
(* unsupported protocol.  The handler itself is not code of this           *)
(* repository; it is the environment the driver's retry policy is written *)
(* for.                                                                    *)
(***************************************************************************)
EXTENDS LBaaSv2Driver

VARIABLES
    lbDone,   \* ensure_loadbalancer returned in this pass
    pending   \* children still to ensure in this pass

rVars == <<lbDone, pending>>
allVars == <<vars, rVars>>

RInit == Init /\ lbDone = FALSE /\ pending = Keys

Passed == lbDone /\ pending = {}

\* The handler starts the next operation of the pass.
HandlerCalls ==
    /\ ~Passed
    /\ IF ~lbDone THEN EnsureLoadbalancer
       ELSE \E k \in pending : EnsureListener(k) \/ EnsurePool(k)
    /\ UNCHANGED rVars

\* A driver step; when it ends the operation the handler takes the result,
\* or starts the pass again on an exception.
DriverStep ==
    /\ Driver
    /\ IF op' = "idle"
       THEN IF outcome' \in {"ok", "null"}
            THEN IF op = "ensure_lb"
                 THEN lbDone' = TRUE /\ UNCHANGED pending
                 ELSE pending' = pending \ {key} /\ UNCHANGED lbDone
            ELSE lbDone' = FALSE /\ pending' = Keys
       ELSE UNCHANGED rVars

RNext ==
    \/ HandlerCalls
    \/ DriverStep
    \/ Environment /\ UNCHANGED rVars

\* The handler and the driver keep going while they can; Octavia makes the
\* VIP port and finishes every provisioning and deletion it has started
\* (failing it is a fault).
RSpec ==
    /\ RInit /\ [][RNext]_allVars
    /\ WF_allVars(HandlerCalls) /\ WF_allVars(DriverStep)
    /\ WF_allVars(VipPortCreated /\ UNCHANGED <<drvVars, rVars>>)
    /\ WF_allVars(ProvisioningComplete /\ UNCHANGED <<drvVars, rVars>>)
    /\ WF_allVars(DeletionComplete /\ UNCHANGED <<drvVars, rVars>>)

(***************************************************************************)
(* Properties.                                                             *)
(***************************************************************************)
\* Every child the handler asked for exists under the load balancer it holds.
Converged ==
    /\ heldLb # NoId /\ lbId = heldLb
    /\ \A k \in Keys \ Rejected : \E o \in ObjsOf(k) : o.id = held[k]

\* Re-enqueueing on ResourceNotReady is enough: through lost and 500
\* answers to create, Conflicts from a busy load balancer and the
\* AttributeError of a VIP port not listed yet, the handler
\* eventually completes a pass and from then on the service is converged.
Converges == <>[](Passed /\ Converged)
=============================================================================
