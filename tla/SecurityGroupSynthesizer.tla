----------------------- MODULE SecurityGroupSynthesizer -----------------------
(***************************************************************************)
(* LBaaSv2Driver's mirroring of network-policy rules onto a load          *)
(* balancer (lbaasv2.py): _apply_members_security_groups and its two       *)
(* modes, the legacy pass that mirrors the pods' ingress rules onto the    *)
(* LB's dedicated security group (sg_mode=create) and prunes the rest, and *)
(* the ACL pass (_create_listeners_acls, _update_listener_acls) that sets  *)
(* the listener's allowed_cidrs.  It is run for one listener by            *)
(* ensure_member and for every Service port by update_lbaas_sg, which the  *)
(* network-policy handler calls after it has changed the policy's rules    *)
(* and the pods' security groups.  The passes run one at a time.           *)
(* A rule of the LB's group is [proto, port, cidr]; Neutron refuses a      *)
(* duplicate with 409, which the code ignores, so the group is a set.     *)
(***************************************************************************)
EXTENDS Naturals, Sequences, SequencesExt

CONSTANTS
    SvcPorts,          \* the Service's ports, in spec order: [proto, port, target]
    Listeners,         \* the ports that have a listener
    Cidrs,             \* remote_ip_prefix values
    None,              \* Python None
    NpSgs,             \* security groups of network policies
    DefaultSg,         \* CONF.neutron_defaults.pod_security_groups
    LbSgId,            \* the LB's own security group
    NpRuleSet,         \* rules a policy group may hold: [dir, proto, lo, hi, cidr]
    SgLists,           \* security-group lists the policy handler may pass
    MaxFaults,         \* bound on failed Neutron/Octavia calls
    MaxPolicyChanges   \* bound on policy changes

VARIABLES
    rules,     \* rules of the LB's security group (legacy mode)
    acl,       \* allowed_cidrs of each listener (ACL mode), None if unrestricted
    lbLive,    \* the load balancer exists (not released on ERROR)
    lbSg,      \* the LB's security group exists
    sgs,       \* loadbalancer.security_groups of the annotated lbaas state
    npRules,   \* the rules of each policy group, as Neutron has them
    op,        \* policy handler: "idle", "update" (in update_lbaas_sg), "failed"
    newSgs,    \* the sgs argument of update_lbaas_sg
    idx,       \* 0 before set_lbaas_state, then the Service port being handled
    faults,    \* failed calls so far
    changes,   \* policy changes so far
    pass,      \* observation: the last listener pass and what it did
    octaviaAcls  \* self._octavia_acls, set once by the capability probe

vars == <<rules, acl, lbLive, lbSg, sgs, npRules, op, newSgs, idx, faults, changes, pass,
          octaviaAcls>>

RuleSet == [proto : {L.proto : L \in Listeners}, port : {L.port : L \in Listeners},
            cidr : Cidrs \cup {None}]
NoPass == [lsn |-> None, applied |-> FALSE, failed |-> FALSE, deleted |-> {}]

DefaultRule(L) == [proto |-> L.proto, port |-> L.port, cidr |-> None]
ForListener(x, L) == x.proto = L.proto /\ x.port = L.port

TypeOK ==
    /\ rules \subseteq RuleSet
    /\ acl \in [Listeners -> {None} \cup SUBSET Cidrs]
    /\ lbLive \in BOOLEAN /\ lbSg \in BOOLEAN
    /\ sgs \in SgLists /\ npRules \in [NpSgs -> SUBSET NpRuleSet]
    /\ op \in {"idle", "update", "failed"} /\ newSgs \in SgLists
    /\ idx \in 0..Len(SvcPorts) /\ faults \in 0..MaxFaults
    /\ changes \in 0..MaxPolicyChanges
    /\ pass \in [lsn : Listeners \cup {None}, applied : BOOLEAN, failed : BOOLEAN,
                 deleted : SUBSET RuleSet]
    /\ octaviaAcls \in BOOLEAN

\* Each listener was created with its default rule (_create_lb_security_group_rule)
\* and no allowed_cidrs; the policy handler is about to call update_lbaas_sg
\* for the policy in force.
Init ==
    /\ rules = {DefaultRule(L) : L \in Listeners} /\ acl = [L \in Listeners |-> None]
    /\ lbLive = TRUE /\ lbSg \in BOOLEAN
    /\ sgs \in SgLists /\ npRules \in [NpSgs -> SUBSET NpRuleSet]
    /\ op = "update" /\ newSgs \in SgLists /\ idx = 0 /\ faults = 0 /\ changes = 0
    /\ pass = NoPass /\ octaviaAcls \in BOOLEAN

(***************************************************************************)
(* What a pass reads.                                                      *)
(***************************************************************************)
\* `sgs = new_sgs if new_sgs else loadbalancer.security_groups`
Used(new) == IF new # <<>> THEN new ELSE sgs

\* lb_sg: with new_sgs the group found by name, else the one of
\* loadbalancer.security_groups that carries the LB's name.
LbSgFound(new) == lbSg /\ (new # <<>> \/ LbSgId \in ToSet(sgs))

\* The groups whose rules are read: those before the default group, at
\* which the loop breaks, other than lb_sg.
ReadSgs(used) ==
    LET k == SelectInSeq(used, LAMBDA s : s = DefaultSg)
    IN ToSet(IF k = 0 THEN used ELSE SubSeq(used, 1, k - 1)) \ {LbSgId}

AddDefaultRules(used) == DefaultSg \in ToSet(used)

\* Mutation of Matches: the port range taken as range(min_port, max_port).
MatchesExclusive(r, L) ==
    /\ r.dir = "ingress" /\ r.proto = L.proto
    /\ r.lo = 0 \/ L.target \in r.lo..(r.hi - 1)

\* An ingress rule of the listener's protocol whose port range, if it has
\* one (`if min_port and ...`), contains the target port.
Matches(r, L) ==
    /\ r.dir = "ingress" /\ r.proto = L.proto
    /\ r.lo = 0 \/ L.target \in r.lo..r.hi

PodRules(L, used) == {r \in UNION {npRules[s] : s \in ReadSgs(used)} : Matches(r, L)}

Mirror(L, r) == [proto |-> L.proto, port |-> L.port, cidr |-> r.cidr]

IsDefaultRule(x) == x.cidr = None

DeleteRuleIfNoMatch(x, pod) == x.cidr \notin {r.cidr : r \in pod}

\* The pruning loop: a rule of this listener is deleted when no pod rule
\* has its CIDR; a rule of another port only when it is a default rule and
\* pod rules were found.
StaleRules(L, pod) ==
    {x \in rules : IF ForListener(x, L) THEN DeleteRuleIfNoMatch(x, pod)
                   ELSE pod # {} /\ IsDefaultRule(x)}

(***************************************************************************)
(* The two passes.                                                         *)
(***************************************************************************)
\* Mutation of LegacyPass: a failed delete_security_group_rule is logged
\* and the pass goes on, as a failed create is.
LegacyPassDeleteLogged(L, used, Ok, Raise) ==
    LET pod      == PodRules(L, used)
        mirrored == {Mirror(L, r) : r \in pod}
        stale    == StaleRules(L, pod)
        restored == IF AddDefaultRules(used) THEN {DefaultRule(L)} ELSE {}
        creates  == (mirrored \ rules) \cup (restored \ ((rules \cup mirrored) \ stale))
    IN \/ \E failed \in SUBSET creates :
             /\ failed # {} => faults < MaxFaults
             /\ faults' = IF failed = {} THEN faults ELSE faults + 1
             /\ rules' = (((rules \cup mirrored) \ stale) \cup restored) \ failed
             /\ pass' = [lsn |-> L, applied |-> TRUE, failed |-> failed # {},
                         deleted |-> stale]
             /\ Ok
       \/ /\ faults < MaxFaults /\ stale # {}
          /\ \E done \in SUBSET stale :
                /\ done # stale /\ rules' = (rules \cup mirrored) \ done
                /\ pass' = [lsn |-> L, applied |-> TRUE, failed |-> TRUE, deleted |-> done]
          /\ faults' = faults + 1
          /\ Ok

\* The legacy pass: mirror every pod rule onto the LB's group, prune the
\* group's rules as read at the start, restore the default rule if a pod
\* group is the default one.  A failed create is logged and skipped; a
\* failed delete raises out of the pass, after the deletes before it.
LegacyPass(L, used, Ok, Raise) ==
    LET pod      == PodRules(L, used)
        mirrored == {Mirror(L, r) : r \in pod}
        stale    == StaleRules(L, pod)
        restored == IF AddDefaultRules(used) THEN {DefaultRule(L)} ELSE {}
        creates  == (mirrored \ rules) \cup (restored \ ((rules \cup mirrored) \ stale))
    IN \/ \E failed \in SUBSET creates :
             /\ failed # {} => faults < MaxFaults
             /\ faults' = IF failed = {} THEN faults ELSE faults + 1
             /\ rules' = (((rules \cup mirrored) \ stale) \cup restored) \ failed
             /\ pass' = [lsn |-> L, applied |-> TRUE, failed |-> failed # {},
                         deleted |-> stale]
             /\ Ok
       \/ /\ faults < MaxFaults /\ stale # {}
          /\ \E done \in SUBSET stale :
                /\ done # stale /\ rules' = (rules \cup mirrored) \ done
                /\ pass' = [lsn |-> L, applied |-> TRUE, failed |-> TRUE, deleted |-> done]
          /\ faults' = faults + 1
          /\ Raise

\* Mutation of AllowedCidrs: a rule without remote_ip_prefix is listed
\* like the others instead of opening the listener.
AllowedCidrsListsNone(L, used) ==
    IF AddDefaultRules(used) THEN None ELSE {r.cidr : r \in PodRules(L, used)}

\* _create_listeners_acls: the CIDRs of the pod rules, or None (no
\* restriction) for the default group or a rule without a prefix.
AllowedCidrs(L, used) ==
    IF AddDefaultRules(used) \/ \E r \in PodRules(L, used) : r.cidr = None
    THEN None
    ELSE {r.cidr : r \in PodRules(L, used)}

\* Mutation of UpdateListenerAcls: a failed update is logged and ignored.
UpdateListenerAclsSwallows(L, allowed, Ok, Raise) ==
    LET Failed == pass' = [lsn |-> L, applied |-> TRUE, failed |-> TRUE, deleted |-> {}]
    IN \/ /\ lbLive /\ acl' = [acl EXCEPT ![L] = allowed]
          /\ pass' = [lsn |-> L, applied |-> TRUE, failed |-> FALSE, deleted |-> {}]
          /\ UNCHANGED <<faults, lbLive, lbSg>> /\ Ok
       \/ /\ lbLive /\ faults < MaxFaults /\ faults' = faults + 1
          /\ UNCHANGED <<acl, lbLive, lbSg>> /\ Failed /\ Ok
       \/ /\ lbLive /\ faults < MaxFaults /\ faults' = faults + 1
          /\ lbLive' = FALSE /\ lbSg' \in {FALSE, lbSg}
          /\ UNCHANGED acl /\ Failed /\ Raise
       \/ ~lbLive /\ UNCHANGED <<acl, faults, lbLive, lbSg>> /\ Failed /\ Raise

\* _update_listener_acls: wait for the LB to be ACTIVE, then update the
\* listener (an empty list also sets admin_state_up False).  A wait that
\* times out, or a failed update, raises ResourceNotReady.  A wait that
\* sees ERROR first calls release_loadbalancer: the LB goes with its
\* listeners, and its group is deleted or, when the deletion wait timed
\* out or the delete failed, orphaned.  Once the LB is gone,
\* get_load_balancer raises NotFoundException out of the wait.
UpdateListenerAcls(L, allowed, Ok, Raise) ==
    LET Failed == pass' = [lsn |-> L, applied |-> TRUE, failed |-> TRUE, deleted |-> {}]
    IN \/ /\ lbLive /\ acl' = [acl EXCEPT ![L] = allowed]
          /\ pass' = [lsn |-> L, applied |-> TRUE, failed |-> FALSE, deleted |-> {}]
          /\ UNCHANGED <<faults, lbLive, lbSg>> /\ Ok
       \/ /\ lbLive /\ faults < MaxFaults /\ faults' = faults + 1
          /\ UNCHANGED <<acl, lbLive, lbSg>> /\ Failed /\ Raise
       \/ /\ lbLive /\ faults < MaxFaults /\ faults' = faults + 1
          /\ lbLive' = FALSE /\ lbSg' \in {FALSE, lbSg}
          /\ UNCHANGED acl /\ Failed /\ Raise
       \/ ~lbLive /\ UNCHANGED <<acl, faults, lbLive, lbSg>> /\ Failed /\ Raise

\* _apply_members_security_groups: nothing while the LB's group is not
\* found, the ACL pass if Octavia supports ACLs, else the legacy pass.
ApplyMembersSecurityGroups(L, new, Ok, Raise) ==
    \/ /\ ~LbSgFound(new)
       /\ pass' = [NoPass EXCEPT !.lsn = L]
       /\ UNCHANGED <<rules, acl, faults, lbLive, lbSg>>
       /\ Ok
    \/ /\ LbSgFound(new) /\ octaviaAcls
       /\ UpdateListenerAcls(L, AllowedCidrs(L, Used(new)), Ok, Raise)
       /\ UNCHANGED rules
    \/ /\ LbSgFound(new) /\ ~octaviaAcls
       /\ LegacyPass(L, Used(new), Ok, Raise)
       /\ UNCHANGED <<acl, lbLive, lbSg>>

(***************************************************************************)
(* The callers.                                                            *)
(***************************************************************************)
handlerVars == <<sgs, npRules, op, newSgs, idx, changes, octaviaAcls>>

\* ensure_member with a listener port: the pass for that listener with
\* loadbalancer.security_groups.  Its exception goes to the LBaaS handler.
EnsureMember(L) ==
    /\ op # "update"
    /\ ApplyMembersSecurityGroups(L, <<>>, TRUE, TRUE)
    /\ UNCHANGED handlerVars

\* The network-policy handler changes a policy's rules or the pods' groups
\* and calls update_lbaas_sg with the pods' security groups.
PolicyChange ==
    /\ op = "idle" /\ changes < MaxPolicyChanges
    /\ npRules' \in [NpSgs -> SUBSET NpRuleSet] /\ newSgs' \in SgLists
    /\ op' = "update" /\ idx' = 0 /\ changes' = changes + 1 /\ pass' = NoPass
    /\ UNCHANGED <<rules, acl, lbLive, lbSg, sgs, faults, octaviaAcls>>

\* update_lbaas_sg up to its loop: read the endpoints' lbaas state (raise
\* ResourceNotReady if it is not annotated yet), store sgs in it.
UpdateLbaasSg ==
    /\ op = "update" /\ idx = 0
    /\ \/ faults < MaxFaults /\ faults' = faults + 1 /\ op' = "failed"
          /\ UNCHANGED <<sgs, idx, pass>>
       \/ sgs' = newSgs /\ idx' = 1 /\ pass' = NoPass /\ UNCHANGED <<op, faults>>
    /\ UNCHANGED <<rules, acl, lbLive, lbSg, npRules, newSgs, changes, octaviaAcls>>

NextPort ==
    IF idx = Len(SvcPorts) THEN op' = "idle" /\ idx' = 0
    ELSE idx' = idx + 1 /\ UNCHANGED op

\* One iteration of `for port in svc_ports`: skipped when the port has no
\* listener, else the pass for it with new_sgs; an exception leaves
\* update_lbaas_sg.
UpdatePort ==
    /\ op = "update" /\ idx >= 1
    /\ LET P == SvcPorts[idx] IN
       \/ /\ P \notin Listeners /\ NextPort
          /\ UNCHANGED <<rules, acl, faults, pass, lbLive, lbSg>>
       \/ P \in Listeners
          /\ ApplyMembersSecurityGroups(P, newSgs, NextPort, op' = "failed" /\ idx' = 0)
    /\ UNCHANGED <<sgs, npRules, newSgs, changes, octaviaAcls>>

\* The handler re-enqueues the event after an exception.
Retry ==
    /\ op = "failed" /\ op' = "update" /\ idx' = 0
    /\ UNCHANGED <<rules, acl, lbLive, lbSg, sgs, npRules, newSgs, faults, changes, pass,
                   octaviaAcls>>

Next ==
    \/ \E L \in Listeners : EnsureMember(L)
    \/ PolicyChange \/ UpdateLbaasSg \/ UpdatePort \/ Retry

\* The policy handler runs its event to the end and retries after an
\* exception; ensure_member passes happen on endpoint events, not forever.
Spec ==
    /\ Init /\ [][Next]_vars
    /\ WF_vars(UpdateLbaasSg) /\ WF_vars(UpdatePort) /\ WF_vars(Retry)

(***************************************************************************)
(* Properties.                                                             *)
(***************************************************************************)
\* The access a listener gives: from anywhere, or from a set of CIDRs (an
\* empty ACL list disables the listener); none once the LB is gone.
Access(open, cidrs) == IF open THEN [open |-> TRUE, cidrs |-> {}]
                       ELSE [open |-> FALSE, cidrs |-> cidrs]
Effective(L) ==
    IF ~lbLive THEN Access(FALSE, {})
    ELSE IF octaviaAcls
    THEN Access(acl[L] = None, IF acl[L] = None THEN {} ELSE acl[L])
    ELSE Access(DefaultRule(L) \in rules,
                {x.cidr : x \in {y \in rules : ForListener(y, L)}})

\* The access the policy grants (spec 4.4): from anywhere when a pod uses
\* the default group or an admitting rule has no prefix, else from the
\* prefixes of the ingress rules whose range holds the target port.
Admitting(L) ==
    {r \in UNION {npRules[s] : s \in ToSet(sgs) \ {DefaultSg, LbSgId}} :
        r.dir = "ingress" /\ r.proto = L.proto
        /\ (r.lo = 0 \/ (r.lo <= L.target /\ L.target <= r.hi))}
Intended(L) ==
    Access(DefaultSg \in ToSet(sgs) \/ None \in {r.cidr : r \in Admitting(L)},
           {r.cidr : r \in Admitting(L)})

\* A pass for a listener that found the LB's group and in which no call
\* failed leaves the listener with exactly the access the policy grants.
PassEstablishesIntent ==
    pass.applied /\ ~pass.failed => Effective(pass.lsn) = Intended(pass.lsn)

\* When update_lbaas_sg returns, every listener of the Service gives the
\* access the new policy grants (if the LB's group exists).
UpdateEstablishesIntent ==
    [][op = "update" /\ op' = "idle"
         => (lbSg => \A L \in Listeners : Effective(L) = Intended(L))']_vars

\* The listener admits traffic the policy does not grant: it is open, or
\* admits a prefix, where the policy grants only other prefixes.
AdmitsMore(L) ==
    LET e == Effective(L)
        i == Intended(L)
    IN ~i.open /\ (e.open \/ ~(e.cidrs \subseteq i.cidrs))

\* A delete that fails in the legacy pruning loop raises out of
\* update_lbaas_sg after the mirrored rules were created and only some of
\* the stale ones deleted, and a failed ACL update keeps the old list: the
\* listener then admits more than the policy grants until the handler's
\* retry.  update_lbaas_sg never returns normally with a listener of the
\* Service admitting a source the policy does not grant (it may return
\* with one admitting less, finding sg_other_listener).
UpdateNeverReturnsWider ==
    [][op = "update" /\ op' = "idle"
         => (lbSg => \A L \in Listeners : ~AdmitsMore(L))']_vars

\* In ACL mode, through timed-out waits, failed updates and the handler's
\* retries, the listeners end up with the access the last policy grants,
\* unless a wait saw ERROR and released the LB (its listeners then are
\* gone and every retry raises NotFound until the LB is re-created).
AccessConverges ==
    <>[](octaviaAcls /\ lbLive /\ lbSg
           => \A L \in Listeners : Effective(L) = Intended(L))

\* Spec 4.4: a default-allow rule is deleted only while a CIDR rule of its
\* listener is kept, so that pruning never cuts a listener off.
DefaultDeletedOnlyWithCidrKept ==
    \A L \in Listeners :
        DefaultRule(L) \in pass.deleted
            => \E x \in rules : ForListener(x, L) /\ x.cidr # None
====
