------------------------------ MODULE CNIDaemon ------------------------------
(***************************************************************************)
(* The CNI daemon's pod registry, fed by a pod watch.  K8sClient.watch    *)
(* (the K8sWatch module) streams pod events to a CNIPipeline whose        *)
(* CallbackHandler (cni/handlers.py) calls on_done(pod, vifs) for a pod   *)
(* that carries a VIF annotation and on_del(pod) when a pod is deleted.   *)
(* The daemon keeps one registry entry per pod.  The kubelet, a second    *)
(* actor, asks the daemon to ADD a sandbox (poll the registry, record the *)
(* containerid, connect the VIFs) and to DEL it (disconnect, then mark    *)
(* the entry unplugged, or drop it if the pod's deletion was seen).       *)
(* The daemon's registry handlers are not part of this repository: they   *)
(* follow its unit tests (tests/unit/cni/test_service.py and              *)
(* plugins/test_k8s_cni_registry.py).  Every registry update is atomic:   *)
(* it is done under the pod's lock.  Pod events other than creation and   *)
(* deletion do not change the registry and are not modelled: an ADDED    *)
(* event stands for the pod as it is once annotated.  Pod names are not   *)
(* reused.                                                                 *)
(***************************************************************************)
EXTENDS Naturals, Sequences

CONSTANTS
    Objs, None, MaxChanges, MaxDrops, MaxRaises, Compaction,
    Cids,         \* sandbox container ids
    MaxTries      \* registry polls of an ADD before ResourceNotReady

VARIABLES
    live, log, compacted, drops, raises, rv, conn, queue, cursor, gone, view,
    registry,  \* pod -> [containerid, unplugged, delReceived], None if absent
    sandbox,   \* pod -> the kubelet's sandbox: [cid, st]
    tries,     \* pod -> registry polls of the running ADD
    plugged,   \* pod -> containers whose VIFs are connected
    used,      \* pod -> the ids of its sandboxes so far
    hostNetwork  \* pods with no VIF annotation, for which kubelet calls no CNI

W == INSTANCE K8sWatch

watchVars == <<live, log, compacted, drops, raises, rv, conn, queue, cursor, gone, view>>
cniVars == <<registry, sandbox, tries, plugged, used, hostNetwork>>
vars == <<watchVars, cniVars>>

Entries == [containerid : Cids \cup {None}, unplugged : BOOLEAN, delReceived : BOOLEAN]
NoSandbox == [cid |-> None, st |-> "none"]

TypeOK ==
    /\ W!TypeOK
    /\ registry \in [Objs -> Entries \cup {None}]
    /\ sandbox \in [Objs -> {NoSandbox}
                      \cup [cid : Cids, st : {"adding", "running", "failed"}]]
    /\ tries \in [Objs -> 0..MaxTries] /\ plugged \in [Objs -> SUBSET Cids]
    /\ used \in [Objs -> SUBSET Cids] /\ hostNetwork \subseteq Objs

Init ==
    /\ W!Init
    /\ registry = [o \in Objs |-> None] /\ sandbox = [o \in Objs |-> NoSandbox]
    /\ tries = [o \in Objs |-> 0] /\ plugged = [o \in Objs |-> {}]
    /\ used = [o \in Objs |-> {}] /\ hostNetwork \in SUBSET Objs

Ever(o) == \E i \in DOMAIN log : log[i].obj = o

(***************************************************************************)
(* The watch thread: CallbackHandler on the delivered event.               *)
(***************************************************************************)
\* The event Deliver hands out (the head of the listing, else the log).
Delivered ==
    IF queue # <<>> THEN Head(queue)
    ELSE [type |-> log[cursor + 1].type, obj |-> log[cursor + 1].obj, rv |-> cursor + 1]

\* on_done: a pod without an entry gets a fresh one; a known pod keeps its.
OnDone(o) ==
    registry' = [registry EXCEPT ![o] =
                   IF @ = None
                   THEN [containerid |-> None, unplugged |-> FALSE, delReceived |-> FALSE]
                   ELSE @]

\* on_deleted: drop the entry if the VIFs are unplugged, else mark it.
OnDeleted(o) ==
    registry' = [registry EXCEPT ![o] =
                   IF @ = None \/ @.unplugged THEN None
                   ELSE [@ EXCEPT !.delReceived = TRUE]]

\* _get_vifs: the VIFs of the pod's VIF annotation, {} (KeyError) when it
\* has none.  The VIF dict is abstracted to its interface names.
GetVifs(o) == IF o \in hostNetwork THEN {} ELSE {"eth0"}

\* should_callback keeps the pod and its VIFs for callback() and says
\* whether there is at least one VIF; callback() calls on_done with them.
ShouldCallback(vifs) == vifs # {}

\* on_present: _get_vifs, then on_done when should_callback says so.
OnPresent(o) ==
    IF ShouldCallback(GetVifs(o)) THEN OnDone(o) ELSE UNCHANGED registry

\* The pipeline hands ADDED to on_present and DELETED to on_deleted, which
\* calls the delete callback; an ERROR event reaches no handler.
Dispatch(e) ==
    /\ \/ e.type = "ADDED" /\ OnPresent(e.obj)
       \/ e.type = "DELETED" /\ OnDeleted(e.obj)
       \/ e.type = "ERROR" /\ UNCHANGED registry
    /\ UNCHANGED <<sandbox, tries, plugged, used, hostNetwork>>

DeliverPodEvent == W!Deliver /\ Dispatch(Delivered)

(***************************************************************************)
(* The kubelet and the daemon's ADD and DEL requests for one pod.          *)
(***************************************************************************)
\* The kubelet creates a sandbox for a live pod and sends ADD.
RunPodSandbox(o) ==
    /\ o \in live /\ o \notin hostNetwork /\ sandbox[o] = NoSandbox
    /\ \E c \in Cids \ UNION {used[p] : p \in Objs} :
          /\ sandbox' = [sandbox EXCEPT ![o] = [cid |-> c, st |-> "adding"]]
          /\ used' = [used EXCEPT ![o] = @ \cup {c}]
    /\ tries' = [tries EXCEPT ![o] = 0]
    /\ UNCHANGED <<registry, plugged, hostNetwork>>

\* add: the registry has no entry yet (KeyError); sleep and poll again.
AddPoll(o) ==
    /\ sandbox[o].st = "adding" /\ registry[o] = None /\ tries[o] < MaxTries
    /\ tries' = [tries EXCEPT ![o] = @ + 1]
    /\ UNCHANGED <<registry, sandbox, plugged, used, hostNetwork>>

\* add: vif_annotation_timeout passed without an entry: ResourceNotReady.
AddTimeout(o) ==
    /\ sandbox[o].st = "adding" /\ registry[o] = None /\ tries[o] = MaxTries
    /\ sandbox' = [sandbox EXCEPT ![o].st = "failed"]
    /\ UNCHANGED <<registry, tries, plugged, used, hostNetwork>>

\* add: under the pod's lock, record the containerid, then connect.
Add(o) ==
    /\ sandbox[o].st = "adding" /\ registry[o] # None
    /\ registry' = [registry EXCEPT ![o].containerid = sandbox[o].cid]
    /\ plugged' = [plugged EXCEPT ![o] = @ \cup {sandbox[o].cid}]
    /\ sandbox' = [sandbox EXCEPT ![o].st = "running"]
    /\ UNCHANGED <<tries, used, hostNetwork>>

DelSandbox(o, c) ==
    LET e == registry[o] IN
    IF e = None \/ e.containerid \notin {None, c}
    THEN UNCHANGED <<registry, plugged>>
    ELSE /\ plugged' = [plugged EXCEPT ![o] = @ \ {c}]
         /\ registry' = [registry EXCEPT ![o] =
                           IF e.delReceived THEN None
                           ELSE [e EXCEPT !.unplugged = TRUE]]

\* The kubelet tears a sandbox down: a failed one at once, a running one
\* once the pod is deleted.  It may then start another for a live pod.
StopPodSandbox(o) ==
    /\ \/ sandbox[o].st = "failed"
       \/ sandbox[o].st = "running" /\ o \notin live
    /\ DelSandbox(o, sandbox[o].cid)
    /\ sandbox' = [sandbox EXCEPT ![o] = NoSandbox]
    /\ UNCHANGED <<tries, used, hostNetwork>>

\* The kubelet sends DEL again for a sandbox it tore down before (its
\* garbage collection of old sandboxes), possibly after a newer ADD.
RepeatDel(o) ==
    /\ \E c \in used[o] \ {sandbox[o].cid} : DelSandbox(o, c)
    /\ UNCHANGED <<sandbox, tries, used, hostNetwork>>

Kubelet(o) ==
    \/ RunPodSandbox(o) \/ AddPoll(o) \/ AddTimeout(o) \/ Add(o)
    \/ StopPodSandbox(o) \/ RepeatDel(o)

Next ==
    \/ \E o \in Objs : W!Create(o) /\ ~Ever(o) /\ UNCHANGED cniVars
    \/ \E o \in Objs : W!Delete(o) /\ UNCHANGED cniVars
    \/ /\ W!Compact \/ W!Connect \/ W!WatchRaises \/ W!StreamEnds \/ W!ConnectionLost
       /\ UNCHANGED cniVars
    \/ DeliverPodEvent
    \/ \E o \in Objs : Kubelet(o) /\ UNCHANGED watchVars

Spec == Init /\ [][Next]_vars

=============================================================================
