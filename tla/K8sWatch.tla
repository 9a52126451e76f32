------------------------------ MODULE K8sWatch ------------------------------
(***************************************************************************)
(* K8sClient.watch (k8s_client.py): a generator that streams watch events  *)
(* of a path, remembers the resourceVersion of the last event it handed    *)
(* out and, when the connection times out or is closed, reconnects from   *)
(* it.  The API server is part of the model: its change log (resource-     *)
(* Version i is the i-th change), a compaction point before which the log  *)
(* is gone, and the watch semantics of the API: from a kept resourceVersion*)
(* it replays the log, from a compacted one it sends one ERROR event (a   *)
(* Status with empty metadata, "410 Gone") and closes, and without one it *)
(* sends an ADDED event for every live object (with that object's own     *)
(* resourceVersion) and then follows the log.  The consumer applies ADDED *)
(* and DELETED to its view of the live objects, as the watcher's handlers  *)
(* do, and ignores ERROR.                                                  *)
(***************************************************************************)
EXTENDS Naturals, Sequences, SequencesExt

CONSTANTS
    Objs,        \* objects under the watched path
    None,        \* Python None
    MaxChanges,  \* bound on the server's changes
    MaxDrops,    \* bound on timeouts and closed connections
    MaxRaises,   \* bound on error answers that make watch raise
    Compaction   \* may the server compact its log?

VARIABLES
    live,       \* objects that exist on the server
    log,        \* the change log: [type, obj]; index = resourceVersion
    compacted,  \* resourceVersions up to this one are compacted away
    drops,      \* connections lost so far
    raises,     \* error answers so far
    rv,         \* resource_version of the generator
    conn,       \* "closed", "open" or "raised" (the generator raised)
    queue,      \* events the open connection sends before following the log
    cursor,     \* the log position the open connection follows from
    gone,       \* the open connection follows no log (after a 410 ERROR)
    view        \* the consumer's view of the live objects

vars == <<live, log, compacted, drops, raises, rv, conn, queue, cursor, gone, view>>

Events == [type : {"ADDED", "DELETED"}, obj : Objs, rv : 1..MaxChanges]
          \cup {[type |-> "ERROR", obj |-> None, rv |-> None]}

\* The object's metadata.resourceVersion: its last change.
ObjRv(o) == Max({i \in DOMAIN log : log[i].obj = o})

TypeOK ==
    /\ live \subseteq Objs /\ log \in Seq([type : {"ADDED", "DELETED"}, obj : Objs])
    /\ Len(log) <= MaxChanges /\ compacted \in 0..Len(log)
    /\ drops \in 0..MaxDrops /\ raises \in 0..MaxRaises
    /\ rv \in {None} \cup 1..Len(log) /\ conn \in {"closed", "open", "raised"}
    /\ queue \in Seq(Events) /\ cursor \in 0..Len(log) /\ gone \in BOOLEAN
    /\ view \subseteq Objs

Init ==
    /\ live = {} /\ log = <<>> /\ compacted = 0 /\ drops = 0 /\ raises = 0
    /\ rv = None /\ conn = "closed" /\ queue = <<>> /\ cursor = 0
    /\ gone = FALSE /\ view = {}

serverVars == <<live, log, compacted>>

(***************************************************************************)
(* The API server.                                                         *)
(***************************************************************************)
Create(o) ==
    /\ o \notin live /\ Len(log) < MaxChanges
    /\ live' = live \cup {o} /\ log' = Append(log, [type |-> "ADDED", obj |-> o])
    /\ UNCHANGED <<compacted, drops, raises, rv, conn, queue, cursor, gone, view>>

Delete(o) ==
    /\ o \in live /\ Len(log) < MaxChanges
    /\ live' = live \ {o} /\ log' = Append(log, [type |-> "DELETED", obj |-> o])
    /\ UNCHANGED <<compacted, drops, raises, rv, conn, queue, cursor, gone, view>>

Compact ==
    /\ Compaction /\ compacted < Len(log)
    /\ compacted' = Len(log)
    /\ UNCHANGED <<live, log, drops, raises, rv, conn, queue, cursor, gone, view>>

(***************************************************************************)
(* The generator.                                                          *)
(***************************************************************************)
\* Mutation of Connect: resumes one change after the saved version.
ConnectSkipOne ==
    /\ conn = "closed"
    /\ conn' = "open"
    /\ IF rv = None
       THEN /\ \E s \in SetToSeqs(live) :
                  queue' = [j \in DOMAIN s |->
                              [type |-> "ADDED", obj |-> s[j], rv |-> ObjRv(s[j])]]
            /\ cursor' = Len(log) /\ gone' = FALSE
       ELSE IF rv >= compacted
       THEN queue' = <<>> /\ cursor' = rv + 1 /\ gone' = FALSE
       ELSE /\ queue' = <<[type |-> "ERROR", obj |-> None, rv |-> None]>>
            /\ cursor' = Len(log) /\ gone' = TRUE
    /\ UNCHANGED <<serverVars, drops, raises, rv, view>>

\* session.get(url, watch=true[, resourceVersion]) answered with a stream.
Connect ==
    /\ conn = "closed"
    /\ conn' = "open"
    /\ IF rv = None
       THEN /\ \E s \in SetToSeqs(live) :
                  queue' = [j \in DOMAIN s |->
                              [type |-> "ADDED", obj |-> s[j], rv |-> ObjRv(s[j])]]
            /\ cursor' = Len(log) /\ gone' = FALSE
       ELSE IF rv >= compacted
       THEN queue' = <<>> /\ cursor' = rv /\ gone' = FALSE
       ELSE /\ queue' = <<[type |-> "ERROR", obj |-> None, rv |-> None]>>
            /\ cursor' = Len(log) /\ gone' = TRUE
    /\ UNCHANGED <<serverVars, drops, raises, rv, view>>

\* `if not response.ok: raise`, or an SSLError other than a timeout: the
\* exception leaves the generator.
WatchRaises ==
    /\ conn \in {"closed", "open"} /\ raises < MaxRaises
    /\ conn' = "raised" /\ raises' = raises + 1
    /\ UNCHANGED <<serverVars, drops, rv, queue, cursor, gone, view>>

Apply(e) ==
    CASE e.type = "ADDED"   -> view \cup {e.obj}
      [] e.type = "DELETED" -> view \ {e.obj}
      [] OTHER              -> view

\* `yield line_dict`, then resource_version = the event object's
\* metadata.get('resourceVersion'), None for a Status without one.
Deliver ==
    /\ conn = "open"
    /\ \/ /\ queue # <<>>
          /\ view' = Apply(Head(queue)) /\ rv' = Head(queue).rv
          /\ queue' = Tail(queue) /\ UNCHANGED cursor
       \/ /\ queue = <<>> /\ ~gone /\ cursor < Len(log)
          /\ LET e == [type |-> log[cursor + 1].type, obj |-> log[cursor + 1].obj,
                       rv |-> cursor + 1] IN
             view' = Apply(e) /\ rv' = e.rv
          /\ cursor' = cursor + 1 /\ UNCHANGED queue
    /\ UNCHANGED <<serverVars, drops, raises, conn, gone>>

\* The server closes a stream it has sent everything on (after the 410
\* ERROR at once): the for loop ends and the while loop reconnects.
StreamEnds ==
    /\ conn = "open" /\ gone /\ queue = <<>>
    /\ conn' = "closed"
    /\ UNCHANGED <<serverVars, drops, raises, rv, queue, cursor, gone, view>>

\* ReadTimeout, ConnectionError, a timed-out SSLError or a
\* ChunkedEncodingError: logged, and the while loop reconnects.
ConnectionLost ==
    /\ conn = "open" /\ drops < MaxDrops
    /\ conn' = "closed" /\ drops' = drops + 1
    /\ UNCHANGED <<serverVars, raises, rv, queue, cursor, gone, view>>

Server == \E o \in Objs : Create(o) \/ Delete(o)

Next ==
    \/ Server \/ Compact
    \/ Connect \/ WatchRaises \/ Deliver \/ StreamEnds \/ ConnectionLost

\* The generator and its consumer keep going; the server answers.
Spec ==
    /\ Init /\ [][Next]_vars
    /\ WF_vars(Connect) /\ WF_vars(Deliver) /\ WF_vars(StreamEnds)

(***************************************************************************)
(* Properties.                                                             *)
(***************************************************************************)
\* Through timeouts and closed connections, resuming from the saved
\* resourceVersion hands the consumer every change: once the server is
\* quiet its view is the set of live objects, unless watch raised.
ViewConverges == <>[](view = live) \/ <>(conn = "raised")
=============================================================================
