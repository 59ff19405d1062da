---------------------------- MODULE FederationSync ----------------------------
(***************************************************************************)
(* Event replication between MEL nodes.  Each node appends its own events  *)
(* to its log and pulls its peers' logs after a cursor it keeps per peer.  *)
(* Pulls run in goroutines: one per eligible peer at every tick of         *)
(* syncLoop, and one at a time in pushSyncLoop, which serves the queue of  *)
(* notifications.  Cursor, dedup map and peer state are in memory only; of *)
(* a node, only its log survives a restart.                                *)
(*                                                                         *)
(* One step is one critical section of the manager's lock, one statement   *)
(* on a log, or one HTTP exchange.  `dedup` and the log are guarded by     *)
(* different locks, so a pull may be suspended between marking an event    *)
(* and appending it.                                                       *)
(***************************************************************************)
EXTENDS EventLog, Sequences

CONSTANTS Node,
          Configured,   \* [Node -> SUBSET Node]: peers in the configuration, which have an endpoint
          Trusted,      \* [Node -> SUBSET Node]: those of them with trust level 1 or more
          Scope,        \* [Node -> [Node -> SUBSET Event]]: events n's sync scope for p matches
          Emitters,     \* bound: nodes whose transports observe anything
          Push,         \* the pull of pushSyncLoop
          Tickers,      \* bound: the pulls of syncLoop that may be under way, per node
          BatchSize,    \* SyncBatchSize
          QueueCap,     \* capacity of pushNotifyCh
          DedupCap,     \* entries after which the dedup map is evicted
          MaxFaults     \* bound: silences, lost calls, failed statements and restarts

ASSUME SyncAssumption ==
          /\ Configured \in [Node -> SUBSET Node]
          /\ \A n \in Node : n \notin Configured[n]
          /\ Trusted \in [Node -> SUBSET Node]
          /\ Scope \in [Node -> [Node -> SUBSET Event]]
          /\ Emitters \subseteq Node
          /\ \A n \in Node : Push \notin Tickers[n]
          /\ BatchSize \in Nat \ {0}
          /\ QueueCap \in Nat \ {0}
          /\ DedupCap \in Nat \ {0}
          /\ MaxFaults \in Nat

VARIABLES
    log,         \* [Node -> Log]
    state,       \* [Node -> [Node -> PeerState]]; "none" is a peer not in m.peers
    cursor,      \* [Node -> [Node -> Nat]]: LastSyncSeq
    dedup,       \* [Node -> Seq(Event)]: the dedup map, oldest entry first
    notices,     \* [Node -> Seq(Node)]: pushNotifyCh
    pull,        \* [Node -> [Slot -> local state of pullFromSinglePeer]]
    posts,       \* push notifications on their way, as <<from, to>>
    emitted,     \* events created so far
    aged,        \* the oldest events, past the retention period
    faults,
    held,        \* history: events a node has ever stored
    failed,      \* history: events whose append failed since the node started
    top,         \* history: the highest number a node has ever stored
    renumbered   \* history: nodes that recovered a counter below their top

peers == <<state, cursor, dedup, notices>>
history == <<held, failed, top, renumbered>>
vars == <<log, state, cursor, dedup, notices, pull, posts, emitted, aged, faults,
          held, failed, top, renumbered>>

PeerState == {"none", "unknown", "active", "suspected", "partitioned"}
Slot == {Push} \cup UNION {Tickers[n] : n \in Node}
Pull == [phase : {"idle", "asked", "ingest"}, peer : Node, after : Nat,
         todo : SUBSET Row, hand : SUBSET Row, last : Nat]

Trusts(n, p) == p \in Configured[n] => p \in Trusted[n]
Known(n) == {p \in Node : state[n][p] # "none"}
Idle(n) == [phase |-> "idle", peer |-> n, after |-> 0, todo |-> {}, hand |-> {}, last |-> 0]
Seen(n) == {dedup[n][i] : i \in DOMAIN dedup[n]}

Init ==
    /\ log = [n \in Node |-> EmptyLog]
    /\ state = [n \in Node |-> [p \in Node |->
                   IF p \in Configured[n] THEN "unknown" ELSE "none"]]
    /\ cursor = [n \in Node |-> [p \in Node |-> 0]]
    /\ dedup = [n \in Node |-> <<>>]
    /\ notices = [n \in Node |-> <<>>]
    /\ pull = [n \in Node |-> [w \in Slot |-> Idle(n)]]
    /\ posts = {}
    /\ emitted = 0
    /\ aged = 0
    /\ faults = 0
    /\ held = [n \in Node |-> {}]
    /\ failed = [n \in Node |-> {}]
    /\ top = [n \in Node |-> 0]
    /\ renumbered = {}

Fault == faults < MaxFaults /\ faults' = faults + 1

(* log.Append of e at n, successful or not. *)
Appends(n, e) ==
    /\ ~Refuses(log[n], e)
    /\ log' = [log EXCEPT ![n] = Stored(@, e)]
    /\ held' = [held EXCEPT ![n] = @ \cup {e}]
    /\ top' = [top EXCEPT ![n] = Highest({@, log[n].counter + 1})]
    /\ UNCHANGED <<faults, failed, renumbered>>

FailsToAppend(n, e) ==
    /\ log' = [log EXCEPT ![n] = Burnt(@)]
    /\ \/ Refuses(log[n], e) /\ UNCHANGED <<faults, failed>>
       \/ Fault /\ failed' = [failed EXCEPT ![n] = @ \cup {e}]
    /\ UNCHANGED <<held, top, renumbered>>

------------------------------------------------------------------------------
(* A node's own events, peer liveness and notifications. *)

(* ingestKernelEvent: append, and on success tell the active peers. *)
Emit(n) ==
    LET e == emitted + 1
        told == {p \in Configured[n] : state[n][p] = "active" /\ Trusts(n, p)}
    IN  /\ n \in Emitters /\ e \in Event
        /\ emitted' = e
        /\ \/ Appends(n, e) /\ posts' = posts \cup {<<n, p>> : p \in told}
           \/ FailsToAppend(n, e) /\ UNCHANGED posts
        /\ UNCHANGED <<peers, pull, aged>>

(* Mutant: the send does not look at the capacity. *)
NoticeAlways(n, p) == notices' = [notices EXCEPT ![n] = Append(@, p)]

(* A send on pushNotifyCh that gives up when the channel is full. *)
Notice(n, p) ==
    notices' = IF Len(notices[n]) < QueueCap
               THEN [notices EXCEPT ![n] = Append(@, p)] ELSE notices

PushNotify(n, p) ==
    /\ <<p, n>> \in posts
    /\ posts' = posts \ {<<p, n>>}
    /\ Notice(n, p)
    /\ UNCHANGED <<log, state, cursor, dedup, pull, emitted, aged, faults, history>>

(* A heartbeat of p reaches n.  It carries the counter p had when it was
   sent, so that it may not show the newest events any more.               *)
ProcessHeartbeat(n, p) ==
    /\ n \in Configured[p]
    /\ state' = [state EXCEPT ![n][p] = "active"]
    /\ \/ log[p].counter > cursor[n][p] /\ Notice(n, p)
       \/ UNCHANGED notices
    /\ UNCHANGED <<log, cursor, dedup, pull, posts, emitted, aged, faults, history>>

(* Some peers have missed enough heartbeats to be suspected, some to count
   as partitioned.                                                         *)
CheckPartitions(n) ==
    /\ Fault
    /\ \E quiet, lost \in SUBSET Known(n) :
          state' = [state EXCEPT ![n] = [p \in Node |->
              IF p \in lost THEN "partitioned"
              ELSE IF p \in quiet /\ @[p] = "active" THEN "suspected" ELSE @[p]]]
    /\ UNCHANGED <<log, cursor, dedup, notices, pull, posts, emitted, aged, history>>

PostLost == /\ Fault
            /\ \E m \in posts : posts' = posts \ {m}
            /\ UNCHANGED <<log, peers, pull, emitted, aged, history>>

------------------------------------------------------------------------------
(* One pull: the request takes the cursor, the peer answers from its log,
   the answer is ingested one event at a time, the cursor moves.           *)

Set(n, w, s) == pull' = [pull EXCEPT ![n][w] = s]

Ask(n, w, p) ==
    /\ pull[n][w].phase = "idle"
    /\ Set(n, w, [Idle(n) EXCEPT !.phase = "asked", !.peer = p, !.after = cursor[n][p]])

(* pullFromPeers.  A peer met by heartbeat alone has no endpoint: the post
   fails and nothing follows.                                              *)
PullOnTick(n, p) ==
    /\ p \in Configured[n]
    /\ state[n][p] \in {"active", "suspected"}
    /\ Trusts(n, p)
    /\ \E w \in Tickers[n] : Ask(n, w, p)
    /\ UNCHANGED <<log, peers, posts, emitted, aged, faults, history>>

PullOnNotice(n) ==
    /\ notices[n] # <<>>
    /\ pull[n][Push].phase = "idle"
    /\ notices' = [notices EXCEPT ![n] = Tail(@)]
    /\ LET p == Head(notices[n])
       IN  IF p \in Known(n) \cap Configured[n] /\ Trusts(n, p)
           THEN Ask(n, Push, p) ELSE UNCHANGED pull
    /\ UNCHANGED <<log, state, cursor, dedup, posts, emitted, aged, faults, history>>

(* Mutant: the answer's last sequence is that of the log. *)
LastOfLog(l, events) == l.counter

LastOf(l, events) == Highest({r.seq : r \in events})

(* HandleSyncRequest at the peer: a page of the log, then the scope of the
   request.  An empty answer or a refusal ends the pull.                   *)
HandleSyncRequest(n, w) ==
    LET me == pull[n][w]
        page == Query(log[me.peer], me.after, BatchSize)
        events == {r \in page : r.id \in Scope[n][me.peer]}
    IN  /\ me.phase = "asked"
        /\ IF n \in Known(me.peer) /\ Trusts(me.peer, n) /\ events # {}
           THEN Set(n, w, [me EXCEPT !.phase = "ingest", !.todo = events,
                                     !.last = LastOf(log[me.peer], events)])
           ELSE Set(n, w, Idle(n))
        /\ UNCHANGED <<log, peers, posts, emitted, aged, faults, history>>

(* The request or its answer is lost, or the client gives up. *)
PullLost(n, w) ==
    /\ Fault
    /\ pull[n][w].phase = "asked"
    /\ Set(n, w, Idle(n))
    /\ UNCHANGED <<log, peers, posts, emitted, aged, history>>

(* Past its cap the map loses what is over an hour old, or else its oldest
   entry: a prefix of the entries, and never the one just made.            *)
Evicted(s) ==
    IF Len(s) <= DedupCap THEN {s}
    ELSE {SubSeq(s, k, Len(s)) : k \in 2..Len(s)}

(* The dedup check of the next event.  It marks the event before it is
   appended.                                                               *)
Mark(n, w) ==
    LET me == pull[n][w]
    IN  /\ me.phase = "ingest" /\ me.hand = {}
        /\ \E r \in me.todo :
              /\ \A q \in me.todo : r.seq <= q.seq
              /\ IF r.id \in Seen(n)
                 THEN Set(n, w, [me EXCEPT !.todo = @ \ {r}]) /\ UNCHANGED dedup
                 ELSE /\ Set(n, w, [me EXCEPT !.todo = @ \ {r}, !.hand = {r}])
                      /\ \E s \in Evicted(Append(dedup[n], r.id)) :
                            dedup' = [dedup EXCEPT ![n] = s]
        /\ UNCHANGED <<log, state, cursor, notices, posts, emitted, aged, faults, history>>

(* Mutant: the copy gets an id of its own. *)
AppendAnew(n, w) ==
    /\ \E r \in pull[n][w].hand :
          LET e == IF emitted < MaxEvents THEN emitted + 1 ELSE r.id
          IN  Appends(n, e) \/ FailsToAppend(n, e)
    /\ Set(n, w, [pull[n][w] EXCEPT !.hand = {}])
    /\ UNCHANGED <<peers, posts, emitted, aged>>

AppendMarked(n, w) ==
    /\ \E r \in pull[n][w].hand : Appends(n, r.id) \/ FailsToAppend(n, r.id)
    /\ Set(n, w, [pull[n][w] EXCEPT !.hand = {}])
    /\ UNCHANGED <<peers, posts, emitted, aged>>

(* The cursor takes the number of the answer's last event, whatever became
   of its events and wherever other pulls have moved the cursor.           *)
MoveCursor(n, w) ==
    LET me == pull[n][w]
    IN  /\ me.phase = "ingest" /\ me.todo = {} /\ me.hand = {}
        /\ cursor' = [cursor EXCEPT ![n][me.peer] = me.last]
        /\ Set(n, w, Idle(n))
        /\ UNCHANGED <<log, state, dedup, notices, posts, emitted, aged, faults, history>>

------------------------------------------------------------------------------
(* Time, compaction and restarts. *)

(* The next event passes the retention period: days, against the seconds
   or minutes a pull that carries it may last.                             *)
Age ==
    /\ aged < emitted
    /\ \A n \in Node, w \in Slot :
          aged + 1 \notin {r.id : r \in pull[n][w].todo \cup pull[n][w].hand}
    /\ aged' = aged + 1
    /\ UNCHANGED <<log, peers, pull, posts, emitted, faults, history>>

Compact(n) ==
    /\ log' = [log EXCEPT ![n] = Compacted(@, 1..aged)]
    /\ UNCHANGED <<peers, pull, posts, emitted, aged, faults, history>>

(* Mutant: the dedup map is kept across restarts. *)
NewManagerKeepingDedup(n) ==
    /\ state' = [state EXCEPT ![n] = [p \in Node |->
                    IF p \in Configured[n] THEN "unknown" ELSE "none"]]
    /\ cursor' = [cursor EXCEPT ![n] = [p \in Node |-> 0]]
    /\ notices' = [notices EXCEPT ![n] = <<>>]
    /\ UNCHANGED dedup

(* Peers come from the configuration; the rest begins empty. *)
NewManager(n) ==
    /\ state' = [state EXCEPT ![n] = [p \in Node |->
                    IF p \in Configured[n] THEN "unknown" ELSE "none"]]
    /\ cursor' = [cursor EXCEPT ![n] = [p \in Node |-> 0]]
    /\ dedup' = [dedup EXCEPT ![n] = <<>>]
    /\ notices' = [notices EXCEPT ![n] = <<>>]

(* The process dies and starts again; Open reads the log. *)
Restart(n) ==
    /\ Fault
    /\ log' = [log EXCEPT ![n] = Reopened(@)]
    /\ NewManager(n)
    /\ pull' = [pull EXCEPT ![n] = [w \in Slot |-> Idle(n)]]
    /\ posts' = {m \in posts : m[1] # n /\ m[2] # n}
    /\ failed' = [failed EXCEPT ![n] = {}]
    /\ renumbered' = IF Reopened(log[n]).counter < top[n] THEN renumbered \cup {n} ELSE renumbered
    /\ UNCHANGED <<emitted, aged, held, top>>

Proceed(n, w) == \/ HandleSyncRequest(n, w)
                 \/ Mark(n, w)
                 \/ AppendMarked(n, w)
                 \/ MoveCursor(n, w)

Step(n) == \/ Emit(n)
           \/ PullOnNotice(n)
           \/ CheckPartitions(n)
           \/ Compact(n)
           \/ Restart(n)
           \/ \E p \in Node : PushNotify(n, p) \/ ProcessHeartbeat(n, p) \/ PullOnTick(n, p)
           \/ \E w \in Slot : Proceed(n, w) \/ PullLost(n, w)

Next == Age \/ PostLost \/ \E n \in Node : Step(n)

Spec == Init /\ [][Next]_vars

(* Heartbeats and pulls repeat on tickers whatever came of the last, every
   pull goes on to its end, and pushSyncLoop serves its queue.             *)
FairSpec ==
    /\ Spec
    /\ \A n \in Node :
          /\ WF_vars(PullOnNotice(n))
          /\ \A w \in Slot : WF_vars(Proceed(n, w))
          /\ \A p \in Configured[n] : /\ WF_vars(ProcessHeartbeat(n, p))
                                      /\ WF_vars(PullOnTick(n, p))

------------------------------------------------------------------------------
TypeOK ==
    /\ log \in [Node -> Log]
    /\ state \in [Node -> [Node -> PeerState]]
    /\ cursor \in [Node -> [Node -> Nat]]
    /\ dedup \in [Node -> Seq(Event)]
    /\ notices \in [Node -> Seq(Node)] /\ \A n \in Node : Len(notices[n]) <= QueueCap
    /\ pull \in [Node -> [Slot -> Pull]]
    /\ posts \in SUBSET (Node \X Node)
    /\ emitted \in 0..MaxEvents
    /\ aged \in 0..emitted
    /\ faults \in 0..MaxFaults
    /\ held \in [Node -> SUBSET Event]
    /\ failed \in [Node -> SUBSET Event]
    /\ top \in [Node -> Nat]
    /\ renumbered \in SUBSET Node

InHand(n) == {r.id : r \in UNION {pull[n][w].hand : w \in Slot}}
Handled(n) == held[n] \cup failed[n] \cup InHand(n)

(* Whatever n's cursor for p has passed, n has dealt with: an event of p's log
   at or below it and in scope has been stored by n, or is being appended, or
   n logged that its append failed.  Concurrent pulls share the dedup map and
   the cursor without sharing a lock over both.  Excepted is a peer that began
   to number anew after a restart, which the cursor cannot know.            *)
CursorCovers ==
    \A n \in Node : \A p \in Configured[n] \ renumbered : \A r \in log[p].rows :
        r.seq <= cursor[n][p] /\ r.id \in Scope[n][p] => r.id \in Handled(n)

(* An event of a peer's log that is in scope reaches the node in the end,
   however notifications are dropped, pulls overlap, calls are lost and nodes
   restart; unless its append fails, the peer compacts it away first or
   numbers anew.                                                            *)
Delivered ==
    \A n \in Node : \A p \in Configured[n] : \A e \in Scope[n][p] :
        (e \in Ids(log[p])) ~>
            (e \in held[n] \cup failed[n] \/ e \notin Ids(log[p]) \/ p \in renumbered)

Delivery == INSTANCE EventDelivery WITH
    known <- held, made <- emitted,
    Offered <- [n \in Node |-> [p \in Node |->
                   IF p \in Configured[n] THEN Scope[n][p] ELSE {}]]

(* A node stores nothing but its own new events and events in scope that a
   configured peer has stored before it, under the id they were created with;
   restarts, overlapping pulls and evictions of the dedup map add nothing.  *)
RefinesDelivery == Delivery!Spec
==============================================================================
