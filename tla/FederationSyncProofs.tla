------------------------- MODULE FederationSyncProofs -------------------------
(***************************************************************************)
(* Theorems about FederationSync for any number of nodes and events, any   *)
(* topology, scopes and bounds: its types are invariant, a cursor passes   *)
(* nothing its node has not handled, and it implements EventDelivery.      *)
(***************************************************************************)
EXTENDS FederationSyncInv, EventLogProofs, SequenceTheorems

------------------------------------------------------------------------------
USE DEF peers, history

(* A pull that is not under way is typed. *)
LEMMA IdleTypes == \A n \in Node : Idle(n) \in Pull
  BY DEF Idle, Pull

(* Setting one pull to a typed value keeps the pulls typed. *)
LEMMA SetTypes ==
    ASSUME TypeOK, NEW n \in Node, NEW w \in Slot, NEW s \in Pull, Set(n, w, s)
    PROVE  pull' \in [Node -> [Slot -> Pull]]
  BY DEF TypeOK, Set

(* An append, stored or not, keeps log and history typed. *)
LEMMA AppendTypes ==
    ASSUME TypeOK, LogInv, NEW n \in Node, NEW e \in Event,
           Appends(n, e) \/ FailsToAppend(n, e)
    PROVE  /\ log' \in [Node -> Log]
           /\ held' \in [Node -> SUBSET Event]
           /\ failed' \in [Node -> SUBSET Event]
           /\ top' \in [Node -> Nat]
           /\ renumbered' = renumbered
           /\ faults' \in 0..MaxFaults
<1>1. log[n] \in Log /\ Counted(log[n]) /\ log[n].counter \in Nat
  BY DEF TypeOK, LogInv, Log
<1>2. CASE Appends(n, e)
  <2>1. Stored(log[n], e) \in Log
    BY <1>1, StoredTypes
  <2>2. Highest({top[n], log[n].counter + 1}) \in Nat
    <3> DEFINE c == log[n].counter + 1
    <3>1. top[n] \in Nat /\ c \in Nat
      BY <1>1 DEF TypeOK
    <3> HIDE DEF c
    <3>2. {top[n], c} \subseteq 0..(top[n] + c)
      BY <3>1
    <3>3. Highest({top[n], c}) \in {top[n], c}
      BY <3>1, <3>2, HighestOf
    <3> QED  BY <3>1, <3>3 DEF c
  <2> QED  BY <1>2, <2>1, <2>2 DEF Appends, TypeOK
<1>3. CASE FailsToAppend(n, e)
  <2>1. Burnt(log[n]) \in Log
    BY <1>1, BurntTypes
  <2>2. log' \in [Node -> Log]
    BY <1>3, <2>1 DEF FailsToAppend, TypeOK
  <2>3. held' = held /\ top' = top /\ renumbered' = renumbered
    BY <1>3 DEF FailsToAppend
  <2>4. faults \in Nat /\ MaxFaults \in Nat /\ faults <= MaxFaults
    BY SyncAssumption DEF TypeOK
  <2>5. \/ faults' = faults /\ failed' = failed
        \/ /\ faults < MaxFaults /\ faults' = faults + 1
           /\ failed' = [failed EXCEPT ![n] = @ \cup {e}]
    BY <1>3 DEF FailsToAppend, Fault
  <2>6. faults' \in 0..MaxFaults
    BY <2>4, <2>5
  <2>7. failed \in [Node -> SUBSET Event] /\ failed[n] \cup {e} \in SUBSET Event
    BY DEF TypeOK
  <2>8. failed' \in [Node -> SUBSET Event]
    BY <2>5, <2>7
  <2> QED  BY <2>2, <2>3, <2>6, <2>8 DEF TypeOK
<1> QED  BY <1>2, <1>3

(* A send on pushNotifyCh keeps the queue typed and within its capacity. *)
LEMMA NoticeTypes ==
    ASSUME TypeOK, NEW n \in Node, NEW p \in Node, Notice(n, p) \/ UNCHANGED notices
    PROVE  notices' \in [Node -> Seq(Node)] /\ \A m \in Node : Len(notices'[m]) <= QueueCap
<1>1. CASE Len(notices[n]) < QueueCap /\ Notice(n, p)
  <2>1. Append(notices[n], p) \in Seq(Node) /\ Len(Append(notices[n], p)) <= QueueCap
    BY <1>1, SyncAssumption DEF TypeOK
  <2> QED  BY <1>1, <2>1 DEF TypeOK, Notice
<1> QED  BY <1>1 DEF TypeOK, Notice

(* A request keeps the pulls typed. *)
LEMMA AskTypes ==
    ASSUME TypeOK, NEW n \in Node, NEW w \in Slot, NEW p \in Node, Ask(n, w, p)
    PROVE  pull' \in [Node -> [Slot -> Pull]]
<1>1. cursor[n][p] \in Nat
  BY DEF TypeOK
<1>2. [Idle(n) EXCEPT !.phase = "asked", !.peer = p, !.after = cursor[n][p]] \in Pull
  BY <1>1 DEF Idle, Pull
<1> QED  BY <1>2, SetTypes DEF Ask

(* The answer to a request: what it carries and what it says is last. *)
LEMMA AnswerOf ==
    ASSUME TypeOK, LogInv, NEW n \in Node, NEW w \in Slot,
           NEW events, events = {r \in Query(log[pull[n][w].peer], pull[n][w].after, BatchSize) :
                                    r.id \in Scope[n][pull[n][w].peer]},
           events # {}
    PROVE  /\ events \subseteq log[pull[n][w].peer].rows
           /\ events \subseteq Row
           /\ LastOf(log[pull[n][w].peer], events) \in Nat
           /\ \E r \in events : r.seq = LastOf(log[pull[n][w].peer], events)
           /\ \A r \in events : r.seq <= LastOf(log[pull[n][w].peer], events)
<1> DEFINE l == log[pull[n][w].peer]
           S == {r.seq : r \in events}
<1>1. pull[n][w].peer \in Node /\ pull[n][w].after \in Nat
  BY DEF TypeOK, Pull
<1>2. l \in Log /\ Counted(l) /\ l.counter \in Nat /\ l.rows \subseteq Row
  BY <1>1 DEF TypeOK, LogInv, Log
<1>3. events \subseteq l.rows
  BY DEF Query
<1>4. S \subseteq 0..l.counter /\ S # {}
  BY SMTT(30), <1>2, <1>3 DEF Counted, Row
<1>5. Highest(S) \in S /\ \A k \in S : k <= Highest(S)
  BY <1>2, <1>4, HighestOf
<1>6. LastOf(l, events) = Highest(S)
  BY DEF LastOf
<1>7. Highest(S) \in Nat
  BY SMTT(30), <1>2, <1>4, <1>5
<1>8. \E r \in events : r.seq = Highest(S)
  BY <1>5
<1>9. \A r \in events : r.seq <= Highest(S)
  BY <1>5
<1> HIDE DEF S, l
<1>10. events \subseteq Row
  BY <1>2, <1>3
<1> QED  BY <1>3, <1>6, <1>7, <1>8, <1>9, <1>10 DEF l

(* Eviction leaves a sequence of entries that were there. *)
LEMMA EvictedOf ==
    ASSUME NEW d \in Seq(Event), NEW s \in Evicted(d)
    PROVE  /\ s \in Seq(Event)
           /\ \A i \in DOMAIN s : \E j \in DOMAIN d : s[i] = d[j]
<1>1. CASE s = d
  BY <1>1
<1>2. CASE \E k \in 2..Len(d) : s = SubSeq(d, k, Len(d))
  <2>1. PICK k \in 2..Len(d) : s = SubSeq(d, k, Len(d))
    BY <1>2
  <2>2. /\ k \in Int /\ k >= 2 /\ k <= Len(d) /\ Len(d) \in Int
        /\ \A i \in k..Len(d) : d[i] \in Event
    OBVIOUS
  <2>3. /\ s \in Seq(Event) /\ Len(s) = Len(d) - k + 1
        /\ \A i \in 1..Len(d) - k + 1 : s[i] = d[k + i - 1]
    BY <2>1, <2>2, SubSeqProperties
  <2>4. \A i \in DOMAIN s : k + i - 1 \in DOMAIN d /\ s[i] = d[k + i - 1]
    BY <2>2, <2>3
  <2> QED  BY <2>3, <2>4
<1> QED  BY <1>1, <1>2 DEF Evicted

(* A node's own event keeps the types. *)
LEMMA EmitTypes ==
    ASSUME TypeOK, LogInv, NEW n \in Node, Emit(n)
    PROVE  TypeOK'
<1> DEFINE e == emitted + 1
           told == {p \in Configured[n] : state[n][p] = "active" /\ Trusts(n, p)}
<1>1. e \in Event /\ emitted' = e
  BY DEF Emit
<1>2. emitted' \in 0..MaxEvents /\ aged \in 0..emitted'
  BY <1>1, LogAssumption DEF Event, TypeOK
<1>3. Appends(n, e) \/ FailsToAppend(n, e)
  BY DEF Emit
<1>4. told \subseteq Node
  BY SyncAssumption
<1>5. posts' \in SUBSET (Node \X Node)
  BY <1>4 DEF Emit, TypeOK
<1>6. UNCHANGED <<state, cursor, dedup, notices, pull, aged>>
  BY DEF Emit
<1> HIDE DEF e, told
<1>7. /\ log' \in [Node -> Log]
      /\ held' \in [Node -> SUBSET Event]
      /\ failed' \in [Node -> SUBSET Event]
      /\ top' \in [Node -> Nat]
      /\ renumbered' = renumbered
      /\ faults' \in 0..MaxFaults
  BY <1>1, <1>3, AppendTypes
<1> QED  BY <1>2, <1>5, <1>6, <1>7 DEF TypeOK

(* The steps of an ingestion keep a pull typed. *)
LEMMA PullTypes ==
    ASSUME TypeOK, NEW n \in Node, NEW w \in Slot, NEW m \in Pull, m = pull[n][w]
    PROVE  /\ \A r \in m.todo : [m EXCEPT !.todo = @ \ {r}] \in Pull
           /\ \A r \in m.todo : [m EXCEPT !.todo = @ \ {r}, !.hand = {r}] \in Pull
           /\ [m EXCEPT !.hand = {}] \in Pull
  BY DEF Pull

(* Heartbeats and notifications keep the types. *)
LEMMA HeartbeatTypes ==
    ASSUME TypeOK, NEW n \in Node, NEW p \in Node,
           PushNotify(n, p) \/ ProcessHeartbeat(n, p)
    PROVE  TypeOK'
<1>1. Notice(n, p) \/ UNCHANGED notices
  BY DEF PushNotify, ProcessHeartbeat
<1>2. notices' \in [Node -> Seq(Node)] /\ \A m \in Node : Len(notices'[m]) <= QueueCap
  BY <1>1, NoticeTypes
<1>3. CASE PushNotify(n, p)
  BY <1>2, <1>3 DEF TypeOK, PushNotify
<1>4. CASE ProcessHeartbeat(n, p)
  <2>1. state' \in [Node -> [Node -> PeerState]]
    BY <1>4 DEF TypeOK, ProcessHeartbeat, PeerState
  <2> QED  BY <1>2, <1>4, <2>1 DEF TypeOK, ProcessHeartbeat
<1> QED  BY <1>3, <1>4

(* Starting a pull keeps the types. *)
LEMMA AskingTypes ==
    ASSUME TypeOK, NEW n \in Node,
           PullOnNotice(n) \/ \E p \in Node : PullOnTick(n, p)
    PROVE  TypeOK'
<1>1. CASE \E p \in Node : PullOnTick(n, p)
  <2>1. PICK p \in Node : PullOnTick(n, p)
    BY <1>1
  <2>2. PICK w \in Tickers[n] : Ask(n, w, p)
    BY <2>1 DEF PullOnTick
  <2>3. pull' \in [Node -> [Slot -> Pull]]
    BY <2>2, AskTypes DEF Slot
  <2> QED  BY <2>1, <2>3 DEF TypeOK, PullOnTick
<1>2. CASE PullOnNotice(n)
  <2> DEFINE p == Head(notices[n])
  <2>1. p \in Node /\ Tail(notices[n]) \in Seq(Node) /\ Len(Tail(notices[n])) <= QueueCap
    <3>1. notices[n] \in Seq(Node) /\ Len(notices[n]) <= QueueCap /\ QueueCap \in Nat
      BY SyncAssumption DEF TypeOK
    <3>2. notices[n] # <<>>
      BY <1>2 DEF PullOnNotice
    <3> QED  BY <3>1, <3>2, HeadTailProperties
  <2>2. Ask(n, Push, p) \/ UNCHANGED pull
    BY <1>2 DEF PullOnNotice
  <2>3. pull' \in [Node -> [Slot -> Pull]]
    <3>1. CASE Ask(n, Push, p)
      BY <2>1, <3>1, AskTypes DEF Slot
    <3> QED  BY <2>2, <3>1 DEF TypeOK
  <2>4. /\ notices' \in [Node -> Seq(Node)]
        /\ \A m \in Node : Len(notices'[m]) <= QueueCap
    BY <1>2, <2>1 DEF TypeOK, PullOnNotice
  <2> QED  BY <1>2, <2>3, <2>4 DEF TypeOK, PullOnNotice
<1> QED  BY <1>1, <1>2

(* The steps of a pull under way keep the types. *)
LEMMA ProceedTypes ==
    ASSUME TypeOK, LogInv, NEW n \in Node, NEW w \in Slot,
           Proceed(n, w) \/ PullLost(n, w)
    PROVE  TypeOK'
<1> DEFINE me == pull[n][w]
<1>0. me \in Pull
  BY DEF TypeOK
<1>1. CASE HandleSyncRequest(n, w)
  <2> DEFINE events == {r \in Query(log[me.peer], me.after, BatchSize) :
                          r.id \in Scope[n][me.peer]}
             got == [me EXCEPT !.phase = "ingest", !.todo = events,
                               !.last = LastOf(log[me.peer], events)]
  <2>1. ASSUME events # {}
        PROVE  got \in Pull
    <3>1. events \subseteq Row /\ LastOf(log[me.peer], events) \in Nat
      BY <2>1, AnswerOf
    <3> HIDE DEF events
    <3> QED  BY <1>0, <3>1 DEF Pull
  <2>2. (events # {} /\ Set(n, w, got)) \/ Set(n, w, Idle(n))
    BY <1>1 DEF HandleSyncRequest
  <2>3. pull' \in [Node -> [Slot -> Pull]]
    <3> HIDE DEF events, got
    <3> QED  BY <2>1, <2>2, SetTypes, IdleTypes
  <2> QED  BY <1>1, <2>3 DEF HandleSyncRequest, TypeOK
<1>2. CASE Mark(n, w)
  <2>1. PICK r \in me.todo :
           IF r.id \in Seen(n)
           THEN Set(n, w, [me EXCEPT !.todo = @ \ {r}]) /\ UNCHANGED dedup
           ELSE /\ Set(n, w, [me EXCEPT !.todo = @ \ {r}, !.hand = {r}])
                /\ \E s \in Evicted(Append(dedup[n], r.id)) :
                      dedup' = [dedup EXCEPT ![n] = s]
    BY <1>2 DEF Mark
  <2>2. pull' \in [Node -> [Slot -> Pull]]
    <3>1. /\ [me EXCEPT !.todo = @ \ {r}] \in Pull
          /\ [me EXCEPT !.todo = @ \ {r}, !.hand = {r}] \in Pull
      BY <1>0, PullTypes
    <3> QED  BY <2>1, <3>1, SetTypes
  <2>3. dedup' \in [Node -> Seq(Event)]
    <3> DEFINE d == Append(dedup[n], r.id)
    <3>1. r.id \in Event
      BY <1>0 DEF Pull, Row
    <3>2. d \in Seq(Event)
      BY <3>1 DEF TypeOK
    <3>3. \A s \in Evicted(d) : s \in Seq(Event)
      BY <3>2, EvictedOf
    <3> QED  BY <2>1, <3>3 DEF TypeOK
  <2> QED  BY <1>2, <2>2, <2>3 DEF Mark, TypeOK
<1>3. CASE AppendMarked(n, w)
  <2>1. PICK r \in me.hand : Appends(n, r.id) \/ FailsToAppend(n, r.id)
    BY <1>3 DEF AppendMarked
  <2>2. r.id \in Event
    BY <1>0 DEF Pull, Row
  <2>3. /\ log' \in [Node -> Log]
        /\ held' \in [Node -> SUBSET Event]
        /\ failed' \in [Node -> SUBSET Event]
        /\ top' \in [Node -> Nat]
        /\ renumbered' = renumbered
        /\ faults' \in 0..MaxFaults
    BY <2>1, <2>2, AppendTypes
  <2>4. pull' \in [Node -> [Slot -> Pull]]
    <3>1. [me EXCEPT !.hand = {}] \in Pull
      BY <1>0, PullTypes
    <3> QED  BY <1>3, <3>1, SetTypes DEF AppendMarked
  <2> QED  BY <1>3, <2>3, <2>4 DEF AppendMarked, TypeOK
<1>4. CASE MoveCursor(n, w)
  <2>1. pull' \in [Node -> [Slot -> Pull]]
    BY <1>4, IdleTypes, SetTypes DEF MoveCursor
  <2>2. cursor' \in [Node -> [Node -> Nat]]
    BY <1>0, <1>4 DEF MoveCursor, TypeOK, Pull
  <2> QED  BY <1>4, <2>1, <2>2 DEF MoveCursor, TypeOK
<1>5. CASE PullLost(n, w)
  <2>1. pull' \in [Node -> [Slot -> Pull]]
    BY <1>5, IdleTypes, SetTypes DEF PullLost
  <2>2. faults' \in 0..MaxFaults
    BY <1>5, SyncAssumption DEF PullLost, Fault, TypeOK
  <2> QED  BY <1>5, <2>1, <2>2 DEF PullLost, TypeOK
<1> QED  BY <1>1, <1>2, <1>3, <1>4, <1>5 DEF Proceed

(* CheckPartitions keeps the types. *)
LEMMA CheckTypes ==
    ASSUME TypeOK, NEW n \in Node, CheckPartitions(n)
    PROVE  TypeOK'
<1>1. PICK quiet, lost \in SUBSET Known(n) :
          state' = [state EXCEPT ![n] = [p \in Node |->
              IF p \in lost THEN "partitioned"
              ELSE IF p \in quiet /\ @[p] = "active" THEN "suspected" ELSE @[p]]]
  BY DEF CheckPartitions
<1>2. state' \in [Node -> [Node -> PeerState]]
  BY <1>1 DEF TypeOK, PeerState
<1>3. faults' \in 0..MaxFaults
  BY SyncAssumption DEF CheckPartitions, Fault, TypeOK
<1> QED  BY <1>2, <1>3 DEF CheckPartitions, TypeOK

(* A restart keeps the types. *)
LEMMA RestartTypes ==
    ASSUME TypeOK, LogInv, NEW n \in Node, Restart(n)
    PROVE  TypeOK'
<1>1. faults' \in 0..MaxFaults
  BY SyncAssumption DEF Restart, Fault, TypeOK
<1>2. log' \in [Node -> Log]
  <2>1. Reopened(log[n]) \in Log
    BY ReopenedTypes DEF TypeOK, LogInv
  <2> QED  BY <2>1 DEF Restart, TypeOK
<1>3. pull' \in [Node -> [Slot -> Pull]]
  BY IdleTypes DEF Restart, TypeOK
<1>4. /\ state' \in [Node -> [Node -> PeerState]]
      /\ cursor' \in [Node -> [Node -> Nat]]
  BY DEF Restart, NewManager, TypeOK, PeerState
<1>5. /\ dedup' \in [Node -> Seq(Event)]
      /\ notices' \in [Node -> Seq(Node)]
      /\ \A m \in Node : Len(notices'[m]) <= QueueCap
  <2>1. <<>> \in Seq(Event) /\ <<>> \in Seq(Node) /\ Len(<<>>) <= QueueCap
    BY SyncAssumption
  <2> QED  BY <2>1 DEF Restart, NewManager, TypeOK
<1>6. /\ posts' \in SUBSET (Node \X Node)
      /\ failed' \in [Node -> SUBSET Event]
      /\ renumbered' \in SUBSET Node
  BY DEF Restart, TypeOK
<1> QED  BY <1>1, <1>2, <1>3, <1>4, <1>5, <1>6 DEF Restart, TypeOK

(* Every step keeps the types. *)
LEMMA TypeStep ==
    ASSUME TypeOK, LogInv, [Next]_vars
    PROVE  TypeOK'
<1>1. CASE UNCHANGED vars
  BY <1>1 DEF vars, TypeOK
<1>2. CASE Age
  BY <1>2 DEF Age, TypeOK
<1>3. CASE PostLost
  <2>1. faults' \in 0..MaxFaults
    BY <1>3, SyncAssumption DEF PostLost, Fault, TypeOK
  <2> QED  BY <1>3, <2>1 DEF PostLost, TypeOK
<1>4. ASSUME NEW n \in Node, Step(n)
      PROVE  TypeOK'
  <2>1. CASE Compact(n)
    <3>1. Compacted(log[n], 1..aged) \in Log
      BY CompactedTypes DEF TypeOK, LogInv
    <3> QED  BY <2>1, <3>1 DEF Compact, TypeOK
  <2> QED  BY <1>4, <2>1, EmitTypes, HeartbeatTypes, AskingTypes, ProceedTypes,
                CheckTypes, RestartTypes DEF Step
<1> QED  BY <1>1, <1>2, <1>3, <1>4 DEF Next

------------------------------------------------------------------------------
(* How one step may change each part of the state. *)

(* The higher of two numbers is one of them and below neither. *)
LEMMA TopOf ==
    ASSUME NEW a \in Nat, NEW b \in Nat
    PROVE  Highest({a, b}) \in {a, b} /\ a <= Highest({a, b}) /\ b <= Highest({a, b})
<1>1. {a, b} \subseteq 0..(a + b)
  OBVIOUS
<1> QED  BY <1>1, HighestOf

(* A statement on the log of m, and the history it leaves. *)
Logs(m) ==
    \/ \E e \in Event : Appends(m, e) \/ FailsToAppend(m, e)
    \/ Compact(m)
    \/ Restart(m)

(* Logs and history change by one statement on one log, or not at all. *)
LEMMA LogMoves ==
    ASSUME TypeOK, [Next]_vars
    PROVE  \/ UNCHANGED <<log, held, failed, top, renumbered>>
           \/ \E m \in Node : Logs(m)
<1>1. ASSUME NEW n \in Node, Emit(n)
      PROVE  Logs(n)
  BY <1>1 DEF Emit, Logs
<1>2. ASSUME NEW n \in Node, NEW w \in Slot, AppendMarked(n, w)
      PROVE  Logs(n)
  <2>1. PICK r \in pull[n][w].hand : Appends(n, r.id) \/ FailsToAppend(n, r.id)
    BY <1>2 DEF AppendMarked
  <2>2. r.id \in Event
    BY DEF TypeOK, Pull, Row
  <2> QED  BY <2>1, <2>2 DEF Logs
<1>3. ASSUME NEW n \in Node, NEW w \in Slot, Proceed(n, w) \/ PullLost(n, w),
             ~AppendMarked(n, w)
      PROVE  UNCHANGED <<log, held, failed, top, renumbered>>
  BY <1>3 DEF Proceed, HandleSyncRequest, PullLost, Mark, MoveCursor
<1>4. ASSUME NEW n \in Node, NEW p \in Node,
             PushNotify(n, p) \/ ProcessHeartbeat(n, p) \/ PullOnTick(n, p)
      PROVE  UNCHANGED <<log, held, failed, top, renumbered>>
  BY <1>4 DEF PushNotify, ProcessHeartbeat, PullOnTick
<1>5. ASSUME NEW n \in Node, PullOnNotice(n) \/ CheckPartitions(n)
      PROVE  UNCHANGED <<log, held, failed, top, renumbered>>
  BY <1>5 DEF PullOnNotice, CheckPartitions
<1>6. ASSUME NEW n \in Node, Compact(n) \/ Restart(n)
      PROVE  Logs(n)
  BY <1>6 DEF Logs
<1>7. ASSUME Age \/ PostLost \/ UNCHANGED vars
      PROVE  UNCHANGED <<log, held, failed, top, renumbered>>
  BY <1>7 DEF Age, PostLost, vars
<1> QED  BY <1>1, <1>2, <1>3, <1>4, <1>5, <1>6, <1>7 DEF Next, Step

(* The history only grows, and a node that numbers on numbers above its top. *)
LEMMA HistoryGrows ==
    ASSUME TypeOK, LogInv, [Next]_vars, NEW p \in Node
    PROVE  /\ top[p] <= top'[p]
           /\ held[p] \subseteq held'[p]
           /\ renumbered \subseteq renumbered'
           /\ p \notin renumbered =>
                \A r \in log'[p].rows : r \in log[p].rows \/ r.seq > top[p]
<1> DEFINE Grows == /\ top[p] <= top'[p]
                    /\ held[p] \subseteq held'[p]
                    /\ renumbered \subseteq renumbered'
                    /\ p \notin renumbered =>
                         \A r \in log'[p].rows : r \in log[p].rows \/ r.seq > top[p]
<1>0. top[p] \in Nat /\ log[p] \in Log /\ log[p].counter \in Nat
  BY DEF TypeOK, Log
<1>1. CASE UNCHANGED <<log, held, failed, top, renumbered>>
  BY <1>0, <1>1
<1>2. ASSUME NEW m \in Node, NEW e \in Event, Appends(m, e)
      PROVE  Grows
  <2>1. CASE m = p
    <3>1. /\ log'[p] = Stored(log[p], e)
          /\ top'[p] = Highest({top[p], log[p].counter + 1})
          /\ held'[p] = held[p] \cup {e}
          /\ renumbered' = renumbered
      BY <1>2, <2>1 DEF Appends, TypeOK
    <3>2. top[p] <= top'[p]
      <4>1. log[p].counter + 1 \in Nat
        BY <1>0
      <4> QED  BY <1>0, <3>1, <4>1, TopOf
    <3>3. \A r \in log'[p].rows : r \in log[p].rows \/ r.seq = log[p].counter + 1
      BY <3>1 DEF Stored, NextRow
    <3>4. p \notin renumbered => top[p] <= log[p].counter
      BY DEF LogInv
    <3> QED  BY <1>0, <3>1, <3>2, <3>3, <3>4
  <2>2. CASE m # p
    BY <1>0, <1>2, <2>2 DEF Appends, TypeOK
  <2> QED  BY <2>1, <2>2
<1>3. ASSUME NEW m \in Node, NEW e \in Event, FailsToAppend(m, e)
      PROVE  Grows
  <2>1. log'[p].rows = log[p].rows
    BY <1>3 DEF FailsToAppend, Burnt, TypeOK, Log
  <2> QED  BY <1>0, <1>3, <2>1 DEF FailsToAppend
<1>4. ASSUME NEW m \in Node, Compact(m)
      PROVE  Grows
  <2>1. log'[p].rows \subseteq log[p].rows
    <3>1. log' = [log EXCEPT ![m] = Compacted(log[m], 1..aged)]
      BY <1>4 DEF Compact
    <3>2. Compacted(log[m], 1..aged).rows \subseteq log[m].rows
      BY CompactedTypes DEF TypeOK, LogInv
    <3> QED  BY <3>1, <3>2 DEF TypeOK
  <2> QED  BY <1>0, <1>4, <2>1 DEF Compact
<1>5. ASSUME NEW m \in Node, Restart(m)
      PROVE  Grows
  <2>1. log'[p].rows = log[p].rows
    BY <1>5 DEF Restart, Reopened, TypeOK, Log
  <2> QED  BY <1>0, <1>5, <2>1 DEF Restart
<1> QED  BY <1>1, <1>2, <1>3, <1>4, <1>5, LogMoves DEF Logs

(* Every step keeps what is said of the logs. *)
LEMMA LogStep ==
    ASSUME TypeOK, LogInv, [Next]_vars
    PROVE  LogInv'
<1> DEFINE Fine(n) == /\ Counted(log[n])
                      /\ \A r \in log[n].rows : r.seq <= top[n] /\ r.id \in held[n]
                      /\ n \notin renumbered => top[n] <= log[n].counter
<1> SUFFICES ASSUME NEW n \in Node
             PROVE  Fine(n)'
  BY DEF LogInv
<1>0. /\ Fine(n)
      /\ top[n] \in Nat /\ log[n] \in Log /\ log[n].counter \in Nat
      /\ \A r \in log[n].rows : r.seq \in Nat
  BY DEF LogInv, TypeOK, Log, Row
<1>1. CASE UNCHANGED <<log, held, failed, top, renumbered>>
  BY <1>0, <1>1
<1>2. ASSUME NEW m \in Node, NEW e \in Event, Appends(m, e)
      PROVE  Fine(n)'
  <2>1. CASE m = n
    <3> DEFINE c == log[n].counter + 1
    <3>1. /\ log'[n] = Stored(log[n], e)
          /\ top'[n] = Highest({top[n], c})
          /\ held'[n] = held[n] \cup {e}
          /\ renumbered' = renumbered
      BY <1>2, <2>1 DEF Appends, TypeOK
    <3>2. top'[n] \in {top[n], c} /\ top[n] <= top'[n] /\ c <= top'[n]
      BY <1>0, <3>1, TopOf
    <3>3. Counted(log'[n])
      BY <1>0, <3>1, StoredTypes
    <3>4. /\ log'[n].counter = c
          /\ \A r \in log'[n].rows : r \in log[n].rows \/ (r.seq = c /\ r.id = e)
      BY <3>1 DEF Stored, NextRow
    <3>5. \A r \in log'[n].rows : r.seq <= top'[n] /\ r.id \in held'[n]
      BY <1>0, <3>1, <3>2, <3>4
    <3> QED  BY <1>0, <3>1, <3>2, <3>3, <3>4, <3>5
  <2>2. CASE m # n
    BY <1>0, <1>2, <2>2 DEF Appends, TypeOK
  <2> QED  BY <2>1, <2>2
<1>3. ASSUME NEW m \in Node, NEW e \in Event, FailsToAppend(m, e)
      PROVE  Fine(n)'
  <2>1. log'[n] = log[n] \/ log'[n] = Burnt(log[n])
    BY <1>3 DEF FailsToAppend, TypeOK
  <2>2. /\ Counted(log'[n])
        /\ log'[n].rows = log[n].rows /\ log'[n].counter >= log[n].counter
        /\ log'[n].counter \in Nat
    BY <1>0, <2>1, BurntTypes DEF Burnt, Log
  <2> QED  BY <1>0, <1>3, <2>2 DEF FailsToAppend
<1>4. ASSUME NEW m \in Node, Compact(m)
      PROVE  Fine(n)'
  <2>1. log'[n] = log[n] \/ log'[n] = Compacted(log[n], 1..aged)
    BY <1>4 DEF Compact, TypeOK
  <2>2. /\ Counted(log'[n])
        /\ log'[n].rows \subseteq log[n].rows /\ log'[n].counter = log[n].counter
    BY <1>0, <2>1, CompactedTypes
  <2> QED  BY <1>0, <1>4, <2>2 DEF Compact
<1>5. ASSUME NEW m \in Node, Restart(m)
      PROVE  Fine(n)'
  <2>1. CASE m = n
    <3>1. /\ log'[n] = Reopened(log[n])
          /\ UNCHANGED <<held, top>>
          /\ log'[n].counter < top[n] => n \in renumbered'
      BY <1>5, <2>1 DEF Restart, TypeOK
    <3>2. Counted(log'[n]) /\ log'[n].rows = log[n].rows /\ log'[n].counter \in Nat
      BY <1>0, <3>1, ReopenedTypes DEF Log
    <3> QED  BY <1>0, <3>1, <3>2
  <2>2. CASE m # n
    BY <1>0, <1>5, <2>2 DEF Restart, TypeOK
  <2> QED  BY <2>1, <2>2
<1> QED  BY <1>1, <1>2, <1>3, <1>4, <1>5, LogMoves DEF Logs

(* A pull changes by its own steps, or by a restart of its node. *)
LEMMA PullMoves ==
    ASSUME TypeOK, [Next]_vars, NEW n \in Node, NEW w \in Slot
    PROVE  \/ pull'[n][w] = pull[n][w]
           \/ Restart(n)
           \/ \E p \in Configured[n] : Ask(n, w, p) /\ UNCHANGED <<log, cursor, dedup, history>>
           \/ Proceed(n, w)
           \/ PullLost(n, w)
<1>1. ASSUME NEW m \in Node, NEW x \in Slot, NEW s, Set(m, x, s), m # n \/ x # w
      PROVE  pull'[n][w] = pull[n][w]
  BY <1>1 DEF Set, TypeOK
<1>2. ASSUME NEW m \in Node, NEW x \in Slot, Proceed(m, x) \/ PullLost(m, x),
             m # n \/ x # w
      PROVE  pull'[n][w] = pull[n][w]
  BY <1>1, <1>2 DEF Proceed, PullLost, HandleSyncRequest, Mark, AppendMarked, MoveCursor
<1>3. ASSUME NEW m \in Node, NEW p \in Node, PullOnTick(m, p)
      PROVE  \/ pull'[n][w] = pull[n][w]
             \/ \E q \in Configured[n] : Ask(n, w, q) /\ UNCHANGED <<log, cursor, dedup, history>>
  <2>1. PICK x \in Slot : Ask(m, x, p)
    BY <1>3 DEF PullOnTick, Slot
  <2>2. CASE m = n /\ x = w
    BY <1>3, <2>1, <2>2 DEF PullOnTick
  <2>3. CASE m # n \/ x # w
    BY <1>1, <2>1, <2>3 DEF Ask
  <2> QED  BY <2>2, <2>3
<1>4. ASSUME NEW m \in Node, PullOnNotice(m)
      PROVE  \/ pull'[n][w] = pull[n][w]
             \/ \E q \in Configured[n] : Ask(n, w, q) /\ UNCHANGED <<log, cursor, dedup, history>>
  <2> DEFINE p == Head(notices[m])
  <2>1. Push \in Slot
    BY DEF Slot
  <2>2. UNCHANGED <<log, cursor, dedup, history>>
    BY <1>4 DEF PullOnNotice
  <2>3. \/ p \in Configured[m] /\ Ask(m, Push, p)
        \/ UNCHANGED pull
    BY <1>4 DEF PullOnNotice
  <2> HIDE DEF p
  <2>4. CASE p \in Configured[m] /\ Ask(m, Push, p) /\ m = n /\ Push = w
    BY <2>2, <2>4
  <2>5. CASE Ask(m, Push, p) /\ (m # n \/ Push # w)
    BY <1>1, <2>1, <2>5 DEF Ask
  <2> QED  BY <2>3, <2>4, <2>5
<1>5. ASSUME NEW m \in Node, Restart(m), m # n
      PROVE  pull'[n][w] = pull[n][w]
  BY <1>5 DEF Restart, TypeOK
<1>6. ASSUME NEW m \in Node,
             \/ Emit(m) \/ CheckPartitions(m) \/ Compact(m)
             \/ \E p \in Node : PushNotify(m, p) \/ ProcessHeartbeat(m, p)
      PROVE  pull' = pull
  BY <1>6 DEF Emit, CheckPartitions, Compact, PushNotify, ProcessHeartbeat
<1>7. ASSUME Age \/ PostLost \/ UNCHANGED vars
      PROVE  pull' = pull
  BY <1>7 DEF Age, PostLost, vars
<1> QED  BY <1>2, <1>3, <1>4, <1>5, <1>6, <1>7 DEF Next, Step

(* A cursor changes by MoveCursor of its node, or by a restart. *)
LEMMA CursorMoves ==
    ASSUME TypeOK, [Next]_vars, NEW n \in Node, NEW p \in Node
    PROVE  \/ cursor'[n][p] = cursor[n][p]
           \/ Restart(n)
           \/ \E w \in Slot : MoveCursor(n, w) /\ p = pull[n][w].peer
<1>1. ASSUME NEW m \in Node, NEW w \in Slot, MoveCursor(m, w)
      PROVE  \/ cursor'[n][p] = cursor[n][p]
             \/ m = n /\ p = pull[n][w].peer
  BY <1>1 DEF MoveCursor, TypeOK
<1>2. ASSUME NEW m \in Node, Restart(m), m # n
      PROVE  cursor'[n][p] = cursor[n][p]
  BY <1>2 DEF Restart, NewManager, TypeOK
<1>3. ASSUME NEW m \in Node, NEW w \in Slot, Proceed(m, w) \/ PullLost(m, w),
             ~MoveCursor(m, w)
      PROVE  cursor' = cursor
  BY <1>3 DEF Proceed, HandleSyncRequest, PullLost, Mark, AppendMarked
<1>4. ASSUME NEW m \in Node, NEW q \in Node,
             PushNotify(m, q) \/ ProcessHeartbeat(m, q) \/ PullOnTick(m, q)
      PROVE  cursor' = cursor
  BY <1>4 DEF PushNotify, ProcessHeartbeat, PullOnTick
<1>5. ASSUME NEW m \in Node,
             Emit(m) \/ PullOnNotice(m) \/ CheckPartitions(m) \/ Compact(m)
      PROVE  cursor' = cursor
  BY <1>5 DEF Emit, PullOnNotice, CheckPartitions, Compact
<1>6. ASSUME Age \/ PostLost \/ UNCHANGED vars
      PROVE  cursor' = cursor
  BY <1>6 DEF Age, PostLost, vars
<1> QED  BY <1>1, <1>2, <1>3, <1>4, <1>5, <1>6 DEF Next, Step

(* A dedup map changes by Mark of its node, or by a restart. *)
LEMMA DedupMoves ==
    ASSUME TypeOK, [Next]_vars, NEW n \in Node
    PROVE  \/ dedup'[n] = dedup[n]
           \/ Restart(n)
           \/ \E w \in Slot : Mark(n, w)
<1>1. ASSUME NEW m \in Node, NEW w \in Slot, Mark(m, w), m # n
      PROVE  dedup'[n] = dedup[n]
  BY <1>1 DEF Mark, TypeOK
<1>2. ASSUME NEW m \in Node, Restart(m), m # n
      PROVE  dedup'[n] = dedup[n]
  BY <1>2 DEF Restart, NewManager, TypeOK
<1>3. ASSUME NEW m \in Node, NEW w \in Slot, Proceed(m, w) \/ PullLost(m, w),
             ~Mark(m, w)
      PROVE  dedup' = dedup
  BY <1>3 DEF Proceed, HandleSyncRequest, PullLost, MoveCursor, AppendMarked
<1>4. ASSUME NEW m \in Node, NEW q \in Node,
             PushNotify(m, q) \/ ProcessHeartbeat(m, q) \/ PullOnTick(m, q)
      PROVE  dedup' = dedup
  BY <1>4 DEF PushNotify, ProcessHeartbeat, PullOnTick
<1>5. ASSUME NEW m \in Node,
             Emit(m) \/ PullOnNotice(m) \/ CheckPartitions(m) \/ Compact(m)
      PROVE  dedup' = dedup
  BY <1>5 DEF Emit, PullOnNotice, CheckPartitions, Compact
<1>6. ASSUME Age \/ PostLost \/ UNCHANGED vars
      PROVE  dedup' = dedup
  BY <1>6 DEF Age, PostLost, vars
<1> QED  BY <1>1, <1>2, <1>3, <1>4, <1>5, <1>6 DEF Next, Step

------------------------------------------------------------------------------
(* What a pull knows, and what its node has handled. *)

(* The fields of a pull after each of its steps. *)
LEMMA SetPull ==
    ASSUME TypeOK, NEW n \in Node, NEW w \in Slot, NEW s, Set(n, w, s)
    PROVE  pull'[n][w] = s
  BY DEF TypeOK, Set

(* A pull that ends is idle. *)
LEMMA IdleFields ==
    ASSUME TypeOK, NEW n \in Node, NEW w \in Slot,
           PullLost(n, w) \/ MoveCursor(n, w) \/ Restart(n)
    PROVE  pull'[n][w] = Idle(n)
<1>1. CASE PullLost(n, w) \/ MoveCursor(n, w)
  BY <1>1, SetPull DEF PullLost, MoveCursor
<1>2. CASE Restart(n)
  BY <1>2 DEF Restart, TypeOK
<1> QED  BY <1>1, <1>2

(* The pull after a request. *)
LEMMA AskFields ==
    ASSUME TypeOK, NEW n \in Node, NEW w \in Slot, NEW p, Ask(n, w, p)
    PROVE  /\ pull'[n][w].phase = "asked" /\ pull'[n][w].peer = p
           /\ pull'[n][w].after = cursor[n][p] /\ pull'[n][w].last = 0
           /\ pull'[n][w].todo = {} /\ pull'[n][w].hand = {}
<1>1. pull'[n][w] = [Idle(n) EXCEPT !.phase = "asked", !.peer = p, !.after = cursor[n][p]]
  BY SetPull DEF Ask
<1> QED  BY <1>1 DEF Idle

Answer(n, w) == {r \in Query(log[pull[n][w].peer], pull[n][w].after, BatchSize) :
                   r.id \in Scope[n][pull[n][w].peer]}

(* The pull after its answer. *)
LEMMA AnswerFields ==
    ASSUME TypeOK, NEW n \in Node, NEW w \in Slot, HandleSyncRequest(n, w)
    PROVE  /\ pull[n][w].phase = "asked"
           /\ \/ pull'[n][w] = Idle(n)
              \/ /\ Answer(n, w) # {}
                 /\ pull'[n][w].phase = "ingest" /\ pull'[n][w].peer = pull[n][w].peer
                 /\ pull'[n][w].after = pull[n][w].after
                 /\ pull'[n][w].last = LastOf(log[pull[n][w].peer], Answer(n, w))
                 /\ pull'[n][w].todo = Answer(n, w) /\ pull'[n][w].hand = pull[n][w].hand
<1> DEFINE me == pull[n][w]
           got(E) == [me EXCEPT !.phase = "ingest", !.todo = E, !.last = LastOf(log[me.peer], E)]
<1>0. me \in Pull
  BY DEF TypeOK
<1>1. /\ me.phase = "asked"
      /\ \/ Set(n, w, Idle(n))
         \/ Answer(n, w) # {} /\ Set(n, w, got(Answer(n, w)))
  BY DEF HandleSyncRequest, Answer
<1>2. ASSUME NEW E
      PROVE  /\ got(E).phase = "ingest" /\ got(E).peer = me.peer /\ got(E).after = me.after
             /\ got(E).last = LastOf(log[me.peer], E)
             /\ got(E).todo = E /\ got(E).hand = me.hand
  BY <1>0 DEF Pull
<1> HIDE DEF got
<1>3. \/ pull'[n][w] = Idle(n)
      \/ Answer(n, w) # {} /\ pull'[n][w] = got(Answer(n, w))
  BY <1>1, SetPull
<1> QED  BY <1>1, <1>2, <1>3

(* The pull and the dedup map after a dedup check. *)
LEMMA MarkFields ==
    ASSUME TypeOK, NEW n \in Node, NEW w \in Slot, Mark(n, w)
    PROVE  /\ pull[n][w].phase = "ingest" /\ pull[n][w].hand = {}
           /\ pull'[n][w].phase = "ingest" /\ pull'[n][w].peer = pull[n][w].peer
           /\ pull'[n][w].after = pull[n][w].after /\ pull'[n][w].last = pull[n][w].last
           /\ \E r \in pull[n][w].todo :
                 /\ pull'[n][w].todo = pull[n][w].todo \ {r}
                 /\ \/ /\ r.id \in Seen(n) /\ pull'[n][w].hand = {}
                       /\ dedup' = dedup
                    \/ /\ pull'[n][w].hand = {r}
                       /\ \E s \in Evicted(Append(dedup[n], r.id)) :
                              dedup' = [dedup EXCEPT ![n] = s]
<1> DEFINE me == pull[n][w]
<1>0. me \in Pull
  BY DEF TypeOK
<1>1. me.phase = "ingest" /\ me.hand = {}
  BY DEF Mark
<1>2. PICK r \in me.todo :
         IF r.id \in Seen(n)
         THEN Set(n, w, [me EXCEPT !.todo = @ \ {r}]) /\ UNCHANGED dedup
         ELSE /\ Set(n, w, [me EXCEPT !.todo = @ \ {r}, !.hand = {r}])
              /\ \E s \in Evicted(Append(dedup[n], r.id)) :
                    dedup' = [dedup EXCEPT ![n] = s]
  BY DEF Mark
<1>3. CASE r.id \in Seen(n)
  <2>1. pull'[n][w] = [me EXCEPT !.todo = @ \ {r}]
    BY <1>2, <1>3, SetPull
  <2> QED  BY <1>0, <1>1, <1>2, <1>3, <2>1 DEF Pull
<1>4. CASE r.id \notin Seen(n)
  <2>1. pull'[n][w] = [me EXCEPT !.todo = @ \ {r}, !.hand = {r}]
    BY <1>2, <1>4, SetPull
  <2>2. \E s \in Evicted(Append(dedup[n], r.id)) : dedup' = [dedup EXCEPT ![n] = s]
    BY <1>2, <1>4
  <2>3. /\ pull'[n][w].phase = me.phase /\ pull'[n][w].peer = me.peer
        /\ pull'[n][w].after = me.after /\ pull'[n][w].last = me.last
        /\ pull'[n][w].todo = me.todo \ {r} /\ pull'[n][w].hand = {r}
    BY <1>0, <2>1 DEF Pull
  <2> QED  BY <1>1, <2>2, <2>3
<1> QED  BY <1>3, <1>4

(* The pull after its append. *)
LEMMA AppendFields ==
    ASSUME TypeOK, NEW n \in Node, NEW w \in Slot, AppendMarked(n, w)
    PROVE  /\ pull'[n][w].phase = pull[n][w].phase /\ pull'[n][w].peer = pull[n][w].peer
           /\ pull'[n][w].after = pull[n][w].after /\ pull'[n][w].last = pull[n][w].last
           /\ pull'[n][w].todo = pull[n][w].todo /\ pull'[n][w].hand = {}
<1>1. pull'[n][w] = [pull[n][w] EXCEPT !.hand = {}]
  BY SetPull DEF AppendMarked
<1> QED  BY <1>1 DEF TypeOK, Pull

(* Every step keeps what is said of the pulls. *)
LEMMA PullStep ==
    ASSUME TypeOK, LogInv, PullInv, [Next]_vars
    PROVE  PullInv'
<1>1. ASSUME NEW n \in Node, NEW p \in Node
      PROVE  cursor'[n][p] <= top'[p]
  <2>0. /\ cursor[n][p] \in Nat /\ top[p] \in Nat /\ top'[p] \in Nat
        /\ top[p] <= top'[p] /\ cursor[n][p] <= top[p]
    <3>1. TypeOK'
      BY TypeStep
    <3>2. top[p] <= top'[p]
      BY HistoryGrows
    <3> QED  BY <3>1, <3>2 DEF TypeOK, PullInv
  <2>1. CASE Restart(n)
    BY <2>0, <2>1 DEF Restart, NewManager, TypeOK
  <2>2. ASSUME NEW w \in Slot, MoveCursor(n, w), p = pull[n][w].peer
        PROVE  cursor'[n][p] <= top'[p]
    <3>1. cursor'[n][p] = pull[n][w].last
      BY <2>2 DEF MoveCursor, TypeOK
    <3>2. pull[n][w].last <= top[p] /\ pull[n][w].last \in Nat
      BY <2>2 DEF PullInv, PullOK, TypeOK, Pull
    <3> QED  BY <2>0, <3>1, <3>2
  <2> QED  BY <2>0, <2>1, <2>2, CursorMoves
<1>2. ASSUME NEW n \in Node, NEW w \in Slot
      PROVE  PullOK(n, pull[n][w])'
  <2> DEFINE me == pull[n][w]
             now == pull'[n][w]
             Good(m) ==
                /\ m.phase # "idle" => m.peer \in Configured[n]
                /\ m.phase # "ingest" => m.todo = {} /\ m.hand = {}
                /\ \A q, r \in m.hand : q = r
                /\ m.after <= top'[m.peer] /\ m.last <= top'[m.peer]
                /\ \A r \in m.todo \cup m.hand :
                      r.id \in held'[m.peer] /\ r.id \in Scope[n][m.peer]
  <2>0. /\ me \in Pull /\ now \in Pull /\ PullOK(n, me)
        /\ me.peer \in Node /\ top \in [Node -> Nat] /\ top' \in [Node -> Nat]
        /\ \A p \in Node : /\ top[p] <= top'[p]
                           /\ held[p] \subseteq held'[p]
    <3>1. TypeOK'
      BY TypeStep
    <3>2. \A p \in Node : top[p] <= top'[p] /\ held[p] \subseteq held'[p]
      BY HistoryGrows
    <3>3. me \in Pull /\ now \in Pull /\ top \in [Node -> Nat] /\ top' \in [Node -> Nat]
      BY <3>1 DEF TypeOK
    <3>4. me.peer \in Node
      BY <3>3 DEF Pull
    <3> QED  BY <3>2, <3>3, <3>4 DEF PullInv
  <2> SUFFICES Good(now)
    BY DEF PullOK
  <2>1. CASE now = me
    BY <2>0, <2>1 DEF PullOK, Pull
  <2>2. CASE now = Idle(n)
    BY <2>0, <2>2 DEF PullOK, Idle
  <2>3. ASSUME NEW p \in Configured[n], Ask(n, w, p)
        PROVE  Good(now)
    <3>1. /\ now.phase = "asked" /\ now.peer = p /\ now.after = cursor[n][p]
          /\ now.last = 0 /\ now.todo = {} /\ now.hand = {}
      BY <2>3, AskFields
    <3>2. p \in Node
      BY SyncAssumption
    <3>3. cursor[n][p] <= top[p] /\ cursor[n][p] \in Nat
      BY <3>2 DEF PullInv, TypeOK
    <3>4. top[p] \in Nat /\ top'[p] \in Nat /\ top[p] <= top'[p]
      BY <2>0, <3>2
    <3> HIDE DEF now
    <3> QED  BY <3>1, <3>2, <3>3, <3>4
  <2>4. CASE HandleSyncRequest(n, w) /\ now # Idle(n)
    <3> DEFINE events == Answer(n, w)
               last == LastOf(log[me.peer], events)
    <3>1. /\ me.phase = "asked" /\ events # {}
          /\ now.phase = "ingest" /\ now.peer = me.peer /\ now.after = me.after
          /\ now.last = last /\ now.todo = events /\ now.hand = me.hand
      BY <2>4, AnswerFields
    <3>2. /\ events \subseteq log[me.peer].rows
          /\ \E r \in events : r.seq = last
          /\ last \in Nat
      BY <3>1, AnswerOf DEF Answer
    <3>3. \A r \in events : r.seq <= top[me.peer] /\ r.id \in held[me.peer]
                            /\ r.id \in Scope[n][me.peer]
      BY <2>0, <3>2 DEF LogInv, Answer
    <3>4. /\ me.hand = {} /\ me.after <= top[me.peer] /\ me.after \in Nat
          /\ me.peer \in Configured[n]
      BY <2>0, <3>1 DEF PullOK, Pull
    <3> HIDE DEF me, now, events, last
    <3>5. /\ now.last <= top'[me.peer] /\ now.after <= top'[me.peer]
          /\ \A r \in events : r.id \in held'[me.peer] /\ r.id \in Scope[n][me.peer]
      BY <2>0, <3>1, <3>2, <3>3, <3>4
    <3> QED  BY <3>1, <3>4, <3>5
  <2>5. CASE Mark(n, w) \/ AppendMarked(n, w)
    <3>1. /\ now.phase = me.phase /\ now.peer = me.peer /\ now.after = me.after
          /\ now.last = me.last
          /\ now.todo \subseteq me.todo /\ now.hand \subseteq me.todo \cup me.hand
          /\ \A q, r \in now.hand : q = r
          /\ me.phase # "ingest" => now.hand = {}
      BY <2>5, MarkFields, AppendFields
    <3>2. me.after \in Nat /\ me.last \in Nat
      BY <2>0 DEF Pull
    <3> HIDE DEF me, now
    <3> QED  BY <2>0, <3>1, <3>2 DEF PullOK
  <2>6. CASE PullLost(n, w) \/ MoveCursor(n, w) \/ Restart(n)
    BY <2>2, <2>6, IdleFields
  <2> HIDE DEF Good
  <2> QED  BY <2>1, <2>2, <2>3, <2>4, <2>5, <2>6, PullMoves DEF Proceed
<1> QED  BY <1>1, <1>2 DEF PullInv

(* Until it restarts, a node goes on having handled what it has handled. *)
LEMMA HandledGrows ==
    ASSUME TypeOK, LogInv, PullInv, [Next]_vars, NEW n \in Node, ~Restart(n)
    PROVE  Handled(n) \subseteq Handled(n)'
<1>1. held[n] \subseteq held'[n]
  BY HistoryGrows
<1>2. failed[n] \subseteq failed'[n]
  <2>1. ASSUME NEW m \in Node, Logs(m), m = n => ~Restart(m)
        PROVE  failed[n] \subseteq failed'[n]
    BY ZenonT(60), <2>1 DEF Logs, Appends, FailsToAppend, Compact, Restart, TypeOK
  <2> QED  BY <2>1, LogMoves
<1>3. ASSUME NEW w \in Slot, NEW r \in pull[n][w].hand
      PROVE  r.id \in Handled(n)'
  <2>0. pull[n][w].phase = "ingest" /\ pull[n][w].hand = {r}
    BY DEF PullInv, PullOK
  <2>1. CASE pull'[n][w] = pull[n][w]
    BY <2>1 DEF Handled, InHand
  <2>2. ~ \E p \in Configured[n] : Ask(n, w, p)
    BY <2>0 DEF Ask
  <2>3. ~ (HandleSyncRequest(n, w) \/ PullLost(n, w) \/ Mark(n, w) \/ MoveCursor(n, w))
    BY <2>0 DEF HandleSyncRequest, PullLost, Mark, MoveCursor
  <2>4. CASE AppendMarked(n, w)
    <3>1. Appends(n, r.id) \/ FailsToAppend(n, r.id)
      BY <2>0, <2>4 DEF AppendMarked
    <3>2. CASE Appends(n, r.id)
      BY <3>2 DEF Appends, Handled, TypeOK
    <3>3. CASE FailsToAppend(n, r.id)
      <4>1. CASE Refuses(log[n], r.id)
        <5>1. log[n] \in Log /\ Counted(log[n])
          BY DEF TypeOK, LogInv
        <5>2. \A q \in log[n].rows : q.seq # log[n].counter + 1
          BY <5>1 DEF Log, Row, Counted
        <5>3. r.id \in held[n]
          BY <4>1, <5>2 DEF Refuses, Ids, LogInv
        <5> QED  BY <1>1, <5>3 DEF Handled
      <4>2. CASE failed' = [failed EXCEPT ![n] = @ \cup {r.id}]
        BY <4>2 DEF Handled, TypeOK
      <4> QED  BY <3>3, <4>1, <4>2 DEF FailsToAppend
    <3> QED  BY <3>1, <3>2, <3>3
  <2> QED  BY <2>1, <2>2, <2>3, <2>4, PullMoves DEF Proceed
<1> QED  BY <1>1, <1>2, <1>3 DEF Handled, InHand

(* What is handled of a peer's log stays handled: a row added to the log is
   numbered above everything anyone knows of it.                            *)
LEMMA PassedKept ==
    ASSUME TypeOK, LogInv, PullInv, [Next]_vars, NEW n \in Node, NEW p \in Node,
           NEW k \in Nat, NEW S, ~Restart(n), p \notin renumbered', k <= top[p],
           Passed(n, p, k, S)
    PROVE  \A r \in log'[p].rows :
              r.seq <= k /\ r.id \in Scope[n][p] =>
                 r.id \in Handled(n)' \/ \E q \in S : q.id = r.id
<1> SUFFICES ASSUME NEW r \in log'[p].rows, r.seq <= k, r.id \in Scope[n][p]
             PROVE  r.id \in Handled(n)' \/ \E q \in S : q.id = r.id
  OBVIOUS
<1>1. r \in log[p].rows \/ r.seq > top[p]
  BY HistoryGrows
<1>2. TypeOK'
  BY TypeStep
<1>3. r.seq \in Nat /\ top[p] \in Nat
  <2>1. log' \in [Node -> Log]
    BY <1>2 DEF TypeOK
  <2> QED  BY <2>1 DEF TypeOK, Log, Row
<1>4. r \in log[p].rows
  BY <1>1, <1>3
<1> QED  BY <1>4, HandledGrows DEF Passed

(* Every step keeps what the cursors and the pulls cover. *)
LEMMA CoverStep ==
    ASSUME TypeOK, LogInv, PullInv, CoverInv, [Next]_vars
    PROVE  CoverInv'
<1>0. /\ TypeOK' /\ LogInv' /\ PullInv'
      /\ \A p \in Node : p \notin renumbered' => p \notin renumbered
  <2>1. TypeOK' /\ LogInv' /\ PullInv'
    BY TypeStep, LogStep, PullStep
  <2>2. \A p \in Node : p \notin renumbered' => p \notin renumbered
    BY HistoryGrows
  <2> QED  BY <2>1, <2>2
<1>1. ASSUME NEW n \in Node
      PROVE  (Seen(n) \subseteq Handled(n))'
  <2>1. CASE Restart(n)
    <3>1. dedup'[n] = <<>>
      BY <2>1 DEF Restart, NewManager, TypeOK
    <3> QED  BY <3>1 DEF Seen
  <2>2. CASE ~Restart(n) /\ dedup'[n] = dedup[n]
    BY <2>2, HandledGrows DEF CoverInv, Seen
  <2>3. CASE ~Restart(n) /\ \E w \in Slot : Mark(n, w)
    <3>1. PICK w \in Slot : Mark(n, w)
      BY <2>3
    <3>2. PICK r \in pull[n][w].todo :
             \/ dedup' = dedup
             \/ /\ pull'[n][w].hand = {r}
                /\ \E s \in Evicted(Append(dedup[n], r.id)) : dedup' = [dedup EXCEPT ![n] = s]
      BY <3>1, MarkFields
    <3>3. ASSUME pull'[n][w].hand = {r}, NEW s \in Evicted(Append(dedup[n], r.id)),
                 dedup' = [dedup EXCEPT ![n] = s]
          PROVE  (Seen(n) \subseteq Handled(n))'
      <4> DEFINE d == Append(dedup[n], r.id)
      <4>1. r.id \in Event /\ dedup[n] \in Seq(Event)
        BY DEF TypeOK, Pull, Row
      <4>2. d \in Seq(Event) /\ \A j \in DOMAIN d : d[j] \in Seen(n) \cup {r.id}
        BY <4>1 DEF Seen
      <4>3. dedup'[n] = s
        BY <3>3 DEF TypeOK
      <4> HIDE DEF d
      <4>4. \A i \in DOMAIN s : \E j \in DOMAIN d : s[i] = d[j]
        BY <3>3, <4>2, EvictedOf DEF d
      <4>5. Seen(n)' \subseteq Seen(n) \cup {r.id}
        BY <4>2, <4>3, <4>4 DEF Seen
      <4>6. r.id \in Handled(n)'
        BY <3>3 DEF Handled, InHand
      <4> QED  BY <2>3, <4>5, <4>6, HandledGrows DEF CoverInv
    <3> QED  BY <2>2, <2>3, <3>2, <3>3
  <2> QED  BY <2>1, <2>2, <2>3, DedupMoves
<1>2. ASSUME NEW n \in Node, NEW p \in Configured[n], p \notin renumbered'
      PROVE  Passed(n, p, cursor[n][p], {})'
  <2>0. /\ p \in Node /\ p \notin renumbered
        /\ cursor[n][p] \in Nat /\ cursor[n][p] <= top[p]
        /\ Passed(n, p, cursor[n][p], {})
    <3>1. p \in Node
      BY SyncAssumption
    <3>2. p \notin renumbered
      BY <1>0, <1>2, <3>1
    <3>3. Passed(n, p, cursor[n][p], {})
      BY <1>2, <3>2 DEF CoverInv
    <3>4. cursor[n][p] \in Nat /\ cursor[n][p] <= top[p]
      BY <3>1 DEF TypeOK, PullInv
    <3> QED  BY <3>1, <3>2, <3>3, <3>4
  <2>1. CASE Restart(n)
    <3>1. cursor'[n][p] = 0
      BY <2>0, <2>1 DEF Restart, NewManager, TypeOK
    <3>2. \A r \in log'[p].rows : r.seq \in Nat /\ r.seq >= 1
      <4>1. log' \in [Node -> Log] /\ Counted(log'[p])
        BY <1>0, <2>0 DEF TypeOK, LogInv
      <4> QED  BY <2>0, <4>1 DEF Counted, Log, Row
    <3> QED  BY <3>1, <3>2 DEF Passed
  <2>2. CASE ~Restart(n) /\ cursor'[n][p] = cursor[n][p]
    <3>1. \A r \in log'[p].rows :
             r.seq <= cursor[n][p] /\ r.id \in Scope[n][p] =>
                r.id \in Handled(n)' \/ \E q \in {} : q.id = r.id
      BY <1>2, <2>0, <2>2, PassedKept
    <3> QED  BY <2>2, <3>1 DEF Passed
  <2>3. ASSUME ~Restart(n), NEW w \in Slot, MoveCursor(n, w), p = pull[n][w].peer
        PROVE  Passed(n, p, cursor[n][p], {})'
    <3> DEFINE k == pull[n][w].last
    <3>1. cursor'[n][p] = k /\ pull[n][w].phase = "ingest" /\ pull[n][w].todo = {}
      <4>1. cursor \in [Node -> [Node -> Nat]]
        BY DEF TypeOK
      <4> QED  BY <2>0, <2>3, <4>1 DEF MoveCursor
    <3>2. k \in Nat /\ k <= top[p]
      BY <2>3 DEF PullInv, PullOK, TypeOK, Pull
    <3>3. Passed(n, p, k, {})
      BY <2>0, <2>3, <3>1 DEF CoverInv, PullCovers
    <3> HIDE DEF k
    <3>4. \A r \in log'[p].rows :
             r.seq <= k /\ r.id \in Scope[n][p] =>
                r.id \in Handled(n)' \/ \E q \in {} : q.id = r.id
      BY <1>2, <2>0, <2>3, <3>2, <3>3, PassedKept
    <3> QED  BY <3>1, <3>4 DEF Passed
  <2> QED  BY <2>0, <2>1, <2>2, <2>3, CursorMoves
<1>3. ASSUME NEW n \in Node, NEW w \in Slot
      PROVE  PullCovers(n, pull[n][w])'
  <2> DEFINE me == pull[n][w]
             now == pull'[n][w]
             Upto(k, S) == \A r \in log'[now.peer].rows :
                r.seq <= k /\ r.id \in Scope[n][now.peer] =>
                   r.id \in Handled(n)' \/ \E q \in S : q.id = r.id
  <2> SUFFICES ASSUME now.peer \notin renumbered'
               PROVE  /\ now.phase = "asked" => Upto(now.after, {})
                      /\ now.phase = "ingest" => Upto(now.last, now.todo)
    BY DEF PullCovers, Passed
  <2>0. /\ now.peer \in Node /\ now.peer \notin renumbered
        /\ me.peer \in Node /\ me.after \in Nat /\ me.last \in Nat
        /\ me.after <= top[me.peer] /\ me.last <= top[me.peer]
    <3>1. now \in Pull
      BY <1>0 DEF TypeOK
    <3>2. now.peer \in Node
      BY <3>1 DEF Pull
    <3>3. me \in Pull /\ PullOK(n, me)
      BY DEF TypeOK, PullInv
    <3>4. /\ me.peer \in Node /\ me.after \in Nat /\ me.last \in Nat
          /\ me.after <= top[me.peer] /\ me.last <= top[me.peer]
      BY <3>3 DEF Pull, PullOK
    <3> QED  BY <1>0, <3>2, <3>4
  <2>1. CASE now = Idle(n)
    BY <2>1 DEF Idle
  <2>2. CASE now = me /\ ~Restart(n)
    <3>1. me.phase = "asked" => Passed(n, me.peer, me.after, {})
      BY <2>0, <2>2 DEF CoverInv, PullCovers
    <3>2. me.phase = "ingest" => Passed(n, me.peer, me.last, me.todo)
      BY <2>0, <2>2 DEF CoverInv, PullCovers
    <3>3. me.phase = "asked" => Upto(me.after, {})
      BY <2>0, <2>2, <3>1, PassedKept
    <3>4. me.phase = "ingest" => Upto(me.last, me.todo)
      BY <2>0, <2>2, <3>2, PassedKept
    <3> QED  BY <2>2, <3>3, <3>4
  <2>3. ASSUME ~Restart(n), NEW p \in Configured[n], Ask(n, w, p)
        PROVE  now.phase = "asked" /\ Upto(now.after, {})
    <3>1. now.phase = "asked" /\ now.peer = p /\ now.after = cursor[n][p]
      BY <2>3, AskFields
    <3>2. /\ cursor[n][p] \in Nat /\ cursor[n][p] <= top[p] /\ p \in Node
          /\ Passed(n, p, cursor[n][p], {})
      <4>1. p \in Node /\ p \notin renumbered
        BY <2>0, <3>1
      <4>2. Passed(n, p, cursor[n][p], {})
        BY <4>1 DEF CoverInv
      <4>3. cursor[n][p] \in Nat /\ cursor[n][p] <= top[p]
        BY <4>1 DEF TypeOK, PullInv
      <4> QED  BY <4>1, <4>2, <4>3
    <3> QED  BY <2>0, <2>3, <3>1, <3>2, PassedKept
  <2>4. CASE ~Restart(n) /\ HandleSyncRequest(n, w) /\ now # Idle(n)
    <3> DEFINE last == LastOf(log[me.peer], Answer(n, w))
               page == Query(log[me.peer], me.after, BatchSize)
    <3>1. /\ me.phase = "asked" /\ Answer(n, w) # {}
          /\ now.phase = "ingest" /\ now.peer = me.peer
          /\ now.last = last /\ now.todo = Answer(n, w)
      BY <2>4, AnswerFields
    <3>2. /\ \E r \in Answer(n, w) : r.seq = last
          /\ last \in Nat
          /\ \A r \in Answer(n, w) : r \in log[me.peer].rows
      BY <3>1, AnswerOf DEF Answer
    <3>3. Passed(n, me.peer, me.after, {})
      BY <2>0, <3>1 DEF CoverInv, PullCovers
    <3>4. log[me.peer] \in Log /\ Counted(log[me.peer]) /\ BatchSize \in Nat
      BY <2>0, SyncAssumption DEF TypeOK, LogInv
    <3>5. PICK r0 \in page : r0.seq = last
      BY <3>2 DEF Answer
    <3>6. \A q \in log[me.peer].rows : q.seq > me.after /\ q.seq <= last => q \in page
      BY <2>0, <3>4, <3>5, QueryIsPrefix
    <3>7. Passed(n, me.peer, last, Answer(n, w))
      <4> SUFFICES ASSUME NEW r \in log[me.peer].rows, r.seq <= last,
                          r.id \in Scope[n][me.peer]
                   PROVE  r.id \in Handled(n) \/ r \in Answer(n, w)
        BY DEF Passed
      <4>1. r.seq \in Nat
        BY <3>4 DEF Log, Row
      <4>2. CASE r.seq <= me.after
        BY <3>3, <4>2 DEF Passed
      <4>3. CASE r.seq > me.after
        BY <3>6, <4>3 DEF Answer
      <4> QED  BY <2>0, <4>1, <4>2, <4>3
    <3>8. last <= top[me.peer]
      BY <2>0, <3>2 DEF LogInv
    <3> HIDE DEF last
    <3>9. Upto(last, Answer(n, w))
      BY <2>0, <2>4, <3>1, <3>2, <3>7, <3>8, PassedKept
    <3> QED  BY <3>1, <3>9
  <2>5. CASE ~Restart(n) /\ Mark(n, w)
    <3>1. /\ me.phase = "ingest" /\ now.phase = "ingest"
          /\ now.peer = me.peer /\ now.last = me.last
      BY <2>5, MarkFields
    <3>2. PICK r \in me.todo :
             /\ now.todo = me.todo \ {r}
             /\ r.id \in Seen(n) \/ now.hand = {r}
      BY <2>5, MarkFields
    <3>3. r.id \in Handled(n)'
      <4>1. CASE r.id \in Seen(n)
        BY <2>5, <4>1, HandledGrows DEF CoverInv
      <4>2. CASE now.hand = {r}
        BY <4>2 DEF Handled, InHand
      <4> QED  BY <3>2, <4>1, <4>2
    <3>4. Passed(n, me.peer, me.last, me.todo)
      BY <2>0, <3>1 DEF CoverInv, PullCovers
    <3>5. Upto(me.last, me.todo)
      BY <2>0, <2>5, <3>1, <3>4, PassedKept
    <3>6. Upto(me.last, now.todo)
      BY <3>2, <3>3, <3>5
    <3> QED  BY <3>1, <3>6
  <2>6. CASE ~Restart(n) /\ AppendMarked(n, w)
    <3>1. /\ now.phase = me.phase /\ now.peer = me.peer /\ now.last = me.last
          /\ now.todo = me.todo
      BY <2>6, AppendFields
    <3>2. me.phase = "ingest"
      BY <2>6 DEF AppendMarked, PullInv, PullOK
    <3>3. Passed(n, me.peer, me.last, me.todo)
      BY <2>0, <3>1, <3>2 DEF CoverInv, PullCovers
    <3>4. Upto(me.last, me.todo)
      BY <2>0, <2>6, <3>1, <3>3, PassedKept
    <3> QED  BY <3>1, <3>2, <3>4
  <2>7. CASE PullLost(n, w) \/ MoveCursor(n, w) \/ Restart(n)
    BY <2>1, <2>7, IdleFields
  <2> HIDE DEF Upto, me
  <2> QED  BY <2>1, <2>2, <2>3, <2>4, <2>5, <2>6, <2>7, PullMoves DEF Proceed, me
<1> QED  BY <1>1, <1>2, <1>3 DEF CoverInv

------------------------------------------------------------------------------
(* The theorems. *)

(* The invariant holds at the start. *)
LEMMA InitInv ==
    ASSUME Init
    PROVE  TypeOK /\ SyncInv
<1>1. TypeOK
  <2>1. log \in [Node -> Log]
    BY EmptyLogTypes DEF Init
  <2>2. pull \in [Node -> [Slot -> Pull]]
    BY IdleTypes DEF Init
  <2>3. state \in [Node -> [Node -> PeerState]] /\ cursor \in [Node -> [Node -> Nat]]
    BY DEF Init, PeerState
  <2>4. /\ <<>> \in Seq(Event) /\ <<>> \in Seq(Node) /\ Len(<<>>) <= QueueCap
        /\ MaxEvents \in Nat /\ MaxFaults \in Nat
    BY SyncAssumption, LogAssumption
  <2>5. /\ dedup \in [Node -> Seq(Event)] /\ notices \in [Node -> Seq(Node)]
        /\ \A n \in Node : Len(notices[n]) <= QueueCap
    BY <2>4 DEF Init
  <2> QED  BY <2>1, <2>2, <2>3, <2>4, <2>5 DEF Init, TypeOK
<1>2. LogInv
  BY EmptyLogTypes DEF Init, LogInv, EmptyLog
<1>3. PullInv
  BY DEF Init, PullInv, PullOK, Idle
<1>4. CoverInv
  <2>1. \A n \in Node : Seen(n) = {}
    BY DEF Init, Seen
  <2>2. \A p \in Node : log[p].rows = {}
    BY DEF Init, EmptyLog
  <2>3. \A n \in Node : \A p \in Configured[n] : Passed(n, p, cursor[n][p], {})
    BY <2>2, SyncAssumption DEF Passed
  <2>4. \A n \in Node, w \in Slot : PullCovers(n, pull[n][w])
    BY DEF Init, PullCovers, Idle
  <2> QED  BY <2>1, <2>3, <2>4 DEF CoverInv
<1> QED  BY <1>1, <1>2, <1>3, <1>4 DEF SyncInv

(* The inductive invariant. *)
THEOREM SyncInvariant == Spec => [](TypeOK /\ SyncInv)
<1>1. Init => TypeOK /\ SyncInv
  BY InitInv
<1>2. TypeOK /\ SyncInv /\ [Next]_vars => (TypeOK /\ SyncInv)'
  BY TypeStep, LogStep, PullStep, CoverStep DEF SyncInv
<1> QED  BY <1>1, <1>2, PTL DEF Spec

(* Types: no pull, log or queue leaves its type; a node's queue of
   notifications never outgrows the channel.                                *)
THEOREM SyncTypes == Spec => []TypeOK
  BY SyncInvariant, PTL

(* A cursor passes no event in scope that its node has not dealt with, however
   pulls overlap, entries are evicted and nodes restart.                    *)
THEOREM CursorsCover == Spec => []CursorCovers
<1>1. SyncInv => CursorCovers
  BY DEF SyncInv, CoverInv, CursorCovers, Passed
<1> QED  BY <1>1, SyncInvariant, PTL

(* Federation implements EventDelivery. *)
THEOREM DeliveryImplemented == Spec => RefinesDelivery
<1>1. Init => Delivery!Init
  BY DEF Init, Delivery!Init
<1>2. TypeOK /\ SyncInv /\ [Next]_vars => [Delivery!Next]_<<held, emitted>>
  <2> SUFFICES ASSUME TypeOK, SyncInv, [Next]_vars
               PROVE  Delivery!Next \/ UNCHANGED <<held, emitted>>
    OBVIOUS
  <2>1. ASSUME NEW n \in Node, Emit(n)
        PROVE  Delivery!Next \/ UNCHANGED <<held, emitted>>
    <3>1. emitted' = emitted + 1
      BY <2>1 DEF Emit
    <3>2. \/ held' = [held EXCEPT ![n] = @ \cup {emitted + 1}]
          \/ held' = held
      BY <2>1 DEF Emit, Appends, FailsToAppend
    <3> QED  BY <3>1, <3>2 DEF Delivery!Next, Delivery!Create, Delivery!Waste
  <2>2. ASSUME NEW n \in Node, NEW w \in Slot, AppendMarked(n, w)
        PROVE  Delivery!Next \/ UNCHANGED <<held, emitted>>
    <3> DEFINE p == pull[n][w].peer
    <3>1. PICK r \in pull[n][w].hand : Appends(n, r.id) \/ FailsToAppend(n, r.id)
      BY <2>2 DEF AppendMarked
    <3>2. p \in Node /\ r.id \in Event
      <4>1. pull[n][w] \in Pull
        BY DEF TypeOK
      <4> QED  BY <4>1 DEF Pull, Row
    <3>3. p \in Configured[n] /\ r.id \in held[p] /\ r.id \in Scope[n][p]
      BY DEF SyncInv, PullInv, PullOK
    <3>4. emitted' = emitted
      BY <2>2 DEF AppendMarked
    <3>5. held' = [held EXCEPT ![n] = @ \cup {r.id}] \/ held' = held
      BY <3>1 DEF Appends, FailsToAppend
    <3>6. CASE r.id \in held[n]
      <4>1. held \in [Node -> SUBSET Event] /\ held[n] \cup {r.id} = held[n]
        BY <3>6 DEF TypeOK
      <4> QED  BY <3>4, <3>5, <4>1
    <3>7. CASE r.id \notin held[n] /\ held' = [held EXCEPT ![n] = @ \cup {r.id}]
      <4>1. Delivery!Pass(p, n, r.id)
        BY <3>2, <3>3, <3>4, <3>7 DEF Delivery!Pass
      <4> QED  BY <3>2, <4>1 DEF Delivery!Next
    <3> QED  BY <3>4, <3>5, <3>6, <3>7
  <2>3. ASSUME NEW n \in Node, NEW w \in Slot, Proceed(n, w) \/ PullLost(n, w),
               ~AppendMarked(n, w)
        PROVE  UNCHANGED <<held, emitted>>
    BY <2>3 DEF Proceed, HandleSyncRequest, PullLost, Mark, MoveCursor
  <2>4. ASSUME NEW n \in Node, NEW q \in Node,
               PushNotify(n, q) \/ ProcessHeartbeat(n, q) \/ PullOnTick(n, q)
        PROVE  UNCHANGED <<held, emitted>>
    BY <2>4 DEF PushNotify, ProcessHeartbeat, PullOnTick
  <2>5. ASSUME NEW n \in Node,
               PullOnNotice(n) \/ CheckPartitions(n) \/ Compact(n) \/ Restart(n)
        PROVE  UNCHANGED <<held, emitted>>
    BY <2>5 DEF PullOnNotice, CheckPartitions, Compact, Restart
  <2>6. ASSUME Age \/ PostLost \/ UNCHANGED vars
        PROVE  UNCHANGED <<held, emitted>>
    BY <2>6 DEF Age, PostLost, vars
  <2> QED  BY <2>1, <2>2, <2>3, <2>4, <2>5, <2>6 DEF Next, Step
<1> QED  BY <1>1, <1>2, SyncInvariant, PTL DEF Spec, RefinesDelivery, Delivery!Spec
==============================================================================
