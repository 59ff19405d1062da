----------------------------- MODULE KernelBridge -----------------------------
(***************************************************************************)
(* The kernel of one node at work.  The adapter of the events bus and the  *)
(* pulls of the federation each append an event to the log and then apply  *)
(* it to the kernel, with nothing held from the one to the other; a        *)
(* goroutine started every so many events, or a request, reads the state   *)
(* and then the log's counter and stores both as a snapshot.  Of all this  *)
(* the log and the snapshots are on disk, and the kernel begins anew at    *)
(* every start.                                                            *)
(***************************************************************************)
EXTENDS KernelReplay

CONSTANTS Own,          \* events of this node's bus; the others come from peers
          Puller,       \* the pulls that may be under way
          Snapper,      \* bound: the snapshots that may be under way
          Interval,     \* SnapshotIntervalEvents
          PageSize,     \* maxEvents of the replay engine
          KeepSnapshots,\* the snapshots Prune keeps
          MaxSnapshots, \* bound: snapshots in the store
          MaxBridgeFaults     \* bound: failed statements, refused and repeated events, restarts

Adapter == "adapter"
Writer == {Adapter} \cup Puller

ASSUME BridgeAssumption ==
          /\ Own \subseteq Event
          /\ Adapter \notin Puller
          /\ Interval \in Nat \ {0}
          /\ PageSize \in Nat \ {0}
          /\ KeepSnapshots \in Nat \ {0}
          /\ MaxBridgeFaults \in Nat

VARIABLES
    log,
    kernel,      \* State of the kernel
    came,        \* events that have reached the node
    hand,        \* [Writer -> SUBSET Row]: the event appended and not yet applied
    since,       \* eventsSinceSnapshot
    snap,        \* [Snapper -> local state of takeSnapshot]
    stored,      \* kernel_snapshots
    bridgeFaults,
    applied,     \* history: events applied since the node started
    peak,        \* history: the highest number among them
    jumbled,     \* history: the peak when an event was last applied after a later one
    boot,        \* history: the counter at the start
    starts,      \* history: the restarts so far
    gone         \* history: rows compacted away

disk == <<log, stored>>
soFar == <<applied, peak, jumbled>>
past == <<boot, starts, gone>>
bridgeVars == <<log, kernel, came, hand, since, snap, stored, bridgeFaults,
          applied, peak, jumbled, boot, starts, gone>>

Phase == {"idle", "started", "copied", "numbered", "stored"}
IsSnapshot(s) == /\ IsState(s.state) /\ s.seq \in Nat /\ s.has \in SUBSET Event
                 /\ s.exact \in BOOLEAN /\ s.start \in Nat
IsSnapping(g) == /\ g.phase \in Phase /\ IsState(g.state) /\ g.seq \in Nat
                 /\ g.has \in SUBSET Event /\ g.exact \in BOOLEAN /\ g.prunes \in BOOLEAN

Resting == [phase |-> "idle", state |-> NewState, seq |-> 0, has |-> {},
            exact |-> TRUE, prunes |-> FALSE]

BridgeInit ==
    /\ log = EmptyLog
    /\ kernel = NewState
    /\ came = {}
    /\ hand = [w \in Writer |-> {}]
    /\ since = 0
    /\ snap = [g \in Snapper |-> Resting]
    /\ stored = {}
    /\ bridgeFaults = 0
    /\ applied = {}
    /\ peak = 0
    /\ jumbled = 0
    /\ boot = 0
    /\ starts = 0
    /\ gone = {}

BridgeFault == bridgeFaults < MaxBridgeFaults /\ bridgeFaults' = bridgeFaults + 1
InHand == {r.id : r \in UNION {hand[w] : w \in Writer}}

------------------------------------------------------------------------------
(* Writers: append, then apply. *)

(* A snapshot whose state is read but not yet its number is no longer exact
   once an event comes in between.                                         *)
Overtaken == [g \in Snapper |->
                 IF snap[g].phase = "copied" THEN [snap[g] EXCEPT !.exact = FALSE] ELSE snap[g]]

(* log.Append of e by w. *)
Appends(w, e) ==
    /\ ~Refuses(log, e)
    /\ log' = Stored(log, e)
    /\ hand' = [hand EXCEPT ![w] = {NextRow(log, e)}]
    /\ snap' = Overtaken

(* A failed one is reported, and the event dropped. *)
FailsToAppend == log' = Burnt(log) /\ UNCHANGED <<hand, snap>>

Takes(w, e) ==
    /\ hand[w] = {}
    /\ came' = came \cup {e}
    /\ UNCHANGED <<kernel, since, stored, soFar, past>>

(* ingestKernelEvent, up to the append. *)
Ingest(e) ==
    /\ e \in Own \ came
    /\ Takes(Adapter, e)
    /\ \/ Appends(Adapter, e) /\ UNCHANGED bridgeFaults
       \/ BridgeFault /\ FailsToAppend

(* Admit refuses the event: the rate of a second is used up. *)
Refuse(e) ==
    /\ e \in Own \ came /\ hand[Adapter] = {}
    /\ BridgeFault
    /\ came' = came \cup {e}
    /\ UNCHANGED <<disk, kernel, hand, since, snap, soFar, past>>

(* IngestSyncedEvents, up to the append. *)
IngestSynced(w, e) ==
    /\ e \in Event \ (Own \cup came)
    /\ Takes(w, e)
    /\ \/ Appends(w, e) /\ UNCHANGED bridgeFaults
       \/ BridgeFault /\ FailsToAppend

(* An event comes once more: another peer offers it, or the same peer after its
   cursor and the dedup map were lost.                                      *)
IngestAgain(w, e) ==
    /\ BridgeFault
    /\ e \in came \ Own
    /\ Takes(w, e)
    /\ IF Refuses(log, e) THEN FailsToAppend ELSE Appends(w, e)

Applies(w, r) ==
    /\ kernel' = Apply(kernel, r.seq, Data[r.id])
    /\ applied' = applied \cup {r.id}
    /\ peak' = Highest({peak, r.seq})
    /\ jumbled' = IF r.seq < peak THEN peak ELSE jumbled
    /\ hand' = [hand EXCEPT ![w] = {}]

(* Mutant: an event that is older than the last one is left out. *)
ApplyNewest(w) ==
    \E r \in hand[w] :
       IF r.seq > kernel.last THEN Applies(w, r)
       ELSE hand' = [hand EXCEPT ![w] = {}] /\ UNCHANGED <<kernel, soFar>>

ApplyInHand(w) == \E r \in hand[w] : Applies(w, r)

(* The rest of the pull's turn: Apply, no more. *)
ApplySynced(w) ==
    /\ w \in Puller
    /\ ApplyInHand(w)
    /\ UNCHANGED <<disk, came, since, snap, bridgeFaults, past>>

(* The rest of ingestKernelEvent: Apply, and at the interval a snapshot. *)
ApplyIngested ==
    /\ ApplyInHand(Adapter)
    /\ IF since + 1 < Interval
       THEN since' = since + 1 /\ UNCHANGED snap
       ELSE /\ since' = 0
            /\ \E g \in Snapper : /\ snap[g].phase = "idle"
                                  /\ snap' = [snap EXCEPT ![g].phase = "started",
                                                          ![g].prunes = TRUE]
    /\ UNCHANGED <<disk, came, bridgeFaults, past>>

------------------------------------------------------------------------------
(* Snapshots. *)

(* POST /api/v1/.../snapshots: as takeSnapshot, without the pruning. *)
SnapshotCreate(g) ==
    /\ snap[g].phase = "idle" /\ Cardinality(stored) < MaxSnapshots
    /\ snap' = [snap EXCEPT ![g].phase = "started"]
    /\ UNCHANGED <<disk, kernel, came, hand, since, bridgeFaults, soFar, past>>

(* Mutant: the counter is read first, the state after it. *)
ReadNumberFirst(g) ==
    \/ /\ snap[g].phase = "started"
       /\ snap' = [snap EXCEPT ![g].phase = "copied", ![g].seq = log.counter,
                               ![g].exact = (InHand = {})]
    \/ /\ snap[g].phase = "copied"
       /\ snap' = [snap EXCEPT ![g].phase = "numbered", ![g].state = kernel, ![g].has = applied]

(* StatePtr, then LastSequenceNum. *)
ReadStateAndNumber(g) ==
    \/ /\ snap[g].phase = "started"
       /\ snap' = [snap EXCEPT ![g].phase = "copied", ![g].state = kernel,
                               ![g].has = applied, ![g].exact = (InHand = {})]
    \/ /\ snap[g].phase = "copied"
       /\ snap' = [snap EXCEPT ![g].phase = "numbered", ![g].seq = log.counter]

TakeSnapshot(g) ==
    /\ ReadStateAndNumber(g)
    /\ UNCHANGED <<disk, kernel, came, hand, since, bridgeFaults, soFar, past>>

(* Create: the INSERT, which may fail. *)
Create(g) ==
    LET me == snap[g]
        new == [state |-> me.state, seq |-> me.seq, has |-> me.has, exact |-> me.exact,
                start |-> starts]
    IN  /\ me.phase = "numbered"
        /\ \/ /\ stored' = stored \cup {new}
              /\ snap' = [snap EXCEPT ![g] = IF me.prunes
                             THEN [Resting EXCEPT !.phase = "stored"] ELSE Resting]
              /\ UNCHANGED bridgeFaults
           \/ BridgeFault /\ snap' = [snap EXCEPT ![g] = Resting] /\ UNCHANGED stored
        /\ UNCHANGED <<log, kernel, came, hand, since, soFar, past>>

(* Prune: those past their retention, but not the newest by number. *)
Prune(g) ==
    LET above(s) == {q \in stored : q.seq > s.seq}
    IN  /\ snap[g].phase = "stored"
        /\ snap' = [snap EXCEPT ![g] = Resting]
        /\ \/ /\ \E old \in SUBSET stored :
                    stored' = stored \ {s \in old : Cardinality(above(s)) >= KeepSnapshots}
              /\ UNCHANGED bridgeFaults
           \/ BridgeFault /\ UNCHANGED stored
        /\ UNCHANGED <<log, kernel, came, hand, since, soFar, past>>

------------------------------------------------------------------------------
(* Compaction and restarts. *)

(* Which events are past their retention is left free: federated ones carry the
   time of their origin.                                                     *)
Compact ==
    /\ \E old \in SUBSET (Ids(log) \ InHand) : log' = Compacted(log, old)
    /\ gone' = gone \cup (log.rows \ log'.rows)
    /\ UNCHANGED <<kernel, came, hand, since, snap, stored, bridgeFaults, soFar, boot, starts>>

(* The process dies and starts again: Open reads the log's highest number,
   and the kernel is made new; nothing is restored.                        *)
BridgeRestart ==
    /\ BridgeFault
    /\ log' = Reopened(log)
    /\ kernel' = NewState
    /\ hand' = [w \in Writer |-> {}]
    /\ since' = 0
    /\ snap' = [g \in Snapper |-> Resting]
    /\ applied' = {}
    /\ peak' = 0
    /\ jumbled' = 0
    /\ boot' = log'.counter
    /\ starts' = starts + 1
    /\ UNCHANGED <<came, stored, gone>>

BridgeNext ==
    \/ \E e \in Event : Ingest(e) \/ Refuse(e) \/ \E w \in Puller :
          IngestSynced(w, e) \/ IngestAgain(w, e)
    \/ ApplyIngested
    \/ \E w \in Puller : ApplySynced(w)
    \/ \E g \in Snapper : SnapshotCreate(g) \/ TakeSnapshot(g) \/ Create(g) \/ Prune(g)
    \/ Compact
    \/ BridgeRestart

BridgeSpec == BridgeInit /\ [][BridgeNext]_bridgeVars

------------------------------------------------------------------------------
(* The log, the kernel, what its writers hold and the snapshots keep their types:
   the scores of nodes stay levels whatever numbers events carry, what was told of
   a transport or a region is kept as it came.                                *)
BridgeTypeOK ==
    /\ log \in Log
    /\ IsState(kernel)
    /\ came \in SUBSET Event
    /\ hand \in [Writer -> SUBSET Row]
    /\ since \in 0..(Interval - 1)
    /\ DOMAIN snap = Snapper /\ \A g \in Snapper : IsSnapping(snap[g])
    /\ \A s \in stored : IsSnapshot(s)
    /\ bridgeFaults \in 0..MaxBridgeFaults
    /\ applied \in SUBSET Event
    /\ peak \in Nat /\ jumbled \in Nat /\ boot \in Nat /\ starts \in Nat
    /\ gone \in SUBSET Row

(* Whatever the log has taken since the node started, the kernel has applied or
   a writer is about to: the two pipelines that feed it share no lock, an append
   may fail and a restart may come between the two halves, and still no event
   is on disk that the kernel passes over, nor the other way round.          *)
LoggedIsApplied ==
    /\ \A r \in log.rows : r.seq > boot => r.id \in applied \cup InHand
    /\ applied \subseteq {r.id : r \in log.rows \cup gone}

(* The state in a snapshot has no event that the log numbers above the snapshot,
   so that a replay from there applies none of them a second time: the state is
   read before the counter, and events go on coming in between.  Excepted are
   events that were compacted away and came again from another peer.         *)
SnapshotNotAhead ==
    \A s \in stored : \A r \in log.rows :
        r.id \in s.has \ {q.id : q \in gone} => r.seq <= s.seq

Bases == {[state |-> NewState, seq |-> boot]} \cup
         {[state |-> s.state, seq |-> s.seq] : s \in {t \in stored : t.exact /\ t.start = starts}}

(* A replay of what the log has taken since the start, or since a snapshot of
   this start that no event overtook, gives the state of the live kernel: once
   the writers are at rest, as long as none of those events was compacted away
   or applied after a later one, and as the engine's page holds them all.  With
   no event after the base the engine returns an empty state instead.        *)
ReplayMeetsLive ==
    InHand = {} =>
        \A b \in Bases :
            LET delta == {r \in log.rows : r.seq > b.seq}
            IN  /\ jumbled <= b.seq /\ \A r \in gone : r.seq <= b.seq
                /\ delta # {} /\ Cardinality(delta) <= PageSize
                => Execute(log, b.seq, PageSize, b.state, NewState) = kernel
==============================================================================
