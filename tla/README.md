# TLA+ models of MEL and AgentPCAP

MEL (`src/mesh-edge`) is a daemon that ingests Meshtastic traffic and looks after
its own transports: it proposes *control actions* (restart a transport, raise a
reconnect backoff, ...), holds some of them for an operator's approval, and runs
them through a bounded executor. It keeps a durable log of events, feeds it to a
kernel and replicates it between MEL nodes, watches its peers, and raises incidents
that operators work on. AgentPCAP (`src/pcap`), in the same repository, records the
traffic of agents into a file and shows it in a browser. This directory models
them, model-checks them and proves their main safety results for every size of the system.

Paths below are relative to `src/mesh-edge/internal/` unless they start with `src/`.

## 1. Inventory

| Component | State it keeps | Operations | Modelled |
| --- | --- | --- | --- |
| Guarded control plane (`service/control.go`, `service/trust.go`, `service/operator_control_action.go`, `service/approval_policy.go`, `db/control.go`, `db/trust.go`) | `control_actions`, `control_freezes`, `maintenance_windows` tables; a channel of copies per process; the executor's local copy | propose, submit, approve, reject, expire, freeze, maintain, execute, follow up, revert, recover | `ControlActions`, `ControlPlane` |
| Decision logic (`control/control.go`, over `status/mesh.go`) | none (reads history) | `Evaluate`: candidates, evidence, confidence, cooldown, budget, conflicts | `MeshEvidence`, `GuardedControl`; in `ControlPlane` a free choice of proposals |
| Transports (`transport/mqtt.go`) and their control (`service/control.go` 16-115, `service/app.go` 421-589) | connection, health record, failure counts; backoff multiplier and deadline, interrupt channel of one slot | connect, subscribe, read, ping, close, back off, interrupt, raise | `TransportLink` |
| Ingest pipeline (`service/app.go` 598-993) and events bus (`events/bus.go`) | bounded channels, dead-letter episodes | publish or drop, ingest, observe, escalate | the channels in `TransportLink` and `Incidents` |
| Event log (`eventlog/eventlog.go`) | rows by `sequence_num`, the counter in memory | append, query, compact, recover the counter | `EventLog` |
| Federation (`federation/manager.go`) | peers, dedup map, cursors, notification channel; partition state, autonomy count | heartbeat, pull, push, ingest; partition check, autonomy | `FederationSync`, `PeerLiveness` |
| Kernel (`kernel/`) and bridge (`service/kernel_bridge.go`) | derived node, transport, action and policy state | ingest: log, then apply; snapshot, prune, compact, admit | `Kernel`, `KernelBridge` |
| Snapshot (`snapshot/`) and replay (`replay/`) | `kernel_snapshots` | create, prune; execute | `KernelReplay`, `KernelBridge` |
| Incidents (`service/app.go` 694-738, `service/incident_*.go`, `service/runbook_review.go`, `meshintel/`, `web/web.go` 1396-2014) | `incidents`, `mesh_intel_state` | escalate, acknowledge, resolve, hand off, patch, run book, regression | `Incidents` |
| AgentPCAP (`src/pcap`) | capture session, subscribers, `.apcap` file | run, demo, open; ingest, close, save; stream, upload, simulate | `CaptureSession` |
| Web API, fleet import, retention, topology, self-observation, configuration, consistency, region | tables of their own | per-record requests and reports | no: see 8 |

### How the parts of the control plane interact

Processes. `mel serve` is one process: an intelligence worker whose ticker calls
`evaluateControl`; goroutines started by a health recheck that call it too; one
`controlExecutor` goroutine; a cleanup worker; HTTP handlers. Every
`mel action ...` or `mel control ...` command is another process with an `App` of
its own, and with its own, empty, channel.

Shared state. All of them use one SQLite file. `db/db.go:196-248` starts a
`sqlite3` process for every statement, so a statement is atomic, two statements are
not, and any of them may fail. There are no transactions around a handler. What
the processes act on are *copies* of rows: in the channel, in the executor, in a
handler that merges metadata, in an evaluation that reverts a backoff, in the list
recovery read. Most writes are whole-row upserts of such a copy
(`db/control.go:103`), so a stale copy can undo a newer write. Only three
statements are guarded by `WHERE lifecycle_state='pending_approval'`: approve,
reject and expire (`db/trust.go:151-234`).

### How the parts of federation interact

The bridge opens the log, then makes the manager (`kernel_bridge.go:73-148`). Four
loops run beside the HTTP handlers: heartbeats, partition checks, `syncLoop`, whose
every tick starts a goroutine per eligible peer, and `pushSyncLoop`, which serves
`pushNotifyCh` one peer at a time. A pull posts a request with the cursor it has for
the peer, the peer answers with a page of its log filtered by the request's scope,
and the pull appends the events one by one and then moves the cursor. The manager's
lock covers the dedup map and the cursor, the log's mutex the log; a pull holds
neither from one event to the next, nor both at once. Of a node only the log is on
disk: cursors, dedup map and peer states are made anew at each start.

### How the other parts of a node interact

The kernel's events come from two pipelines, the adapter of the events bus and the
pulls, each of which appends to the log, lets go of its mutex and applies the event to
the kernel. A goroutine started every so many events, and an HTTP handler, read the
kernel's state and then the log's counter and store both. Compaction deletes rows
meanwhile. Of the node's peers the manager keeps a time stamp from their own clocks;
one ticker sends heartbeats and another, at half the pace, judges the peers and looks
for split-brain; the bridge asks before a proposal whether the node may act by itself
and counts the action under a second lock.

Each transport is driven by one goroutine, `runTransport`. The executor closes its
connection from outside and cuts its wait short by a channel of one slot; a keepalive
goroutine of each subscription, and the ingest workers, write into the same health
record under its lock, at their own pace.

An incident's row is written whole by `UpsertIncident`: by the observation worker,
which reads it first, by the operators' requests, each of which read it first too, and
by the topology worker's regressions. `Evaluate` runs in the ticker and after each
health recheck the executor makes, so two may be under way; each reads the history
for all its candidates before it writes the first.

AgentPCAP is a process per command. Its session takes events from the proxy, from
uploads of traces and from demos; its web server follows the session by subscription,
and swaps the pointer to it when a file is uploaded. `Close` marks the session closed,
lets go of its lock, copies and writes the file.

### What is hard

The hazards are listed with their lines in `PROJECT.json`. In short: two deciders of
one row; write-backs of stale rows; an executor that never re-reads the row it
runs; freezes and windows looked up in separate statements, fail-open; a full
channel after the row says "approved"; deaths between the running write, the
actuator and the finishing write; recovery that runs beside a CLI process; concurrent
evaluations that both issue a reset; follow-ups that skip the approval policy.
In federation: two pulls with the same events, one of which skips what the other has
only marked; an answer that is older than the cursor it sets; dropped
notifications, lost calls, evicted dedup entries; pages that are filtered after they
are cut; restarts that forget the cursor, and logs that number anew. In the kernel:
events appended in one order and applied in another, a state and a number read at
different times, restarts that lose the state and keep the log. Between peers: clocks
that are off, a check that runs at its own pace, a detection between asking and
counting. In a transport: a restart at any point of a connect, an interrupt that
nobody waits for, reports that come after the connection has ended. In incidents and
evaluations: read, decide, write, with nothing held. In AgentPCAP: what ends after the
child, a session that is emptied or replaced while it is followed or saved.

### What makes each component correct

* Control plane: nothing under an approval policy runs before its approval; a
  refusal is final; recovery does not run again what was in flight; success is
  reported only of what ran; a freeze stops all that had not passed its check;
  what enters the channel is closed in the end.
* Decision logic: nothing that policy, override or mode forbids is ever open or run;
  cooldown and budget bound what one window can execute (the budget does not, see the findings).
* Transport: no connection is left behind, an interrupt ends at most one wait, a wait
  stays within its bounds, an outage is told once, and the link comes back when the broker does.
* Event log: sequences are unique, increasing, and continue after a restart.
* Federation: what a peer offers is ingested once and in the end; a partition is
  noticed and healed, and only a partition is; autonomy stays within its grant.
* Kernel: what is logged is applied, and replaying the log from a snapshot gives
  the state the live kernel has.
* Incidents: resolved stays resolved, and what an operator entered is not taken away,
  but by a writer that had not seen it.
* AgentPCAP: a finished file is the session as it was closed, a viewer sees what the
  session took.

## 2. Modules

| Module | What it is |
| --- | --- |
| `ControlActions` | One row of `control_actions`: the fields later steps branch on, the SQL statements that move it, the policy predicates of the service, and which scopes cover an action |
| `ControlPlane` | The state machine: daemon, CLI processes, operators, clock, crashes and recovery over those rows; its properties and the documented claims |
| `ApprovalGate` | The abstract specification: a gate per action that enters held or shut, opens or shuts once for good, and an actuator that runs only while its gate is open |
| `ControlPlaneInv` | The inductive invariants `TypeInv`, `GateInv`, `HonestInv`, `SendInv`, `OwnInv`, `RaiseInv`, `RestInv`, `SoloInv`, `ClosedInv` and `PlainInv` |
| `ControlPlaneProofs` | Types, the freeze property, sends against runs, `GateInv` and the refinement of `ApprovalGate`, what rows claim, proved |
| `ControlPlaneRecoveryProofs` | Who owns a running row, resets against raises, that recovery is final, and that what is lost is found again, proved |
| `EventLog` | A log as a value: its rows, its counter, and what append, query, compaction and reopening make of them |
| `EventLogProofs` | Lemmas on what these keep of a log, and that a page skips nothing, proved |
| `FederationSync` | The state machine of any number of nodes with a log each: events, notifications, pulls, ingestion, silence, losses, compaction, restarts |
| `EventDelivery` | The abstract specification: events are created once and passed on, one at a time, by a peer that has them and offers them |
| `FederationSyncInv` | The inductive invariant `SyncInv` |
| `FederationSyncProofs` | Types, `CursorCovers` and the refinement of `EventDelivery`, proved |
| `Kernel` | The kernel's state and what each type of event makes of it |
| `KernelReplay` | Replay of a page of a log from a base |
| `KernelBridge` | A node's log, kernel and snapshots at work |
| `KernelProofs` | The invariant `BridgeInv` and the properties of `KernelBridge`, proved |
| `PeerLiveness` | Heartbeats, the partition check, split-brain and autonomy |
| `TransportLink` | One MQTT transport with all that touches it |
| `MeshEvidence` | What an evaluation sees of the mesh, the candidates it makes of it and the evidence they need |
| `GuardedControl` | Evaluations over history and budget, and the rows they write |
| `Incidents` | The incidents table and its three kinds of writers |
| `DecisionProofs` | The properties of `GuardedControl` and `Incidents`, proved |
| `CaptureSession`, `CaptureProofs` | AgentPCAP; its properties proved, and `TotalsMatch`, which no run checks |
| `MCApproval`, `MCRecovery`, `MCLiveness`, `MCClaims`, `MCSync`, `MCSyncClaims`, `MCGuardClaims`, `MCLinkClaims` | Instances for TLC |
| `MCRecords` | `KernelBridge`, `Incidents`, `GuardedControl` and `CaptureSession` side by side, for TLC |
| `MCNode` | `PeerLiveness` and `TransportLink` side by side, for TLC |
| `NodeProofs` | The safety properties of both, and the types of `MCNode`, proved |

`KernelBridge` is built on `KernelReplay`, which is `EventLog` and `Kernel` together;
`GuardedControl` is built on `MeshEvidence`. `MCRecords` and `MCNode` put together parts
that share no state: a variable `part` says which one moves in a behaviour, so that
the parts add to each other's states instead of multiplying them. What is found of one
part beside the others is what is found of it alone.

### State of `ControlPlane`

| Variable | Code |
| --- | --- |
| `rows` | the `control_actions` table; life `"none"` is an absent row |
| `frozen`, `windows` | active freezes by scope (`IsFrozen`), windows in effect (`IsInMaintenance`) |
| `late`, `lapsed` | ids whose `approval_expires_at`, or whose `expires_at`, lies in the past |
| `queue[app]` | `App.controlQueue` of each process: copies, at most `cfg.Control.MaxQueue` |
| `exec[app]` | the program counter and local copy of `executeControlAction` and of `enqueueHealthRecheckFollowup` |
| `task[p]` | the program counter and locals of one `evaluateControl` or of one operator request |
| `scan[e]` | the rows `queueRecoveryActions` has read and not yet handled |
| `daemon`, `todo` | whether `mel serve` is up, and the rows recovery has yet to close |
| `crashes`, `faults` | bounds |
| `handed`, `fired`, `exempt` | history for the properties: sends, actuator runs, executors that were past their freeze check when a freeze was created |

A row keeps `lifecycle_state`, `result`, `closure_state`, `submitted_by`,
`approved_by` and `sod_bypass`. None of the other columns decides what
happens to an action, or follows from its id: the type, the target and the
execution mode are constants of an id (`TypeOf`, `TransportOf`, `ApprovalTypes`).

### Actions of `ControlPlane` and the code they stand for

| Actions | Code |
| --- | --- |
| `BeginEvaluation`, `ProposeDenied`, `Propose`, `CheckFreeze`, `CheckMaintenance`, `Refuse`, `Persist` | `evaluateControl`, `isExecutionBlocked` |
| `ScanExpired`, `RevertSeen`, `CloseReverted`, `IssueReset`, `EndEvaluation` | `queueRecoveryActions` |
| `Submit`, then the same checks | `QueueOperatorControlAction` |
| `ReceiveDecision`, `UpdateRow`, `ReadForMerge`, `WriteMerged`, `ReloadAndSend`, `DecisionFails` | `ApproveActionWithOpts`, `RejectActionWithOpts`, `mergeControlActionMetadata` and the statements of `db/trust.go` |
| `Dequeue`, `RecheckFreeze`, `RecheckMaintenance`, `RefuseExecution`, `Start`, `Actuate`, `Finish` | `controlExecutor`, `ProcessNextQueuedControlAction`, `executeControlAction` |
| `SeekFollowUp`, `PersistFollowUp` | `enqueueHealthRecheckFollowup` |
| `CreateFreeze`, `ClearFreeze`, `ToggleWindow` | the operations of these names, and the expiry of freezes and windows |
| `ApprovalDeadlinePasses`, `BackoffLapses` | the clock |
| `ExpireStaleApprovalActions` | `cleanupExpiredApprovals` |
| `Crash`, `Kill`, `Restart`, `RecoverRow`, `StartWorkers`, `ExitCli` | a death of a process, `recoverIncompleteControlActions`, `App.Start`, the end of a CLI command |

### State and actions of `FederationSync`

| Variable | Code |
| --- | --- |
| `log[n]` | the table `kernel_event_log` and `Log.sequenceNum` of node n |
| `state[n][p]` | `Peer.State`; `"none"` is a peer not in `Manager.peers` |
| `cursor[n][p]` | `Peer.LastSyncSeq` |
| `dedup[n]`, `notices[n]` | `Manager.dedup` with its entries in order of time, `Manager.pushNotifyCh` |
| `pull[n][w]` | the locals of one `pullFromSinglePeer`: its peer and request, the events still to ingest, the one marked and not yet appended, the sequence to move the cursor to |
| `posts` | notifications on their way |
| `emitted`, `aged`, `faults` | events created, events past retention, bound on faults |
| `held`, `failed`, `top`, `renumbered` | history for the properties: what a node has ever stored, which appends failed since it started, the highest number it has stored, nodes that came back with a lower counter |

| Actions | Code |
| --- | --- |
| `Emit` | `ingestKernelEvent` as far as the log and `SendPushNotifications` |
| `PushNotify`, `PostLost` | `NotifyNewEvents` at the receiver; a lost post |
| `ProcessHeartbeat` | `sendHeartbeats`, `GenerateHeartbeat` at the peer, `ProcessHeartbeat` at the receiver |
| `CheckPartitions` | the states `CheckPartitions` sets after a silence |
| `PullOnTick`, `PullOnNotice` | `pullFromPeers`, `pushSyncLoop`, and the request of `pullFromSinglePeer` |
| `HandleSyncRequest`, `PullLost` | `HandleSyncRequest` at the peer; a lost request or answer |
| `Mark`, `AppendMarked`, `MoveCursor` | one turn of the loop of `IngestSyncedEvents` in its two critical sections, and its end |
| `Age`, `Compact` | the retention period, `compactionWorker` |
| `Restart` | the end of the process, `eventlog.Open`, `NewManager` |

An event is a number, in the order of creation; type, region and subject matter only
through `Scope`. A heartbeat carries the counter of the moment it was made; one with
an old counter is one that triggers no pull. A peer that was never heard of moves to
`partitioned` at the first check; here that takes a fault, and makes no difference,
since neither state is pulled. Retention is days and a pull lasts minutes, so
an event does not age while a pull carries it.

### State and actions of the kernel's modules

| Variable of `KernelBridge` | Code |
| --- | --- |
| `log`, `stored` | the tables `kernel_event_log` and `kernel_snapshots` |
| `kernel` | `Kernel.state`, whose policy version starts empty; a score is in thousandths, of a record what later events or the replay read |
| `hand[w]` | the event that the bus adapter, or a pull, has appended and not yet applied |
| `since`, `snap[g]` | `eventsSinceSnapshot`; the locals of one `takeSnapshot` |
| `came`, `bridgeFaults` | events that have reached the node; bound |
| `applied`, `peak`, `jumbled`, `boot`, `starts`, `gone` | history: what was applied since the start, whether out of order, where the log stood then, what was compacted |

| Actions | Code |
| --- | --- |
| `Ingest`, `Refuse`, `ApplyIngested` | `ingestKernelEvent` in its two halves; `Backpressure.Admit` refusing |
| `IngestSynced`, `IngestAgain`, `ApplySynced` | `IngestSyncedEvents` in its two halves; an event that comes a second time |
| `TakeSnapshot`, `Create`, `Prune`, `SnapshotCreate` | `takeSnapshot`, `Store.Create`, `Store.Prune`; the endpoint |
| `Compact`, `BridgeRestart` | `compactionWorker`; the end of the process and `initKernelBridge` |
| operators `Apply`, `Execute` | `Kernel.Apply` with its handlers; `Engine.Execute` |

An event carries any number for a score, since a peer's event is applied as it came. What
the handlers compute of it they clamp (a node's health, activity and anomaly score); the health of a
transport or a region they store as it is (`kernel/kernel.go:362`, `:588`).
Malformed payloads are left out, and a node's id and number are one. Which events
`Admit` refuses is left free: the rate of a second is a matter of the clock.

### State and actions of `PeerLiveness`

`state`, `seen` are `Peer.State` and the age of `Peer.LastSeen`; `split`, `count` the
manager's `splitBrainDetected` and `autonomousActionCount`; `proposal` where
`handleProposeAction` is; `checked`, `sent` the ages of the two tickers; `up`, `flight`
the network; `silence`, `acted` history. Time is in ticks and all timers are ages, so
that the clock needs no bound. `Tick` is the clock, `SendHeartbeat`, `HeartbeatLost`,
`Disconnect`, `Reconnect` the network, `ProcessHeartbeat`, `CheckPartitions`, `Propose`,
`RecordAutonomousAction` the functions of these names (`handleProposeAction` for
`Propose`), `Restart` a new `Manager`.

### State and actions of `TransportLink`

`pc`, `failures`, `recorded`, `wait` are the locals of `runTransport`; `conn` is
`MQTT.conn`, `mine` the local of `Connect`, `held` that of `Close`; `open` the sockets;
`health` and `ping` the health record and `keepAliveLoop`; `multiplier`, `raise`,
`interrupt` the `transportControlState`; `exec` the executor in a restart; `queue` the
ingest channel with its workers; `broker` the far end; `restarts`, `cut`, `told`,
`panicked` history. `LoopStep` is one step of `runTransport` with the transport's
`Connect`, `Subscribe` (`ExpectSubAck` is the wait for the broker's answer, a step of its own since
it takes the connection anew) and `Close`; `Ping...` the keepalive; `TakeConnection`,
`ReportTaken`, `CloseTaken`, `Interrupt` a restart; `SetBackoff`, `ClearBackoff`, `BackoffExpires` the
other actuators and their deadline; `EndIngest` a worker's report.

Left out: the count of read timeouts (whether one more is too many is free), packets read in parts,
a graceful shutdown, suppression and deprioritisation, the direct transport. A
connection is opened and recorded, or taken and forgotten, in one step. A duration has
`Half` values below zero and as many from zero on, 2^63 in the code. The instance has 65536: with a
base of 10 s in milliseconds they overflow as 2^63 nanoseconds do, only after fewer failures.

### State and actions of `GuardedControl`

`rows`, `queue`, `running`, `now` are the table, the channel, the executor and the
clock; `eval[e]` the locals of one `evaluateControl` with its `Evaluate`; `unread` history: for which
targets a look-up for the cooldown failed. `Evaluate` reads the rows that may be active,
`EvaluateCandidate` decides one candidate after the other by what its target has been through
(`LooksUp`: once for each target and evaluation, and nothing where the look-up fails) and by
the budget, `EndCandidates` ends this; `WriteDenied`, `WriteStopped`, `WriteAllowed` write,
`SendAllowed` sends, or closes the row when the channel is full, and any of these statements may fail;
`Approve`, `Reject`, `Start`, `Finish`, `Pass` are what else moves the rows the
evaluation reads; what becomes of an action is in `ControlPlane`. A view is a record
of which failures, alerts, anomalies and senders there are; `MeshEvidence` makes the
candidates of it.

Left out: the grace after a start, rows of recovery, the target node, decision rows
and the reality matrix. Alike candidates are tried in any order; at most eight segments and fifty
anomaly rows are never reached.

### State and actions of `Incidents`

`incidents` and `mesh` are the two tables, by the columns that a writer changes and another may
undo; `waiting` the bus, its consumer and `observationCh`; `worker`, `edit[o]`,
`refresh` the writers between read and write; `outdated` history: whose copy is old.
`Publish`, `Observe`, `ReadExisting`, `WriteEscalated` are the path of an observation,
`ReadToEdit`, `WriteEdited` a request, `MeshIsFine`, `MeshIsBad`, `WriteRegression`,
`SaveRegression` `EvaluateViabilityRegression`. Dead letters and the suppression of
repeated audits change no incident and are left out, as is `resolved_at`.

### State and actions of `CaptureSession`

`command`, `step`, `todo` are the main goroutine; `session[s]` the sessions, of which 0 is the
command's own; `shown` `Server.session`; `viewer[v]` one `handleSSEStream` with its
channel; `player[p]` one `RunDemoLive` or `handleLoadDemo`; `copy`, `file` what `Close`
saves and the file; `due` history. `Run`, `Demo`, `Open`, `Ends`, `CloseSession`,
`CopyCapture`, `CreateFile`, `WriteFile`, `Interrupted`, `Stop`, `Die` are a command from
start to end; `Exchange`, `RunDemo`, `ReceiveTraces`, `Play` are `Ingest`'s callers;
`SubscribeTo`, `Receive`, `Leave`, `Upload`, `Simulate`, `RunDemoLive`, `LoadDemo`,
`LookAgain`, `EndPlaying` the web server's requests. An event is its number. Redaction,
the stripping of payloads, the totals other than failures, and the analysis are left
out; so is the proxy's part in an exchange that fails. The server's pointer to the
session has no lock, and is treated as read and written at once. `proxy` and `otlp`
save nothing and are `run` without its end.

### What a step is

In the modules of a node a step is one critical section of a lock, one statement, or
one move of a channel; in `MCRecords` and `MCNode` parts that share nothing move one
at a time.

In `FederationSync` a step is one critical section of the manager's lock, one
statement on a log, or one exchange over HTTP.

In `ControlPlane` a step is one database statement with the process-local
computation around it. Deliberate mergers, each because nothing can be seen in
between:

* a send into a channel goes with the statement before it: the copy is fixed by then;
* a decision reads the row twice before it writes (`service/trust.go:256`,
  `db/trust.go:157`). Both refuse alike and leave no trace, so they are one step;
* the guarded UPDATE and the read that verifies it are one step: a decided row
  never becomes undecided again (that is `GateInv`), so the read's answer is settled
  by the UPDATE;
* a request that is refused before its first write leaves no trace and is no step.

Abstractions: `denied_by_cooldown` and `canceled_by_operator` are counted as
`denied_by_policy`; `resubscribe_transport` behaves as `restart_transport`, and the
suppression types as `temporarily_deprioritize`; an actuator's timeout counts as a run. Time is
the freedom of deadlines to pass. An acknowledgement that changes nothing (as on
`mel action reject`) is the same as none. A request without an identity acts as
`"system"`, which is not among the `Operators` here.

## 3. Runs

| Run | Instance | Checks | Distinct states |
| --- | --- | --- | --- |
| `approval` | one gated restart, queued by an operator; two HTTP handlers of one operator, one CLI process of another; break-glass on or off; a global freeze; one death, one failed statement | `TypeOK`, `GateInv`, `RunsOncePerSend`, `SuccessIsTrue`, `SelfApprovalIsMarked`, `FreezeStopsTheRest`, `ImplementsGate` | 970,396 |
| `recovery` | the daemon alone; a raise and a restart on one transport, two evaluations at a time, freeze and window, two deaths, one failed statement | `RunsOncePerSend`, `SuccessIsTrue`, `RunningIsOwned`, `ResetFollowsRaise`, `RecoveredStaysClosed`, `LostIsFoundAgain`, no deadlock | 1,000,276 |
| `liveness` | a gated restart and an action without an actuator, two handlers, a freeze, one death | `SentIsClosed`, no deadlock | 91,524 |
| `sync` | b pulls from a, on ticker and on notice at once; two events, pages, channel and dedup map of one entry, `keepMin` 1, one fault | `TypeOK`, `CursorCovers`, `Delivered`, `RefinesDelivery`, no deadlock | 320,414 |
| `records` | four parts, one at a time: a node's log, kernel and snapshots (three events, two faults); an incident (two operators, two seconds, six inputs, one fault); the guard over two transports, alone over the whole cooldown and two evaluations that overlap (at most one row before one begins); AgentPCAP (three events, one viewer, one demo, one upload) | `BridgeTypeOK`, `LoggedIsApplied`, `SnapshotNotAhead`, `ReplayMeetsLive`, `OnlyPermittedRuns`, `SavedIsWhole`, `StreamIsFaithful`, `ResolutionStands`, `WorkIsTaken`, no deadlock | 3,198,283 |
| `node` | two parts, one at a time: two peers, the clock of one behind and of the other ahead (two faults); one transport (two sockets, two restarts, three failures, one fault) | `NodeTypeOK`, `HealthyIsTrusted`, `PartitionedIsSilent`, `SplitIsMajority`, `AutonomyIsBounded`, `NoLeak`, `InterruptsEndOneWait`, `ThresholdIsTold`, `WaitIsBounded`, `OnlyRestartsKill`, `SplitEnds`, `Reconnects`, `HealthSettles`, no deadlock | 1,301,444 |
| `claim_budget` | one evaluator, two transports, a budget of two | one documented claim, which the code does not meet | - |
| `claim_synced` | b with a scope that leaves out a's first event, pages of one event, no fault | one documented claim, which the code does not meet | - |
| `claim_backoff` | one transport whose broker stays away, four failures, a width in which the fourth overflows | one documented claim, which the code does not meet | - |
| `claim_noop`, `claim_waiting`, `claim_listed` | up to three actions, four handlers, a channel of one slot | one documented claim each, which the code does not meet | - |

Deadlock is checked except in `approval` and the claims, where everything stops
once the sessions are served. In the parts of `records` and `node` that have a clock of their own
(`Pass`, `Second`), or commands that may start again, it says little.

Why the bounds are enough. The races are between two deciders, a decider and the
expiry, an executor and a write-back, two evaluations, recovery and whatever was in
flight: two of each actor and one row make each of them happen, and a third session
lets a submission and two decisions meet. `MaxQueue` is 1, so that the
channel is both empty and full; the smallest the configuration allows is 1.
One death catches every step half done; two let recovery itself be interrupted.
One failed statement takes every error path once. The invariants that are
proved hold for all bounds.

In `sync` two events and pages of one make a pull that leaves something behind; two
pulls at once make one overtake the other, with the same or with an older answer;
a dedup map of one entry forgets the first event when it sees the second; a channel
of one slot drops a notification; the fault strikes a silence, a post, a call, a
statement or either node. `SyncInv` was also checked with two faults and
a scope of one event (1,966,473 states). Nodes that pull from each other, and three
nodes in a row, are beyond an instance TLC can check for `Delivered`; for everything
else the proofs cover them.

In `records` three events, two of them the node's own and one of a peer, are two pipelines at
once; two faults lose a statement and restart the node, and the page of two is shorter than the
log. An incident is read by two operators and the worker at once; two seconds tell a new
incident from that of the same second, and six inputs are enough for a regression beside two
requests. The guard is checked twice. Alone, the ticker's evaluations follow each other for twenty
seconds, as long as the cooldown: the second has the first one's row behind it, up to two candidates
and approvals, the look-ups fail or not, and the window of ten seconds is over while the cooldown
is not. Together, two evaluations with a candidate each overlap, so that both decide by
the same history and one runs under the other's copy; there a channel of one is full for the second.
The clock moves by ten seconds, so what has ended is in the cooldown, at its end, or of
the same instant. AgentPCAP keeps two events of the three made, so that one is refused; its
channel of one overflows; one upload replaces the session and one demo empties it, before, in or
after the gap of `Close`; processes may follow each other without a bound.

In `node` two peers make both a majority and a half; the clock that is behind is as far off as
the thresholds allow, and the check runs at half the pace of the heartbeats. In the link two
sockets let a new connection be there beside the one that a restart has taken; three failures
pass the threshold of two, reach the cap, and with a raise overflow the width: `WaitIsBounded`
says what is left then. Two restarts meet in one wait.

### What each property says

* `ImplementsGate` - the approval gate as operators are promised it: see `ApprovalGate`.
* `GateInv` - no copy anywhere disagrees with the table about whether a gated
  action is open, so a write-back cannot reverse a decision.
* `RunsOncePerSend` - an actuator never runs more often than the action was sent.
  (It can be sent twice: two concurrent approvals both send, see the findings.)
* `SuccessIsTrue` - a row reports success only of an actuator that ran.
* `SelfApprovalIsMarked` - an approval by the submitter always carries the bypass.
* `FreezeStopsTheRest` - a freeze lets through only what had passed its check.
  Stated for behaviours without a failed statement: a failed look-up lets an action through.
* `RunningIsOwned` - with the daemon alone and no failed statement, a running row
  is the one its executor is at work on.
* `ResetFollowsRaise` - a reset is issued only for a raise that happened and, without
  operator requests, whose row says so. (Two approvals of one gated raise both send it:
  the second run of its actuator writes its row back over the revert.)
* `RecoveredStaysClosed` - what recovery closed does not run later, nor is its row moved, while
  the daemon is alone and no statement has failed, or one has and nobody asks for anything
  (`Trusty`). More breaks it: a follow-up that was recovered and is not found again is
  written anew. Two failed statements do that, one that keeps recovery from a row and one that keeps
  the executor from finding it; so does a single one after a second approval ran the parent twice.
* `LostIsFoundAgain` - while nobody sends requests, a pending or running row loses whoever had it
  in hand only by a death, a statement that fails at that step, or as a follow-up that finds the
  channel full; and a start that can read the table takes all of these in hand, whatever went
  wrong before. It holds because recovery goes by the table and not by what the process
  remembers. With requests there is `ApprovedIsWaiting`, which fails.
* `SentIsClosed` - every action in the daemon's channel is closed in the end.

* `CursorCovers` - what a cursor has passed has been dealt with: stored, being
  appended, or logged as failed. The hazard is the dedup map: a pull skips what another pull has
  marked, and moves the cursor over it. It holds because a mark is made only by a
  pull that goes on to append.
* `Delivered` - an event in scope that stays in the peer's log arrives, whatever is
  dropped, lost or restarted.
* `RefinesDelivery` - nothing but a node's own new events and copies of what a peer
  has stored and offers, under the id they were made with.

* `LoggedIsApplied` - since the start no event is on disk that the kernel passes over,
  nor the other way round, though append and apply are two steps of two pipelines.
* `SnapshotNotAhead` - a snapshot's number covers all that is in its state: it holds
  because the state is read first and the counter after it.
* `ReplayMeetsLive` - replay from the start or from a snapshot no event overtook gives the live
  state, unless an event was applied after a later one, was compacted away, or is past the page.
* `BridgeTypeOK` - among the types, that a node's scores stay between 0 and 1 whatever scores
  events carry. The health of transports and regions is any number: the code does not clamp it.
* `OnlyPermittedRuns` - at no stage is there a row open, or executed, that policy, override, mode
  or confidence forbids, or whose target had not rested for the cooldown when its evaluation
  began, though others write and the executor runs meanwhile. Excepted, as the look-up in the code
  does not cover them, are earlier actions created before the cooldown, look-ups that failed (they count
  as no history) and those past their fifty rows. Nor is it excluded that two evaluations let
  actions on one target through before either has run: a row counts once it has ended.
* `ResolutionStands`, `WorkIsTaken` - who may reopen a resolved incident, who may
  change its owner and review: the exceptions name each way it can happen.
* `SavedIsWhole` - a finished file is the session as it was closed, but for a demo that emptied it.
* `StreamIsFaithful` - a viewer was sent what its session took, in order, without
  repetition, and all of it until its channel ran full.
* `HealthyIsTrusted`, `PartitionedIsSilent`, `SplitIsMajority`, `AutonomyIsBounded` -
  no suspicion without a fault, no partition without silence and none overlooked,
  split-brain for a majority only, and no more autonomous actions than granted.
* `NoLeak`, `InterruptsEndOneWait`, `ThresholdIsTold`, `WaitIsBounded`,
  `OnlyRestartsKill` - see the transport in "What makes each component correct".
* `SplitEnds`, `Reconnects`, `HealthSettles` - split-brain ends when the peers are back, the
  link is read from again when the broker is, and its health tells so when it is not.

### Findings

* `MissedEventsAreSynced`: the page is cut before the scope filters it, and an empty
  answer does not move the cursor, so a page of events out of scope ends the
  synchronisation with that peer for good.
* `NoSilentNoop`: the loser of two concurrent decisions is told of success,
  although `db/trust.go:149` promises an error. Two approvals then also enqueue the
  action twice.
* `ApprovedIsWaiting`: an approval that finds the channel full leaves the row
  pending and approved with nobody to run it.
* `ListedTypesNeedApproval`: follow-ups skip the list of types that need approval.
* `RetriesWithBackoff`: `jitterBackoff` doubles the backoff without a limit and caps it
  afterwards (`service/app.go:556`), so from the 31st failure on, with a base of 10 s, the
  result overflows and the loop waits for nothing, where `config/keys_help.go:37` promises a
  "Minimum delay between transport reconnect attempts".
* `BudgetHolds`: the budget counts what has been executed, not what has been let
  through, so one evaluation, or two, may exceed it.

Met while modelling federation, and shown by no run of its own:

* An append that fails keeps its mark in the dedup map: the event is not
  asked for again before the node restarts (`failed`; the exception in `Delivered`).
* A node is sent back its own events, which are not in its dedup map; the primary
  key refuses each and a number is spent. `Compact` counts numbers, not rows, so it
  may keep fewer than the `keepMin` events its comment promises (`eventlog.go:266`).
* After a restart the counter is the highest number left. If the last numbers were
  spent on refused rows they are given out again, below the cursors of the peers,
  which then skip those events (`renumbered`; the exception in both properties).
* A peer known only by its heartbeats has no endpoint, so it is never pulled from;
  a partitioned peer is not pulled from until it is heard of again.

Met while modelling the other parts, and shown by no run of its own:

* Recovery also closes rows that were still pending, so a row goes from pending to
  recovered, which the diagram of `docs/ops/CONTROL_PLANE_TRUST.md:61-69` does not have.
* `restart_transport` may take the connection between a packet's header and its body, and
  the reader then uses a nil connection (`transport/mqtt.go:238`), as the wait for the answer to a
  subscription may (`transport/mqtt.go:496`): the process dies, though `control.go:255` notes
  "Interrupts only the named transport".
* Failures to subscribe never reach a retry threshold above one: a connect that succeeds
  sets the count to zero first.
* The report of a worker or a ping may come after the connection has ended, and tell
  of a live transport until the next failure.
* `Execute` without an event after the base ignores the state it was given. An event applied
  between a snapshot's two reads is in neither its state nor a replay from it
  (`docs/architecture/replay-system.md:77-89`). After a restart the kernel is empty, not restored.
* A look-up that fails in `escalateToIncident` opens a resolved incident again, as does a
  regression of the mesh, and a hand-off is lost to any request that read the row before it
  (`incident_collab.go:3`, `runbook_review.go:222-224`). An incident acknowledged after it was
  resolved keeps its `resolved_at`.
* The look-up for a cooldown reads only rows *created* within it (`control.go:832`): an
  action that was created before and has just ended does not count, where
  `docs/ops/control-plane.md:73` has "Minimum seconds between actions on the same target"; one
  that fails counts as no history. Denied rows crowd executed
  ones out of the `MaxActions + 10` rows the budget reads.
* A dead-letter episode counts as written before it is (`service/app.go:757-761`).
* AgentPCAP: `Shutdown` waits for open streams (`src/pcap/internal/server/server.go:152`), so
  Ctrl+C does not end `demo` or `open` while a browser follows. Events are written at
  the end only, so a crash leaves nothing or half a file, where `src/pcap/docs/V1_SCOPE.md:26`
  promises "Line-by-line streaming recovery from crash-interrupted captures". `run` prints "Capture
  saved" whatever `Save` returned. Traces that arrive after an upload go to the uploaded session
  and are not saved. A demo, also one started by a GET, empties a running capture, and `Reset`
  opens a closed session again (`src/pcap/internal/capture/session.go:210`).

## 4. Fairness

`FairSpec` assumes weak fairness of the daemon's executor, of recovery, and of every
handler that has accepted a request. The executor is a goroutine that loops over a channel
(`service/app.go:323-397`); a handler is a goroutine that takes no lock; recovery runs
because the service manager restarts the daemon (`Restart=on-failure`,
`src/mesh-edge/docs/ops/systemd/mel.service:10`). Nothing is assumed of operators,
of the clock, of proposals, or of CLI processes, and crashes are bounded.

`FairSpec` of `FederationSync` assumes weak fairness of every pull under way, of
`pushSyncLoop`, and of the heartbeats and pulls of a configured peer: the last two
repeat on tickers, whatever came of the ones before (`manager.go:564-598`), and
an HTTP client with a timeout ends a call one way or the other. Nothing is assumed of notifications,
of new events or of compaction. Silences, losses and restarts are bounded: a network that
is never up delivers nothing. Weak fairness is enough: once
the faults are spent no active peer becomes anything else, and a pull under way ends,
so a tick finds its peer active and a pull of `Tickers` free (the code starts a
goroutine at every tick; `Tickers` bounds how many are under way).

In `node`, weak fairness is assumed of the clock, of the partition check and of each peer's
heartbeats and their arrival: they are tickers (`federation/manager.go:564-616`). Of the link it is
assumed of `runTransport`, of the keepalive's report and end, of a worker that has a packet and of
an executor in a restart: each is a goroutine that `startWorkers` (`service/app.go:323-382`) or
`Subscribe` starts, and its calls end by a deadline or an error. Nothing is assumed of
the broker, of restarts, raises or losses. `Reconnects` and `HealthSettles` speak of a broker that
stays or stays away; `SplitEnds` of peers that stay connected.

## 5. Proofs

Assumptions: `ActionsAssumption`, `FollowUpsAssumption`, `PlaneAssumption`, which
only say what the constants are (types of the functions, follow-up ids apart from
action ids, a channel of at least one slot). Number of actions, sessions,
evaluators, scopes, the channel's capacity and the bounds on crashes and faults are
arbitrary, and sets need not be finite.

| Theorem | Module | States |
| --- | --- | --- |
| `TypeCorrect` | `ControlPlaneProofs` | `Spec => [](TypeOK /\ TypeInv)` |
| `FreezesHold` | `ControlPlaneProofs` | `Spec => []FreezeStopsTheRest` |
| `RunsAreSent` | `ControlPlaneProofs` | `Spec => []RunsOncePerSend` |
| `CopiesAreFaithful` | `ControlPlaneProofs` | `Spec => []GateInv` |
| `GateImplemented` | `ControlPlaneProofs` | `Spec => ImplementsGate` |
| `CopiesAreHonest` | `ControlPlaneProofs` | `Spec => []HonestInv` |
| `SuccessHappened` | `ControlPlaneProofs` | `Spec => []SuccessIsTrue` |
| `DutiesSeparated` | `ControlPlaneProofs` | `Spec => []SelfApprovalIsMarked` |
| `RunningOwned` | `ControlPlaneRecoveryProofs` | `Spec => []RunningIsOwned` |
| `ResetsAreGrounded`, `DaemonRests` | `ControlPlaneRecoveryProofs` | `Spec => []RaiseInv`, `Spec => []RestInv` |
| `ActionsAreInOnePlace` | `ControlPlaneRecoveryProofs` | `Spec => [](SoloInv /\ ClosedInv)` |
| `ResetsFollowRaises` | `ControlPlaneRecoveryProofs` | `Spec => []ResetFollowsRaise` |
| `RecoveryIsFinal` | `ControlPlaneRecoveryProofs` | `Spec => RecoveredStaysClosed` |
| `LostActionsAreFound` | `ControlPlaneRecoveryProofs` | `Spec => LostIsFoundAgain` |
| `SyncTypes` | `FederationSyncProofs` | `Spec => []TypeOK` |
| `CursorsCover` | `FederationSyncProofs` | `Spec => []CursorCovers` |
| `DeliveryImplemented` | `FederationSyncProofs` | `Spec => RefinesDelivery` |
| `QueryIsPrefix` | `EventLogProofs` | a page with a row has every row before it, after the number asked for |
| `BridgeIsTyped`, `NothingLoggedIsMissed`, `NoSnapshotIsAhead`, `ReplayIsTheKernel` | `KernelProofs` | `BridgeSpec => []P` for `BridgeTypeOK`, `LoggedIsApplied`, `SnapshotNotAhead` and `ReplayMeetsLive` |
| `PeerTypes`, `HealthyTrusted`, `PartitionedSilent`, `SplitMajority`, `AutonomyBounded` | `NodeProofs` | `Spec => []P` for `TypeOK` and the four properties of peers |
| `ConnectionsAreClosed`, `WaitsEndOnce`, `OutageIsToldOnce`, `ReaderDiesOfRestarts`, `WaitsAreBounded` | `NodeProofs` | `LinkSpec => []P` for `NoLeak`, `InterruptsEndOneWait`, `ThresholdIsTold`, `OnlyRestartsKill` and `WaitIsBounded` |
| `NodeIsTyped` | `NodeProofs` | `NodeSpec => []NodeTypeOK` |
| `OnlyPermitted` | `DecisionProofs` | `GuardSpec => []OnlyPermittedRuns` |
| `ResolvedStays`, `WorkStays` | `DecisionProofs` | `DeskSpec => ResolutionStands`, `DeskSpec => WorkIsTaken` |
| `CaptureTypes`, `SavedWhole`, `StreamFaithful`, `TotalsKept` | `CaptureProofs` | `CaptureSpec => []P` for `CaptureTypeOK`, `SavedIsWhole`, `StreamIsFaithful`, `TotalsMatch` |

The argument. `TypeOK` is not inductive: a follow-up's id exists only for an
action of the right type, so `TypeInv` adds which ids a busy process can be at work
on. `FreezeStopsTheRest` is then inductive on its own, with a frame lemma for the
steps that neither freeze nor move an executor.

The gate. `ImplementsGate` needs that whatever is written over a gated row leaves
its gate as it is, and the writes come from copies. `GateInv` says so of every
place a copy can be: a copy that may be acted on or written back is of a settled
row (open or shut) and shows the same gate as the table; an executor at work on a
gated action holds an open one; a proposal's row is not in the table yet and no
other handler proposes its id. It is inductive because settled rows stay settled:
`Moves(K)` says a step changes the gates of `K` alone, each from absent or held,
and every step is shown to be `Moves` of the right `K` with the copies that refer to
`K` untouched. The lemmas `HandlerGates`, `ExecutorGates`, `StillGates` and
`DeathGates` do this once per kind of step; one lemma per action supplies the case.
`StepRefines` turns the same facts into steps of `ApprovalGate`: a step that sets
one gate is `Enter`, `Open` or `Shut`, the expiry worker's UPDATE is `Shut` of a set,
`Actuate` is `Act`, everything else stutters.

Sends. `SendInv` counts, for an id, the places that hold a send of it which has not run
(`Places`: the elements of every channel, and every executor before its actuator): runs and
places together never exceed the sends. A channel send adds one place, taking an element moves
one, the actuator turns one into a run, a refusal or a death drops some.

Claims. A row may be written back from any copy, so what the table reports is as true as
what copies claim. `HonestInv` says of every row and copy that a success it reports has a run
of the actuator behind it, that an approval by the submitter carries the bypass, and that only
actions under a policy wait for an approval; a copy names the submitter the table names, and an
approval in hand is by someone else or break-glass. The one step that writes a success is the one
after the actuator. It needs `GateInv`: a settled gate is why the submitter of a copy cannot change.

Owners. `OwnInv` holds while the daemon is alone, nothing has failed and nobody uses break-glass
(`Alone`). A running row is then the executor's between `Start` and `Finish`, or, while the
daemon recovers, on recovery's list. The difficulty is the handlers that write a copy back:
`OwnTask` says that none of them holds a running row.

Resets. `RaiseInv` says that whatever is about a reset, in the table, a channel, an executor, a
handler or a scan, has behind it a raise that ran. An evaluation scans only rows that report
success, and `HonestInv` says that these ran. `RestInv` says what is at work while the daemon is
the only process and not up: recovery, and the follow-ups of an executor it found at work.

Recovery. That a parent's row still says what the revert wrote, and that nobody takes up what
recovery closed, need to know where an action can be. `SoloInv` says it for a daemon without
requests and failed statements (`Unattended`): an action is in one place at a time, a proposal,
the channel or the executor, its row says in which, and what was followed up or undone is over.
With it `ClosedInv`: nobody but recovery has a recovered action in hand. It holds for longer,
while the daemon is alone and no statement has failed, or one has and there are no requests
(`Trusty`). Its hard case is the executor that seeks its follow-up: by `SoloInv` an action runs
once and then has no follow-up, so one statement that fails is too few to find a recovered one
missing. The step that makes `faults` 1 starts from a state in which `SoloInv` still holds;
afterwards `ClosedInv` carries itself.

What is lost. `LostIsFoundAgain` speaks of steps: one that neither dies nor fails keeps every
pending or running row in somebody's hand. The lemmas give each action the four fates it may have
in a step: its row stays as it is with the same holder, is closed, is taken in hand, or is a follow-up
written while the channel is full. The hard case is a write of a copy, which could open
a row that is over with nobody to see to it. `PlainInv` excludes it: with nobody's requests, a copy
before its check or in the channel is of a waiting row, and what an evaluation or the executor writes
last is over. It holds through deaths and failed statements, since each copy is only
moved on by whoever holds it. That a start takes everything in hand is the SELECT of recovery.

The cursors. The assumptions are `LogAssumption` and `SyncAssumption` (types, no
node configured as its own peer, at least one slot and a page of at least one); nodes, events
and pulls may be any number. `CursorCovers` needs to know what a pull will move the
cursor to before it does: `SyncInv` says that an asked pull's number, and an
ingesting pull's last number but for the events it still carries, are covered as a cursor
is (`PullCovers`), that every dedup entry has been handled, and that everything
anyone knows of a peer's numbers is at most the peer's `top`. The argument then has
two halves. `HandledGrows`: until it restarts, a node goes on having handled what it
has - an event leaves a pull's hand only for the log or for `failed`, since the one other
refusal, of a number in use, cannot happen in a counted log. `PassedKept`: a row that is
new in a peer's log is numbered above its top, so above every cursor. An answer is covered
because a page skips nothing (`QueryIsPrefix`) and what the scope leaves out need
not be covered; a restart of the node puts its cursors at 0, below every row. The
refinement follows from what a pull has in hand: a row its peer has stored, and in scope.

The kernel. Under `LogAssumption`, `DataAssumption` and `BridgeAssumption`, `BridgeInv` has five
parts. `BridgeTypes` types the kernel's state and each of its maps, with a node's scores between
their bounds, so that what a handler makes of any number is proved to stay in them. `RowsInv`:
numbers and events tell rows apart, and a row that is not yet applied is in one writer's hand. `AppliedInv` is
`LoggedIsApplied` with the highest number applied, which makes a row applied below it a jumbled
one. `SnapshotInv` says what a snapshot may have seen when its number is read. `FoldInv` is the
heart of `ReplayMeetsLive`: from every base that replay may start at, the live kernel is the
fold of the rows applied since. A step adds one row above all the others to that fold
(`BatchAdd`). The fold of the library is a `CHOOSE` of a recursive function; `FoldingExists` and
`FoldingIsUnique` show that there is one such function, by a smallest set or a least index that
would be a counterexample, which takes no induction theorem with an operator for a parameter.

The peers. The assumptions are `PeerAssumption` and `ClockAssumption`: a finite set of peers (a
majority is counted), thresholds in order, clocks and delays within the margins of the
thresholds; only `HealthyTrusted` needs the margins. `AgeInv` ties the age of `LastSeen` to the
silence that was, `JudgedInv` says what the last check left of it with the time since the check,
`BeatInv` follows the one heartbeat on its way when there is no fault, and `AutonomyInv` the
action that has been allowed and not yet counted.

The link. Under `LinkAssumption`, `HolderInv` says who holds a connection at each place of the
loop, `ToldInv` that an outage is told exactly if the count has passed the threshold, `CutInv`
counts restarts against what they may still cut short. `WaitInv` bounds the wait: `Shift` and
`Doubled` are recursive functions, for which `StepsExist` finds the sequence of steps that the
definition chooses, and `ShiftFits` says, again by a least counterexample, that a shift does not
end below where it starts as long as the doubled value fits. Beyond that the value wraps to
anything in the width, and the upper bound needs only that the code cuts what exceeds the cap
(`JitterIsBounded`). `NodeIsTyped` is about the composition, each of whose steps is one of a
part.

Decisions. Under `GuardAssumption`, `GuardInv` follows an action through an evaluation. `HistoryInv`
says that what an evaluation has read of a target holds all that had run in its cooldown before the
evaluation began: rows only end at the present instant (`RowsGrow`), so nothing that ends later
belongs to it, and an evaluation's second candidate may use the first one's look-up. `DecidedInv` says
that what is decided and not denied is permitted and its target rested, and `ThroughInv` the
same of the row, the channel and the executor, where only the row's stage changes. The exceptions
(`Excused`) only grow. That a look-up below its limit returns every row in question is a lemma on
cardinalities.

Incidents. Under `DeskAssumption`, `EditInv` says that a copy is the row unless the history
says it is outdated, `WorkerInv` that the worker is not about to write a resolved incident but
for the reasons the property names.

AgentPCAP. Under `CaptureAssumption`, a closed session takes nothing, so between closing and
copying it is as it was found, unless a demo emptied it (`AsFound`). No event anywhere has a
higher number than the last one made, so an append keeps what a viewer was sent in order
(`UpTo`), and a viewer's part of what its session took grows with the session (`TakenGrows`).

Only model-checked: `Delivered`, `SentIsClosed`, `SplitEnds`, `Reconnects`
and `HealthSettles`, which are liveness under fairness and out of the prover's reach, and that
the documented claims of section 3 fail. Every invariant and every action property that a
passing run checks is a theorem.

## 6. How to run

    tlc -config MCApproval.cfg MCApproval
    tlc -config MCRecovery.cfg MCRecovery
    tlc -config MCLiveness.cfg MCLiveness
    tlc -config MCSync.cfg MCSync
    tlc -config MCRecords.cfg MCRecords
    tlc -config MCNode.cfg MCNode
    tlc -config ClaimBudget.cfg MCGuardClaims
    tlc -config ClaimNoop.cfg MCClaims      (and ClaimWaiting, ClaimListed)
    tlc -config ClaimBackoff.cfg MCLinkClaims
    tlc -config ClaimSynced.cfg MCSyncClaims
    tlapm ControlPlaneProofs.tla
    tlapm ControlPlaneRecoveryProofs.tla
    tlapm EventLogProofs.tla
    tlapm FederationSyncProofs.tla
    tlapm KernelProofs.tla
    tlapm NodeProofs.tla
    tlapm DecisionProofs.tla
    tlapm CaptureProofs.tla

## 7. Plan

What is left of the plan:

1. The direct transport, which keeps the same contract as MQTT with other reads, and
   the actuators for suppression and deprioritisation.
2. Dead letters: episodes, their suppression and their replay.
3. Larger instances of `records`, whose parts would be runs of their own.

## 8. What is not modelled, and why

* The limit on the rows recovery reads (`Intelligence.Queries.MaxLimit`): instances
  have fewer rows. Retention deletes rows by age and is left out with it.
* Notes, evidence bundles, timelines and audit rows: nothing reads them back to
  decide about an action.
* A graceful shutdown: it stops the executor between two actions or in one, as `Crash`.
* Fleet import, topology, self-observation, retention, region, consistency and configuration, and the
  incident code besides those requests (intelligence, decision packs, worklists, shift hand-offs,
  signal outcomes): requests on single records, rendering and validation, without a protocol
  between actors. These, the web handlers, the command line and the packet formats are most
  of the source, so the share of its lines that is modelled stays small.
* The analysis, comparison, redaction and export of AgentPCAP: functions of a finished file.
* The kernel's coordinator and its durability service: nothing but tests calls the one, and
  the other only runs integrity checks and backups.
* `AppendBatch`, `AddPeer` and the persisted peers: nothing but tests calls them.
  Checksums and policy conflicts never decide what is replicated.
* Frontends, site, simulation, planning documents and examples.
