----------------------------- MODULE ControlPlane -----------------------------
(***************************************************************************)
(* MEL's guarded control plane: how a control action travels from a        *)
(* proposal to its actuator.  The daemon (mel serve) runs evaluator        *)
(* threads, one executor goroutine fed by a bounded channel, HTTP handlers *)
(* and a cleanup worker; mel action/control invocations are processes of   *)
(* their own on the same database, each with its own channel, that execute *)
(* at most one action before they exit.  All share control_actions rows    *)
(* and nothing locks a row between two statements.                         *)
(*                                                                         *)
(* One TLA+ step is one database statement together with the process-local *)
(* computation around it.  A channel send is merged with the statement     *)
(* before it: the copy sent is already fixed by then.                      *)
(***************************************************************************)
EXTENDS ControlActions

CONSTANTS Serve,        \* the daemon
          Evals,        \* threads of the daemon that may be inside evaluateControl
          Ticker,       \* the one of Evals driven by the intelligence worker's ticker
          Sessions,     \* operator requests; each is served once
          Cli,          \* those of Sessions that are CLI processes
          ActorOf,      \* [Sessions -> Operators]
          Requests,     \* operations the sessions may ask for
          Proposable,   \* the Actions the evaluator may propose; operators queue the rest
          Glass,        \* the break-glass acknowledgements sessions may send, of BOOLEAN
          FreezeScopes, WindowScopes,
          MaxQueue,     \* cfg.Control.MaxQueue, the capacity of a channel
          MaxCrashes,   \* bound: process deaths in a behaviour
          MaxFaults,    \* bound: failed database statements in a behaviour
          NoId          \* the id of an idle process

ASSUME PlaneAssumption ==
          /\ Evals # {} => Ticker \in Evals
          /\ Cli \subseteq Sessions
          /\ Serve \notin Sessions
          /\ Sessions \cap Evals = {}
          /\ ActorOf \in [Sessions -> Operators]
          /\ Requests \subseteq {"submit", "approve", "reject"}
          /\ Proposable \subseteq Actions
          /\ Glass \subseteq BOOLEAN
          /\ MaxQueue \in Nat \ {0}
          /\ MaxCrashes \in Nat
          /\ MaxFaults \in Nat
          /\ NoId \notin Ids

Apps == {Serve} \cup Cli
Handlers == Sessions \cup Evals
AppOf(p) == IF p \in Cli THEN p ELSE Serve

VARIABLES
    rows,      \* [Ids -> Row]: the control_actions table
    frozen,    \* active rows of control_freezes, by scope
    windows,   \* maintenance windows in effect, by scope
    late,      \* ids whose approval_expires_at has passed
    lapsed,    \* ids whose expires_at has passed
    queue,     \* [Apps -> Seq(Copy)]: each process's controlQueue
    exec,      \* [Apps -> local state of executeControlAction]
    task,      \* [Handlers -> local state of evaluateControl or of a request]
    scan,      \* [Evals -> rows queueRecoveryActions has read and not yet handled]
    daemon,    \* "up", "down" or "recovering"
    todo,      \* rows recoverIncompleteControlActions has read and not yet closed
    crashes, faults,
    handed,    \* history: sends of each id into a channel
    fired,     \* history: runs of the actuator for each id
    exempt     \* history: the executors past their freeze check when a freeze was created

store == <<rows, frozen, windows, late, lapsed>>
policy == <<frozen, windows, exempt>>
clock == <<late, lapsed>>
control == <<daemon, todo>>
vars == <<rows, frozen, windows, late, lapsed, queue, exec, task, scan, daemon, todo,
          crashes, faults, handed, fired, exempt>>

Copy == [id : Ids, row : Row]

ExecIdle == [pc |-> "idle", id |-> NoId, row |-> NoRow]
TaskIdle == [pc |-> "idle", op |-> "none", id |-> NoId, row |-> NoRow,
             glass |-> FALSE, hit |-> FALSE, told |-> "none"]

Init ==
    /\ rows = [id \in Ids |-> NoRow]
    /\ frozen = {} /\ windows = {}
    /\ late = {} /\ lapsed = {}
    /\ queue = [a \in Apps |-> <<>>]
    /\ exec = [a \in Apps |-> ExecIdle]
    /\ task = [p \in Handlers |-> TaskIdle]
    /\ scan = [e \in Evals |-> {}]
    /\ daemon = "up" /\ todo = {}
    /\ crashes = 0 /\ faults = 0
    /\ handed = [id \in Ids |-> 0]
    /\ fired = [id \in Ids |-> 0]
    /\ exempt = [f \in FreezeScopes |-> {}]

------------------------------------------------------------------------------
(* Helpers shared by the handlers *)

Frozen(id) == \E f \in frozen : Covers(f, id)
InMaintenance(id) == \E w \in windows : WindowCovers(w, id)

Fault == faults < MaxFaults /\ faults' = faults + 1

Write(id, row) == rows' = [rows EXCEPT ![id] = row] /\ UNCHANGED faults

(* An upsert whose error the caller ignores or only logs. *)
WriteOrLose(id, row) == Write(id, row) \/ (Fault /\ UNCHANGED rows)

(* Mutant: one slot too many. *)
HasRoomOffByOne(app) == Len(queue[app]) <= MaxQueue

HasRoom(app) == Len(queue[app]) < MaxQueue

(* select { case controlQueue <- action: default: } *)
Send(app, id, row) ==
    IF HasRoom(app)
    THEN /\ queue' = [queue EXCEPT ![app] = Append(@, [id |-> id, row |-> row])]
         /\ handed' = [handed EXCEPT ![id] = @ + 1]
    ELSE UNCHANGED <<queue, handed>>

Running(p) == p \in Cli \/ daemon = "up"

(* Action ids are random, so no two proposals share one. *)
Fresh(a) == rows[a].life = "none" /\ \A p \in Handlers : task[p].id # a

TaskStep(p, pc) == task' = [task EXCEPT ![p].pc = pc]
TaskRow(p, pc, row) == task' = [task EXCEPT ![p].pc = pc, ![p].row = row]

(* What follows a proposal: the evaluator's next decision, or the response. *)
Settle(p) ==
    task' = [task EXCEPT ![p] =
               IF p \in Evals THEN [TaskIdle EXCEPT !.pc = "decide"]
               ELSE [@ EXCEPT !.pc = IF p \in Cli THEN "exit" ELSE "done", !.row = NoRow]]

(* The request is answered, or its error returned; what the caller hears is kept. *)
Answered(s, pc, told) ==
    [task[s] EXCEPT !.pc = pc, !.told = told, !.row = NoRow, !.glass = FALSE]
Answer(s, pc, told) == task' = [task EXCEPT ![s] = Answered(s, pc, told)]

ExecStep(app, pc, row) == exec' = [exec EXCEPT ![app].pc = pc, ![app].row = row]

(* The action is over: the executor is no longer past a freeze check. *)
ExecDone(app) ==
    /\ exec' = [exec EXCEPT ![app] = ExecIdle]
    /\ exempt' = [f \in FreezeScopes |-> exempt[f] \ {app}]

------------------------------------------------------------------------------
(* evaluateControl and QueueOperatorControlAction *)

(* A tick of the intelligence worker. *)
BeginEvaluation ==
    /\ Ticker \in Evals
    /\ daemon = "up"
    /\ task[Ticker].pc = "idle"
    /\ TaskStep(Ticker, "decide")
    /\ UNCHANGED <<store, queue, exec, scan, control, crashes, faults, handed, fired, exempt>>

(* A decision control.Evaluate did not allow: closed as it is created. *)
ProposeDenied(e) ==
    /\ daemon = "up"
    /\ task[e].pc = "decide"
    /\ \E a \in Proposable :
         /\ Fresh(a)
         /\ WriteOrLose(a, Closed(NewRow("system"), "denied_by_policy", ""))
    /\ UNCHANGED <<policy, clock, queue, exec, task, scan, control, crashes, handed, fired>>

(* An allowed decision: the evaluator asks the trust gate about freezes first. *)
Propose(e) ==
    /\ daemon = "up"
    /\ task[e].pc = "decide"
    /\ \E a \in Proposable :
         /\ Fresh(a)
         /\ task' = [task EXCEPT ![e] = [TaskIdle EXCEPT !.pc = "freeze", !.op = "propose",
                                           !.id = a, !.row = NewRow("system")]]
    /\ UNCHANGED <<store, queue, exec, scan, control, crashes, faults, handed, fired, exempt>>

(* An operator's action is held for approval before any freeze is looked at. *)
Submit(s) ==
    /\ Running(s)
    /\ "submit" \in Requests
    /\ task[s].pc = "idle"
    /\ \E a \in Actions \ Proposable :
         /\ Fresh(a)
         /\ task' = [task EXCEPT ![s] =
                       [TaskIdle EXCEPT !.pc = IF NeedsApproval(a) THEN "persist" ELSE "freeze",
                                        !.op = "submit", !.id = a, !.row = NewRow(ActorOf[s])]]
    /\ UNCHANGED <<store, queue, exec, scan, control, crashes, faults, handed, fired, exempt>>

(* isExecutionBlocked: a failed look-up lets the action through. *)
CheckFreeze(p) ==
    /\ Running(p)
    /\ task[p].pc = "freeze"
    /\ \/ /\ Frozen(task[p].id)
          /\ TaskRow(p, "refuse", Closed(task[p].row, "denied_by_freeze", "blocked_by_freeze"))
          /\ UNCHANGED faults
       \/ /\ ~Frozen(task[p].id)
          /\ TaskStep(p, "maintenance")
          /\ UNCHANGED faults
       \/ Fault /\ TaskStep(p, "maintenance")
    /\ UNCHANGED <<store, queue, exec, scan, control, crashes, handed, fired, exempt>>

CheckMaintenance(p) ==
    /\ Running(p)
    /\ task[p].pc = "maintenance"
    /\ \/ /\ InMaintenance(task[p].id)
          /\ TaskRow(p, "refuse",
                     Closed(task[p].row, "denied_by_maintenance", "blocked_by_maintenance"))
          /\ UNCHANGED faults
       \/ /\ ~InMaintenance(task[p].id)
          /\ TaskStep(p, "persist")
          /\ UNCHANGED faults
       \/ Fault /\ TaskStep(p, "persist")
    /\ UNCHANGED <<store, queue, exec, scan, control, crashes, handed, fired, exempt>>

(* The closed row of a proposal that was blocked, or found the channel full. *)
Refuse(p) ==
    /\ Running(p)
    /\ task[p].pc = "refuse"
    /\ WriteOrLose(task[p].id, task[p].row)
    /\ Settle(p)
    /\ UNCHANGED <<policy, clock, queue, exec, scan, control, crashes, handed, fired>>

(* The new row is held for approval or handed to the executor; when the channel
   is full it is written all the same, and closed by a second statement.   *)
Persist(p) ==
    LET id == task[p].id
        row == task[p].row
        app == AppOf(p)
    IN /\ Running(p)
       /\ task[p].pc = "persist"
       /\ \/ /\ NeedsApproval(id)
             /\ Write(id, Held(row))
             /\ Settle(p)
             /\ UNCHANGED <<queue, handed>>
          \/ /\ ~NeedsApproval(id)
             /\ Write(id, row)
             /\ Send(app, id, row)
             /\ IF HasRoom(app) THEN Settle(p) ELSE TaskRow(p, "refuse", Superseded(row))
          \/ /\ Fault
             /\ Settle(p)
             /\ UNCHANGED <<rows, queue, handed>>
       /\ UNCHANGED <<policy, clock, exec, scan, control, crashes, fired>>

------------------------------------------------------------------------------
(* queueRecoveryActions, at the end of every evaluation *)

(* The rows due for a revert; the anomaly history says which transports are quiet. *)
ScanExpired(e) ==
    /\ daemon = "up"
    /\ task[e].pc = "decide"
    /\ \E quiet \in SUBSET {id \in lapsed : RevertDue(id, rows[id])} :
         scan' = [scan EXCEPT ![e] = {[id |-> id, row |-> rows[id]] : id \in quiet}]
    /\ TaskStep(e, "scan")
    /\ UNCHANGED <<store, queue, exec, control, crashes, faults, handed, fired, exempt>>

(* seenControlAction: a failed look-up counts as not seen. *)
RevertSeen(e) ==
    /\ daemon = "up"
    /\ task[e].pc = "scan"
    /\ \E c \in scan[e] :
         /\ scan' = [scan EXCEPT ![e] = @ \ {c}]
         /\ \/ /\ rows[Reset(c.id)].life # "none"
               /\ UNCHANGED <<task, faults>>
            \/ /\ \/ rows[Reset(c.id)].life = "none" /\ UNCHANGED faults
                  \/ Fault
               /\ task' = [task EXCEPT ![e].pc = "close", ![e].op = "revert",
                                       ![e].id = c.id, ![e].row = c.row]
    /\ UNCHANGED <<store, queue, exec, control, crashes, handed, fired, exempt>>

(* The parent's row is written back as it was read, with a new closure. *)
CloseReverted(e) ==
    /\ daemon = "up"
    /\ task[e].pc = "close"
    /\ WriteOrLose(task[e].id, [task[e].row EXCEPT !.closure = "expired_and_reverted"])
    /\ TaskStep(e, "follow")
    /\ UNCHANGED <<policy, clock, queue, exec, scan, control, crashes, handed, fired>>

IssueReset(e) ==
    LET reset == Reset(task[e].id)
    IN /\ daemon = "up"
       /\ task[e].pc = "follow"
       /\ WriteOrLose(reset, NewRow("system"))
       /\ Send(Serve, reset, NewRow("system"))
       /\ task' = [task EXCEPT ![e] = [TaskIdle EXCEPT !.pc = "scan"]]
       /\ UNCHANGED <<policy, clock, exec, scan, control, crashes, fired>>

EndEvaluation(e) ==
    /\ daemon = "up"
    /\ task[e].pc = "scan" /\ scan[e] = {}
    /\ TaskStep(e, "idle")
    /\ UNCHANGED <<store, queue, exec, scan, control, crashes, faults, handed, fired, exempt>>

------------------------------------------------------------------------------
(* ApproveActionWithOpts and RejectActionWithOpts.  Requests refused before
   the first write leave no trace and are not steps.                       *)

Deciding(s) == task[s].op \in {"approve", "reject"}

(* The row is read and the request accepted.  Only approval looks at the expiry. *)
ReceiveDecision(s) ==
    /\ Running(s)
    /\ task[s].pc = "idle"
    /\ \E op \in Requests \cap {"approve", "reject"}, id \in Ids, glass \in Glass :
         /\ Undecided(rows[id])
         /\ op = "approve" => id \notin late
         /\ SodWouldBlock(id, rows[id], ActorOf[s]) => glass
         /\ task' = [task EXCEPT ![s] =
                       [TaskIdle EXCEPT !.pc = "update", !.op = op, !.id = id,
                                        !.row = rows[id], !.glass = glass]]
    /\ UNCHANGED <<store, queue, exec, scan, control, crashes, faults, handed, fired, exempt>>

(* Break-glass metadata is merged in for every acknowledged approval and CLI
   rejection, and for an HTTP rejection by the submitter.                  *)
MergesMetadata(s) ==
    /\ task[s].glass
    /\ \/ task[s].op = "approve"
       \/ s \in Cli
       \/ SodWouldBlock(task[s].id, task[s].row, ActorOf[s])

(* The guarded UPDATE of DB.ApproveControlAction or DB.RejectControlAction and
   the read that verifies it: an error only if the row is still undecided.  *)
UpdateRow(s) ==
    LET id == task[s].id
        actor == ActorOf[s]
        new == IF task[s].op = "approve"
               THEN Approved(rows[id], actor,
                             task[s].glass /\ SodWouldBlock(id, task[s].row, actor))
               ELSE Rejected(rows[id])
    IN /\ Running(s)
       /\ task[s].pc = "update"
       /\ Write(id, new)
       /\ IF Undecided(new)
          THEN Answer(s, "done", "error")
          ELSE task' = [task EXCEPT ![s].pc = IF MergesMetadata(s) THEN "merge" ELSE "reload",
                                    ![s].hit = Undecided(rows[id])]
       /\ UNCHANGED <<policy, clock, queue, exec, scan, control, crashes, handed, fired>>

(* mergeControlActionMetadata: the row is read ... *)
ReadForMerge(s) ==
    /\ Running(s)
    /\ task[s].pc = "merge"
    /\ TaskRow(s, "patch", rows[task[s].id])
    /\ UNCHANGED <<store, queue, exec, scan, control, crashes, faults, handed, fired, exempt>>

(* ... and written back whole. *)
WriteMerged(s) ==
    /\ Running(s)
    /\ task[s].pc = "patch"
    /\ Write(task[s].id, task[s].row)
    /\ TaskStep(s, "reload")
    /\ UNCHANGED <<policy, clock, queue, exec, scan, control, crashes, handed, fired>>

(* A rejection is answered; an approved row is read back and sent as it is now. *)
ReloadAndSend(s) ==
    LET id == task[s].id
        app == AppOf(s)
    IN /\ Running(s)
       /\ task[s].pc = "reload"
       /\ IF task[s].op = "approve"
          THEN /\ Send(app, id, rows[id])
               /\ IF HasRoom(app)
                  THEN Answer(s, IF s \in Cli THEN "drain" ELSE "done", "approved")
                  ELSE Answer(s, "done", "error")
          ELSE /\ Answer(s, "done", "rejected")
               /\ UNCHANGED <<queue, handed>>
       /\ UNCHANGED <<store, exec, scan, control, crashes, faults, fired, exempt>>

(* A statement of the handler fails: it returns the error and undoes nothing. *)
DecisionFails(s) ==
    /\ Running(s)
    /\ Deciding(s)
    /\ task[s].pc \in {"update", "merge", "patch", "reload"}
    /\ Fault
    /\ Answer(s, "done", "error")
    /\ UNCHANGED <<store, queue, exec, scan, control, crashes, handed, fired, exempt>>

(* The CLI process ends; what is left in its channel goes with it. *)
ExitCli(s) ==
    /\ s \in Cli
    /\ task[s].pc = "exit"
    /\ exec[s].pc = "idle"
    /\ TaskStep(s, "done")
    /\ queue' = [queue EXCEPT ![s] = <<>>]
    /\ UNCHANGED <<store, exec, scan, control, crashes, faults, handed, fired, exempt>>

------------------------------------------------------------------------------
(* controlExecutor, ProcessNextQueuedControlAction, executeControlAction *)

MayDequeue(app) == IF app = Serve THEN daemon = "up" ELSE task[app].pc = "drain"

(* Mutant: the receiver peeks. *)
Peek(app) == queue[app] # <<>> /\ UNCHANGED queue

Take(app) == queue[app] # <<>> /\ queue' = [queue EXCEPT ![app] = Tail(@)]

(* The mode gate looks at the copy that was queued, never at the row. *)
Dequeue(app) ==
    LET c == Head(queue[app])
        pass == NeedsApproval(c.id) => Incomplete(c.row)
    IN /\ MayDequeue(app)
       /\ exec[app].pc = "idle"
       /\ Take(app)
       /\ IF ~pass /\ Undecided(c.row)
          THEN WriteOrLose(c.id, Closed(c.row, "denied_by_policy", "superseded"))
          ELSE UNCHANGED <<rows, faults>>
       /\ exec' = IF pass
                  THEN [exec EXCEPT ![app] = [pc |-> "freeze", id |-> c.id, row |-> c.row]]
                  ELSE exec
       /\ task' = IF app \in Cli THEN [task EXCEPT ![app].pc = "exit"] ELSE task
       /\ UNCHANGED <<policy, clock, scan, control, crashes, handed, fired>>

Recheck(app, found, next, refusal) ==
    \/ found /\ ExecStep(app, "refuse", refusal) /\ UNCHANGED faults
    \/ ~found /\ ExecStep(app, next, exec[app].row) /\ UNCHANGED faults
    \/ Fault /\ ExecStep(app, next, exec[app].row)

(* Mutant: the answer of the proposal is trusted. *)
RecheckNoFreeze(app) ==
    /\ exec[app].pc = "freeze"
    /\ ExecStep(app, "maintenance", exec[app].row)
    /\ UNCHANGED <<store, queue, task, scan, control, crashes, faults, handed, fired, exempt>>

RecheckFreeze(app) ==
    /\ exec[app].pc = "freeze"
    /\ Recheck(app, Frozen(exec[app].id), "maintenance",
               Closed(exec[app].row, "denied_by_freeze", "blocked_by_freeze"))
    /\ UNCHANGED <<store, queue, task, scan, control, crashes, handed, fired, exempt>>

RecheckMaintenance(app) ==
    /\ exec[app].pc = "maintenance"
    /\ Recheck(app, InMaintenance(exec[app].id), "start",
               Closed(exec[app].row, "denied_by_maintenance", "blocked_by_maintenance"))
    /\ UNCHANGED <<store, queue, task, scan, control, crashes, handed, fired, exempt>>

RefuseExecution(app) ==
    /\ exec[app].pc = "refuse"
    /\ WriteOrLose(exec[app].id, exec[app].row)
    /\ ExecDone(app)
    /\ UNCHANGED <<frozen, windows, clock, queue, task, scan, control, crashes, handed, fired>>

(* An action without an actuator is closed; any other is recorded as running,
   and is dropped if that record cannot be written.                        *)
Start(app) ==
    LET id == exec[app].id
        row == [exec[app].row EXCEPT !.life = "running"]
    IN /\ exec[app].pc = "start"
       /\ \/ /\ AdvisoryDenied(id)
             /\ WriteOrLose(id, Closed(row, "denied_by_policy", row.closure))
             /\ ExecDone(app)
          \/ /\ ~AdvisoryDenied(id)
             /\ Write(id, row)
             /\ ExecStep(app, "actuate", row)
             /\ UNCHANGED exempt
          \/ /\ ~AdvisoryDenied(id)
             /\ Fault
             /\ ExecDone(app)
             /\ UNCHANGED rows
       /\ UNCHANGED <<frozen, windows, clock, queue, task, scan, control, crashes, handed, fired>>

Outcomes(id) == {"executed_successfully", "failed_transient"} \cup
                (IF Type(id) = "trigger_health_recheck" THEN {} ELSE {"failed_terminal"})

(* The actuator: its target is missing ("failed_terminal"), it runs past the timeout
   ("failed_transient") or it succeeds.  A recheck starts an evaluation in a
   goroutine of its own; a CLI process is still in its startup grace period. *)
Actuate(app) ==
    LET id == exec[app].id
        row == exec[app].row
        idle == {e \in Evals \ {Ticker} : task[e].pc = "idle"}
    IN /\ exec[app].pc = "actuate"
       /\ \E outcome \in Outcomes(id) :
            /\ ExecStep(app, "finish", Closed(row, outcome, ClosureAfter(id, row, outcome)))
            /\ fired' = IF outcome = "failed_terminal" THEN fired
                        ELSE [fired EXCEPT ![id] = @ + 1]
       /\ IF Type(id) = "trigger_health_recheck" /\ app = Serve /\ idle # {}
          THEN \E e \in idle : TaskStep(e, "decide")
          ELSE UNCHANGED task
       /\ UNCHANGED <<store, queue, scan, control, crashes, faults, handed, exempt>>

Finish(app) ==
    LET row == exec[app].row
        follows == /\ row.result = "executed_successfully"
                   /\ Type(exec[app].id) = "restart_transport"
    IN /\ exec[app].pc = "finish"
       /\ WriteOrLose(exec[app].id, row)
       /\ \/ follows /\ ExecStep(app, "followup", row) /\ UNCHANGED exempt
          \/ ~follows /\ ExecDone(app)
       /\ UNCHANGED <<frozen, windows, clock, queue, task, scan, control, crashes, handed, fired>>

(* enqueueHealthRecheckFollowup, called by the executor and by recovery.  A
   failed look-up counts as not seen; a follow-up that cannot be written is
   dropped, one that finds the channel full stays behind as a pending row.  *)
SeekFollowUp(app) ==
    LET recheck == HealthRecheck(exec[app].id)
    IN /\ exec[app].pc = "followup"
       /\ \/ /\ rows[recheck].life # "none"
             /\ ExecDone(app)
             /\ UNCHANGED faults
          \/ /\ \/ rows[recheck].life = "none" /\ UNCHANGED faults
                \/ Fault
             /\ ExecStep(app, "persist", exec[app].row)
             /\ UNCHANGED exempt
       /\ UNCHANGED <<store, queue, task, scan, control, crashes, handed, fired>>

PersistFollowUp(app) ==
    LET recheck == HealthRecheck(exec[app].id)
    IN /\ exec[app].pc = "persist"
       /\ \/ Write(recheck, NewRow("system")) /\ Send(app, recheck, NewRow("system"))
          \/ Fault /\ UNCHANGED <<rows, queue, handed>>
       /\ ExecDone(app)
       /\ UNCHANGED <<frozen, windows, clock, task, scan, control, crashes, fired>>

------------------------------------------------------------------------------
(* Freezes, maintenance windows, time and the cleanup worker *)

PastFreezeCheck(app) == exec[app].pc \in {"maintenance", "start", "actuate"}

CreateFreeze(f) ==
    /\ f \notin frozen
    /\ frozen' = frozen \cup {f}
    /\ exempt' = [exempt EXCEPT ![f] = {app \in Apps : PastFreezeCheck(app)}]
    /\ UNCHANGED <<rows, windows, clock, queue, exec, task, scan, control, crashes, faults,
                   handed, fired>>

(* ClearFreeze by an operator, or ExpireOldFreezes in the cleanup worker. *)
ClearFreeze(f) ==
    /\ f \in frozen
    /\ frozen' = frozen \ {f}
    /\ UNCHANGED <<rows, windows, exempt, clock, queue, exec, task, scan, control, crashes,
                   faults, handed, fired>>

(* A window comes into effect by creation or by the clock and leaves it by
   cancellation or by the clock.                                           *)
ToggleWindow(w) ==
    /\ windows' = IF w \in windows THEN windows \ {w} ELSE windows \cup {w}
    /\ UNCHANGED <<rows, frozen, exempt, clock, queue, exec, task, scan, control, crashes,
                   faults, handed, fired>>

ApprovalDeadlinePasses(id) ==
    /\ Undecided(rows[id])
    /\ id \notin late
    /\ late' = late \cup {id}
    /\ UNCHANGED <<rows, frozen, windows, lapsed, queue, exec, task, scan, control, crashes,
                   faults, handed, fired, exempt>>

BackoffLapses(id) ==
    /\ RevertDue(id, rows[id])
    /\ id \notin lapsed
    /\ lapsed' = lapsed \cup {id}
    /\ UNCHANGED <<rows, frozen, windows, late, queue, exec, task, scan, control, crashes,
                   faults, handed, fired, exempt>>

(* cleanupExpiredApprovals: one UPDATE over every overdue row. *)
ExpireStaleApprovalActions ==
    /\ daemon = "up"
    /\ \E id \in late : Undecided(rows[id])
    /\ rows' = [id \in Ids |-> IF id \in late THEN ExpiredApproval(rows[id]) ELSE rows[id]]
    /\ UNCHANGED <<policy, clock, queue, exec, task, scan, control, crashes, faults, handed,
                   fired>>

------------------------------------------------------------------------------
(* Process deaths, and recoverIncompleteControlActions at the next start,
   which runs before the workers and the web server do.                    *)

Lost(p) == Answered(p, "done", IF task[p].told = "none" THEN "error" ELSE task[p].told)

Crash ==
    /\ daemon # "down"
    /\ crashes < MaxCrashes
    /\ crashes' = crashes + 1
    /\ daemon' = "down" /\ todo' = {}
    /\ queue' = [queue EXCEPT ![Serve] = <<>>]
    /\ exec' = [exec EXCEPT ![Serve] = ExecIdle]
    /\ exempt' = [f \in FreezeScopes |-> exempt[f] \ {Serve}]
    /\ task' = [p \in Handlers |-> IF p \in Evals THEN TaskIdle
                                   ELSE IF p \in Cli \/ task[p].pc = "idle" THEN task[p]
                                   ELSE Lost(p)]
    /\ scan' = [e \in Evals |-> {}]
    /\ UNCHANGED <<store, faults, handed, fired>>

(* A CLI process is interrupted. *)
Kill(s) ==
    /\ s \in Cli
    /\ task[s].pc \notin {"idle", "done"}
    /\ crashes < MaxCrashes
    /\ crashes' = crashes + 1
    /\ queue' = [queue EXCEPT ![s] = <<>>]
    /\ exec' = [exec EXCEPT ![s] = ExecIdle]
    /\ exempt' = [f \in FreezeScopes |-> exempt[f] \ {s}]
    /\ task' = [task EXCEPT ![s] = Lost(s)]
    /\ UNCHANGED <<store, scan, control, faults, handed, fired>>

(* The incomplete rows are read; if that fails nothing is recovered. *)
Restart ==
    /\ daemon = "down"
    /\ daemon' = "recovering"
    /\ \/ /\ todo' = {[id |-> id, row |-> rows[id]] : id \in {i \in Ids : Incomplete(rows[i])}}
          /\ UNCHANGED faults
       \/ Fault /\ todo' = {}
    /\ UNCHANGED <<store, queue, exec, task, scan, crashes, handed, fired, exempt>>

(* Mutant: what was in flight is sent to the executor again. *)
RecoverAndRetry ==
    /\ daemon = "recovering"
    /\ \E c \in todo :
         /\ todo' = todo \ {c}
         /\ WriteOrLose(c.id, Recovered(c.id, c.row))
         /\ Send(Serve, c.id, c.row)
    /\ UNCHANGED <<policy, clock, exec, task, scan, daemon, crashes, fired>>

RecoverRow ==
    /\ daemon = "recovering"
    /\ exec[Serve].pc = "idle"
    /\ \E c \in todo :
         LET row == Recovered(c.id, c.row)
         IN /\ todo' = todo \ {c}
            /\ WriteOrLose(c.id, row)
            /\ exec' = IF Type(c.id) = "restart_transport"
                       THEN [exec EXCEPT ![Serve] = [pc |-> "followup", id |-> c.id, row |-> row]]
                       ELSE exec
    /\ UNCHANGED <<policy, clock, queue, task, scan, daemon, crashes, handed, fired>>

StartWorkers ==
    /\ daemon = "recovering"
    /\ exec[Serve].pc = "idle"
    /\ todo = {}
    /\ daemon' = "up"
    /\ UNCHANGED <<store, queue, exec, task, scan, todo, crashes, faults, handed, fired, exempt>>

------------------------------------------------------------------------------
Evaluate(e) == ProposeDenied(e) \/ Propose(e) \/ ScanExpired(e) \/ RevertSeen(e)
               \/ CloseReverted(e) \/ IssueReset(e) \/ EndEvaluation(e)

Gate(p) == CheckFreeze(p) \/ CheckMaintenance(p) \/ Refuse(p) \/ Persist(p)

Decide(s) == UpdateRow(s) \/ ReadForMerge(s) \/ WriteMerged(s) \/ ReloadAndSend(s)
             \/ DecisionFails(s)

Execute(app) == Dequeue(app) \/ RecheckFreeze(app) \/ RecheckMaintenance(app)
                \/ RefuseExecution(app) \/ Start(app) \/ Actuate(app) \/ Finish(app)
                \/ SeekFollowUp(app) \/ PersistFollowUp(app)

Recover == Restart \/ RecoverRow \/ StartWorkers

Time == \E id \in Ids : ApprovalDeadlinePasses(id) \/ BackoffLapses(id)

Operate == \/ \E f \in FreezeScopes : CreateFreeze(f) \/ ClearFreeze(f)
           \/ \E w \in WindowScopes : ToggleWindow(w)

Next ==
    \/ BeginEvaluation
    \/ \E e \in Evals : Evaluate(e)
    \/ \E p \in Handlers : Gate(p)
    \/ \E s \in Sessions : Submit(s) \/ ReceiveDecision(s) \/ Decide(s) \/ ExitCli(s) \/ Kill(s)
    \/ \E app \in Apps : Execute(app)
    \/ ExpireStaleApprovalActions
    \/ Crash
    \/ Recover
    \/ Time
    \/ Operate

Spec == Init /\ [][Next]_vars

------------------------------------------------------------------------------
(* Properties *)

TaskPc == {"idle", "decide", "freeze", "maintenance", "refuse", "persist", "scan", "close",
           "follow", "update", "merge", "patch", "reload", "drain", "exit", "done"}
ExecPc == {"idle", "freeze", "maintenance", "refuse", "start", "actuate", "finish",
           "followup", "persist"}

TaskState == [pc : TaskPc,
              op : {"none", "propose", "revert", "submit", "approve", "reject"},
              id : Ids \cup {NoId}, row : Row, glass : BOOLEAN, hit : BOOLEAN,
              told : {"none", "approved", "rejected", "error"}]
ExecState == [pc : ExecPc, id : Ids \cup {NoId}, row : Row]

StoreOK == /\ rows \in [Ids -> Row]
           /\ frozen \subseteq FreezeScopes /\ windows \subseteq WindowScopes
           /\ late \subseteq Ids /\ lapsed \subseteq Ids
QueueOK == /\ queue \in [Apps -> Seq(Copy)]
           /\ \A app \in Apps : Len(queue[app]) <= MaxQueue
ExecOK == exec \in [Apps -> ExecState]
TaskOK == task \in [Handlers -> TaskState]
RecoveryOK == /\ scan \in [Evals -> SUBSET Copy]
              /\ daemon \in {"up", "down", "recovering"}
              /\ todo \subseteq Copy
HistoryOK == /\ crashes \in Nat /\ faults \in Nat
             /\ handed \in [Ids -> Nat] /\ fired \in [Ids -> Nat]
             /\ exempt \in [FreezeScopes -> SUBSET Apps]

TypeOK == StoreOK /\ QueueOK /\ ExecOK /\ TaskOK /\ RecoveryOK /\ HistoryOK

(* How a row of an action under an approval policy reads as a gate. *)
GatedIds == {id \in Ids : NeedsApproval(id)}

GateOf(row) == CASE row.life = "none" -> "absent"
                 [] Undecided(row) -> "held"
                 [] Decided(row) /\ row.okBy # "none" -> "open"
                 [] Decided(row) /\ row.okBy = "none" -> "shut"

Gates == INSTANCE ApprovalGate WITH
           Gated <- GatedIds,
           gate <- [id \in GatedIds |-> GateOf(rows[id])],
           acted <- [id \in GatedIds |-> fired[id] > 0]

(* The approval gate as operators are promised it: nothing under an approval
   policy runs before an operator's approval took effect on its row, and an
   action that was rejected, has expired or was refused before its approval
   never runs, through every race of requests, stale copy, crash and failed
   statement.                                                              *)
ImplementsGate == Gates!Spec

(* Each run of an actuator answers a send into a channel of its own: neither
   recovery after a crash nor a stale copy runs an action a second time.   *)
RunsOncePerSend == \A id \in Ids : fired[id] <= handed[id]

(* A row that reports success is about an action whose actuator did run, even
   after stale copies of the row were written back over newer ones.        *)
SuccessIsTrue ==
    \A id \in Ids : rows[id].result = "executed_successfully" => fired[id] > 0

(* Nobody's approval of an action they submitted stands without the bypass on
   the row, whichever process last wrote the row back.                     *)
SelfApprovalIsMarked ==
    \A id \in Ids : rows[id].okBy = rows[id].by => rows[id].bypass

(* A freeze lets through only what had passed its check when the freeze was
   created, at most one action per process (failed look-ups let more in).  *)
FreezeStopsTheRest ==
    faults = 0 =>
      \A f \in frozen, app \in Apps :
         PastFreezeCheck(app) /\ Covers(f, exec[app].id) => app \in exempt[f]

(* With one process on the database and no failed statement, a running row is
   the executor's: no path through crash, recovery and overtaking writes of
   handlers leaves one behind that nobody will close.                      *)
RunningIsOwned ==
    faults = 0 /\ daemon = "up" /\ Cli = {} /\ Glass = {FALSE} =>
      \A id \in Ids : rows[id].life = "running" =>
         exec[Serve].id = id /\ exec[Serve].pc \in {"actuate", "finish"}

(* A reset is issued only for a raise that did happen and, unless an operator's
   second approval runs it again, that the parent's row reports as reverted,
   however evaluations and restarts interleave.                            *)
ResetFollowsRaise ==
    \A a \in Actions : TypeOf[a] = "backoff_increase" /\ rows[Reset(a)].life # "none" =>
       /\ fired[a] > 0
       /\ faults = 0 /\ Sessions = {} => rows[a].closure = "expired_and_reverted"

(* The daemon is the only process, and no statement has failed, or just one
   while no operator was there to decide anything.                         *)
Trusty == Cli = {} /\ (faults = 0 \/ (faults = 1 /\ Sessions = {}))

(* Recovery closes an action for good: while the daemon can be trusted, no step,
   of this life of it or a later one, runs the action or moves its row.  Two
   failed statements, a row not recovered and a follow-up not found, write a
   recovered follow-up anew; so does one after a second approval ran its parent
   twice.                                                                  *)
RecoveredStaysClosed ==
    [][\A id \in Ids : Trusty' /\ rows[id].life = "recovered" =>
          rows'[id].life = "recovered" /\ fired'[id] = fired[id]]_vars

(* Somebody in the daemon has the action in hand and is yet to close its row: the
   channel, the executor, recovery, or an evaluation that found the channel full. *)
InHand(id) ==
    \/ \E i \in DOMAIN queue[Serve] : queue[Serve][i].id = id
    \/ exec[Serve].id = id /\ exec[Serve].pc \notin {"idle", "followup", "persist"}
    \/ \E c \in todo : c.id = id
    \/ \E e \in Evals : task[e].id = id /\ task[e].pc = "refuse"

Abandoned == {id \in Ids : rows[id].life \in {"pending", "running"} /\ ~InHand(id)}

(* While nobody sends requests, a pending or running row loses whoever had it in
   hand only by a death, by a statement that fails there and then, or as a
   follow-up that finds the channel full; and a start that can read the table
   takes in hand all that was lost before, whatever failed or died then.   *)
LostIsFoundAgain ==
    [][Sessions = {} /\ crashes' = crashes /\ faults' = faults =>
          /\ daemon = "down" /\ daemon' = "recovering" => Abandoned' = {}
          /\ \A id \in Abandoned' \ Abandoned :
                id \in FollowUps /\ rows'[id].life = "pending" /\ ~HasRoom(Serve)]_vars

------------------------------------------------------------------------------
(* Claims of the repository's comments and documentation *)

(* db/trust.go:149, 192: deciding a row that is no longer pending_approval is
   an error, never a silent no-op.                                         *)
NoSilentNoop ==
    \A s \in Sessions : task[s].told \in {"approved", "rejected"} => task[s].hit

(* CONTROL_PLANE_TRUST.md:105-106: pending with result approved means waiting for
   an executor, so some process still holds the action.                    *)
ApprovedIsWaiting ==
    \A id \in Ids : rows[id].life = "pending" /\ rows[id].result = "approved" =>
       \/ \E app \in Apps : \/ exec[app].id = id
                            \/ \E i \in DOMAIN queue[app] : queue[app][i].id = id
       \/ \E s \in Sessions : task[s].id = id /\ task[s].pc \in {"merge", "patch", "reload"}

(* control-plane.md:25: an action type on require_approval_for_action_types
   runs only after an approval.                                            *)
ListedTypesNeedApproval ==
    \A id \in Ids : fired[id] > 0 /\ Type(id) \in ApprovalTypes => rows[id].okBy # "none"

------------------------------------------------------------------------------
(* Fairness: the executor and request handlers are goroutines the runtime
   schedules, and the service manager restarts the daemon.  Operators, the
   clock, crashes, proposals and the cleanup worker are not fair.          *)
Fairness ==
    /\ WF_vars(Execute(Serve))
    /\ WF_vars(Recover)
    /\ \A s \in Sessions : WF_vars(Gate(s)) /\ WF_vars(Decide(s))

FairSpec == Spec /\ Fairness

(* An action in the daemon's channel is closed in the end, by its execution or,
   if the daemon dies first, by the recovery of the next start.            *)
SentIsClosed ==
    \A id \in Ids :
       (\E i \in DOMAIN queue[Serve] : queue[Serve][i].id = id)
         ~> rows[id].life \in {"completed", "recovered"}
==============================================================================
