---------------------- MODULE ControlPlaneRecoveryProofs ----------------------
(***************************************************************************)
(* What the daemon makes of its own restarts, for every value of the       *)
(* constants of ControlPlane.  A running row is its executor's (Owned); a  *)
(* reset is about a raise that ran (Grounded); while it is down nothing    *)
(* but recovery is at work (RestInv).  With nobody's requests an action is *)
(* in one place at a time (SoloInv), and a recovered action is in nobody's *)
(* hands (ClosedInv), so that recovery is final.  What is lost on the way  *)
(* is found by the next start, whatever failed before (PlainInv).          *)
(***************************************************************************)
EXTENDS ControlPlaneProofs

USE DEF store, policy, clock, control

------------------------------------------------------------------------------
(* Running rows and their executor *)

LEMMA FaultsMove ==
    ASSUME [Next]_vars
    PROVE  faults' = faults \/ Fault
BY ZenonT(60) DEF Next, vars, BeginEvaluation, Evaluate, ProposeDenied, Propose, ScanExpired,
   RevertSeen,
   CloseReverted, IssueReset, EndEvaluation, Gate, CheckFreeze, CheckMaintenance, Refuse,
   Persist, Submit, ReceiveDecision, Decide, UpdateRow, ReadForMerge, WriteMerged,
   ReloadAndSend, DecisionFails, ExitCli, Kill, ExpireStaleApprovalActions, Crash, Recover,
   Restart, RecoverRow, StartWorkers, Time, ApprovalDeadlinePasses, BackoffLapses, Operate,
   CreateFreeze, ClearFreeze, ToggleWindow, Execute, Dequeue, RecheckFreeze,
   RecheckMaintenance, Recheck, RefuseExecution, Start, Actuate, Finish, SeekFollowUp,
   PersistFollowUp, WriteOrLose, Write

LEMMA FaultsGrow ==
    ASSUME TypeInv, [Next]_vars
    PROVE  (faults' = 0 => faults = 0) /\ (faults' = 0 => ~Fault)
<1>1. Fault => faults' # 0
  BY DEF Fault, TypeInv, TypeOK, HistoryOK
<1> QED  BY <1>1, FaultsMove

(* What handlers may do to the table, the channel and their own state. *)
OwnStore == \A id \in Ids : \/ rows'[id] = rows[id]
                            \/ rows'[id].life # "running" /\ Unfinished(rows'[id])
OwnSends == \A i \in 1..Len(queue'[Serve]) :
              \/ \E j \in 1..Len(queue[Serve]) : queue'[Serve][i] = queue[Serve][j]
              \/ OwnCopy(queue'[Serve][i])
OwnTasks == \A p \in Handlers : task'[p] = task[p] \/ OwnTask(task'[p])
OwnScans == \A e \in Evals : \A c \in scan'[e] : c \in scan[e] \/ ~Incomplete(c.row)

LEMMA OwnFrame ==
    ASSUME OwnInv, Alone, OwnSends, OwnTasks, OwnScans,
           \A id \in Ids : Unfinished(rows'[id]),
           \A id \in Ids : rows'[id].life = "running" => Owned(id)',
           OwnExec(exec[Serve])'
    PROVE  OwnInv'
<1> USE DEF OwnInv
<1>1. \A i \in 1..Len(queue'[Serve]) : OwnCopy(queue'[Serve][i])
  BY DEF OwnSends
<1>2. \A p \in Handlers : OwnTask(task'[p])
  BY DEF OwnTasks
<1>3. \A e \in Evals : \A c \in scan'[e] : ~Incomplete(c.row)
  BY DEF OwnScans
<1>4. (\A e \in Evals : \A c \in scan[e] : ~Incomplete(c.row))'
  BY <1>3
<1>5. /\ (\A i \in 1..Len(queue[Serve]) : OwnCopy(queue[Serve][i]))'
      /\ (\A p \in Handlers : OwnTask(task[p]))'
      /\ (\A id \in Ids : Unfinished(rows[id]))'
  BY <1>1, <1>2
<1> QED  BY <1>4, <1>5

LEMMA OwnHandler ==
    ASSUME OwnInv, Alone, daemon = "up", UNCHANGED <<exec, daemon>>,
           OwnStore, OwnSends, OwnTasks, OwnScans
    PROVE  OwnInv'
<1>1. \A id \in Ids : Unfinished(rows'[id])
  BY DEF OwnInv, OwnStore
<1>2. \A id \in Ids : rows'[id].life = "running" => Owned(id)'
  BY DEF OwnInv, OwnStore, Owned
<1>3. OwnExec(exec[Serve])'
  BY DEF OwnInv, OwnExec
<1> QED  BY <1>1, <1>2, <1>3, OwnFrame

LEMMA OwnSent ==
    ASSUME TypeInv, NEW k, NEW row, OwnCopy([id |-> k, row |-> row]), Send(Serve, k, row)
    PROVE  OwnSends
<1>1. CASE HasRoom(Serve)
  <2> DEFINE c == [id |-> k, row |-> row]
  <2>1. Serve \in Apps
    BY DEF Apps
  <2>2. queue[Serve] \in Seq(Copy) /\ queue'[Serve] = Append(queue[Serve], c)
    BY <1>1, <2>1 DEF Send, TypeInv, TypeOK, QueueOK
  <2>3. \A i \in 1..Len(queue'[Serve]) :
          \/ i \in 1..Len(queue[Serve]) /\ queue'[Serve][i] = queue[Serve][i]
          \/ queue'[Serve][i] = c
    BY <2>2
  <2> QED  BY <2>3 DEF OwnSends
<1>2. CASE ~HasRoom(Serve)
  BY <1>2 DEF Send, OwnSends
<1> QED  BY <1>1, <1>2

LEMMA OwnWrote ==
    ASSUME TypeInv, NEW k, NEW row, rows' = [rows EXCEPT ![k] = row],
           row.life # "running", Unfinished(row)
    PROVE  OwnStore
<1>1. \A id \in Ids : rows'[id] = rows[id] \/ rows'[id] = row
  BY DEF TypeInv, TypeOK, StoreOK
<1> QED  BY <1>1 DEF OwnStore

LEMMA FinishedRows ==
    ASSUME NEW row
    PROVE  /\ row \in Row =>
                \A result, closure : Closed(row, result, closure).life = "completed"
           /\ row.life = "completed" => Unfinished(row) /\ ~Incomplete(row)
           /\ \A by : NewRow(by).life = "pending" /\ NewRow(by).result = ""
                      /\ Unfinished(NewRow(by)) /\ Incomplete(NewRow(by))
  BY DEF Closed, Row, Unfinished, Incomplete, NewRow, NoRow

LEMMA OwnEvaluator ==
    ASSUME TypeInv, HonestInv, OwnInv, Alone, ~Fault, NEW e \in Evals, Evaluate(e)
    PROVE  OwnInv'
<1>0. e \in Handlers /\ task \in [Handlers -> TaskState] /\ scan \in [Evals -> SUBSET Copy]
  BY DEF Handlers, TypeInv, TypeOK, TaskOK, RecoveryOK
<1>1. /\ daemon = "up" /\ UNCHANGED <<exec, daemon>>
  BY DEF Evaluate, ProposeDenied, Propose, ScanExpired, RevertSeen, CloseReverted, IssueReset,
     EndEvaluation
<1>2. /\ UNCHANGED rows => OwnStore
      /\ UNCHANGED queue => OwnSends
      /\ UNCHANGED task => OwnTasks
      /\ UNCHANGED scan => OwnScans
  BY DEF OwnStore, OwnSends, OwnTasks, OwnScans
<1>3. ~task[e].glass
  BY <1>0 DEF OwnInv, OwnTask
<1>4. ASSUME NEW pc \in {"idle", "scan", "follow"}, TaskStep(e, pc)
      PROVE  OwnTasks
  <2>1. /\ task'[e].pc = pc /\ task'[e].glass = task[e].glass
        /\ \A q \in Handlers \ {e} : task'[q] = task[q]
    BY <1>0, <1>4 DEF TaskStep, TaskState
  <2> QED  BY <1>3, <2>1 DEF OwnTasks, OwnTask, ProposingPc
<1>5. CASE ProposeDenied(e)
  <2>1. PICK a \in Proposable :
          Write(a, Closed(NewRow("system"), "denied_by_policy", ""))
    BY <1>5 DEF ProposeDenied, WriteOrLose
  <2>2. OwnStore
    BY <2>1, OwnWrote, FinishedRows, NewRowTypes DEF Write
  <2> QED  BY <1>1, <1>2, <1>5, <2>2, OwnHandler DEF ProposeDenied
<1>6. CASE Propose(e)
  <2>1. /\ task'[e].pc = "freeze" /\ task'[e].row = NewRow("system") /\ ~task'[e].glass
        /\ \A q \in Handlers \ {e} : task'[q] = task[q]
    BY <1>0, <1>6 DEF Propose, TaskIdle
  <2>2. OwnTasks
    BY <2>1, FinishedRows DEF OwnTasks, OwnTask
  <2> QED  BY <1>1, <1>2, <1>6, <2>2, OwnHandler DEF Propose
<1>7. CASE ScanExpired(e)
  <2>1. PICK quiet \in SUBSET {id \in lapsed : RevertDue(id, rows[id])} :
          scan' = [scan EXCEPT ![e] = {[id |-> id, row |-> rows[id]] : id \in quiet}]
    BY <1>7 DEF ScanExpired
  <2>2. \A id \in quiet : ~Incomplete(rows[id])
    BY DEF RevertDue, OwnInv, Unfinished, TypeInv, TypeOK, StoreOK
  <2>3. OwnScans
    BY <1>0, <2>1, <2>2 DEF OwnScans
  <2> QED  BY <1>1, <1>2, <1>4, <1>7, <2>3, OwnHandler DEF ScanExpired
<1>8. CASE RevertSeen(e)
  <2>1. PICK c \in scan[e] :
          /\ scan' = [scan EXCEPT ![e] = @ \ {c}]
          /\ \/ UNCHANGED task
             \/ task' = [task EXCEPT ![e].pc = "close", ![e].op = "revert",
                                     ![e].id = c.id, ![e].row = c.row]
    BY <1>8 DEF RevertSeen
  <2>2. OwnScans
    BY <1>0, <2>1 DEF OwnScans
  <2>3. OwnTasks
    <3>1. CASE UNCHANGED task
      BY <1>2, <3>1
    <3>2. CASE task' = [task EXCEPT ![e].pc = "close", ![e].op = "revert",
                                    ![e].id = c.id, ![e].row = c.row]
      <4>1. /\ task'[e].pc = "close" /\ task'[e].row = c.row /\ task'[e].glass = task[e].glass
            /\ \A q \in Handlers \ {e} : task'[q] = task[q]
        BY <1>0, <3>2 DEF TaskState
      <4>2. ~Incomplete(c.row)
        BY DEF OwnInv
      <4> QED  BY <1>3, <4>1, <4>2 DEF OwnTasks, OwnTask, ProposingPc
    <3> QED  BY <2>1, <3>1, <3>2
  <2> QED  BY <1>1, <1>2, <1>8, <2>2, <2>3, OwnHandler DEF RevertSeen
<1>9. CASE CloseReverted(e)
  <2> DEFINE new == [task[e].row EXCEPT !.closure = "expired_and_reverted"]
  <2>1. /\ task[e].row \in Row /\ ~Incomplete(task[e].row)
        /\ rows' = [rows EXCEPT ![task[e].id] = new]
    BY <1>0, <1>9 DEF CloseReverted, WriteOrLose, Write, OwnInv, OwnTask, TaskState
  <2>2. ~Incomplete(new)
    BY <2>1 DEF Incomplete, Row
  <2> HIDE DEF new
  <2>3. OwnStore
    BY <2>1, <2>2, OwnWrote DEF Incomplete, Unfinished
  <2> QED  BY <1>1, <1>2, <1>4, <1>9, <2>3, OwnHandler DEF CloseReverted
<1>10. CASE IssueReset(e)
  <2> DEFINE reset == Reset(task[e].id)
             row == NewRow("system")
  <2>1. /\ rows' = [rows EXCEPT ![reset] = row]
        /\ Send(Serve, reset, row)
        /\ task' = [task EXCEPT ![e] = [TaskIdle EXCEPT !.pc = "scan"]]
    BY <1>10 DEF IssueReset, WriteOrLose, Write
  <2>2. OwnStore /\ OwnCopy([id |-> reset, row |-> row])
    BY <2>1, OwnWrote, FinishedRows DEF OwnCopy
  <2>3. OwnSends
    BY <2>1, <2>2, OwnSent
  <2>4. OwnTasks
    BY <1>0, <2>1 DEF OwnTasks, OwnTask, ProposingPc, TaskIdle
  <2> QED  BY <1>1, <1>2, <1>10, <2>2, <2>3, <2>4, OwnHandler DEF IssueReset
<1>11. CASE EndEvaluation(e)
  BY <1>1, <1>2, <1>4, <1>11, OwnHandler DEF EndEvaluation
<1> QED  BY <1>5, <1>6, <1>7, <1>8, <1>9, <1>10, <1>11 DEF Evaluate

LEMMA OwnGate ==
    ASSUME TypeInv, HonestInv, OwnInv, Alone, ~Fault, NEW p \in Handlers, Gate(p)
    PROVE  OwnInv'
<1> DEFINE id == task[p].id
           row == task[p].row
<1>0. /\ task \in [Handlers -> TaskState] /\ row \in Row
      /\ OwnTask(task[p]) /\ ~task[p].glass
  BY DEF TypeInv, TypeOK, TaskOK, TaskState, OwnInv, OwnTask
<1>1. /\ daemon = "up" /\ AppOf(p) = Serve
      /\ UNCHANGED <<exec, daemon, scan>>
  BY DEF Gate, CheckFreeze, CheckMaintenance, Refuse, Persist, Running, AppOf, Alone
<1>2. /\ UNCHANGED rows => OwnStore
      /\ UNCHANGED queue => OwnSends
      /\ OwnScans
  BY <1>1 DEF OwnStore, OwnSends, OwnScans
<1>3. ASSUME NEW new, TaskRow(p, "refuse", new), new.life = "completed"
      PROVE  OwnTasks
  <2>1. /\ task'[p].pc = "refuse" /\ task'[p].row = new /\ task'[p].glass = task[p].glass
        /\ \A q \in Handlers \ {p} : task'[q] = task[q]
    BY <1>0, <1>3 DEF TaskRow, TaskState
  <2> QED  BY <1>0, <1>3, <2>1, FinishedRows DEF OwnTasks, OwnTask
<1>4. ASSUME NEW pc \in {"maintenance", "persist"}, TaskStep(p, pc),
             task[p].pc \in {"freeze", "maintenance"}
      PROVE  OwnTasks
  <2>1. /\ task'[p].pc = pc /\ task'[p].row = row /\ task'[p].glass = task[p].glass
        /\ \A q \in Handlers \ {p} : task'[q] = task[q]
    BY <1>0, <1>4 DEF TaskStep, TaskState
  <2> QED  BY <1>0, <1>4, <2>1 DEF OwnTasks, OwnTask, ProposingPc
<1>5. ASSUME Settle(p)
      PROVE  OwnTasks
  <2>1. /\ task'[p].pc \in {"decide", "exit", "done"} /\ ~task'[p].glass
        /\ \A q \in Handlers \ {p} : task'[q] = task[q]
    BY <1>0, <1>5 DEF Settle, TaskState, TaskIdle
  <2> QED  BY <2>1 DEF OwnTasks, OwnTask, ProposingPc
<1>6. CASE CheckFreeze(p)
  BY <1>0, <1>1, <1>2, <1>3, <1>4, <1>6, FinishedRows, OwnHandler DEF CheckFreeze
<1>7. CASE CheckMaintenance(p)
  BY <1>0, <1>1, <1>2, <1>3, <1>4, <1>7, FinishedRows, OwnHandler DEF CheckMaintenance
<1>8. CASE Refuse(p)
  <2>1. row.life # "running" /\ Unfinished(row) /\ rows' = [rows EXCEPT ![id] = row]
    BY <1>0, <1>8 DEF Refuse, WriteOrLose, Write, OwnTask, ProposingPc
  <2>2. OwnStore
    BY <2>1, OwnWrote
  <2> QED  BY <1>1, <1>2, <1>5, <1>8, <2>2, OwnHandler DEF Refuse
<1>9. CASE Persist(p)
  <2>1. row.life = "pending" /\ Unfinished(row)
    BY <1>0, <1>9 DEF Persist, OwnTask, ProposingPc
  <2>2. CASE NeedsApproval(id) /\ Write(id, Held(row)) /\ Settle(p) /\ UNCHANGED queue
    <3>1. Held(row).life = "pending_approval"
      BY <1>0 DEF Held, Row
    <3>2. OwnStore
      BY <2>2, <3>1, OwnWrote DEF Write, Unfinished, Incomplete
    <3> QED  BY <1>1, <1>2, <1>5, <2>2, <3>2, OwnHandler
  <2>3. CASE /\ ~NeedsApproval(id) /\ Write(id, row) /\ Send(AppOf(p), id, row)
             /\ IF HasRoom(AppOf(p)) THEN Settle(p) ELSE TaskRow(p, "refuse", Superseded(row))
    <3>1. OwnStore
      BY <2>1, <2>3, OwnWrote DEF Write
    <3>2. OwnCopy([id |-> id, row |-> row])
      BY <2>1 DEF OwnCopy, Incomplete
    <3>3. OwnSends
      BY <1>1, <2>3, <3>2, OwnSent
    <3>4. OwnTasks
      BY <1>0, <1>3, <1>5, <2>3, FinishedRows DEF Superseded
    <3> QED  BY <1>1, <1>2, <3>1, <3>3, <3>4, OwnHandler
  <2> QED  BY <1>9, <2>2, <2>3 DEF Persist
<1> QED  BY <1>6, <1>7, <1>8, <1>9 DEF Gate

LEMMA OwnSession ==
    ASSUME TypeInv, HonestInv, OwnInv, Alone, ~Fault, NEW s \in Sessions,
           Submit(s) \/ ReceiveDecision(s) \/ Decide(s) \/ ExitCli(s)
    PROVE  OwnInv'
<1> DEFINE id == task[s].id
<1>0. /\ s \in Handlers /\ AppOf(s) = Serve /\ s \notin Cli
      /\ task \in [Handlers -> TaskState]
      /\ OwnTask(task[s]) /\ ~task[s].glass
  BY DEF Handlers, AppOf, Alone, TypeInv, TypeOK, TaskOK, OwnInv, OwnTask
<1>1. /\ daemon = "up" /\ UNCHANGED <<exec, daemon, scan>>
  BY <1>0 DEF Submit, ReceiveDecision, Decide, ExitCli, UpdateRow, ReadForMerge, WriteMerged,
     ReloadAndSend, DecisionFails, Running
<1>2. /\ UNCHANGED rows => OwnStore
      /\ UNCHANGED queue => OwnSends
      /\ OwnScans
  BY <1>1 DEF OwnStore, OwnSends, OwnScans
<1>3. ASSUME NEW told, Answer(s, "done", told)
      PROVE  OwnTasks
  <2>1. /\ task'[s].pc = "done" /\ ~task'[s].glass
        /\ \A q \in Handlers \ {s} : task'[q] = task[q]
    BY <1>0, <1>3 DEF Answer, Answered, TaskState
  <2> QED  BY <2>1 DEF OwnTasks, OwnTask, ProposingPc
<1>4. CASE Submit(s)
  <2>1. /\ task'[s].pc \in {"persist", "freeze"} /\ task'[s].row = NewRow(ActorOf[s])
        /\ ~task'[s].glass /\ \A q \in Handlers \ {s} : task'[q] = task[q]
    BY ZenonT(60), <1>0, <1>4 DEF Submit, TaskIdle
  <2>2. task'[s].row.life = "pending" /\ Unfinished(task'[s].row)
    BY <2>1, FinishedRows
  <2>3. OwnTask(task'[s])
    BY <2>1, <2>2 DEF OwnTask
  <2>4. OwnTasks
    BY <2>1, <2>3 DEF OwnTasks
  <2> QED  BY <1>1, <1>2, <1>4, <2>4, OwnHandler DEF Submit
<1>5. CASE ReceiveDecision(s)
  <2>1. PICK op \in Requests \cap {"approve", "reject"}, k \in Ids, glass \in Glass :
          /\ Undecided(rows[k])
          /\ task' = [task EXCEPT ![s] =
                        [TaskIdle EXCEPT !.pc = "update", !.op = op, !.id = k,
                                         !.row = rows[k], !.glass = glass]]
    BY <1>5 DEF ReceiveDecision
  <2>2. /\ task'[s].pc = "update" /\ task'[s].id = k /\ task'[s].glass = glass
        /\ \A q \in Handlers \ {s} : task'[q] = task[q]
    BY <1>0, <2>1 DEF TaskIdle
  <2>3. k \in GatedIds /\ glass = FALSE
    BY <2>1 DEF HonestInv, Honest, Alone
  <2>4. OwnTasks
    BY <2>2, <2>3 DEF OwnTasks, OwnTask, ProposingPc
  <2> QED  BY <1>1, <1>2, <1>5, <2>4, OwnHandler DEF ReceiveDecision
<1>6. CASE UpdateRow(s)
  <2> DEFINE bypass == task[s].glass /\ SodWouldBlock(id, task[s].row, ActorOf[s])
             new == IF task[s].op = "approve" THEN Approved(rows[id], ActorOf[s], bypass)
                    ELSE Rejected(rows[id])
  <2>1. id \in GatedIds /\ id \in Ids /\ rows[id] \in Row /\ ~MergesMetadata(s)
    BY <1>0, <1>6 DEF UpdateRow, OwnTask, GatedIds, MergesMetadata, TypeInv, TypeOK, StoreOK
  <2>2. new = rows[id] \/ (new.life # "running" /\ Unfinished(new))
    <3>1. DOMAIN rows[id] = {"life", "result", "closure", "by", "okBy", "bypass"}
      BY <2>1 DEF Row
    <3>2. CASE ~Undecided(rows[id])
      BY <3>2 DEF Approved, Rejected
    <3>3. CASE Undecided(rows[id])
      BY <3>1, <3>3 DEF Approved, Rejected, Closed, Unfinished, Incomplete
    <3> QED  BY <3>2, <3>3
  <2>3. rows' = [rows EXCEPT ![id] = new]
    BY <1>6 DEF UpdateRow, Write
  <2> HIDE DEF new
  <2>4. OwnStore
    <3>1. \A k \in Ids : rows'[k] = rows[k] \/ (k = id /\ rows'[k] = new)
      BY <2>3 DEF TypeInv, TypeOK, StoreOK
    <3> QED  BY <2>2, <3>1 DEF OwnStore
  <2>5. OwnTasks
    <3>1. CASE task' = [task EXCEPT ![s].pc = IF MergesMetadata(s) THEN "merge" ELSE "reload",
                                    ![s].hit = Undecided(rows[id])]
      <4>1. /\ task'[s].pc = "reload" /\ task'[s].id = id /\ task'[s].glass = task[s].glass
            /\ \A q \in Handlers \ {s} : task'[q] = task[q]
        BY <1>0, <2>1, <3>1 DEF TaskState
      <4> QED  BY <1>0, <2>1, <4>1 DEF OwnTasks, OwnTask, ProposingPc
    <3> QED  BY <1>3, <1>6, <3>1 DEF UpdateRow
  <2> QED  BY <1>1, <1>2, <1>6, <2>4, <2>5, OwnHandler DEF UpdateRow
<1>7. CASE ReloadAndSend(s)
  <2>1. id \in GatedIds /\ id \in Ids
    BY <1>0, <1>7 DEF ReloadAndSend, OwnTask, GatedIds
  <2>2. OwnCopy([id |-> id, row |-> rows[id]])
    BY <2>1 DEF OwnCopy, OwnInv
  <2>3. OwnSends
    BY <1>0, <1>2, <1>7, <2>2, OwnSent DEF ReloadAndSend
  <2> QED  BY <1>0, <1>1, <1>2, <1>3, <1>7, <2>3, OwnHandler DEF ReloadAndSend
<1>8. ~(ReadForMerge(s) \/ WriteMerged(s) \/ DecisionFails(s) \/ ExitCli(s))
  BY <1>0 DEF ReadForMerge, WriteMerged, DecisionFails, ExitCli, OwnTask
<1> QED  BY <1>4, <1>5, <1>6, <1>7, <1>8 DEF Decide

(* The executor moves on without making a row running. *)
OwnStep ==
    \/ exec'[Serve].pc = "idle"
    \/ /\ exec'[Serve].pc \in {"freeze", "maintenance", "start"}
       /\ Incomplete(exec'[Serve].row) /\ Unfinished(exec'[Serve].row)
    \/ exec'[Serve].pc \in {"refuse", "finish"} /\ exec'[Serve].row.life = "completed"
    \/ exec'[Serve].pc \in {"followup", "persist"}

LEMMA OwnTaken ==
    ASSUME TypeInv, Take(Serve)
    PROVE  OwnSends /\ \E j \in 1..Len(queue[Serve]) : queue[Serve][j] = Head(queue[Serve])
<1>1. queue[Serve] \in Seq(Copy) /\ queue[Serve] # <<>> /\ queue'[Serve] = Tail(queue[Serve])
  BY DEF TypeInv, TypeOK, QueueOK, Apps, Take
<1>2. ASSUME NEW i \in 1..Len(queue'[Serve])
      PROVE  i + 1 \in 1..Len(queue[Serve]) /\ queue'[Serve][i] = queue[Serve][i + 1]
  BY <1>1, <1>2
<1>3. 1 \in 1..Len(queue[Serve]) /\ queue[Serve][1] = Head(queue[Serve])
  BY <1>1
<1> QED  BY <1>2, <1>3 DEF OwnSends

(* No row is running while the executor is not in its actuator or after it. *)
LEMMA OwnIdle ==
    ASSUME TypeInv, OwnInv, Alone,
           daemon = "up" => exec[Serve].pc \notin {"actuate", "finish"},
           daemon = "recovering" => todo = {}, daemon # "down"
    PROVE  \A id \in Ids : rows[id].life # "running"
  BY DEF OwnInv, Owned, TypeInv, TypeOK, RecoveryOK

LEMMA OwnSteps ==
    ASSUME TypeInv
    PROVE  /\ \A pc, row : ExecStep(Serve, pc, row) =>
                 /\ exec'[Serve].pc = pc /\ exec'[Serve].id = exec[Serve].id
                 /\ exec'[Serve].row = row
           /\ ExecDone(Serve) => exec'[Serve].pc = "idle"
           /\ exec[Serve].row \in Row
<1>1. Serve \in Apps /\ exec[Serve] \in ExecState
  BY DEF Apps, TypeInv, TypeOK, ExecOK
<1> QED  BY <1>1, ExecSteps DEF ExecState

(* The executor up to its actuator, and when it is over: nothing runs. *)
LEMMA OwnUntilActuator ==
    ASSUME TypeInv, OwnInv, Alone, daemon = "up", UNCHANGED daemon,
           exec[Serve].pc \notin {"actuate", "finish"},
           OwnStore, OwnSends, OwnTasks, OwnScans, OwnStep
    PROVE  OwnInv'
<1>1. \A id \in Ids : rows[id].life # "running"
  BY OwnIdle
<1>2. \A id \in Ids : Unfinished(rows'[id])
  BY DEF OwnInv, OwnStore
<1>3. \A id \in Ids : rows'[id].life = "running" => Owned(id)'
  BY <1>1 DEF OwnStore
<1>4. OwnExec(exec[Serve])'
  BY DEF OwnExec, OwnStep, AwaitingPc
<1> QED  BY <1>2, <1>3, <1>4, OwnFrame

LEMMA OwnDequeue ==
    ASSUME TypeInv, HonestInv, OwnInv, Alone, ~Fault, Dequeue(Serve)
    PROVE  OwnInv'
<1> DEFINE c == Head(queue[Serve])
           pass == NeedsApproval(c.id) => Incomplete(c.row)
<1>1. /\ daemon = "up" /\ UNCHANGED daemon /\ exec[Serve].pc = "idle"
      /\ UNCHANGED <<scan, task>> /\ Take(Serve)
  BY DEF Dequeue, MayDequeue, Alone
<1>2. OwnSends /\ OwnTasks /\ OwnScans
  BY <1>1, OwnTaken DEF OwnTasks, OwnScans
<1>3. OwnCopy(c) /\ c \in Copy
  <2>1. PICK j \in 1..Len(queue[Serve]) : queue[Serve][j] = c
    BY <1>1, OwnTaken
  <2>2. queue[Serve] \in Seq(Copy)
    BY DEF TypeInv, TypeOK, QueueOK, Apps
  <2> QED  BY <2>1, <2>2 DEF OwnInv
<1>4. OwnStore
  <2>1. CASE UNCHANGED rows
    BY <2>1 DEF OwnStore
  <2>2. CASE Write(c.id, Closed(c.row, "denied_by_policy", "superseded"))
    BY <1>3, <2>2, OwnWrote, FinishedRows DEF Write, Copy
  <2> QED  BY <2>1, <2>2 DEF Dequeue, WriteOrLose
<1>5. OwnStep
  <2>1. CASE ~pass
    BY <1>1, <2>1 DEF Dequeue, OwnStep
  <2>2. CASE pass
    <3>1. Incomplete(c.row) /\ Unfinished(c.row)
      BY <1>3, <2>2 DEF OwnCopy, GatedIds, Copy
    <3>2. exec'[Serve].pc = "freeze" /\ exec'[Serve].row = c.row
      BY <2>2 DEF Dequeue, TypeInv, TypeOK, ExecOK, Apps
    <3> QED  BY <3>1, <3>2 DEF OwnStep
  <2> QED  BY <2>1, <2>2
<1> QED  BY <1>1, <1>2, <1>4, <1>5, OwnUntilActuator

LEMMA OwnRecheck ==
    ASSUME TypeInv, OwnInv, Alone, ~Fault,
           RecheckFreeze(Serve) \/ RecheckMaintenance(Serve) \/ RefuseExecution(Serve)
    PROVE  OwnInv'
<1> DEFINE row == exec[Serve].row
<1>0. row \in Row
  BY OwnSteps
<1>1. /\ exec[Serve].pc \in {"freeze", "maintenance", "refuse"} /\ UNCHANGED <<daemon, queue, task, scan>>
      /\ daemon = "up"
  BY DEF RecheckFreeze, RecheckMaintenance, RefuseExecution, OwnInv, OwnExec, TypeInv, TypeOK,
     RecoveryOK
<1>2. OwnSends /\ OwnTasks /\ OwnScans
  BY <1>1 DEF OwnSends, OwnTasks, OwnScans
<1>3. CASE RecheckFreeze(Serve) \/ RecheckMaintenance(Serve)
  <2>1. Incomplete(row) /\ Unfinished(row)
    BY <1>3 DEF RecheckFreeze, RecheckMaintenance, OwnInv, OwnExec, AwaitingPc
  <2>2. \/ exec'[Serve].pc \in {"maintenance", "start"} /\ exec'[Serve].row = row
        \/ exec'[Serve].pc = "refuse" /\ exec'[Serve].row.life = "completed"
    <3> DEFINE frozenRow == Closed(row, "denied_by_freeze", "blocked_by_freeze")
               heldRow == Closed(row, "denied_by_maintenance", "blocked_by_maintenance")
    <3>1. frozenRow.life = "completed" /\ heldRow.life = "completed"
      BY <1>0, FinishedRows
    <3>2. \/ ExecStep(Serve, "maintenance", row)
          \/ ExecStep(Serve, "start", row)
          \/ ExecStep(Serve, "refuse", frozenRow)
          \/ ExecStep(Serve, "refuse", heldRow)
      BY <1>3 DEF RecheckFreeze, RecheckMaintenance, Recheck
    <3> HIDE DEF frozenRow, heldRow
    <3> QED  BY <3>1, <3>2, OwnSteps
  <2>3. OwnStep
    BY <2>1, <2>2 DEF OwnStep
  <2>4. OwnStore
    BY <1>3 DEF RecheckFreeze, RecheckMaintenance, OwnStore
  <2> QED  BY <1>1, <1>2, <2>3, <2>4, OwnUntilActuator
<1>4. CASE RefuseExecution(Serve)
  <2>1. row.life = "completed"
    BY <1>4 DEF RefuseExecution, OwnInv, OwnExec
  <2>2. OwnStore
    BY <1>4, <2>1, OwnWrote, FinishedRows DEF RefuseExecution, WriteOrLose, Write
  <2>3. OwnStep
    BY <1>4, OwnSteps DEF RefuseExecution, OwnStep
  <2> QED  BY <1>1, <1>2, <2>2, <2>3, OwnUntilActuator
<1> QED  BY <1>3, <1>4

LEMMA OwnStart ==
    ASSUME TypeInv, OwnInv, Alone, ~Fault, Start(Serve)
    PROVE  OwnInv'
<1> DEFINE id == exec[Serve].id
           row == [exec[Serve].row EXCEPT !.life = "running"]
<1>1. /\ exec[Serve].pc = "start" /\ daemon = "up" /\ UNCHANGED <<daemon, queue, task, scan>>
      /\ exec[Serve].row \in Row /\ Unfinished(exec[Serve].row) /\ Incomplete(exec[Serve].row)
  BY OwnSteps DEF Start, OwnInv, OwnExec, AwaitingPc, TypeInv, TypeOK, RecoveryOK
<1>2. OwnSends /\ OwnTasks /\ OwnScans
  BY <1>1 DEF OwnSends, OwnTasks, OwnScans
<1>3. row \in Row /\ row.life = "running" /\ Unfinished(row) /\ Incomplete(row)
  BY <1>1 DEF Row, Lifecycles, Unfinished, Incomplete
<1> HIDE DEF row
<1>4. CASE Write(id, Closed(row, "denied_by_policy", row.closure)) /\ ExecDone(Serve)
  <2>1. OwnStore
    BY <1>3, <1>4, OwnWrote, FinishedRows DEF Write
  <2>2. OwnStep
    BY <1>4, OwnSteps DEF OwnStep
  <2> QED  BY <1>1, <1>2, <2>1, <2>2, OwnUntilActuator
<1>5. CASE Write(id, row) /\ ExecStep(Serve, "actuate", row)
  <2>1. exec'[Serve].pc = "actuate" /\ exec'[Serve].id = id /\ exec'[Serve].row = row
    BY <1>5, OwnSteps
  <2>2. \A k \in Ids : rows'[k] = rows[k] \/ (k = id /\ rows'[k] = row)
    BY <1>5 DEF Write, TypeInv, TypeOK, StoreOK
  <2>3. \A k \in Ids : rows[k].life # "running"
    BY <1>1, OwnIdle
  <2>4. \A k \in Ids : Unfinished(rows'[k])
    BY <1>3, <2>2 DEF OwnInv
  <2>5. \A k \in Ids : rows'[k].life = "running" => Owned(k)'
    BY <1>1, <2>1, <2>2, <2>3 DEF Owned
  <2>6. OwnExec(exec[Serve])'
    BY <1>1, <1>3, <2>1 DEF OwnExec
  <2> QED  BY <1>2, <2>4, <2>5, <2>6, OwnFrame
<1> QED  BY <1>4, <1>5 DEF Start, WriteOrLose, row

LEMMA OwnActuate ==
    ASSUME TypeInv, OwnInv, Alone, Actuate(Serve)
    PROVE  OwnInv'
<1> DEFINE id == exec[Serve].id
           row == exec[Serve].row
<1>1. /\ exec[Serve].pc = "actuate" /\ daemon = "up" /\ UNCHANGED <<rows, daemon, queue, scan>>
      /\ row \in Row
  BY OwnSteps DEF Actuate, store, control, OwnInv, OwnExec, AwaitingPc, TypeInv, TypeOK, RecoveryOK
<1>2. OwnSends /\ OwnScans
  BY <1>1 DEF OwnSends, OwnScans
<1>3. /\ exec'[Serve].pc = "finish" /\ exec'[Serve].id = id
      /\ exec'[Serve].row.life = "completed"
  <2>1. PICK outcome \in Outcomes(id) :
          ExecStep(Serve, "finish", Closed(row, outcome, ClosureAfter(id, row, outcome)))
    BY DEF Actuate
  <2>2. Closed(row, outcome, ClosureAfter(id, row, outcome)).life = "completed"
    BY <1>1, FinishedRows
  <2> QED  BY <2>1, <2>2, OwnSteps
<1>4. OwnTasks
  <2>1. CASE UNCHANGED task
    BY <2>1 DEF OwnTasks
  <2>2. ASSUME NEW e \in Evals, TaskStep(e, "decide")
        PROVE  OwnTasks
    <3>1. /\ task'[e].pc = "decide" /\ task'[e].glass = task[e].glass
          /\ \A q \in Handlers \ {e} : task'[q] = task[q]
      BY <2>2 DEF TaskStep, TypeInv, TypeOK, TaskOK, TaskState, Handlers
    <3>2. ~task[e].glass
      BY DEF OwnInv, OwnTask, Handlers
    <3> QED  BY <3>1, <3>2 DEF OwnTasks, OwnTask, ProposingPc
  <2> QED  BY <2>1, <2>2 DEF Actuate
<1>5. \A k \in Ids : Unfinished(rows'[k])
  BY <1>1 DEF OwnInv
<1>6. \A k \in Ids : rows'[k].life = "running" => Owned(k)'
  BY <1>1, <1>3 DEF OwnInv, Owned
<1>7. OwnExec(exec[Serve])'
  BY <1>1, <1>3 DEF OwnExec, AwaitingPc
<1> QED  BY <1>2, <1>4, <1>5, <1>6, <1>7, OwnFrame

LEMMA OwnFinish ==
    ASSUME TypeInv, OwnInv, Alone, ~Fault, Finish(Serve)
    PROVE  OwnInv'
<1> DEFINE id == exec[Serve].id
           row == exec[Serve].row
<1>1. /\ exec[Serve].pc = "finish" /\ daemon = "up" /\ UNCHANGED <<daemon, queue, task, scan>>
      /\ row.life = "completed"
  BY DEF Finish, OwnInv, OwnExec, TypeInv, TypeOK, RecoveryOK
<1>2. OwnSends /\ OwnTasks /\ OwnScans
  BY <1>1 DEF OwnSends, OwnTasks, OwnScans
<1>3. id \in Ids /\ rows' = [rows EXCEPT ![id] = row]
  BY <1>1 DEF Finish, WriteOrLose, Write, TypeInv, ExecShapes, ExecShape, Apps
<1>4. OwnStore
  BY <1>1, <1>3, OwnWrote, FinishedRows
<1>5. \A k \in Ids : rows'[k].life # "running"
  <2>1. \A k \in Ids : rows'[k] = IF k = id THEN row ELSE rows[k]
    BY <1>3 DEF TypeInv, TypeOK, StoreOK
  <2> QED  BY <1>1, <2>1 DEF OwnInv, Owned
<1>6. \A k \in Ids : Unfinished(rows'[k])
  BY <1>4 DEF OwnInv, OwnStore
<1>7. OwnExec(exec[Serve])'
  BY <1>1, OwnSteps DEF Finish, OwnExec, AwaitingPc
<1> QED  BY <1>2, <1>5, <1>6, <1>7, OwnFrame

(* The follow-up of an execution, or of a row that was recovered. *)
LEMMA OwnFollowUp ==
    ASSUME TypeInv, OwnInv, Alone, ~Fault, SeekFollowUp(Serve) \/ PersistFollowUp(Serve)
    PROVE  OwnInv'
<1> DEFINE recheck == HealthRecheck(exec[Serve].id)
           row == NewRow("system")
<1>1. /\ exec[Serve].pc \in {"followup", "persist"} /\ UNCHANGED <<daemon, todo, task, scan>>
      /\ exec'[Serve].pc \in {"idle", "persist"}
  BY OwnSteps DEF SeekFollowUp, PersistFollowUp, control
<1>2. OwnTasks /\ OwnScans
  BY <1>1 DEF OwnTasks, OwnScans
<1>3. OwnStore /\ OwnSends
  <2>1. CASE SeekFollowUp(Serve)
    BY <2>1 DEF SeekFollowUp, OwnStore, OwnSends
  <2>2. CASE PersistFollowUp(Serve)
    <3>1. rows' = [rows EXCEPT ![recheck] = row] /\ Send(Serve, recheck, row)
      BY <2>2 DEF PersistFollowUp, Write
    <3>2. OwnStore /\ OwnCopy([id |-> recheck, row |-> row])
      BY <3>1, OwnWrote, FinishedRows DEF OwnCopy
    <3> QED  BY <3>1, <3>2, OwnSent
  <2> QED  BY <2>1, <2>2
<1>4. \A id \in Ids : Unfinished(rows'[id])
  BY <1>3 DEF OwnInv, OwnStore
<1>5. \A id \in Ids : rows'[id].life = "running" => Owned(id)'
  BY <1>1, <1>3 DEF OwnInv, OwnStore, Owned
<1>6. OwnExec(exec[Serve])'
  BY <1>1 DEF OwnExec, AwaitingPc
<1> QED  BY <1>2, <1>3, <1>4, <1>5, <1>6, OwnFrame

LEMMA OwnElsewhere ==
    ASSUME TypeInv, OwnInv, Alone,
           BeginEvaluation \/ ExpireStaleApprovalActions \/ Time \/ Operate
    PROVE  OwnInv'
<1>1. UNCHANGED <<queue, exec, scan, daemon, todo>>
  BY DEF BeginEvaluation, ExpireStaleApprovalActions, Time, ApprovalDeadlinePasses, BackoffLapses,
     Operate, CreateFreeze, ClearFreeze, ToggleWindow
<1>2. OwnSends /\ OwnScans
  BY <1>1 DEF OwnSends, OwnScans
<1>3. OwnTasks
  <2>1. CASE BeginEvaluation
    <3>1. Ticker \in Handlers /\ TaskStep(Ticker, "decide") /\ ~task[Ticker].glass
      BY <2>1 DEF BeginEvaluation, Handlers, OwnInv, OwnTask
    <3>2. /\ task'[Ticker].pc = "decide" /\ task'[Ticker].glass = task[Ticker].glass
          /\ \A q \in Handlers \ {Ticker} : task'[q] = task[q]
      BY <3>1 DEF TaskStep, TypeInv, TypeOK, TaskOK, TaskState
    <3> QED  BY <3>1, <3>2 DEF OwnTasks, OwnTask, ProposingPc
  <2>2. CASE UNCHANGED task
    BY <2>2 DEF OwnTasks
  <2> QED  BY <2>1, <2>2 DEF ExpireStaleApprovalActions, Time, ApprovalDeadlinePasses,
              BackoffLapses, Operate, CreateFreeze, ClearFreeze, ToggleWindow
<1>4. ASSUME NEW id \in Ids
      PROVE  rows'[id] = rows[id] \/ (rows'[id].life # "running" /\ Unfinished(rows'[id]))
  <2>1. CASE UNCHANGED rows
    BY <2>1
  <2>2. CASE ExpireStaleApprovalActions
    <3>1. rows[id] \in Row
      BY DEF TypeInv, TypeOK, StoreOK
    <3>2. rows'[id] = rows[id] \/ rows'[id] = ExpiredApproval(rows[id])
      BY <2>2 DEF ExpireStaleApprovalActions
    <3> QED  BY <3>1, <3>2, FinishedRows DEF ExpiredApproval
  <2> QED  BY <2>1, <2>2 DEF BeginEvaluation, Time, ApprovalDeadlinePasses, BackoffLapses,
              Operate, CreateFreeze, ClearFreeze, ToggleWindow
<1>5. \A id \in Ids : Unfinished(rows'[id])
  BY <1>4 DEF OwnInv
<1>6. \A id \in Ids : rows'[id].life = "running" => Owned(id)'
  BY <1>1, <1>4 DEF OwnInv, Owned
<1>7. OwnExec(exec[Serve])'
  BY <1>1 DEF OwnInv, OwnExec
<1> QED  BY <1>2, <1>3, <1>5, <1>6, <1>7, OwnFrame

LEMMA OwnCrash ==
    ASSUME TypeInv, OwnInv, Alone, Crash
    PROVE  OwnInv'
<1>1. /\ daemon' = "down" /\ UNCHANGED rows /\ exec'[Serve].pc = "idle" /\ queue'[Serve] = <<>>
      /\ scan' = [e \in Evals |-> {}]
  BY DEF Crash, ExecIdle, Apps, TypeInv, TypeOK, ExecOK, QueueOK
<1>2. OwnSends /\ OwnScans
  BY <1>1 DEF OwnSends, OwnScans
<1>3. OwnTasks
  <2>1. \A p \in Handlers : Lost(p).pc = "done" /\ ~Lost(p).glass
    BY DEF Lost, Answered, TypeInv, TypeOK, TaskOK, TaskState
  <2>2. \A p \in Handlers : task'[p] = task[p] \/ task'[p] = TaskIdle \/ task'[p] = Lost(p)
    BY DEF Crash
  <2>3. OwnTask(TaskIdle)
    BY DEF OwnTask, TaskIdle, ProposingPc
  <2>4. \A p \in Handlers : OwnTask(Lost(p))
    BY <2>1 DEF OwnTask, ProposingPc
  <2> QED  BY <2>2, <2>3, <2>4 DEF OwnTasks
<1>4. \A id \in Ids : Unfinished(rows'[id])
  BY <1>1 DEF OwnInv
<1>5. \A id \in Ids : rows'[id].life = "running" => Owned(id)'
  BY <1>1 DEF Owned
<1>6. OwnExec(exec[Serve])'
  BY <1>1 DEF OwnExec, AwaitingPc
<1> QED  BY <1>2, <1>3, <1>4, <1>5, <1>6, OwnFrame

LEMMA OwnRecovery ==
    ASSUME TypeInv, OwnInv, Alone, ~Fault, Recover
    PROVE  OwnInv'
<1>0. Serve \in Apps
  BY DEF Apps
<1>1. UNCHANGED <<queue, task, scan>>
  BY DEF Recover, Restart, RecoverRow, StartWorkers
<1>2. OwnSends /\ OwnTasks /\ OwnScans
  BY <1>1 DEF OwnSends, OwnTasks, OwnScans
<1>3. CASE Restart
  <2>1. /\ daemon = "down" /\ daemon' = "recovering" /\ UNCHANGED <<rows, exec>>
        /\ todo' = {[id |-> id, row |-> rows[id]] : id \in {i \in Ids : Incomplete(rows[i])}}
    BY <1>3 DEF Restart
  <2>2. ASSUME NEW id \in Ids, rows'[id].life = "running"
        PROVE  Owned(id)'
    <3>1. Incomplete(rows[id])
      BY <2>1, <2>2 DEF Incomplete
    <3>2. [id |-> id, row |-> rows[id]] \in todo'
      BY <2>1, <3>1
    <3> QED  BY <2>1, <3>2 DEF Owned
  <2>3. OwnExec(exec[Serve])'
    BY <2>1 DEF OwnInv, OwnExec
  <2>4. \A id \in Ids : Unfinished(rows'[id])
    BY <2>1 DEF OwnInv
  <2> QED  BY <1>2, <2>2, <2>3, <2>4, OwnFrame
<1>4. CASE RecoverRow
  <2>1. PICK c \in todo :
          /\ todo' = todo \ {c}
          /\ rows' = [rows EXCEPT ![c.id] = Recovered(c.id, c.row)]
          /\ exec' = IF Type(c.id) = "restart_transport"
                     THEN [exec EXCEPT ![Serve] = [pc |-> "followup", id |-> c.id,
                                                   row |-> Recovered(c.id, c.row)]]
                     ELSE exec
    BY <1>4 DEF RecoverRow, WriteOrLose, Write
  <2>2. daemon = "recovering" /\ UNCHANGED daemon
    BY <1>4 DEF RecoverRow
  <2>3. c.id \in Ids /\ Recovered(c.id, c.row).life = "recovered"
    BY DEF TypeInv, TypeOK, RecoveryOK, Copy, Row, Recovered
  <2>4. \A id \in Ids : rows'[id] = IF id = c.id THEN Recovered(c.id, c.row) ELSE rows[id]
    BY <2>1 DEF TypeInv, TypeOK, StoreOK
  <2>5. \A id \in Ids : Unfinished(rows'[id])
    BY <2>3, <2>4 DEF OwnInv, Unfinished, Incomplete
  <2>6. \A id \in Ids : rows'[id].life = "running" => Owned(id)'
    BY <2>1, <2>2, <2>3, <2>4 DEF OwnInv, Owned
  <2>7. exec'[Serve] = exec[Serve] \/ exec'[Serve].pc = "followup"
    BY <1>0, <2>1 DEF TypeInv, TypeOK, ExecOK
  <2>8. OwnExec(exec[Serve])'
    BY <2>2, <2>7 DEF OwnInv, OwnExec, AwaitingPc
  <2> QED  BY <1>2, <2>5, <2>6, <2>8, OwnFrame
<1>5. CASE StartWorkers
  <2>1. /\ daemon = "recovering" /\ todo = {} /\ daemon' = "up" /\ UNCHANGED <<rows, exec>>
    BY <1>5 DEF StartWorkers
  <2>2. \A id \in Ids : rows'[id].life # "running"
    BY <2>1 DEF OwnInv, Owned
  <2>3. \A id \in Ids : Unfinished(rows'[id])
    BY <2>1 DEF OwnInv
  <2>4. OwnExec(exec[Serve])'
    BY <2>1 DEF OwnInv, OwnExec
  <2> QED  BY <1>2, <2>2, <2>3, <2>4, OwnFrame
<1> QED  BY <1>3, <1>4, <1>5 DEF Recover

LEMMA StepOwns == TypeInv /\ HonestInv /\ OwnInv /\ [Next]_vars => OwnInv'
<1> SUFFICES ASSUME TypeInv, HonestInv, OwnInv, [Next]_vars, Alone'
             PROVE  OwnInv'
  BY DEF OwnInv
<1>1. Alone /\ ~Fault
  BY FaultsGrow DEF Alone
<1>2. CASE UNCHANGED vars
  BY <1>2 DEF vars, OwnInv, Alone, Owned, OwnExec
<1>3. Apps = {Serve} /\ ~(\E s \in Sessions : Kill(s))
  BY <1>1 DEF Alone, Apps, Kill
<1>4. ASSUME Execute(Serve)
      PROVE  OwnInv'
  BY <1>1, <1>4, OwnDequeue, OwnRecheck, OwnStart, OwnActuate, OwnFinish, OwnFollowUp DEF Execute
<1>5. CASE Next
  BY <1>1, <1>3, <1>4, <1>5, OwnElsewhere, OwnEvaluator, OwnGate, OwnSession, OwnCrash,
     OwnRecovery DEF Next
<1> QED  BY <1>2, <1>5

LEMMA InitOwns == Init => OwnInv
<1> SUFFICES ASSUME Init
             PROVE  OwnInv
  OBVIOUS
<1>1. \A id \in Ids : rows[id].life = "none" /\ Unfinished(rows[id])
  BY DEF Init, NoRow, Unfinished, Incomplete
<1>2. exec[Serve].pc = "idle" /\ queue[Serve] = <<>> /\ daemon = "up"
  BY DEF Init, ExecIdle, Apps
<1>3. \A p \in Handlers : OwnTask(task[p])
  BY DEF Init, OwnTask, TaskIdle, ProposingPc
<1> QED  BY <1>1, <1>2, <1>3 DEF OwnInv, OwnExec, AwaitingPc, Init

(* While the daemon is alone and no statement has failed, a running row is the
   executor's, in its actuator or about to write the outcome: no crash,
   recovery or overtaking write leaves a running row that nobody will close. *)
THEOREM RunningOwned == Spec => []RunningIsOwned
<1>1. OwnInv => RunningIsOwned
  BY DEF OwnInv, Alone, Owned, RunningIsOwned
<1>2. TypeInv /\ HonestInv /\ OwnInv /\ [Next]_vars => OwnInv'
  BY StepOwns
<1> QED  BY <1>1, <1>2, InitOwns, TypeCorrect, CopiesAreHonest, PTL DEF Spec

------------------------------------------------------------------------------
(* Resets and the raises they undo *)

(* A follow-up is no action, and it names its parent. *)
LEMMA FollowUpNames ==
    /\ \A a \in Actions : a \in Ids /\ Type(a) = TypeOf[a]
    /\ \A id \in Ids : Type(id) \in {"restart_transport", "backoff_increase"} => id \in Actions
    /\ \A a \in Actions : TypeOf[a] = "restart_transport" =>
          HealthRecheck(a) \in Ids /\ HealthRecheck(a) \notin Actions
    /\ \A a \in Actions : TypeOf[a] = "backoff_increase" =>
          Reset(a) \in Ids /\ Reset(a) \notin Actions
    /\ \A a, b : /\ HealthRecheck(a) = HealthRecheck(b) => a = b
                 /\ Reset(a) = Reset(b) => a = b
                 /\ HealthRecheck(a) # Reset(b)
<1>1. \A a \in Actions : a \in Ids /\ Type(a) = TypeOf[a]
  BY DEF Ids, Type
<1>2. \A id \in FollowUps : id[2] \in {"trigger_health_recheck", "backoff_reset"}
  BY DEF FollowUps, HealthRecheck, Reset
<1>3. \A id \in Ids : Type(id) \in {"restart_transport", "backoff_increase"} => id \in Actions
  BY <1>2 DEF Ids, Type
<1>4. \A a, b : /\ HealthRecheck(a) = HealthRecheck(b) => a = b
                /\ Reset(a) = Reset(b) => a = b
                /\ HealthRecheck(a) # Reset(b)
  BY DEF HealthRecheck, Reset
<1>5. \A a \in Actions : TypeOf[a] = "restart_transport" => HealthRecheck(a) \in FollowUps
  BY DEF FollowUps
<1>6. \A a \in Actions : TypeOf[a] = "backoff_increase" => Reset(a) \in FollowUps
  BY DEF FollowUps
<1> QED  BY <1>1, <1>3, <1>4, <1>5, <1>6, FollowUpsAssumption DEF Ids

LEMMA Grounds ==
    ASSUME TypeInv
    PROVE  /\ \A a \in Actions : Grounded(a)
           /\ \A id : Grounded(HealthRecheck(id))
           /\ \A a \in Actions : fired[a] > 0 => Grounded(Reset(a))
           /\ Grounded(NoId)
  BY FollowUpNames, PlaneAssumption DEF Grounded

(* A step that has k at work and leaves the other ids where they were. *)
RowsOf(k) == \A id \in Ids : Exists(id)' => Exists(id) \/ id = k
SendsOf(k) == \A app \in Apps : \A i \in 1..Len(queue'[app]) :
                 \/ \E j \in 1..Len(queue[app]) : queue'[app][i] = queue[app][j]
                 \/ queue'[app][i].id = k
ExecsOf(k) == \A app \in Apps : \/ exec'[app].pc = "idle"
                                \/ exec[app].pc # "idle" /\ exec'[app].id = exec[app].id
                                \/ exec'[app].id = k
RaisedTasks == \A p \in Handlers : task'[p] = task[p] \/ GroundedTask(task'[p])
RaisedScans == \A e \in Evals : \A c \in scan'[e] : c \in scan[e] \/ fired[c.id] > 0
RaisedTodo == \A c \in todo' : c \in todo \/ (c.id \in Ids /\ Exists(c.id))
FiredGrows == \A id \in Ids : fired'[id] >= fired[id]

LEMMA StillRaised ==
    ASSUME TypeInv, NEW k
    PROVE  /\ UNCHANGED rows => RowsOf(k)
           /\ UNCHANGED queue => SendsOf(k)
           /\ UNCHANGED exec => ExecsOf(k)
           /\ UNCHANGED task => RaisedTasks
           /\ UNCHANGED scan => RaisedScans
           /\ UNCHANGED todo => RaisedTodo
           /\ UNCHANGED fired => FiredGrows
<1>2. UNCHANGED fired => FiredGrows
  BY DEF FiredGrows, TypeInv, TypeOK, HistoryOK
<1>3. UNCHANGED exec => ExecsOf(k)
  BY DEF ExecsOf
<1>4. /\ UNCHANGED rows => RowsOf(k)
      /\ UNCHANGED queue => SendsOf(k)
  BY DEF RowsOf, SendsOf, Exists
<1> QED  BY <1>2, <1>3, <1>4 DEF RaisedTasks, RaisedScans, RaisedTodo

LEMMA RaiseFrame ==
    ASSUME TypeInv, TypeInv', RaiseInv, NEW k, Grounded(k), FiredGrows,
           RowsOf(k), SendsOf(k), ExecsOf(k), RaisedTasks, RaisedScans, RaisedTodo
    PROVE  RaiseInv'
<1> DEFINE GroundedNext(id) == 
      \A a \in Actions : TypeOf[a] = "backoff_increase" /\ id = Reset(a) => fired'[a] > 0
<1>1. \A id : Grounded(id) => GroundedNext(id)
  BY FollowUpNames DEF FiredGrows, Grounded, TypeInv, TypeOK, HistoryOK
<1>2. \A id \in Ids : fired[id] > 0 => fired'[id] > 0
  BY DEF FiredGrows, TypeInv, TypeOK, HistoryOK
<1> HIDE DEF GroundedNext
<1>3. \A id \in Ids : Exists(id)' => GroundedNext(id)
  BY <1>1 DEF RaiseInv, RowsOf
<1>4. \A app \in Apps : \A i \in 1..Len(queue'[app]) : GroundedNext(queue'[app][i].id)
  BY <1>1 DEF RaiseInv, SendsOf
<1>5. \A app \in Apps : exec'[app].pc # "idle" => GroundedNext(exec'[app].id)
  BY <1>1 DEF RaiseInv, ExecsOf
<1>6. ASSUME NEW p \in Handlers
      PROVE  /\ task'[p].pc \in ProposingPc \cup DecidingPc => GroundedNext(task'[p].id)
             /\ task'[p].pc \in RevertingPc => fired'[task'[p].id] > 0
  <2>1. GroundedTask(task'[p])
    BY DEF RaiseInv, RaisedTasks
  <2>2. task'[p].pc \in RevertingPc => task'[p].id \in Ids
    BY DEF TypeInv, TaskShapes, TaskShape
  <2> QED  BY <1>1, <1>2, <2>1, <2>2 DEF GroundedTask
<1>7. ASSUME NEW e \in Evals, NEW c \in scan'[e]
      PROVE  fired'[c.id] > 0
  <2>1. c.id \in Ids /\ fired[c.id] > 0
    BY <1>7 DEF RaisedScans, RaiseInv, TypeInv, TypeOK, RecoveryOK, Copy
  <2> QED  BY <1>2, <2>1
<1>8. \A c \in todo' : GroundedNext(c.id)
  BY <1>1 DEF RaiseInv, RaisedTodo
<1> QED  BY <1>3, <1>4, <1>5, <1>6, <1>7, <1>8 DEF RaiseInv, GroundedTask, GroundedNext, Grounded

LEMMA SentCopies ==
    ASSUME TypeInv, NEW app \in Apps, NEW id, NEW row, Send(app, id, row)
    PROVE  \A a \in Apps : \A i \in 1..Len(queue'[a]) :
              \/ \E j \in 1..Len(queue[a]) : queue'[a][i] = queue[a][j]
              \/ a = app /\ queue'[a][i] = [id |-> id, row |-> row]
<1>1. CASE HasRoom(app)
  <2> DEFINE c == [id |-> id, row |-> row]
  <2>1. /\ queue' = [queue EXCEPT ![app] = Append(queue[app], c)]
        /\ queue \in [Apps -> Seq(Copy)]
    BY <1>1 DEF Send, TypeInv, TypeOK, QueueOK
  <2>2. \A a \in Apps : a # app => queue'[a] = queue[a]
    BY <2>1
  <2>3. queue'[app] = Append(queue[app], c) /\ queue[app] \in Seq(Copy)
    BY <2>1
  <2>4. \A i \in 1..Len(queue'[app]) :
          (i \in 1..Len(queue[app]) /\ queue'[app][i] = queue[app][i]) \/ queue'[app][i] = c
    BY <2>3
  <2> QED  BY <2>2, <2>4
<1>2. CASE ~HasRoom(app)
  BY <1>2 DEF Send
<1> QED  BY <1>1, <1>2

LEMMA KeptCopies ==
    ASSUME TypeInv, NEW app \in Apps,
           \/ queue' = queue
           \/ queue' = [queue EXCEPT ![app] = <<>>]
           \/ queue[app] # <<>> /\ queue' = [queue EXCEPT ![app] = Tail(queue[app])]
    PROVE  \A a \in Apps : \A i \in 1..Len(queue'[a]) :
              \E j \in 1..Len(queue[a]) : queue'[a][i] = queue[a][j]
<1>0. queue \in [Apps -> Seq(Copy)]
  BY DEF TypeInv, TypeOK, QueueOK
<1>1. \A a \in Apps : a # app => queue'[a] = queue[a]
  BY <1>0
<1>2. CASE queue'[app] = queue[app]
  BY <1>1, <1>2
<1>3. CASE queue'[app] = <<>>
  BY <1>1, <1>3
<1>4. CASE queue[app] # <<>> /\ queue'[app] = Tail(queue[app])
  <2>1. queue[app] \in Seq(Copy)
    BY <1>0
  <2>2. \A i \in 1..Len(queue'[app]) :
           i + 1 \in 1..Len(queue[app]) /\ queue'[app][i] = queue[app][i + 1]
    BY <1>4, <2>1
  <2> QED  BY <1>1, <2>2
<1> QED  BY <1>0, <1>2, <1>3, <1>4

LEMMA WroteRow ==
    ASSUME TypeInv, NEW k, NEW row, rows' = [rows EXCEPT ![k] = row] \/ rows' = rows
    PROVE  \A id \in Ids : rows'[id] = rows[id] \/ (id = k /\ rows'[id] = row)
  BY DEF TypeInv, TypeOK, StoreOK

LEMMA RaiseSent ==
    ASSUME TypeInv, NEW app \in Apps, NEW id, NEW row, Send(app, id, row)
    PROVE  SendsOf(id)
<1>1. \A a \in Apps : \A i \in 1..Len(queue'[a]) :
         \/ \E j \in 1..Len(queue[a]) : queue'[a][i] = queue[a][j]
         \/ queue'[a][i] = [id |-> id, row |-> row]
  BY SentCopies
<1> QED  BY <1>1 DEF SendsOf

LEMMA RaiseWrote ==
    ASSUME TypeInv, NEW k, NEW row, rows' = [rows EXCEPT ![k] = row] \/ rows' = rows
    PROVE  RowsOf(k)
  BY WroteRow DEF RowsOf, Exists

LEMMA RaiseQuiet ==
    ASSUME TypeInv, NEW p \in Handlers, \A q \in Handlers \ {p} : task'[q] = task[q],
           task'[p].pc \notin ProposingPc \cup DecidingPc \cup RevertingPc
    PROVE  RaisedTasks
  BY DEF RaisedTasks, GroundedTask

LEMMA RaiseEvaluator ==
    ASSUME TypeInv, TypeInv', HonestInv, RaiseInv, NEW e \in Evals, Evaluate(e)
    PROVE  RaiseInv'
<1>0. /\ e \in Handlers /\ Serve \in Apps
      /\ task \in [Handlers -> TaskState] /\ scan \in [Evals -> SUBSET Copy]
      /\ GroundedTask(task[e])
  BY DEF Handlers, Apps, TypeInv, TypeOK, TaskOK, RecoveryOK, RaiseInv
<1>1. UNCHANGED <<exec, todo, fired>>
  BY DEF Evaluate, ProposeDenied, Propose, ScanExpired, RevertSeen, CloseReverted, IssueReset,
     EndEvaluation
<1>2. ASSUME NEW pc \in {"idle", "scan"}, TaskStep(e, pc)
      PROVE  RaisedTasks
  BY <1>0, <1>2, TaskSteps, RaiseQuiet DEF ProposingPc, DecidingPc, RevertingPc
<1>3. task[e].pc \in RevertingPc => task[e].id \in Actions /\ fired[task[e].id] > 0
  BY <1>0, FollowUpNames DEF GroundedTask, TypeInv, TaskShapes, TaskShape, RevertingPc
<1>4. CASE ProposeDenied(e)
  <2>1. PICK a \in Actions :
          \/ rows' = [rows EXCEPT ![a] = Closed(NewRow("system"), "denied_by_policy", "")]
          \/ rows' = rows
    BY <1>4, PlaneAssumption DEF ProposeDenied, WriteOrLose, Write
  <2>2. Grounded(a) /\ RowsOf(a)
    BY <2>1, Grounds, RaiseWrote
  <2>3. SendsOf(a) /\ RaisedTasks /\ RaisedScans
    BY <1>4, StillRaised DEF ProposeDenied
  <2> QED  BY <1>1, <2>2, <2>3, StillRaised, Grounds, RaiseFrame
<1>5. CASE Propose(e)
  <2>1. PICK a \in Actions :
          task' = [task EXCEPT ![e] = [TaskIdle EXCEPT !.pc = "freeze", !.op = "propose",
                                         !.id = a, !.row = NewRow("system")]]
    BY <1>5, PlaneAssumption DEF Propose
  <2>2. RaisedTasks
    BY <1>0, <2>1, Grounds DEF RaisedTasks, GroundedTask, TaskIdle, RevertingPc
  <2>3. UNCHANGED <<rows, queue, scan>>
    BY <1>5 DEF Propose
  <2> QED  BY <1>1, <2>2, <2>3, StillRaised, Grounds, RaiseFrame
<1>6. CASE ScanExpired(e)
  <2>1. PICK quiet \in SUBSET {id \in lapsed : RevertDue(id, rows[id])} :
          scan' = [scan EXCEPT ![e] = {[id |-> id, row |-> rows[id]] : id \in quiet}]
    BY <1>6 DEF ScanExpired
  <2>2. \A id \in quiet : fired[id] > 0
    BY DEF RevertDue, HonestInv, Honest, TypeInv, TypeOK, StoreOK
  <2>3. RaisedScans
    BY <1>0, <2>1, <2>2 DEF RaisedScans
  <2>4. UNCHANGED <<rows, queue>> /\ RaisedTasks
    BY <1>2, <1>6 DEF ScanExpired
  <2> QED  BY <1>1, <2>3, <2>4, StillRaised, Grounds, RaiseFrame
<1>7. CASE RevertSeen(e)
  <2>1. PICK c \in scan[e] :
          /\ scan' = [scan EXCEPT ![e] = @ \ {c}]
          /\ \/ UNCHANGED task
             \/ task' = [task EXCEPT ![e].pc = "close", ![e].op = "revert",
                                     ![e].id = c.id, ![e].row = c.row]
    BY <1>7 DEF RevertSeen
  <2>2. fired[c.id] > 0
    BY DEF RaiseInv
  <2>3. \A p \in Handlers : task'[p] = task[p] \/ (task'[p].pc = "close" /\ task'[p].id = c.id)
    BY <1>0, <2>1 DEF TaskState
  <2>4. RaisedTasks
    BY <2>2, <2>3 DEF RaisedTasks, GroundedTask, ProposingPc, DecidingPc
  <2>5. RaisedScans
    BY <1>0, <2>1 DEF RaisedScans
  <2>6. UNCHANGED <<rows, queue>>
    BY <1>7 DEF RevertSeen
  <2> QED  BY <1>1, <2>4, <2>5, <2>6, StillRaised, Grounds, RaiseFrame
<1>8. CASE CloseReverted(e)
  <2> DEFINE k == task[e].id
             new == [task[e].row EXCEPT !.closure = "expired_and_reverted"]
  <2>1. /\ k \in Actions /\ fired[k] > 0
        /\ rows' = [rows EXCEPT ![k] = new] \/ rows' = rows
    BY <1>3, <1>8 DEF CloseReverted, WriteOrLose, Write, RevertingPc
  <2>2. Grounded(k) /\ RowsOf(k)
    <3> HIDE DEF new
    <3> QED  BY <2>1, Grounds, RaiseWrote
  <2>3. /\ task'[e].pc = "follow" /\ task'[e].id = k
        /\ \A q \in Handlers \ {e} : task'[q] = task[q]
    BY <1>0, <1>8, TaskSteps DEF CloseReverted
  <2>4. RaisedTasks
    BY <2>1, <2>3 DEF RaisedTasks, GroundedTask, ProposingPc, DecidingPc
  <2>5. SendsOf(k) /\ RaisedScans
    BY <1>8, StillRaised DEF CloseReverted
  <2> QED  BY <1>1, <2>2, <2>4, <2>5, StillRaised, Grounds, RaiseFrame
<1>9. CASE IssueReset(e)
  <2> DEFINE k == Reset(task[e].id)
             row == NewRow("system")
  <2>1. /\ rows' = [rows EXCEPT ![k] = row] \/ rows' = rows
        /\ Send(Serve, k, row)
        /\ task' = [task EXCEPT ![e] = [TaskIdle EXCEPT !.pc = "scan"]]
    BY <1>9 DEF IssueReset, WriteOrLose, Write
  <2>2. Grounded(k) /\ RowsOf(k) /\ SendsOf(k)
    BY <1>0, <1>3, <1>9, <2>1, Grounds, RaiseWrote, RaiseSent DEF IssueReset, RevertingPc
  <2>3. RaisedTasks
    BY <1>0, <2>1 DEF TaskIdle, RaisedTasks, GroundedTask, ProposingPc, DecidingPc, RevertingPc
  <2>4. RaisedScans
    BY <1>9, StillRaised DEF IssueReset
  <2> QED  BY <1>1, <2>2, <2>3, <2>4, StillRaised, Grounds, RaiseFrame
<1>10. CASE EndEvaluation(e)
  <2>1. UNCHANGED <<rows, queue, scan>> /\ RaisedTasks
    BY <1>2, <1>10 DEF EndEvaluation
  <2> QED  BY <1>1, <2>1, StillRaised, Grounds, RaiseFrame
<1> QED  BY <1>4, <1>5, <1>6, <1>7, <1>8, <1>9, <1>10 DEF Evaluate

(* A handler that goes on with the id it is at work on. *)
LEMMA RaiseOn ==
    ASSUME TypeInv, RaiseInv, NEW p \in Handlers, \A q \in Handlers \ {p} : task'[q] = task[q],
           task[p].pc \in ProposingPc \cup DecidingPc,
           \/ task'[p].pc \notin RevertingPc /\ task'[p].id = task[p].id
           \/ task'[p].pc \notin ProposingPc \cup DecidingPc \cup RevertingPc
    PROVE  RaisedTasks /\ Grounded(task[p].id)
  BY DEF RaiseInv, RaisedTasks, GroundedTask

LEMMA RaiseGate ==
    ASSUME TypeInv, TypeInv', RaiseInv, NEW p \in Handlers, Gate(p)
    PROVE  RaiseInv'
<1> DEFINE k == task[p].id
<1>1. UNCHANGED <<exec, scan, todo, fired>>
  BY DEF Gate, CheckFreeze, CheckMaintenance, Refuse, Persist
<1>2. \/ task[p].pc \in {"freeze", "maintenance", "refuse", "persist"}
  BY DEF Gate, CheckFreeze, CheckMaintenance, Refuse, Persist
<1>3. \/ \E row : \E pc \in {"refuse", "maintenance", "persist"} :
            TaskStep(p, pc) \/ TaskRow(p, pc, row)
      \/ Settle(p)
  BY DEF Gate, CheckFreeze, CheckMaintenance, Refuse, Persist
<1>4. RaisedTasks /\ Grounded(k)
  <2>1. /\ \A q \in Handlers \ {p} : task'[q] = task[q]
        /\ \/ task'[p].pc \in {"refuse", "maintenance", "persist"} /\ task'[p].id = k
           \/ task'[p].pc \in {"decide", "exit", "done"}
    BY <1>3, TaskSteps
  <2> HIDE DEF k
  <2> QED  BY <1>2, <2>1, RaiseOn DEF k, ProposingPc, DecidingPc, RevertingPc
<1>5. PICK row : rows' = [rows EXCEPT ![k] = row] \/ rows' = rows
  BY DEF Gate, CheckFreeze, CheckMaintenance, Refuse, Persist, WriteOrLose, Write
<1>6. UNCHANGED queue \/ \E row2 : Send(AppOf(p), k, row2)
  BY DEF Gate, CheckFreeze, CheckMaintenance, Refuse, Persist
<1>7. AppOf(p) \in Apps
  BY DEF AppOf, Apps
<1> HIDE DEF k
<1>8. RowsOf(k) /\ SendsOf(k)
  BY <1>5, <1>6, <1>7, RaiseWrote, RaiseSent, StillRaised
<1> QED  BY <1>1, <1>4, <1>8, StillRaised, RaiseFrame

LEMMA RaiseSession ==
    ASSUME TypeInv, TypeInv', HonestInv, RaiseInv, NEW s \in Sessions,
           Submit(s) \/ ReceiveDecision(s) \/ Decide(s) \/ ExitCli(s)
    PROVE  RaiseInv'
<1> DEFINE k == task[s].id
<1>0. s \in Handlers /\ AppOf(s) \in Apps /\ task \in [Handlers -> TaskState]
  BY DEF Handlers, AppOf, Apps, TypeInv, TypeOK, TaskOK
<1>1. UNCHANGED <<exec, scan, todo, fired>>
  BY DEF Submit, ReceiveDecision, Decide, ExitCli, UpdateRow, ReadForMerge, WriteMerged,
     ReloadAndSend, DecisionFails
<1>2. CASE Submit(s)
  <2>1. PICK a \in Actions :
          task' = [task EXCEPT ![s] =
                     [TaskIdle EXCEPT !.pc = IF NeedsApproval(a) THEN "persist" ELSE "freeze",
                                      !.op = "submit", !.id = a, !.row = NewRow(ActorOf[s])]]
    BY ZenonT(60), <1>2 DEF Submit
  <2>2. RaisedTasks
    BY <1>0, <2>1, Grounds DEF RaisedTasks, GroundedTask, TaskIdle, RevertingPc
  <2>3. UNCHANGED <<rows, queue>>
    BY <1>2 DEF Submit
  <2> QED  BY <1>1, <2>2, <2>3, StillRaised, Grounds, RaiseFrame
<1>3. CASE ReceiveDecision(s)
  <2>1. PICK op \in Requests \cap {"approve", "reject"}, id \in Ids, glass \in Glass :
          /\ Undecided(rows[id])
          /\ task' = [task EXCEPT ![s] =
                        [TaskIdle EXCEPT !.pc = "update", !.op = op, !.id = id,
                                         !.row = rows[id], !.glass = glass]]
    BY <1>3 DEF ReceiveDecision
  <2>2. Grounded(id)
    BY <2>1 DEF RaiseInv, Exists, Undecided
  <2>3. RaisedTasks
    BY <1>0, <2>1, <2>2 DEF RaisedTasks, GroundedTask, TaskIdle, RevertingPc
  <2>4. UNCHANGED <<rows, queue>>
    BY <1>3 DEF ReceiveDecision
  <2> QED  BY <1>1, <2>3, <2>4, StillRaised, Grounds, RaiseFrame
<1>4. CASE Decide(s)
  <2>1. task[s].pc \in DecidingPc
    BY <1>4 DEF Decide, UpdateRow, ReadForMerge, WriteMerged, ReloadAndSend, DecisionFails,
       DecidingPc
  <2>2. \/ /\ task'[s].pc \in {"merge", "patch", "reload"} /\ task'[s].id = k
           /\ \A q \in Handlers \ {s} : task'[q] = task[q]
        \/ \E told : \E pc \in {"drain", "done"} : Answer(s, pc, told)
    <3>1. CASE UpdateRow(s)
      BY <1>0, <3>1 DEF UpdateRow, TaskState
    <3>2. CASE ReadForMerge(s) \/ WriteMerged(s)
      BY <1>0, <3>2, TaskSteps DEF ReadForMerge, WriteMerged
    <3>3. CASE ReloadAndSend(s) \/ DecisionFails(s)
      BY <3>3 DEF ReloadAndSend, DecisionFails
    <3> QED  BY <1>4, <3>1, <3>2, <3>3 DEF Decide
  <2>3. /\ \A q \in Handlers \ {s} : task'[q] = task[q]
        /\ \/ task'[s].pc \in {"merge", "patch", "reload"} /\ task'[s].id = k
           \/ task'[s].pc \in {"drain", "done"}
    BY <1>0, <2>2, TaskSteps
  <2>4. RaisedTasks /\ Grounded(k)
    <3> HIDE DEF k
    <3> QED  BY <1>0, <2>1, <2>3, RaiseOn DEF k, ProposingPc, DecidingPc, RevertingPc
  <2>5. \E row : rows' = [rows EXCEPT ![k] = row] \/ rows' = rows
    BY <1>4 DEF Decide, UpdateRow, ReadForMerge, WriteMerged, ReloadAndSend, DecisionFails, Write
  <2>6. UNCHANGED queue \/ \E row : Send(AppOf(s), k, row)
    BY <1>4 DEF Decide, UpdateRow, ReadForMerge, WriteMerged, ReloadAndSend, DecisionFails
  <2> HIDE DEF k
  <2>7. RowsOf(k) /\ SendsOf(k)
    BY <1>0, <2>5, <2>6, RaiseWrote, RaiseSent, StillRaised
  <2> QED  BY <1>1, <2>4, <2>7, StillRaised, RaiseFrame
<1>5. CASE ExitCli(s)
  <2>1. /\ UNCHANGED rows /\ TaskStep(s, "done")
        /\ s \in Apps /\ queue' = [queue EXCEPT ![s] = <<>>]
    BY <1>5 DEF ExitCli, Apps
  <2>2. RaisedTasks
    BY <1>0, <2>1, TaskSteps, RaiseQuiet DEF ProposingPc, DecidingPc, RevertingPc
  <2>3. SendsOf(NoId)
    BY <2>1, KeptCopies DEF SendsOf
  <2> QED  BY <1>1, <2>1, <2>2, <2>3, StillRaised, Grounds, RaiseFrame
<1> QED  BY <1>2, <1>3, <1>4, <1>5

LEMMA RaiseExecutor ==
    ASSUME TypeInv, TypeInv', RaiseInv, NEW app \in Apps, Execute(app)
    PROVE  RaiseInv'
<1> DEFINE k == exec[app].id
<1>0. exec \in [Apps -> ExecState] /\ task \in [Handlers -> TaskState] /\ k \in Ids \cup {NoId}
  BY DEF TypeInv, TypeOK, ExecOK, TaskOK, ExecState
<1>1. UNCHANGED <<scan, todo>>
  BY DEF Execute, Dequeue, RecheckFreeze, RecheckMaintenance, RefuseExecution, Start, Actuate,
     Finish, SeekFollowUp, PersistFollowUp
<1>2. exec[app].pc # "idle" => Grounded(k)
  BY DEF RaiseInv
<1>3. CASE Dequeue(app)
  <2> DEFINE c == Head(queue[app])
             row == Closed(c.row, "denied_by_policy", "superseded")
  <2>1. queue[app] # <<>> /\ queue[app] \in Seq(Copy)
        /\ queue' = [queue EXCEPT ![app] = Tail(queue[app])]
    BY <1>3 DEF Dequeue, Take, TypeInv, TypeOK, QueueOK
  <2>2. c = queue[app][1] /\ 1 \in 1..Len(queue[app])
    BY <2>1
  <2>3. Grounded(c.id)
    BY <2>2 DEF RaiseInv
  <2>4. rows' = [rows EXCEPT ![c.id] = row] \/ rows' = rows
    BY <1>3 DEF Dequeue, WriteOrLose, Write
  <2>5. \A a \in Apps : exec'[a] = exec[a] \/ exec'[a].id = c.id
    BY <1>0, <1>3 DEF Dequeue
  <2>6. \A p \in Handlers : task'[p] = task[p] \/ task'[p].pc = "exit"
    BY <1>0, <1>3 DEF Dequeue, TaskState
  <2>7. RaisedTasks
    BY <2>6 DEF RaisedTasks, GroundedTask, ProposingPc, DecidingPc, RevertingPc
  <2> HIDE DEF c, row
  <2>8. RowsOf(c.id) /\ SendsOf(c.id) /\ ExecsOf(c.id)
    BY <2>1, <2>4, <2>5, RaiseWrote, KeptCopies DEF SendsOf, ExecsOf
  <2>9. UNCHANGED fired
    BY <1>3 DEF Dequeue
  <2> QED  BY <1>1, <2>3, <2>7, <2>8, <2>9, StillRaised, RaiseFrame
<1>4. ASSUME exec[app].pc # "idle", UNCHANGED <<queue, task, fired>>,
             NEW row, rows' = [rows EXCEPT ![k] = row] \/ rows' = rows,
             ExecDone(app) \/ \E pc, new : ExecStep(app, pc, new)
      PROVE  RaiseInv'
  <2>1. \A a \in Apps : \/ exec'[a] = exec[a]
                        \/ exec'[a].pc = "idle"
                        \/ exec[a].pc # "idle" /\ exec'[a].id = exec[a].id
    BY <1>4, ExecSteps
  <2> HIDE DEF k
  <2>2. ExecsOf(k)
    BY <2>1 DEF ExecsOf
  <2> QED  BY <1>1, <1>2, <1>4, <2>2, StillRaised, RaiseWrote, RaiseFrame
<1>5. CASE RecheckFreeze(app) \/ RecheckMaintenance(app)
  <2>1. /\ exec[app].pc # "idle" /\ UNCHANGED <<rows, queue, task, fired>>
        /\ \E pc, new : ExecStep(app, pc, new)
    BY <1>5 DEF RecheckFreeze, RecheckMaintenance, Recheck
  <2> QED  BY <1>4, <2>1
<1>6. CASE RefuseExecution(app) \/ Start(app)
  <2>1. PICK row : rows' = [rows EXCEPT ![k] = row] \/ rows' = rows
    BY <1>6 DEF RefuseExecution, Start, WriteOrLose, Write
  <2>2. /\ exec[app].pc # "idle" /\ UNCHANGED <<queue, task, fired>>
        /\ ExecDone(app) \/ \E pc, new : ExecStep(app, pc, new)
    BY <1>6 DEF RefuseExecution, Start
  <2> QED  BY <1>4, <2>1, <2>2
<1>7. CASE Actuate(app)
  <2>1. /\ exec[app].pc = "actuate" /\ UNCHANGED <<rows, queue>>
        /\ \E new : ExecStep(app, "finish", new)
    BY <1>7 DEF Actuate
  <2>2. FiredGrows
    BY <1>0, <1>7 DEF Actuate, FiredGrows, TypeInv, TypeOK, HistoryOK, ExecShapes, ExecShape
  <2>3. RaisedTasks
    <3>1. CASE UNCHANGED task
      BY <3>1, StillRaised
    <3>2. ASSUME NEW e \in Evals, TaskStep(e, "decide")
          PROVE  RaisedTasks
      BY <3>2, TaskSteps, RaiseQuiet DEF Handlers, ProposingPc, DecidingPc, RevertingPc
    <3> QED  BY <1>7, <3>1, <3>2 DEF Actuate
  <2>4. ExecsOf(k)
    BY <2>1, ExecSteps DEF ExecsOf
  <2> HIDE DEF k
  <2> QED  BY <1>1, <1>2, <2>1, <2>2, <2>3, <2>4, StillRaised, RaiseFrame
<1>8. CASE Finish(app)
  <2>1. PICK row : rows' = [rows EXCEPT ![k] = row] \/ rows' = rows
    BY <1>8 DEF Finish, WriteOrLose, Write
  <2>2. /\ exec[app].pc # "idle" /\ UNCHANGED <<queue, task, fired>>
        /\ ExecDone(app) \/ \E pc, new : ExecStep(app, pc, new)
    BY <1>8 DEF Finish
  <2> QED  BY <1>4, <2>1, <2>2
<1>9. CASE SeekFollowUp(app)
  <2>1. /\ exec[app].pc # "idle" /\ UNCHANGED <<rows, queue, task, fired>>
        /\ ExecDone(app) \/ \E pc, new : ExecStep(app, pc, new)
    BY <1>9 DEF SeekFollowUp
  <2> QED  BY <1>4, <2>1
<1>10. CASE PersistFollowUp(app)
  <2> DEFINE recheck == HealthRecheck(k)
             row == NewRow("system")
  <2>1. /\ rows' = [rows EXCEPT ![recheck] = row] \/ rows' = rows
        /\ Send(app, recheck, row) \/ UNCHANGED queue
        /\ ExecDone(app) /\ UNCHANGED <<task, fired>>
    BY <1>10 DEF PersistFollowUp, Write
  <2>2. Grounded(recheck)
    BY Grounds
  <2>3. \A a \in Apps : exec'[a] = exec[a] \/ exec'[a].pc = "idle"
    BY <2>1, ExecSteps
  <2> HIDE DEF recheck, row
  <2>4. RowsOf(recheck) /\ SendsOf(recheck) /\ ExecsOf(recheck)
    BY <2>1, <2>3, RaiseWrote, RaiseSent, StillRaised DEF ExecsOf
  <2> QED  BY <1>1, <2>1, <2>2, <2>4, StillRaised, RaiseFrame
<1> QED  BY <1>3, <1>5, <1>6, <1>7, <1>8, <1>9, <1>10 DEF Execute

LEMMA RaiseElsewhere ==
    ASSUME TypeInv, TypeInv', RaiseInv,
           BeginEvaluation \/ ExpireStaleApprovalActions \/ Time \/ Operate
    PROVE  RaiseInv'
<1>1. UNCHANGED <<queue, exec, scan, todo, fired>>
  BY DEF BeginEvaluation, ExpireStaleApprovalActions, Time, ApprovalDeadlinePasses, BackoffLapses,
     Operate, CreateFreeze, ClearFreeze, ToggleWindow
<1>2. RaisedTasks
  <2>1. CASE BeginEvaluation
    BY <2>1, TaskSteps, RaiseQuiet DEF BeginEvaluation, Handlers, ProposingPc, DecidingPc,
       RevertingPc
  <2>2. CASE UNCHANGED task
    BY <2>2, StillRaised
  <2> QED  BY <2>1, <2>2 DEF ExpireStaleApprovalActions, Time, ApprovalDeadlinePasses,
              BackoffLapses, Operate, CreateFreeze, ClearFreeze, ToggleWindow
<1>3. RowsOf(NoId)
  <2>1. CASE UNCHANGED rows
    BY <2>1, StillRaised
  <2>2. CASE ExpireStaleApprovalActions
    BY <2>2 DEF ExpireStaleApprovalActions, ExpiredApproval, Undecided, RowsOf, Exists
  <2> QED  BY <2>1, <2>2 DEF BeginEvaluation, Time, ApprovalDeadlinePasses, BackoffLapses,
              Operate, CreateFreeze, ClearFreeze, ToggleWindow
<1> QED  BY <1>1, <1>2, <1>3, StillRaised, Grounds, RaiseFrame

LEMMA RaiseDeath ==
    ASSUME TypeInv, TypeInv', RaiseInv, Crash \/ \E s \in Sessions : Kill(s)
    PROVE  RaiseInv'
<1>1. PICK app \in Apps :
        /\ queue' = [queue EXCEPT ![app] = <<>>]
        /\ exec' = [exec EXCEPT ![app] = ExecIdle]
  BY DEF Crash, Kill, Apps
<1>2. UNCHANGED <<rows, fired>>
  BY DEF Crash, Kill
<1>3. SendsOf(NoId) /\ ExecsOf(NoId)
  <2>1. SendsOf(NoId)
    BY <1>1, KeptCopies DEF SendsOf
  <2>2. \A a \in Apps : exec'[a] = exec[a] \/ exec'[a].pc = "idle"
    BY <1>1 DEF ExecIdle, TypeInv, TypeOK, ExecOK
  <2> QED  BY <2>1, <2>2 DEF ExecsOf
<1>4. RaisedTasks
  <2>1. \A p \in Handlers : Lost(p).pc = "done"
    BY DEF Lost, Answered, TypeInv, TypeOK, TaskOK, TaskState
  <2>2. \A p \in Handlers : task'[p] = task[p] \/ task'[p] = TaskIdle \/ task'[p] = Lost(p)
    <3>1. CASE Crash
      BY <3>1 DEF Crash
    <3>2. CASE \E s \in Sessions : Kill(s)
      BY <3>2 DEF Kill, TypeInv, TypeOK, TaskOK
    <3> QED  BY <3>1, <3>2
  <2> QED  BY <2>1, <2>2 DEF RaisedTasks, GroundedTask, TaskIdle, ProposingPc, DecidingPc,
              RevertingPc
<1>5. RaisedScans /\ RaisedTodo
  <2>1. CASE Crash
    BY <2>1 DEF Crash, RaisedScans, RaisedTodo
  <2>2. CASE \E s \in Sessions : Kill(s)
    <3>1. UNCHANGED <<scan, todo>>
      BY <2>2 DEF Kill
    <3> QED  BY <3>1, StillRaised
  <2> QED  BY <2>1, <2>2
<1> QED  BY <1>2, <1>3, <1>4, <1>5, StillRaised, Grounds, RaiseFrame

LEMMA RaiseRecovery ==
    ASSUME TypeInv, TypeInv', RaiseInv, Recover
    PROVE  RaiseInv'
<1>1. UNCHANGED <<queue, task, scan, fired>>
  BY DEF Recover, Restart, RecoverRow, StartWorkers
<1>2. CASE Restart \/ StartWorkers
  <2>1. UNCHANGED <<rows, exec>>
    BY <1>2 DEF Restart, StartWorkers
  <2>2. RaisedTodo
    BY <1>2 DEF Restart, StartWorkers, RaisedTodo, Incomplete, Exists
  <2> QED  BY <1>1, <2>1, <2>2, StillRaised, Grounds, RaiseFrame
<1>3. CASE RecoverRow
  <2>1. PICK c \in todo :
          /\ todo' = todo \ {c}
          /\ WriteOrLose(c.id, Recovered(c.id, c.row))
          /\ exec' = IF Type(c.id) = "restart_transport"
                     THEN [exec EXCEPT ![Serve] = [pc |-> "followup", id |-> c.id,
                                                   row |-> Recovered(c.id, c.row)]]
                     ELSE exec
    BY <1>3 DEF RecoverRow
  <2> DEFINE row == Recovered(c.id, c.row)
  <2>2. Grounded(c.id)
    BY DEF RaiseInv
  <2>3. rows' = [rows EXCEPT ![c.id] = row] \/ rows' = rows
    BY <2>1 DEF WriteOrLose, Write
  <2>4. \A app \in Apps : exec'[app] = exec[app] \/ exec'[app].id = c.id
    BY <2>1 DEF TypeInv, TypeOK, ExecOK
  <2> HIDE DEF row
  <2>5. RowsOf(c.id) /\ ExecsOf(c.id) /\ RaisedTodo
    BY <2>1, <2>3, <2>4, RaiseWrote DEF ExecsOf, RaisedTodo
  <2> QED  BY <1>1, <2>2, <2>5, StillRaised, RaiseFrame
<1> QED  BY <1>2, <1>3 DEF Recover

LEMMA StepRaises == TypeInv /\ TypeInv' /\ HonestInv /\ RaiseInv /\ [Next]_vars => RaiseInv'
<1> SUFFICES ASSUME TypeInv, TypeInv', HonestInv, RaiseInv, [Next]_vars
             PROVE  RaiseInv'
  OBVIOUS
<1>1. CASE UNCHANGED vars
  BY <1>1, StillRaised, Grounds, RaiseFrame DEF vars
<1>2. CASE Next
  BY <1>2, RaiseEvaluator, RaiseGate, RaiseSession, RaiseExecutor, RaiseElsewhere, RaiseDeath,
     RaiseRecovery DEF Next
<1> QED  BY <1>1, <1>2

LEMMA InitRaises == Init => RaiseInv
<1> SUFFICES ASSUME Init
             PROVE  RaiseInv
  OBVIOUS
<1>1. \A id \in Ids : ~Exists(id)
  BY DEF Init, Exists, NoRow
<1>2. \A app \in Apps : queue[app] = <<>> /\ exec[app].pc = "idle"
  BY DEF Init, ExecIdle
<1>3. \A p \in Handlers : GroundedTask(task[p])
  BY DEF Init, TaskIdle, GroundedTask, ProposingPc, DecidingPc, RevertingPc
<1> QED  BY <1>1, <1>2, <1>3 DEF Init, RaiseInv

(* Wherever a reset turns up, in the table, a channel, an executor or a list of
   recovery, the raise it undoes has run.                                  *)
THEOREM ResetsAreGrounded == Spec => []RaiseInv
<1>1. TypeInv /\ TypeInv' /\ HonestInv /\ RaiseInv /\ [Next]_vars => RaiseInv'
  BY StepRaises
<1> QED  BY <1>1, InitRaises, TypeCorrect, CopiesAreHonest, PTL DEF Spec

------------------------------------------------------------------------------
(* The daemon at rest *)

LEMMA OneApp == ASSUME Cli = {} PROVE Apps = {Serve} /\ \A p \in Handlers : AppOf(p) = Serve
  BY DEF Apps, AppOf

(* With the daemon the only process, what acts on requests acts while it is up. *)
LEMMA UpSteps ==
    ASSUME Cli = {}
    PROVE  /\ \A e \in Evals : Evaluate(e) => daemon = "up" /\ UNCHANGED <<daemon, todo>>
           /\ \A p \in Handlers : Gate(p) => daemon = "up" /\ UNCHANGED <<daemon, todo>>
           /\ \A s \in Sessions : Submit(s) \/ ReceiveDecision(s) \/ Decide(s) =>
                 daemon = "up" /\ UNCHANGED <<daemon, todo>>
           /\ BeginEvaluation \/ ExpireStaleApprovalActions =>
                 daemon = "up" /\ UNCHANGED <<daemon, todo>>
           /\ \A s \in Sessions : ~ExitCli(s) /\ ~Kill(s)
           /\ Execute(Serve) => UNCHANGED <<daemon, todo, scan>>
           /\ Dequeue(Serve) => daemon = "up"
<1>1. \A e \in Evals : Evaluate(e) => daemon = "up" /\ UNCHANGED <<daemon, todo>>
  BY DEF Evaluate, ProposeDenied, Propose, ScanExpired, RevertSeen, CloseReverted, IssueReset,
     EndEvaluation
<1>2. \A p \in Handlers : Gate(p) => daemon = "up" /\ UNCHANGED <<daemon, todo>>
  BY DEF Gate, CheckFreeze, CheckMaintenance, Refuse, Persist, Running
<1>3. ASSUME NEW s \in Sessions, Submit(s) \/ ReceiveDecision(s) \/ Decide(s)
      PROVE  daemon = "up" /\ UNCHANGED <<daemon, todo>>
  BY <1>3 DEF Submit, ReceiveDecision, Decide, UpdateRow, ReadForMerge, WriteMerged,
     ReloadAndSend, DecisionFails, Running
<1>4. BeginEvaluation \/ ExpireStaleApprovalActions => daemon = "up" /\ UNCHANGED <<daemon, todo>>
  BY DEF BeginEvaluation, ExpireStaleApprovalActions
<1>5. \A s \in Sessions : ~ExitCli(s) /\ ~Kill(s)
  BY DEF ExitCli, Kill
<1>6. Execute(Serve) => UNCHANGED <<daemon, todo, scan>>
  BY DEF Execute, Dequeue, RecheckFreeze, RecheckMaintenance, RefuseExecution, Start, Actuate,
     Finish, SeekFollowUp, PersistFollowUp
<1>7. Dequeue(Serve) => daemon = "up"
  BY DEF Dequeue, MayDequeue
<1> QED  BY <1>1, <1>2, <1>3, <1>4, <1>5, <1>6, <1>7

LEMMA CrashClears ==
    ASSUME TypeInv, Crash
    PROVE  /\ daemon' = "down" /\ todo' = {} /\ UNCHANGED <<rows, handed, fired, faults>>
           /\ exec'[Serve].pc = "idle" /\ queue'[Serve] = <<>>
           /\ \A e \in Evals : scan'[e] = {}
           /\ Cli = {} => \A p \in Handlers : task'[p].pc \in {"idle", "done"}
<1>1. \A p \in Handlers : Lost(p).pc = "done"
  BY DEF Lost, Answered, TypeInv, TypeOK, TaskOK, TaskState
<1>2. Cli = {} => \A p \in Handlers : task'[p].pc \in {"idle", "done"}
  BY <1>1 DEF Crash, TaskIdle
<1>3. exec'[Serve].pc = "idle" /\ queue'[Serve] = <<>>
  BY DEF Crash, ExecIdle, Apps, TypeInv, TypeOK, ExecOK, QueueOK
<1> QED  BY <1>2, <1>3 DEF Crash

LEMMA StepRests == TypeInv /\ RestInv /\ [Next]_vars => RestInv'
<1> SUFFICES ASSUME TypeInv, RestInv, [Next]_vars, Cli = {}
             PROVE  RestInv'
  BY DEF RestInv
<1>1. ASSUME daemon = "up", UNCHANGED <<daemon, todo>>
      PROVE  RestInv'
  BY <1>1 DEF RestInv
<1>2. CASE Execute(Serve)
  <2>1. ASSUME daemon # "up"
        PROVE  RestInv'
    <3>1. daemon = "recovering" /\ exec[Serve].pc \in {"idle", "followup", "persist"}
      <4>1. exec[Serve].pc = "idle" => Dequeue(Serve)
        BY <1>2 DEF Execute, RecheckFreeze, RecheckMaintenance, RefuseExecution, Start, Actuate,
           Finish, SeekFollowUp, PersistFollowUp
      <4> QED  BY <2>1, <4>1, UpSteps DEF RestInv, TypeInv, TypeOK, RecoveryOK
    <3>2. SeekFollowUp(Serve) \/ PersistFollowUp(Serve)
      BY <1>2, <2>1, <3>1, UpSteps DEF Execute, RecheckFreeze, RecheckMaintenance, RefuseExecution,
         Start, Actuate, Finish
    <3>3. exec'[Serve].pc \in {"idle", "persist"} /\ UNCHANGED task
      BY <3>2, OwnSteps DEF SeekFollowUp, PersistFollowUp
    <3>4. UNCHANGED <<daemon, todo, scan>>
      BY <1>2, UpSteps
    <3> QED  BY <3>1, <3>3, <3>4 DEF RestInv
  <2> QED  BY <1>1, <1>2, <2>1, UpSteps
<1>3. CASE UNCHANGED vars \/ Time \/ Operate
  <2>1. UNCHANGED <<daemon, todo, exec, task, scan, queue>>
    BY <1>3 DEF vars, Time, ApprovalDeadlinePasses, BackoffLapses, Operate, CreateFreeze,
       ClearFreeze, ToggleWindow
  <2> QED  BY <2>1 DEF RestInv
<1>4. CASE Crash
  BY <1>4, CrashClears DEF RestInv
<1>5. CASE Recover
  <2>1. UNCHANGED <<queue, task, scan>>
    BY <1>5 DEF Recover, Restart, RecoverRow, StartWorkers
  <2>2. CASE Restart
    BY <2>1, <2>2 DEF Restart, RestInv
  <2>3. CASE RecoverRow
    <3>1. /\ daemon = "recovering" /\ UNCHANGED daemon
          /\ exec'[Serve] = exec[Serve] \/ exec'[Serve].pc = "followup"
      BY <2>3 DEF RecoverRow, TypeInv, TypeOK, ExecOK, Apps
    <3> QED  BY <2>1, <3>1 DEF RestInv
  <2>4. CASE StartWorkers
    BY <2>1, <2>4 DEF StartWorkers, RestInv
  <2> QED  BY <1>5, <2>2, <2>3, <2>4 DEF Recover
<1> QED  BY <1>1, <1>2, <1>3, <1>4, <1>5, OneApp, UpSteps DEF Next

LEMMA InitRests == Init => RestInv
  BY DEF Init, RestInv

(* While the daemon is the only process and is not up, no handler, evaluation or
   execution is under way, and only recovery holds a list of rows.         *)
THEOREM DaemonRests == Spec => []RestInv
<1>1. TypeInv /\ RestInv /\ [Next]_vars => RestInv'
  BY StepRests
<1> QED  BY <1>1, InitRests, TypeCorrect, PTL DEF Spec

------------------------------------------------------------------------------
(* One place at a time *)

(* A step that has k at work, with no failed statement and nobody's requests. *)
RowsAt(k) == \A id \in Ids : id # k => rows'[id] = rows[id] /\ handed'[id] = handed[id]

SoloRowsAt(k) ==
    \A a \in Actions : \/ SoloRow(a)'
                       \/ /\ a # k
                          /\ FollowedUp(a)' => FollowedUp(a)
                          /\ Undone(a)' => Undone(a)

SoloCopiesAt(k) ==
    \A i \in 1..Len(queue'[Serve]) :
       \/ \E j \in 1..Len(queue[Serve]) :
             queue'[Serve][i] = queue[Serve][j] /\ queue[Serve][j].id # k
       \/ SoloCopy(queue[Serve][i])'

SoloTasksAt(k) ==
    \A p \in Handlers : \/ task'[p] = task[p] /\ task[p].id # k
                        \/ task'[p].pc \notin ProposingPc \cup RevertingPc
                        \/ SoloTask(task[p])'

SoloScansAt(k) ==
    \A e \in Evals : \A c \in scan'[e] :
       SoloScan(c)' \/ (c \in scan[e] /\ c.id # k /\ Reset(c.id) # k)

LEMMA SoloFrame ==
    ASSUME TypeInv, TypeInv', SoloInv, Unattended, NEW k, RowsAt(k), SoloRowsAt(k), SoloCopiesAt(k),
           SoloTasksAt(k), SoloScansAt(k), SoloExec(exec[Serve])', SoloSends', SoloProposals'
    PROVE  SoloInv'
<1>0. /\ queue[Serve] \in Seq(Copy) /\ queue'[Serve] \in Seq(Copy)
      /\ Actions \subseteq Ids
  BY DEF TypeInv, TypeOK, QueueOK, Apps, Ids
<1>1. ASSUME NEW a \in Actions
      PROVE  SoloRow(a)'
  <2>1. CASE a # k /\ (FollowedUp(a)' => FollowedUp(a)) /\ (Undone(a)' => Undone(a))
    <3>1. SoloRow(a) /\ rows'[a] = rows[a] /\ handed'[a] = handed[a]
      BY <1>0, <2>1 DEF SoloInv, RowsAt
    <3> QED  BY <2>1, <3>1 DEF SoloRow, Exists
  <2> QED  BY <2>1 DEF SoloRowsAt
<1>2. ASSUME NEW i \in 1..Len(queue'[Serve])
      PROVE  SoloCopy(queue[Serve][i])'
  <2>1. ASSUME NEW j \in 1..Len(queue[Serve]),
               queue'[Serve][i] = queue[Serve][j], queue[Serve][j].id # k
        PROVE  SoloCopy(queue[Serve][i])'
    <3>1. queue[Serve][j] \in Copy /\ SoloCopy(queue[Serve][j])
      BY <1>0 DEF SoloInv
    <3>2. /\ rows'[queue[Serve][j].id] = rows[queue[Serve][j].id]
          /\ handed'[queue[Serve][j].id] = handed[queue[Serve][j].id]
      BY <2>1, <3>1 DEF RowsAt, Copy
    <3> QED  BY <2>1, <3>1, <3>2 DEF SoloCopy, Exists
  <2> QED  BY <2>1 DEF SoloCopiesAt
<1>3. ASSUME NEW p \in Handlers
      PROVE  SoloTask(task[p])'
  <2>1. CASE task'[p] = task[p] /\ task[p].id # k
    <3>1. SoloTask(task[p]) /\ (task[p].pc \in ProposingPc \cup RevertingPc => task[p].id \in Ids)
      BY DEF SoloInv, TypeInv, TaskShapes, TaskShape
    <3>2. task[p].pc \in ProposingPc \cup RevertingPc =>
             /\ rows'[task[p].id] = rows[task[p].id]
             /\ handed'[task[p].id] = handed[task[p].id]
      BY <2>1, <3>1 DEF RowsAt
    <3> QED  BY <2>1, <3>1, <3>2 DEF SoloTask, Exists, ProposingPc, RevertingPc
  <2>2. CASE task'[p].pc \notin ProposingPc \cup RevertingPc
    BY <2>2 DEF SoloTask, RevertingPc
  <2> QED  BY <2>1, <2>2 DEF SoloTasksAt
<1>4. ASSUME NEW e \in Evals, NEW c \in scan'[e]
      PROVE  SoloScan(c)'
  <2>1. CASE c \in scan[e] /\ c.id # k /\ Reset(c.id) # k
    <3>1. SoloScan(c) /\ Type(c.id) = "backoff_increase" /\ c.id \in Ids
      BY <2>1 DEF SoloInv, TypeInv, TypeOK, RecoveryOK, ScanShapes, Copy
    <3>2. c.id \in Actions /\ Reset(c.id) \in Ids
      BY <3>1, FollowUpNames
    <3>3. rows'[c.id] = rows[c.id] /\ rows'[Reset(c.id)] = rows[Reset(c.id)]
      BY <2>1, <3>1, <3>2 DEF RowsAt
    <3> QED  BY <3>1, <3>3 DEF SoloScan, Open
  <2> QED  BY <2>1 DEF SoloScansAt
<1>5. /\ \A i \in 1..Len(queue'[Serve]) : SoloCopy(queue[Serve][i])'
      /\ \A a \in Actions : SoloRow(a)'
      /\ \A p \in Handlers : SoloTask(task[p])'
      /\ \A e \in Evals : \A c \in scan'[e] : SoloScan(c)'
  BY <1>1, <1>2, <1>3, <1>4
<1> QED  BY <1>5 DEF SoloInv

FollowUpsKept == \A a \in Actions : /\ FollowedUp(a)' => FollowedUp(a)
                                    /\ Undone(a)' => Undone(a)

LEMMA SoloFollowUps ==
    ASSUME TypeInv, NEW k, k \in Actions \/ k \notin Ids \/ Exists(k), RowsAt(k)
    PROVE  FollowUpsKept
<1>1. ASSUME NEW id \in Ids, id \notin Actions, Exists(id)'
      PROVE  Exists(id)
  BY <1>1 DEF RowsAt, Exists
<1> QED  BY <1>1, FollowUpNames DEF FollowUpsKept, FollowedUp, Undone

(* Who may be at work on an action of which the table says it is not over. *)
LEMMA SoloPlace ==
    ASSUME TypeInv, SoloInv, Unattended, NEW k \in Actions, ~Over(rows[k])
    PROVE  /\ ~FollowedUp(k) /\ ~Undone(k)
           /\ \A p \in Handlers : task[p].pc \in RevertingPc => task[p].id # k
           /\ \A e \in Evals : \A c \in scan[e] : c.id # k /\ Reset(c.id) # k
           /\ handed[k] > 0 => \A p \in Handlers : Proposing(p) => task[p].id # k
           /\ handed[k] = 0 => /\ ~Queued(k)
                               /\ exec[Serve].pc # "idle" => exec[Serve].id # k
           /\ ~Exists(k) => handed[k] = 0
<1>1. SoloRow(k) /\ handed[k] \in Nat
  BY DEF SoloInv, TypeInv, TypeOK, HistoryOK, Ids
<1>2. ASSUME NEW e \in Evals, NEW c \in scan[e]
      PROVE  c.id # k /\ Reset(c.id) # k
  <2>1. SoloScan(c) /\ Type(c.id) = "backoff_increase" /\ c.id \in Ids
    BY DEF SoloInv, TypeInv, TypeOK, RecoveryOK, ScanShapes, Copy
  <2> QED  BY <2>1, FollowUpNames DEF SoloScan
<1>3. handed[k] = 0 => ~Queued(k)
  BY DEF SoloInv, SoloCopy, Queued
<1>4. handed[k] = 0 => (exec[Serve].pc # "idle" => exec[Serve].id # k)
  BY DEF SoloInv, SoloExec
<1>5. \A p \in Handlers : /\ task[p].pc \in RevertingPc => task[p].id # k
                          /\ handed[k] > 0 /\ Proposing(p) => task[p].id # k
  BY DEF SoloInv, SoloTask, Proposing
<1> QED  BY <1>1, <1>2, <1>3, <1>4, <1>5 DEF SoloRow

(* The row of an action that is not over is written. *)
LEMMA SoloWork ==
    ASSUME TypeInv, SoloInv, Unattended, NEW k \in Actions, ~Over(rows[k]), RowsAt(k),
           Exists(k)', Over(rows[k])' \/ ~Succeeded(rows[k])'
    PROVE  FollowUpsKept /\ SoloRowsAt(k) /\ (UNCHANGED scan => SoloScansAt(k))
<1>1. FollowUpsKept
  BY SoloFollowUps
<1>2. ~FollowedUp(k) /\ ~Undone(k)
  BY SoloPlace
<1>3. SoloRow(k)'
  BY <1>1, <1>2 DEF SoloRow, FollowUpsKept, Over, Succeeded
<1>4. SoloRowsAt(k)
  BY <1>1, <1>3 DEF SoloRowsAt, FollowUpsKept
<1>5. UNCHANGED scan => SoloScansAt(k)
  BY SoloPlace DEF SoloScansAt
<1> QED  BY <1>1, <1>4, <1>5

LEMMA SoloStill ==
    ASSUME TypeInv, SoloInv, Unattended, UNCHANGED <<rows, handed>>
    PROVE  /\ FollowUpsKept
           /\ \A k : /\ RowsAt(k) /\ SoloRowsAt(k)
                     /\ UNCHANGED scan => SoloScansAt(k)
<1>1. \A k : RowsAt(k)
  BY DEF RowsAt
<1>2. FollowUpsKept
  BY <1>1, SoloFollowUps, PlaneAssumption
<1>3. ASSUME NEW a \in Actions
      PROVE  SoloRow(a)'
  <2>1. SoloRow(a)
    BY DEF SoloInv
  <2> QED  BY <1>2, <2>1 DEF SoloRow, Exists, FollowUpsKept
<1>4. ASSUME NEW e \in Evals, NEW c \in scan[e]
      PROVE  SoloScan(c)'
  <2>1. SoloScan(c)
    BY DEF SoloInv
  <2> QED  BY <2>1 DEF SoloScan, Open
<1>5. \A k : SoloRowsAt(k) /\ (UNCHANGED scan => SoloScansAt(k))
  BY <1>3, <1>4 DEF SoloRowsAt, SoloScansAt
<1> QED  BY <1>1, <1>2, <1>5

LEMMA SoloQueueKept ==
    ASSUME TypeInv, SoloInv, Unattended, UNCHANGED queue, NEW k, ~Queued(k)
    PROVE  SoloCopiesAt(k) /\ SoloSends'
  BY DEF SoloCopiesAt, Queued, SoloInv, SoloSends

LEMMA SoloTasksKept ==
    ASSUME TypeInv, SoloInv, Unattended, UNCHANGED task, NEW k,
           \A p \in Handlers : task[p].pc \in ProposingPc \cup RevertingPc => task[p].id # k
    PROVE  SoloTasksAt(k) /\ SoloProposals'
  BY DEF SoloTasksAt, SoloInv, SoloProposals, Proposing

(* A handler p that is at work on k goes on; it proposes k only if it did so before. *)
LEMMA SoloTaskMoves ==
    ASSUME TypeInv, SoloInv, Unattended, NEW k, NEW p \in Handlers,
           \A q \in Handlers \ {p} : task'[q] = task[q],
           \A q \in Handlers \ {p} : 
              task[q].pc \in ProposingPc \cup RevertingPc => task[q].id # k,
           \/ task'[p].pc \notin ProposingPc \cup RevertingPc
           \/ SoloTask(task[p])' /\ (task'[p].pc \in ProposingPc => task'[p].id = k)
    PROVE  SoloTasksAt(k) /\ SoloProposals'
<1>1. SoloTasksAt(k)
  BY DEF SoloTasksAt
<1>2. ASSUME NEW q \in Handlers, NEW r \in Handlers, Proposing(q)', Proposing(r)',
             task'[q].id = task'[r].id
      PROVE  q = r
  BY <1>2 DEF SoloInv, SoloProposals, Proposing
<1> QED  BY <1>1, <1>2 DEF SoloProposals

LEMMA SoloExecKept ==
    ASSUME TypeInv, SoloInv, Unattended, NEW k, RowsAt(k), exec'[Serve] = exec[Serve],
           exec[Serve].pc # "idle" => exec[Serve].id # k,
           \A a \in Actions : FollowedUp(a)' => FollowedUp(a),
           \A i \in 1..Len(queue'[Serve]) :
              \/ \E j \in 1..Len(queue[Serve]) : queue'[Serve][i] = queue[Serve][j]
              \/ queue'[Serve][i].id = k
    PROVE  SoloExec(exec[Serve])'
<1> DEFINE x == exec[Serve]
<1>1. SoloExec(x) /\ (x.pc # "idle" => x.id \in Ids)
  BY DEF SoloInv, TypeInv, ExecShapes, ExecShape, Apps
<1>2. x.pc # "idle" => rows'[x.id] = rows[x.id] /\ handed'[x.id] = handed[x.id]
  BY <1>1 DEF RowsAt
<1>3. x.pc # "idle" /\ ~Queued(x.id) => ~Queued(x.id)'
  BY DEF Queued
<1>4. x' = x
  OBVIOUS
<1> HIDE DEF x
<1>5. SoloExec(x)'
  BY <1>1, <1>2, <1>3, <1>4 DEF SoloExec, Exists
<1> QED  BY <1>5 DEF x

LEMMA SoloSent ==
    ASSUME TypeInv, SoloInv, Unattended, NEW k, NEW row, Send(Serve, k, row),
           Queued(k) => k \notin Actions,
           Exists(k)', ~Succeeded(row), k \in Actions => rows'[k].life = "pending",
           k \in Ids
    PROVE  /\ SoloCopiesAt(k) /\ SoloSends'
           /\ \A id \in Ids : id # k => handed'[id] = handed[id]
           /\ \A i \in 1..Len(queue'[Serve]) :
                 \/ \E j \in 1..Len(queue[Serve]) : queue'[Serve][i] = queue[Serve][j]
                 \/ queue'[Serve][i].id = k
<1> DEFINE c == [id |-> k, row |-> row]
<1>0. /\ Serve \in Apps /\ queue \in [Apps -> Seq(Copy)] /\ queue[Serve] \in Seq(Copy)
      /\ handed \in [Ids -> Nat]
  BY DEF Apps, TypeInv, TypeOK, QueueOK, HistoryOK
<1>1. ASSUME NEW d, d.id = k, ~Succeeded(d.row),
             k \in Actions => handed'[k] > 0
      PROVE  SoloCopy(d)'
  BY <1>1 DEF SoloCopy, Exists
<1>2. ASSUME NEW i \in 1..Len(queue'[Serve]), NEW j \in 1..Len(queue[Serve]),
             queue'[Serve][i] = queue[Serve][j], queue[Serve][j].id = k
      PROVE  SoloCopy(queue[Serve][i])'
  <2>1. SoloCopy(queue[Serve][j]) /\ k \notin Actions
    BY <1>2 DEF SoloInv, Queued
  <2>2. queue'[Serve][i].id = k /\ ~Succeeded(queue'[Serve][i].row)
    BY <1>2, <2>1 DEF SoloCopy
  <2> QED  BY <2>1, <2>2 DEF SoloCopy, Exists
<1>3. CASE HasRoom(Serve)
  <2>1. /\ queue' = [queue EXCEPT ![Serve] = Append(queue[Serve], c)]
        /\ handed' = [handed EXCEPT ![k] = handed[k] + 1]
    BY <1>3 DEF Send
  <2>2. /\ queue'[Serve] = Append(queue[Serve], c) /\ handed'[k] > 0
        /\ \A id \in Ids : id # k => handed'[id] = handed[id]
    <3>1. queue'[Serve] = Append(queue[Serve], c)
      BY <1>0, <2>1
    <3>2. \A id \in Ids : id # k => handed'[id] = handed[id]
      BY <1>0, <2>1
    <3>3. handed[k] \in Nat /\ handed'[k] = handed[k] + 1
      BY <1>0, <2>1
    <3> QED  BY <3>1, <3>2, <3>3
  <2>3. \A i \in 1..Len(queue'[Serve]) :
          \/ i \in 1..Len(queue[Serve]) /\ queue'[Serve][i] = queue[Serve][i]
          \/ i = Len(queue[Serve]) + 1 /\ queue'[Serve][i] = c
    BY <1>0, <2>2
  <2>4. SoloCopy(c)'
    BY <2>2 DEF SoloCopy, Exists
  <2>5. SoloCopiesAt(k)
    <3> HIDE DEF c
    <3> QED  BY <1>2, <2>3, <2>4 DEF SoloCopiesAt
  <2>6. SoloSends'
    <3>1. c.id = k
      OBVIOUS
    <3> HIDE DEF c
    <3>2. \A i, j \in 1..Len(queue[Serve]) :
            queue[Serve][i].id \in Actions /\ queue[Serve][i].id = queue[Serve][j].id => i = j
      BY DEF SoloInv, SoloSends
    <3>3. k \in Actions => \A i \in 1..Len(queue[Serve]) : queue[Serve][i].id # k
      BY DEF Queued
    <3> QED  BY <2>3, <3>1, <3>2, <3>3 DEF SoloSends
  <2> QED  BY <2>2, <2>3, <2>5, <2>6
<1>4. CASE ~HasRoom(Serve)
  <2>1. UNCHANGED <<queue, handed>>
    BY <1>4 DEF Send
  <2>2. SoloCopiesAt(k)
    BY <1>2, <2>1 DEF SoloCopiesAt
  <2> QED  BY <2>1, <2>2 DEF SoloInv, SoloSends
<1> QED  BY <1>3, <1>4

LEMMA SoloTaken ==
    ASSUME TypeInv, SoloInv, Unattended, Take(Serve)
    PROVE  LET c == Head(queue[Serve])
           IN /\ SoloCopiesAt(NoId) /\ SoloSends' /\ c \in Copy /\ SoloCopy(c)
              /\ \A k : (k \in Actions /\ k = c.id) \/ ~Queued(k) => ~Queued(k)'
<1> DEFINE c == Head(queue[Serve])
<1>1. queue[Serve] \in Seq(Copy) /\ queue[Serve] # <<>> /\ queue'[Serve] = Tail(queue[Serve])
  BY DEF TypeInv, TypeOK, QueueOK, Apps, Take
<1>2. ASSUME NEW i \in 1..Len(queue'[Serve])
      PROVE  /\ i + 1 \in 1..Len(queue[Serve]) /\ queue'[Serve][i] = queue[Serve][i + 1]
             /\ i \in Nat /\ i + 1 # 1
             /\ queue[Serve][i + 1].id # NoId
  <2>1. /\ i + 1 \in 1..Len(queue[Serve]) /\ queue'[Serve][i] = queue[Serve][i + 1]
        /\ i \in Nat /\ i + 1 # 1
    BY <1>1, <1>2
  <2>2. queue[Serve][i + 1] \in Copy
    BY <1>1, <2>1
  <2> QED  BY <2>1, <2>2, PlaneAssumption DEF Copy
<1>3. 1 \in 1..Len(queue[Serve]) /\ queue[Serve][1] = c /\ c \in Copy
  BY <1>1
<1>4. SoloCopiesAt(NoId)
  BY <1>2 DEF SoloCopiesAt
<1>5. SoloSends'
  <2>1. ASSUME NEW i \in 1..Len(queue'[Serve]), NEW j \in 1..Len(queue'[Serve]),
               queue'[Serve][i].id \in Actions, queue'[Serve][i].id = queue'[Serve][j].id
        PROVE  i = j
    <3>1. i + 1 = j + 1
      BY <1>2, <2>1 DEF SoloInv, SoloSends
    <3> QED  BY <1>2, <3>1
  <2> QED  BY <2>1 DEF SoloSends
<1>6. SoloCopy(c)
  BY <1>3 DEF SoloInv
<1>7. \A k \in Actions : k = c.id => ~Queued(k)'
  <2>1. SoloSends
    BY DEF SoloInv
  <2>2. ASSUME c.id \in Actions, NEW i \in 1..Len(queue'[Serve]), queue'[Serve][i].id = c.id
        PROVE  FALSE
    <3>1. /\ i + 1 \in 1..Len(queue[Serve]) /\ i + 1 # 1
          /\ queue[Serve][i + 1].id = queue[Serve][1].id /\ queue[Serve][1].id \in Actions
      BY <1>2, <1>3, <2>2
    <3> QED  BY <1>3, <2>1, <3>1 DEF SoloSends
  <2> QED  BY <2>2 DEF Queued
<1>8. \A k : ~Queued(k) => ~Queued(k)'
  BY <1>2 DEF Queued
<1> QED  BY <1>3, <1>4, <1>5, <1>6, <1>7, <1>8

LEMMA SoloWrote ==
    ASSUME TypeInv, NEW k \in Ids, NEW row, Write(k, row),
           \A id \in Ids : id # k => handed'[id] = handed[id]
    PROVE  RowsAt(k) /\ rows'[k] = row
  BY DEF TypeInv, TypeOK, StoreOK, Write, RowsAt

(* What an idle or a busy handler is at work on. *)
LEMMA SoloBusy ==
    ASSUME TypeInv, NEW p \in Handlers
    PROVE  /\ task[p].pc \in ProposingPc \cup RevertingPc => task[p].id \in Ids
           /\ task[p].pc \in RevertingPc => task[p].id \in Actions
           /\ task[p].row \in Row
  BY FollowUpNames DEF TypeInv, TypeOK, TaskOK, TaskState, TaskShapes, TaskShape

LEMMA SoloEvaluator ==
    ASSUME TypeInv, TypeInv', SoloInv, Unattended, ~Fault, NEW e \in Evals, Evaluate(e)
    PROVE  SoloInv'
<1>0. /\ e \in Handlers /\ Serve \in Apps
      /\ task \in [Handlers -> TaskState] /\ scan \in [Evals -> SUBSET Copy]
  BY DEF Handlers, Apps, TypeInv, TypeOK, TaskOK, RecoveryOK
<1>1. UNCHANGED exec /\ \A p \in Handlers : NoId # task[p].id \/ task[p].pc \notin ProposingPc \cup RevertingPc
  BY SoloBusy, PlaneAssumption DEF Evaluate, ProposeDenied, Propose, ScanExpired, RevertSeen,
     CloseReverted, IssueReset, EndEvaluation
<1>2. exec[Serve].pc # "idle" => exec[Serve].id \in Ids
  BY <1>0 DEF TypeInv, ExecShapes, ExecShape
<1>3. NoId \notin Ids /\ NoId \notin Actions /\ Actions \subseteq Ids
  BY PlaneAssumption DEF Ids
<1>4. ~Queued(NoId)
  <2>1. queue[Serve] \in Seq(Copy)
    BY <1>0 DEF TypeInv, TypeOK, QueueOK
  <2>2. \A i \in 1..Len(queue[Serve]) : queue[Serve][i] \in Copy
    BY <2>1
  <2> QED  BY <1>3, <2>2 DEF Queued, Copy
<1>5. ASSUME UNCHANGED <<rows, handed, queue>>
      PROVE  /\ \A k : RowsAt(k) /\ SoloRowsAt(k) /\ (UNCHANGED scan => SoloScansAt(k))
             /\ SoloCopiesAt(NoId) /\ SoloSends' /\ SoloExec(exec[Serve])'
  <2>1. /\ \A k : RowsAt(k) /\ SoloRowsAt(k) /\ (UNCHANGED scan => SoloScansAt(k))
        /\ FollowUpsKept
    BY <1>5, SoloStill
  <2>2. SoloCopiesAt(NoId) /\ SoloSends'
    BY <1>4, <1>5, SoloQueueKept
  <2>3. SoloExec(exec[Serve])'
    <3>1. /\ RowsAt(NoId) /\ exec'[Serve] = exec[Serve]
          /\ exec[Serve].pc # "idle" => exec[Serve].id # NoId
          /\ \A a \in Actions : FollowedUp(a)' => FollowedUp(a)
      BY <1>1, <1>2, <1>3, <2>1 DEF FollowUpsKept
    <3>2. \A i \in 1..Len(queue'[Serve]) :
             \E j \in 1..Len(queue[Serve]) : queue'[Serve][i] = queue[Serve][j]
      BY <1>5
    <3> QED  BY <3>1, <3>2, SoloExecKept
  <2> QED  BY <2>1, <2>2, <2>3
<1>6. ASSUME NEW pc \in {"idle", "scan"}, TaskStep(e, pc)
      PROVE  SoloTasksAt(NoId) /\ SoloProposals'
  BY <1>0, <1>1, <1>6, TaskSteps, SoloTaskMoves DEF ProposingPc, RevertingPc
<1>7. CASE ProposeDenied(e)
  <2> DEFINE row == Closed(NewRow("system"), "denied_by_policy", "")
  <2>1. PICK a \in Actions : Fresh(a) /\ Write(a, row)
    BY <1>7, PlaneAssumption DEF ProposeDenied, WriteOrLose
  <2>2. UNCHANGED <<queue, task, scan, handed>>
    BY <1>7 DEF ProposeDenied
  <2>3. ~Exists(a) /\ ~Over(rows[a]) /\ \A p \in Handlers : task[p].id # a
    BY <2>1 DEF Fresh, Exists, Over
  <2>4. row.life = "completed"
    BY DEF Closed, NewRow, NoRow
  <2> HIDE DEF row
  <2>5. RowsAt(a) /\ rows'[a] = row
    BY <1>3, <2>1, <2>2, SoloWrote
  <2>6. FollowUpsKept /\ SoloRowsAt(a) /\ SoloScansAt(a)
    BY <2>2, <2>3, <2>4, <2>5, SoloWork DEF Exists, Over
  <2>7. ~Queued(a) /\ (exec[Serve].pc # "idle" => exec[Serve].id # a)
    BY <2>3, SoloPlace
  <2>8. SoloCopiesAt(a) /\ SoloSends' /\ SoloTasksAt(a) /\ SoloProposals'
    BY <2>2, <2>3, <2>7, SoloQueueKept, SoloTasksKept
  <2>9. SoloExec(exec[Serve])'
    BY <1>1, <2>2, <2>5, <2>6, <2>7, SoloExecKept DEF FollowUpsKept
  <2> QED  BY <2>5, <2>6, <2>8, <2>9, SoloFrame
<1>8. CASE Propose(e)
  <2>1. PICK a \in Actions :
          /\ Fresh(a)
          /\ task' = [task EXCEPT ![e] = [TaskIdle EXCEPT !.pc = "freeze", !.op = "propose",
                                           !.id = a, !.row = NewRow("system")]]
    BY <1>8, PlaneAssumption DEF Propose
  <2>2. UNCHANGED <<rows, queue, scan, handed>>
    BY <1>8 DEF Propose
  <2>3. ~Exists(a) /\ ~Over(rows[a]) /\ \A p \in Handlers : task[p].id # a
    BY <2>1 DEF Fresh, Exists, Over
  <2>4. ~Queued(a) /\ handed[a] = 0
    BY <2>3, SoloPlace
  <2>5. /\ task'[e].pc = "freeze" /\ task'[e].id = a /\ task'[e].row = NewRow("system")
        /\ \A q \in Handlers \ {e} : task'[q] = task[q]
    BY <1>0, <2>1 DEF TaskIdle
  <2>6. SoloTask(task[e])'
    BY <2>2, <2>3, <2>4, <2>5 DEF SoloTask, Exists, Succeeded, NewRow, NoRow, RevertingPc
  <2>7. SoloTasksAt(a) /\ SoloProposals'
    BY <1>0, <2>3, <2>5, <2>6, SoloTaskMoves
  <2>8. SoloCopiesAt(a)
    BY <2>2, <2>4, SoloQueueKept
  <2> QED  BY <1>5, <2>2, <2>7, <2>8, SoloFrame
<1>9. CASE ScanExpired(e)
  <2>1. PICK quiet \in SUBSET {id \in lapsed : RevertDue(id, rows[id])} :
          scan' = [scan EXCEPT ![e] = {[id |-> id, row |-> rows[id]] : id \in quiet}]
    BY <1>9 DEF ScanExpired
  <2>2. UNCHANGED <<rows, queue, handed>> /\ TaskStep(e, "scan")
    BY <1>9 DEF ScanExpired
  <2>3. ASSUME NEW id \in quiet
        PROVE  Over(rows[id]) /\ Open(Reset(id))
    <3>1. RevertDue(id, rows[id]) /\ id \in Ids
      BY DEF TypeInv, TypeOK, StoreOK
    <3>2. id \in Actions /\ TypeOf[id] = "backoff_increase"
      BY <3>1, FollowUpNames DEF RevertDue
    <3>3. SoloRow(id)
      BY <3>2 DEF SoloInv
    <3> QED  BY <3>1, <3>2, <3>3 DEF SoloRow, Succeeded, RevertDue, Open, Undone, Exists
  <2>4. SoloScansAt(NoId)
    <3>1. ASSUME NEW c \in scan'[e]
          PROVE  SoloScan(c)'
      <4>1. PICK id \in quiet : c = [id |-> id, row |-> rows[id]]
        BY <1>0, <2>1, <3>1
      <4> QED  BY <2>2, <2>3, <4>1 DEF SoloScan, Open
    <3>2. ASSUME NEW f \in Evals, f # e, NEW c \in scan'[f]
          PROVE  SoloScan(c)'
      <4>1. c \in scan[f]
        BY <1>0, <2>1, <3>2
      <4>2. SoloScan(c)
        BY <4>1 DEF SoloInv
      <4> QED  BY <2>2, <4>2 DEF SoloScan, Open
    <3> QED  BY <3>1, <3>2 DEF SoloScansAt
  <2> QED  BY <1>5, <1>6, <2>2, <2>4, SoloFrame
<1>10. CASE RevertSeen(e)
  <2>1. PICK c \in scan[e] :
          /\ scan' = [scan EXCEPT ![e] = scan[e] \ {c}]
          /\ \/ UNCHANGED task
             \/ task' = [task EXCEPT ![e].pc = "close", ![e].op = "revert",
                                     ![e].id = c.id, ![e].row = c.row]
    BY <1>10 DEF RevertSeen
  <2>2. UNCHANGED <<rows, queue, handed>>
    BY <1>10 DEF RevertSeen
  <2>3. SoloScan(c)
    BY DEF SoloInv
  <2>4. SoloTasksAt(NoId) /\ SoloProposals'
    <3>1. CASE UNCHANGED task
      BY <1>1, <3>1, SoloTasksKept
    <3>2. CASE task' = [task EXCEPT ![e].pc = "close", ![e].op = "revert",
                                    ![e].id = c.id, ![e].row = c.row]
      <4>1. /\ task'[e].pc = "close" /\ task'[e].id = c.id /\ task'[e].row = c.row
            /\ \A q \in Handlers \ {e} : task'[q] = task[q]
        BY <1>0, <3>2 DEF TaskState
      <4>2. SoloTask(task[e])'
        BY <2>2, <2>3, <4>1 DEF SoloTask, SoloScan, ProposingPc
      <4> QED  BY <1>0, <1>1, <4>1, <4>2, SoloTaskMoves DEF ProposingPc
    <3> QED  BY <2>1, <3>1, <3>2
  <2>5. SoloScansAt(NoId)
    <3>1. ASSUME NEW f \in Evals, NEW d \in scan'[f]
          PROVE  SoloScan(d)'
      <4>1. d \in scan[f]
        BY <1>0, <2>1, <3>1
      <4>2. SoloScan(d)
        BY <4>1 DEF SoloInv
      <4> QED  BY <2>2, <4>2 DEF SoloScan, Open
    <3> QED  BY <3>1 DEF SoloScansAt
  <2> QED  BY <1>5, <2>2, <2>4, <2>5, SoloFrame
<1>11. CASE EndEvaluation(e)
  <2>1. UNCHANGED <<rows, queue, handed, scan>> /\ TaskStep(e, "idle")
    BY <1>11 DEF EndEvaluation
  <2> QED  BY <1>5, <1>6, <2>1, SoloFrame
<1>12. CASE CloseReverted(e)
  <2> PICK k : k = task[e].id
    OBVIOUS
  <2> DEFINE row == [task[e].row EXCEPT !.closure = "expired_and_reverted"]
  <2>1. /\ task[e].pc = "close" /\ Write(k, row) /\ TaskStep(e, "follow")
        /\ UNCHANGED <<queue, scan, handed>>
    BY <1>12 DEF CloseReverted, WriteOrLose
  <2>2. /\ k \in Actions /\ k \in Ids /\ Type(k) = "backoff_increase"
        /\ task[e].row \in Row /\ Over(task[e].row) /\ Over(rows[k])
    BY <1>0, <1>3, <2>1, SoloBusy DEF SoloInv, SoloTask, RevertingPc, TypeInv, TaskShapes, TaskShape
  <2>3. Over(row) /\ row.closure = "expired_and_reverted"
    BY <2>2 DEF Over, Row
  <2>4. k \in Ids /\ RowsAt(k) /\ rows'[k] = row
    <3> HIDE DEF row
    <3> QED  BY <2>1, <2>2, SoloWrote
  <2>5. /\ task'[e].pc = "follow" /\ task'[e].id = k
        /\ \A q \in Handlers \ {e} : task'[q] = task[q]
    BY <1>0, <2>1, TaskSteps
  <2> HIDE DEF row
  <2>6. FollowUpsKept
    BY <2>2, <2>4, SoloFollowUps
  <2>7. SoloRowsAt(k)
    <3>1. SoloRow(k)'
      BY <2>3, <2>4 DEF SoloRow, Exists, Over
    <3> QED  BY <2>6, <3>1 DEF SoloRowsAt, FollowUpsKept
  <2>8. ~Queued(k) /\ (exec[Serve].pc # "idle" => exec[Serve].id # k)
    <3>1. ~Queued(k)
      BY <2>2 DEF SoloInv, SoloCopy, Queued, Over
    <3>2. TypeOf[k] # "restart_transport"
      BY <2>2, FollowUpNames
    <3>3. exec[Serve].pc \in {"followup", "persist"} => Type(exec[Serve].id) = "restart_transport"
      BY <1>0 DEF TypeInv, ExecShapes, ExecShape
    <3>4. exec[Serve].pc \in ExecPc
      BY <1>0 DEF TypeInv, TypeOK, ExecOK, ExecState
    <3> QED  BY <2>2, <3>1, <3>2, <3>3, <3>4, FollowUpNames DEF SoloInv, SoloExec, Over, ExecPc
  <2>9. SoloCopiesAt(k) /\ SoloSends'
    BY <2>1, <2>8, SoloQueueKept
  <2>10. SoloExec(exec[Serve])'
    BY <1>1, <2>1, <2>4, <2>6, <2>8, SoloExecKept DEF FollowUpsKept
  <2>11. ASSUME NEW q \in Handlers
         PROVE  \/ task'[q] = task[q] /\ task[q].id # k
                \/ task'[q].pc \notin ProposingPc \cup RevertingPc
                \/ SoloTask(task[q])'
    <3>1. CASE task'[q].pc \in RevertingPc /\ task'[q].id = k
      <4>1. task'[q].pc = "close" => Over(task'[q].row)
        BY <2>5, <3>1 DEF SoloInv, SoloTask
      <4> QED  BY <2>3, <2>4, <3>1, <4>1 DEF SoloTask, ProposingPc, RevertingPc, Over
    <3>2. CASE task'[q].pc \in ProposingPc /\ task'[q].id = k
      <4>1. q # e
        BY <2>5, <3>2 DEF ProposingPc
      <4>2. SoloTask(task[q]) /\ task[q].pc \in ProposingPc /\ task[q].id = k
        BY <2>5, <3>2, <4>1 DEF SoloInv
      <4> QED  BY <2>2, <4>2 DEF SoloTask, Over, Exists
    <3> QED  BY <2>5, <3>1, <3>2
  <2>12. SoloProposals'
    BY <2>5 DEF SoloInv, SoloProposals, Proposing, ProposingPc
  <2>13. ASSUME NEW f \in Evals, NEW c \in scan'[f], c.id = k
         PROVE  SoloScan(c)'
    <3>1. SoloScan(c) /\ Reset(k) \in Ids /\ Reset(k) # k
      BY <2>1, <2>2, <2>13, FollowUpNames DEF SoloInv
    <3>2. rows'[Reset(k)] = rows[Reset(k)]
      BY <2>4, <3>1 DEF RowsAt
    <3> QED  BY <2>3, <2>4, <2>13, <3>1, <3>2 DEF SoloScan, Open
  <2>14. ASSUME NEW f \in Evals, NEW c \in scan[f]
         PROVE  Reset(c.id) # k
    <3>1. Type(c.id) = "backoff_increase" /\ c.id \in Ids
      BY DEF TypeInv, TypeOK, RecoveryOK, ScanShapes, Copy
    <3> QED  BY <2>2, <3>1, FollowUpNames
  <2>15. SoloScansAt(k) /\ SoloTasksAt(k)
    BY <2>1, <2>11, <2>13, <2>14 DEF SoloScansAt, SoloTasksAt
  <2> QED  BY <2>4, <2>7, <2>9, <2>10, <2>12, <2>15, SoloFrame
<1>13. CASE IssueReset(e)
  <2> PICK a, k : a = task[e].id /\ k = Reset(a)
    OBVIOUS
  <2> DEFINE row == NewRow("system")
  <2>1. /\ task[e].pc = "follow" /\ Write(k, row) /\ Send(Serve, k, row)
        /\ task' = [task EXCEPT ![e] = [TaskIdle EXCEPT !.pc = "scan"]]
        /\ UNCHANGED scan
    BY <1>13 DEF IssueReset, WriteOrLose
  <2>2. /\ a \in Actions /\ TypeOf[a] = "backoff_increase" /\ Over(rows[a])
        /\ rows[a].closure = "expired_and_reverted"
    BY <1>0, <2>1, SoloBusy, FollowUpNames DEF SoloInv, SoloTask, RevertingPc, TypeInv, TaskShapes,
       TaskShape
  <2>3. k \in Ids /\ k \notin Actions /\ a # k
    BY <2>2, FollowUpNames
  <2>4. row.life = "pending" /\ ~Succeeded(row)
    BY DEF NewRow, NoRow, Succeeded
  <2>5. /\ task'[e].pc = "scan"
        /\ \A q \in Handlers \ {e} : task'[q] = task[q]
    BY <1>0, <2>1 DEF TaskIdle
  <2>6. \A b \in Actions : HealthRecheck(b) # k /\ (Reset(b) = k => b = a)
    BY FollowUpNames
  <2>7. rows'[k] = row
    BY <2>1, <2>3 DEF Write, TypeInv, TypeOK, StoreOK
  <2> HIDE DEF row
  <2>8. Exists(k)'
    BY <2>4, <2>7 DEF Exists
  <2>9. /\ SoloCopiesAt(k) /\ SoloSends'
        /\ \A id \in Ids : id # k => handed'[id] = handed[id]
        /\ \A i \in 1..Len(queue'[Serve]) :
                 \/ \E j \in 1..Len(queue[Serve]) : queue'[Serve][i] = queue[Serve][j]
                 \/ queue'[Serve][i].id = k
    BY <2>1, <2>3, <2>4, <2>8, SoloSent
  <2>10. RowsAt(k)
    BY <2>1, <2>3, <2>9, SoloWrote
  <2>11. \A b \in Actions : /\ FollowedUp(b)' => FollowedUp(b)
                            /\ b # a => (Undone(b)' => Undone(b))
    BY <2>6, <2>10, FollowUpNames DEF FollowedUp, Undone, Exists, RowsAt
  <2>12. SoloRowsAt(k)
    <3>1. rows'[a] = rows[a] /\ handed'[a] = handed[a] /\ SoloRow(a)
      BY <1>3, <2>2, <2>3, <2>10 DEF RowsAt, SoloInv
    <3>2. SoloRow(a)'
      BY <2>2, <2>11, <3>1 DEF SoloRow, Exists
    <3> QED  BY <2>3, <2>11, <3>2 DEF SoloRowsAt
  <2>13. ASSUME NEW q \in Handlers, task[q].pc \in ProposingPc \cup RevertingPc
         PROVE  task[q].id # k
    BY <2>3, <2>13, SoloBusy DEF SoloInv, SoloTask
  <2>14. SoloTasksAt(k) /\ SoloProposals'
    BY <1>0, <2>5, <2>13, SoloTaskMoves DEF ProposingPc, RevertingPc
  <2>15. ASSUME NEW f \in Evals, NEW c \in scan[f]
         PROVE  SoloScan(c)' \/ (c.id # k /\ Reset(c.id) # k)
    <3>1. SoloScan(c) /\ Type(c.id) = "backoff_increase" /\ c.id \in Ids
      BY DEF SoloInv, TypeInv, TypeOK, RecoveryOK, ScanShapes, Copy
    <3>2. c.id \in Actions /\ c.id # k /\ rows'[c.id] = rows[c.id]
      BY <2>3, <2>10, <3>1, FollowUpNames DEF RowsAt
    <3> QED  BY <2>4, <2>7, <3>1, <3>2 DEF SoloScan, Open
  <2>16. SoloScansAt(k)
    BY <2>1, <2>15 DEF SoloScansAt
  <2>17. SoloExec(exec[Serve])'
    <3>1. CASE exec[Serve].pc # "idle" /\ exec[Serve].id = k
      BY <1>1, <2>3, <2>8, <3>1 DEF SoloInv, SoloExec
    <3>2. CASE exec[Serve].pc # "idle" => exec[Serve].id # k
      BY <1>1, <2>9, <2>10, <2>11, <3>2, SoloExecKept
    <3> QED  BY <3>1, <3>2
  <2> QED  BY <2>9, <2>10, <2>12, <2>14, <2>16, <2>17, SoloFrame
<1> QED  BY <1>7, <1>8, <1>9, <1>10, <1>11, <1>12, <1>13 DEF Evaluate

LEMMA SoloLocal ==
    ASSUME TypeInv, SoloInv, Unattended, UNCHANGED <<rows, handed, queue>>
    PROVE  /\ FollowUpsKept /\ SoloSends'
           /\ \A k : /\ RowsAt(k) /\ SoloRowsAt(k) /\ SoloCopiesAt(k)
                     /\ UNCHANGED scan => SoloScansAt(k)
           /\ exec'[Serve] = exec[Serve] => SoloExec(exec[Serve])'
<1>1. FollowUpsKept /\ \A k : RowsAt(k) /\ SoloRowsAt(k) /\ (UNCHANGED scan => SoloScansAt(k))
  BY SoloStill
<1>2. ASSUME NEW i \in 1..Len(queue'[Serve])
      PROVE  SoloCopy(queue[Serve][i])'
  <2>1. SoloCopy(queue[Serve][i])
    BY DEF SoloInv
  <2> QED  BY <2>1 DEF SoloCopy, Exists
<1>3. SoloSends' /\ \A k : SoloCopiesAt(k)
  BY <1>2 DEF SoloInv, SoloSends, SoloCopiesAt
<1>4. ASSUME exec'[Serve] = exec[Serve]
      PROVE  SoloExec(exec[Serve])'
  <2>1. SoloExec(exec[Serve])
    BY DEF SoloInv
  <2>2. exec[Serve].pc # "idle" /\ exec[Serve].id \in Actions =>
           /\ ~FollowedUp(exec[Serve].id) => ~FollowedUp(exec[Serve].id)'
           /\ ~Queued(exec[Serve].id) => ~Queued(exec[Serve].id)'
    BY <1>1, <1>4 DEF FollowUpsKept, Queued
  <2> QED  BY <1>4, <2>1, <2>2 DEF SoloExec, Exists
<1> QED  BY <1>1, <1>3, <1>4

(* A handler that proposes k is the only one at work on it. *)
LEMMA SoloProposer ==
    ASSUME TypeInv, SoloInv, Unattended, NEW p \in Handlers, Proposing(p),
           NEW k, k = task[p].id
    PROVE  /\ k \in Actions /\ k \in Ids /\ ~Over(rows[k]) /\ handed[k] = 0 /\ ~Queued(k)
           /\ exec[Serve].pc # "idle" => exec[Serve].id # k
           /\ \A q \in Handlers \ {p} :
                 task[q].pc \in ProposingPc \cup RevertingPc => task[q].id # k
           /\ SoloTask(task[p])
<1>1. SoloTask(task[p])
  BY DEF SoloInv
<1>2. k \in Actions /\ k \in Ids /\ ~Over(rows[k]) /\ handed[k] = 0
  BY <1>1 DEF SoloTask, Proposing, Over, Exists, Ids
<1>3. \A q \in Handlers \ {p} : Proposing(q) => task[q].id # k
  BY DEF SoloInv, SoloProposals
<1> QED  BY <1>1, <1>2, <1>3, SoloPlace DEF Proposing

(* The row of a proposal is written, and perhaps sent; the proposer goes on. *)
LEMMA SoloWritten ==
    ASSUME TypeInv, TypeInv', SoloInv, Unattended, NEW p \in Handlers, Proposing(p),
           NEW k, k = task[p].id, NEW row, Write(k, row),
           row.life \in {"pending_approval", "pending", "completed"}, ~Succeeded(row) \/ Over(row),
           \/ UNCHANGED <<queue, handed>>
           \/ row.life = "pending" /\ ~Succeeded(row) /\ Send(Serve, k, row),
           UNCHANGED scan, exec'[Serve] = exec[Serve],
           \A q \in Handlers \ {p} : task'[q] = task[q],
           \/ task'[p].pc \notin ProposingPc \cup RevertingPc
           \/ SoloTask(task[p])' /\ task'[p].id = k
    PROVE  SoloInv'
<1>1. /\ k \in Actions /\ k \in Ids /\ ~Over(rows[k]) /\ ~Queued(k)
      /\ exec[Serve].pc # "idle" => exec[Serve].id # k
      /\ \A q \in Handlers \ {p} :
            task[q].pc \in ProposingPc \cup RevertingPc => task[q].id # k
  BY SoloProposer
<1>2. rows'[k] = row
  BY <1>1 DEF Write, TypeInv, TypeOK, StoreOK
<1>3. Exists(k)' /\ (Over(rows[k])' \/ ~Succeeded(rows[k])')
  BY <1>2 DEF Exists, Over, Succeeded
<1>4. /\ SoloCopiesAt(k) /\ SoloSends'
      /\ \A id \in Ids : id # k => handed'[id] = handed[id]
      /\ \A i \in 1..Len(queue'[Serve]) :
            \/ \E j \in 1..Len(queue[Serve]) : queue'[Serve][i] = queue[Serve][j]
            \/ queue'[Serve][i].id = k
  <2>1. CASE UNCHANGED <<queue, handed>>
    <3>1. SoloCopiesAt(k) /\ SoloSends'
      BY <1>1, <2>1, SoloQueueKept
    <3> QED  BY <2>1, <3>1
  <2>2. CASE row.life = "pending" /\ ~Succeeded(row) /\ Send(Serve, k, row)
    BY <1>1, <1>2, <1>3, <2>2, SoloSent
  <2> QED  BY <2>1, <2>2
<1>5. RowsAt(k)
  BY <1>1, <1>4, SoloWrote
<1>6. FollowUpsKept /\ SoloRowsAt(k) /\ SoloScansAt(k)
  BY <1>1, <1>3, <1>5, SoloWork
<1>7. SoloTasksAt(k) /\ SoloProposals'
  BY <1>1, SoloTaskMoves
<1>8. SoloExec(exec[Serve])'
  BY <1>1, <1>4, <1>5, <1>6, SoloExecKept DEF FollowUpsKept
<1> QED  BY <1>4, <1>5, <1>6, <1>7, <1>8, SoloFrame

LEMMA SoloGate ==
    ASSUME TypeInv, TypeInv', SoloInv, Unattended, ~Fault, NEW p \in Handlers, Gate(p)
    PROVE  SoloInv'
<1> PICK k : k = task[p].id
  OBVIOUS
<1>1. UNCHANGED <<exec, scan>> /\ task[p].row \in Row
  BY SoloBusy DEF Gate, CheckFreeze, CheckMaintenance, Refuse, Persist
<1>2. Proposing(p)
  BY DEF Gate, CheckFreeze, CheckMaintenance, Refuse, Persist, Proposing, ProposingPc
<1>3. /\ k \in Actions /\ k \in Ids /\ handed[k] = 0
      /\ \A q \in Handlers \ {p} :
            task[q].pc \in ProposingPc \cup RevertingPc => task[q].id # k
      /\ SoloTask(task[p])
  BY <1>2, SoloProposer
<1>4. Apps = {Serve} /\ AppOf(p) = Serve
  BY PlaneAssumption DEF Apps, AppOf, Unattended
<1>5. ASSUME NEW row, UNCHANGED <<rows, queue, handed>>, NEW pc \in {"refuse", "maintenance", "persist"},
             TaskRow(p, pc, row) \/ (TaskStep(p, pc) /\ row = task[p].row), ~Succeeded(row),
             task[p].pc # "refuse",
             row.life = IF pc = "refuse" THEN "completed" ELSE "pending"
      PROVE  SoloInv'
  <2>1. /\ task'[p].pc = pc /\ task'[p].id = k /\ task'[p].row = row
        /\ \A q \in Handlers \ {p} : task'[q] = task[q]
    BY <1>5, TaskSteps
  <2>2. SoloTask(task[p])'
    BY <1>2, <1>3, <1>5, <2>1 DEF SoloTask, Exists, Proposing, RevertingPc
  <2>3. SoloTasksAt(k) /\ SoloProposals'
    BY <1>3, <2>1, <2>2, SoloTaskMoves
  <2> QED  BY <1>1, <1>5, <2>3, SoloLocal, SoloFrame
<1>6. \A result, closure : Closed(task[p].row, result, closure).life = "completed"
                           /\ (result # "executed_successfully"
                                 => ~Succeeded(Closed(task[p].row, result, closure)))
  BY <1>1 DEF Closed, Row, Succeeded
<1>7. task[p].pc # "refuse" => ~Succeeded(task[p].row) /\ task[p].row.life = "pending"
  BY <1>2, <1>3 DEF SoloTask, Proposing
<1>8. CASE CheckFreeze(p)
  <2>1. /\ task[p].pc = "freeze" /\ UNCHANGED <<rows, queue, handed>>
        /\ \/ TaskStep(p, "maintenance")
           \/ TaskRow(p, "refuse", Closed(task[p].row, "denied_by_freeze", "blocked_by_freeze"))
    BY <1>8 DEF CheckFreeze
  <2> QED  BY <1>5, <1>6, <1>7, <2>1
<1>9. CASE CheckMaintenance(p)
  <2>1. /\ task[p].pc = "maintenance" /\ UNCHANGED <<rows, queue, handed>>
        /\ \/ TaskStep(p, "persist")
           \/ TaskRow(p, "refuse", Closed(task[p].row, "denied_by_maintenance",
                                          "blocked_by_maintenance"))
    BY <1>9 DEF CheckMaintenance
  <2> QED  BY <1>5, <1>6, <1>7, <2>1
<1>10. Settle(p) => /\ task'[p].pc \notin ProposingPc \cup RevertingPc
                    /\ \A q \in Handlers \ {p} : task'[q] = task[q]
  BY TaskSteps DEF ProposingPc, RevertingPc
<1>11. CASE Refuse(p)
  <2>1. Write(k, task[p].row) /\ Settle(p) /\ UNCHANGED <<queue, handed>> /\ task[p].pc = "refuse"
    BY <1>11 DEF Refuse, WriteOrLose
  <2>2. task[p].row.life = "completed"
    BY <1>2, <1>3, <2>1 DEF SoloTask, Proposing
  <2> QED  BY <1>1, <1>2, <1>10, <2>1, <2>2, SoloWritten DEF Over
<1>12. CASE Persist(p)
  <2>1. task[p].pc = "persist"
    BY <1>12 DEF Persist
  <2>2. CASE Write(k, Held(task[p].row)) /\ Settle(p) /\ UNCHANGED <<queue, handed>>
    <3>1. /\ Held(task[p].row).life = "pending_approval"
          /\ ~Succeeded(Held(task[p].row))
      BY <1>1 DEF Held, Row, Succeeded
    <3> QED  BY <1>1, <1>2, <1>10, <2>2, <3>1, SoloWritten
  <2>3. CASE /\ Write(k, task[p].row) /\ Send(Serve, k, task[p].row)
             /\ IF HasRoom(Serve) THEN Settle(p) ELSE TaskRow(p, "refuse", Superseded(task[p].row))
    <3>1. CASE HasRoom(Serve)
      BY <1>1, <1>2, <1>7, <1>10, <2>1, <2>3, <3>1, SoloWritten
    <3>2. CASE ~HasRoom(Serve)
      <4>1. /\ task'[p].pc = "refuse" /\ task'[p].id = k /\ task'[p].row = Superseded(task[p].row)
            /\ \A q \in Handlers \ {p} : task'[q] = task[q]
        BY <2>3, <3>2, TaskSteps
      <4>2. UNCHANGED <<queue, handed>>
        BY <2>3, <3>2 DEF Send
      <4>3. rows'[k] = task[p].row
        BY <1>3, <2>3 DEF Write, TypeInv, TypeOK, StoreOK
      <4>4. SoloTask(task[p])'
        BY <1>3, <1>6, <1>7, <2>1, <4>1, <4>2, <4>3 DEF SoloTask, Superseded, RevertingPc
      <4> QED  BY <1>1, <1>2, <1>7, <2>1, <2>3, <4>1, <4>2, <4>4, SoloWritten
    <3> QED  BY <3>1, <3>2
  <2> QED  BY <1>4, <1>12, <2>2, <2>3 DEF Persist
<1> QED  BY <1>8, <1>9, <1>11, <1>12 DEF Gate

(* The row of a follow-up that is in the table already is written. *)
LEMMA SoloDerived ==
    ASSUME TypeInv, SoloInv, Unattended, NEW k \in Ids, k \notin Actions, Exists(k), RowsAt(k),
           Exists(k)', Open(k)', UNCHANGED <<queue, handed, task, scan>>
    PROVE  FollowUpsKept /\ SoloRowsAt(k) /\ SoloScansAt(k) /\ SoloCopiesAt(k) /\ SoloTasksAt(k)
<1>1. FollowUpsKept /\ SoloRowsAt(k)
  BY SoloFollowUps DEF FollowUpsKept, SoloRowsAt
<1>2. ASSUME NEW e \in Evals, NEW c \in scan[e]
      PROVE  SoloScan(c)' \/ (c.id # k /\ Reset(c.id) # k)
  <2>1. SoloScan(c) /\ Type(c.id) = "backoff_increase" /\ c.id \in Ids
    BY DEF SoloInv, TypeInv, TypeOK, RecoveryOK, ScanShapes, Copy
  <2>2. c.id \in Actions /\ c.id # k /\ rows'[c.id] = rows[c.id]
    BY <2>1, FollowUpNames DEF RowsAt
  <2> QED  BY <2>1, <2>2 DEF SoloScan, Open
<1>3. ASSUME NEW i \in 1..Len(queue[Serve]), queue[Serve][i].id = k
      PROVE  SoloCopy(queue[Serve][i])'
  <2>1. SoloCopy(queue[Serve][i])
    BY DEF SoloInv
  <2> QED  BY <1>3, <2>1 DEF SoloCopy, Exists
<1>4. ASSUME NEW q \in Handlers, task[q].pc \in ProposingPc \cup RevertingPc
      PROVE  task[q].id # k
  BY <1>4, SoloBusy DEF SoloInv, SoloTask
<1> QED  BY <1>1, <1>2, <1>3, <1>4 DEF SoloScansAt, SoloCopiesAt, SoloTasksAt

(* The executor up to the end of its actuator is the only one at work on its action. *)
ActingPc == {"freeze", "maintenance", "start", "refuse", "actuate", "finish"}

LEMMA SoloActor ==
    ASSUME TypeInv, SoloInv, Unattended, exec[Serve].pc \in ActingPc,
           NEW k, k = exec[Serve].id
    PROVE  /\ k \in Ids /\ Exists(k) /\ exec[Serve].row \in Row
           /\ k \in Actions => /\ ~Over(rows[k]) /\ handed[k] > 0 /\ ~Queued(k)
                               /\ ~FollowedUp(k)
                               /\ \A q \in Handlers :
                                     task[q].pc \in ProposingPc \cup RevertingPc => task[q].id # k
<1>1. k \in Ids /\ exec[Serve].row \in Row
  BY DEF TypeInv, TypeOK, ExecOK, ExecState, ExecShapes, ExecShape, Apps, ActingPc
<1>2. SoloExec(exec[Serve])
  BY DEF SoloInv
<1>3. Exists(k)
  BY <1>2 DEF SoloExec, ActingPc
<1>4. ASSUME k \in Actions
      PROVE  ~Over(rows[k]) /\ handed[k] > 0 /\ ~Queued(k)
  BY <1>2, <1>4 DEF SoloExec, ActingPc, Over
<1> QED  BY <1>1, <1>3, <1>4, SoloPlace DEF Proposing

LEMMA SoloActs ==
    ASSUME TypeInv, TypeInv', SoloInv, Unattended, exec[Serve].pc \in ActingPc,
           NEW k, k = exec[Serve].id, NEW row, Write(k, row),
           row.life = "completed" \/ (row.life = "running" /\ ~Succeeded(row)),
           UNCHANGED <<queue, handed, task, scan>>, SoloExec(exec[Serve])'
    PROVE  SoloInv'
<1>1. /\ k \in Ids /\ Exists(k)
      /\ k \in Actions => /\ ~Over(rows[k]) /\ ~Queued(k)
                          /\ \A q \in Handlers :
                                task[q].pc \in ProposingPc \cup RevertingPc => task[q].id # k
  BY SoloActor
<1>2. RowsAt(k) /\ rows'[k] = row
  BY <1>1, SoloWrote
<1>3. Exists(k)' /\ Open(k)' /\ (Over(rows[k])' \/ ~Succeeded(rows[k])')
  BY <1>2 DEF Exists, Open, Over, Succeeded
<1>4. SoloRowsAt(k) /\ SoloScansAt(k) /\ SoloCopiesAt(k) /\ SoloTasksAt(k)
  <2>1. CASE k \in Actions
    BY <1>1, <1>2, <1>3, <2>1, SoloWork, SoloQueueKept, SoloTasksKept
  <2>2. CASE k \notin Actions
    BY <1>1, <1>2, <1>3, <2>2, SoloDerived
  <2> QED  BY <2>1, <2>2
<1>5. SoloSends' /\ SoloProposals'
  BY DEF SoloInv, SoloSends, SoloProposals, Proposing
<1> QED  BY <1>2, <1>4, <1>5, SoloFrame

LEMMA SoloDequeue ==
    ASSUME TypeInv, TypeInv', SoloInv, Unattended, ~Fault, Dequeue(Serve)
    PROVE  SoloInv'
<1> PICK c : c = Head(queue[Serve])
  OBVIOUS
<1> DEFINE pass == NeedsApproval(c.id) => Incomplete(c.row)
           row == Closed(c.row, "denied_by_policy", "superseded")
<1>1. /\ exec[Serve].pc = "idle" /\ Take(Serve) /\ UNCHANGED <<scan, handed, task>>
      /\ IF ~pass /\ Undecided(c.row) THEN Write(c.id, row) ELSE UNCHANGED rows
      /\ exec' = IF pass
                  THEN [exec EXCEPT ![Serve] = [pc |-> "freeze", id |-> c.id, row |-> c.row]]
                  ELSE exec
  BY PlaneAssumption DEF Dequeue, WriteOrLose, Unattended
<1>2. /\ SoloCopiesAt(NoId) /\ SoloSends' /\ c \in Copy /\ SoloCopy(c)
      /\ \A k : (k \in Actions /\ k = c.id) \/ ~Queued(k) => ~Queued(k)'
  BY <1>1, SoloTaken
<1>3. \A p \in Handlers : task[p].pc \in ProposingPc \cup RevertingPc => task[p].id # NoId
  BY SoloBusy, PlaneAssumption
<1>4. CASE UNCHANGED rows
  <2>1. /\ RowsAt(NoId) /\ SoloRowsAt(NoId) /\ SoloScansAt(NoId)
    BY <1>1, <1>4, SoloStill
  <2>2. SoloTasksAt(NoId) /\ SoloProposals'
    BY <1>1, <1>3, SoloTasksKept
  <2>3. SoloExec(exec[Serve])'
    <3>1. CASE pass
      <4>1. exec'[Serve] = [pc |-> "freeze", id |-> c.id, row |-> c.row]
        BY <1>1, <3>1 DEF TypeInv, TypeOK, ExecOK, Apps
      <4>2. exec'[Serve].pc = "freeze" /\ exec'[Serve].id = c.id /\ exec'[Serve].row = c.row
        BY <4>1
      <4>3. c.id \in Actions => ~Queued(exec[Serve].id)'
        BY <1>2, <4>2 DEF Queued
      <4> QED  BY <1>1, <1>2, <1>4, <4>2, <4>3 DEF SoloExec, SoloCopy, Exists
    <3>2. CASE ~pass
      BY <1>1, <3>2 DEF SoloExec
    <3> QED  BY <3>1, <3>2
  <2> QED  BY <1>2, <2>1, <2>2, <2>3, SoloFrame
<1>5. CASE ~pass /\ Write(c.id, row)
  <2> PICK k : k = c.id
    OBVIOUS
  <2>1. k \in Actions /\ k \in Ids
    BY <1>5 DEF NeedsApproval, Ids
  <2>2. row.life = "completed"
    BY <1>2 DEF Closed, Copy, Row
  <2>3. ~Over(rows[k]) /\ handed[k] > 0
    BY <1>2, <2>1 DEF SoloCopy, Over
  <2> HIDE DEF row
  <2>4. RowsAt(k) /\ rows'[k] = row
    BY <1>1, <1>5, <2>1, SoloWrote
  <2>5. SoloRowsAt(k) /\ SoloScansAt(k)
    BY <1>1, <2>1, <2>2, <2>3, <2>4, SoloWork DEF Exists, Over
  <2>6. SoloCopiesAt(k)
    <3>1. \A i \in 1..Len(queue'[Serve]) : queue'[Serve][i].id # k
      BY <1>2, <2>1 DEF Queued
    <3> QED  BY <1>2, <3>1 DEF SoloCopiesAt
  <2>7. SoloTasksAt(k) /\ SoloProposals'
    BY <1>1, <2>1, <2>3, SoloPlace, SoloTasksKept DEF Proposing
  <2>8. SoloExec(exec[Serve])'
    BY <1>1, <1>5 DEF SoloExec
  <2> QED  BY <1>2, <2>4, <2>5, <2>6, <2>7, <2>8, SoloFrame
<1> QED  BY <1>1, <1>4, <1>5

LEMMA SoloRecheck ==
    ASSUME TypeInv, TypeInv', SoloInv, Unattended, ~Fault,
           RecheckFreeze(Serve) \/ RecheckMaintenance(Serve)
    PROVE  SoloInv'
<1> PICK k : k = exec[Serve].id
  OBVIOUS
<1>1. /\ exec[Serve].pc \in {"freeze", "maintenance"}
      /\ UNCHANGED <<rows, queue, handed, task, scan>>
      /\ \/ \E closure : \E result \in Results \ {"executed_successfully"} :
               ExecStep(Serve, "refuse", Closed(exec[Serve].row, result, closure))
         \/ \E pc \in {"maintenance", "start"} : ExecStep(Serve, pc, exec[Serve].row)
  BY DEF RecheckFreeze, RecheckMaintenance, Recheck, Results
<1>2. exec[Serve].row \in Row
  BY SoloActor, <1>1 DEF ActingPc
<1>3. \A result, closure : Closed(exec[Serve].row, result, closure).life = "completed"
  BY <1>2 DEF Closed, Row
<1>4. /\ exec'[Serve].id = k
      /\ \/ exec'[Serve].pc = "refuse" /\ exec'[Serve].row.life = "completed"
         \/ exec'[Serve].pc \in {"maintenance", "start"} /\ exec'[Serve].row = exec[Serve].row
  BY <1>1, <1>3, OwnSteps
<1>5. SoloExec(exec[Serve])'
  <2>1. SoloExec(exec[Serve])
    BY DEF SoloInv
  <2>2. ~Queued(k) => ~Queued(exec[Serve].id)'
    BY <1>1, <1>4 DEF Queued
  <2> QED  BY <1>1, <1>4, <2>1, <2>2 DEF SoloExec, Exists
<1>6. SoloTasksAt(NoId) /\ SoloProposals'
  BY <1>1, SoloBusy, SoloTasksKept, PlaneAssumption
<1> QED  BY <1>1, <1>5, <1>6, SoloLocal, SoloFrame

LEMMA SoloExecutor ==
    ASSUME TypeInv, TypeInv', SoloInv, Unattended, ~Fault, Execute(Serve)
    PROVE  SoloInv'
<1> PICK k : k = exec[Serve].id
  OBVIOUS
<1> DEFINE x == exec[Serve]
<1>1. SoloExec(x) /\ x.row \in Row /\ Serve \in Apps /\ exec \in [Apps -> ExecState]
  BY DEF SoloInv, TypeInv, TypeOK, ExecOK, ExecState, Apps
<1>2. \A result, closure : Closed(x.row, result, closure).life = "completed"
  BY <1>1 DEF Closed, Row
<1>3. exec'[Serve].pc = "idle" => SoloExec(exec[Serve])'
  BY DEF SoloExec
<1>4. UNCHANGED task => SoloTasksAt(NoId) /\ SoloProposals'
  BY SoloBusy, SoloTasksKept, PlaneAssumption
<1>5. CASE RefuseExecution(Serve)
  <2>1. /\ x.pc = "refuse" /\ Write(k, x.row) /\ ExecDone(Serve)
        /\ UNCHANGED <<queue, handed, task, scan>>
    BY <1>5 DEF RefuseExecution, WriteOrLose
  <2>2. x.row.life = "completed" /\ exec'[Serve].pc = "idle" /\ x.pc \in ActingPc
    BY <1>1, <2>1, OwnSteps DEF SoloExec, ActingPc
  <2> QED  BY <1>3, <2>1, <2>2, SoloActs
<1>6. CASE Start(Serve)
  <2> DEFINE row == [x.row EXCEPT !.life = "running"]
  <2>1. x.pc = "start" /\ x.pc \in ActingPc /\ UNCHANGED <<queue, handed, task, scan>>
    BY <1>6 DEF Start, ActingPc
  <2>2. row.life = "running" /\ ~Succeeded(row) /\ row \in Row
    BY <1>1, <2>1 DEF SoloExec, Row, Succeeded, Lifecycles
  <2>3. CASE Write(k, Closed(row, "denied_by_policy", row.closure)) /\ ExecDone(Serve)
    <3>1. Closed(row, "denied_by_policy", row.closure).life = "completed"
      BY <2>2 DEF Closed, Row
    <3> QED  BY <1>3, <2>1, <2>3, <3>1, OwnSteps, SoloActs
  <2>4. CASE Write(k, row) /\ ExecStep(Serve, "actuate", row)
    <3>1. exec'[Serve].pc = "actuate" /\ exec'[Serve].id = k
      BY <2>4, OwnSteps
    <3>2. /\ k \in Ids /\ rows'[k] = row
          /\ k \in Actions => handed[k] > 0 /\ ~Queued(k)
      BY <2>1, <2>4, SoloActor, SoloWrote
    <3>3. ~Queued(k) => ~Queued(exec[Serve].id)'
      BY <2>1, <3>1 DEF Queued
    <3>4. SoloExec(exec[Serve])'
      BY <2>1, <2>2, <3>1, <3>2, <3>3 DEF SoloExec, Exists
    <3> QED  BY <2>1, <2>2, <2>4, <3>4, SoloActs
  <2> QED  BY <1>6, <2>3, <2>4 DEF Start, WriteOrLose
<1>7. CASE Actuate(Serve)
  <2>1. /\ x.pc = "actuate" /\ x.pc \in ActingPc /\ UNCHANGED <<rows, queue, handed, scan>>
        /\ \E result, closure : ExecStep(Serve, "finish", Closed(x.row, result, closure))
    BY <1>7 DEF Actuate, ActingPc
  <2>2. exec'[Serve].pc = "finish" /\ exec'[Serve].id = k /\ exec'[Serve].row.life = "completed"
    BY <1>2, <2>1, OwnSteps
  <2>3. ~Queued(k) => ~Queued(exec[Serve].id)'
    BY <2>1, <2>2 DEF Queued
  <2>4. SoloExec(exec[Serve])'
    BY <1>1, <2>1, <2>2, <2>3 DEF SoloExec, Exists
  <2>5. SoloTasksAt(NoId) /\ SoloProposals'
    <3>1. ASSUME NEW e \in Evals, TaskStep(e, "decide")
          PROVE  SoloTasksAt(NoId) /\ SoloProposals'
      <4>1. /\ e \in Handlers /\ task'[e].pc \notin ProposingPc \cup RevertingPc
            /\ \A q \in Handlers \ {e} : task'[q] = task[q]
        BY <3>1, TaskSteps DEF Handlers, ProposingPc, RevertingPc
      <4> QED  BY <4>1, SoloBusy, SoloTaskMoves, PlaneAssumption
    <3> QED  BY <1>4, <1>7, <3>1 DEF Actuate
  <2> QED  BY <2>1, <2>4, <2>5, SoloLocal, SoloFrame
<1>8. CASE Finish(Serve)
  <2>1. /\ x.pc = "finish" /\ x.pc \in ActingPc /\ Write(k, x.row)
        /\ UNCHANGED <<queue, handed, task, scan>>
    BY <1>8 DEF Finish, WriteOrLose, ActingPc
  <2>2. x.row.life = "completed"
    BY <1>1, <2>1 DEF SoloExec
  <2>3. CASE ExecDone(Serve)
    BY <1>3, <2>1, <2>2, <2>3, OwnSteps, SoloActs
  <2>4. CASE ExecStep(Serve, "followup", x.row) /\ Type(k) = "restart_transport"
    <3>1. exec'[Serve].pc = "followup" /\ exec'[Serve].id = k
      BY <2>4, OwnSteps
    <3>2. /\ k \in Ids /\ k \in Actions /\ ~FollowedUp(k)
          /\ RowsAt(k) /\ rows'[k] = x.row
      BY <2>1, <2>4, SoloActor, SoloWrote, FollowUpNames
    <3>3. ~FollowedUp(exec[Serve].id)'
      <4>1. FollowUpsKept
        BY <3>2, SoloFollowUps
      <4>2. ~FollowedUp(k)'
        BY <3>2, <4>1 DEF FollowUpsKept
      <4> QED  BY <3>1, <4>2 DEF FollowedUp, Exists
    <3>4. SoloExec(exec[Serve])'
      BY <2>2, <3>1, <3>2, <3>3 DEF SoloExec, Exists, Over
    <3> QED  BY <2>1, <2>2, <3>4, SoloActs
  <2> QED  BY <1>8, <2>3, <2>4 DEF Finish
<1>9. CASE SeekFollowUp(Serve)
  <2>1. /\ x.pc = "followup" /\ UNCHANGED <<rows, queue, handed, task, scan>>
        /\ ExecDone(Serve) \/ ExecStep(Serve, "persist", x.row)
    BY <1>9 DEF SeekFollowUp
  <2>2. SoloExec(exec[Serve])'
    <3>1. CASE ExecStep(Serve, "persist", x.row)
      <4>1. exec'[Serve].pc = "persist" /\ exec'[Serve].id = k
        BY <3>1, OwnSteps
      <4>2. ~FollowedUp(k) => ~FollowedUp(exec[Serve].id)'
        BY <2>1, <4>1 DEF FollowedUp, Exists
      <4> QED  BY <1>1, <2>1, <4>1, <4>2 DEF SoloExec, Exists
    <3> QED  BY <1>3, <2>1, <3>1, OwnSteps
  <2> QED  BY <1>4, <2>1, <2>2, SoloLocal, SoloFrame
<1>10. CASE PersistFollowUp(Serve)
  <2> PICK r : r = HealthRecheck(k)
    OBVIOUS
  <2> DEFINE row == NewRow("system")
  <2>1. /\ x.pc = "persist" /\ Write(r, row) /\ Send(Serve, r, row) /\ ExecDone(Serve)
        /\ UNCHANGED <<task, scan>>
    BY <1>10 DEF PersistFollowUp
  <2>2. k \in Actions /\ TypeOf[k] = "restart_transport" /\ Over(rows[k])
    BY <1>1, <2>1, FollowUpNames DEF SoloExec, TypeInv, ExecShapes, ExecShape
  <2>3. r \in Ids /\ r \notin Actions /\ r # k
    BY <2>2, FollowUpNames
  <2>4. row.life = "pending" /\ ~Succeeded(row)
    BY DEF NewRow, NoRow, Succeeded
  <2> HIDE DEF row
  <2>5. rows'[r] = row
    BY <2>1, <2>3 DEF Write, TypeInv, TypeOK, StoreOK
  <2>6. Exists(r)'
    BY <2>4, <2>5 DEF Exists
  <2>7. /\ SoloCopiesAt(r) /\ SoloSends'
        /\ \A id \in Ids : id # r => handed'[id] = handed[id]
    BY <2>1, <2>3, <2>4, <2>6, SoloSent
  <2>8. RowsAt(r)
    BY <2>1, <2>3, <2>7, SoloWrote
  <2>9. \A b \in Actions : /\ b # k => (FollowedUp(b)' => FollowedUp(b))
                           /\ Undone(b)' => Undone(b)
    BY <2>8, FollowUpNames DEF FollowedUp, Undone, Exists, RowsAt
  <2>10. SoloRowsAt(r)
    <3>1. rows'[k] = rows[k] /\ handed'[k] = handed[k] /\ SoloRow(k)
      BY <2>2, <2>3, <2>8 DEF RowsAt, SoloInv, Ids
    <3>2. SoloRow(k)'
      BY <2>2, <2>9, <3>1 DEF SoloRow, Exists
    <3> QED  BY <2>3, <2>9, <3>2 DEF SoloRowsAt
  <2>11. ASSUME NEW q \in Handlers, task[q].pc \in ProposingPc \cup RevertingPc
         PROVE  task[q].id # r
    BY <2>3, <2>11, SoloBusy DEF SoloInv, SoloTask
  <2>12. SoloTasksAt(r) /\ SoloProposals'
    BY <2>1, <2>11, SoloTasksKept
  <2>13. ASSUME NEW f \in Evals, NEW c \in scan[f]
         PROVE  c.id # r /\ Reset(c.id) # r
    <3>1. Type(c.id) = "backoff_increase" /\ c.id \in Ids
      BY DEF TypeInv, TypeOK, RecoveryOK, ScanShapes, Copy
    <3> QED  BY <2>3, <3>1, FollowUpNames
  <2>14. SoloScansAt(r)
    BY <2>1, <2>13 DEF SoloScansAt
  <2> QED  BY <1>3, <2>1, <2>7, <2>8, <2>10, <2>12, <2>14, OwnSteps, SoloFrame
<1> QED  BY <1>5, <1>6, <1>7, <1>8, <1>9, <1>10, SoloDequeue, SoloRecheck DEF Execute

LEMMA SoloExpiry ==
    ASSUME TypeInv, TypeInv', SoloInv, Unattended, ExpireStaleApprovalActions
    PROVE  SoloInv'
<1>1. UNCHANGED <<queue, exec, task, scan, handed>>
  BY DEF ExpireStaleApprovalActions
<1>2. ASSUME NEW id \in Ids
      PROVE  \/ rows'[id] = rows[id]
             \/ /\ Undecided(rows[id]) /\ rows'[id].life = "completed"
                /\ ~Succeeded(rows'[id])
  <2>1. rows'[id] = rows[id] \/ rows'[id] = ExpiredApproval(rows[id])
    BY DEF ExpireStaleApprovalActions
  <2>2. rows[id] \in Row
    BY DEF TypeInv, TypeOK, StoreOK
  <2> QED  BY <2>1, <2>2 DEF ExpiredApproval, Closed, Row, Succeeded
<1>3. \A id \in Ids : (Exists(id)' <=> Exists(id)) /\ (Over(rows[id]) => rows'[id] = rows[id])
  BY <1>2 DEF Exists, Undecided, Over
<1>4. Actions \subseteq Ids
  BY DEF Ids
<1>5. \A a \in Actions : (FollowedUp(a)' <=> FollowedUp(a)) /\ (Undone(a)' <=> Undone(a))
  BY <1>3, FollowUpNames DEF FollowedUp, Undone
<1>6. ASSUME NEW a \in Actions
      PROVE  SoloRow(a)'
  <2>1. SoloRow(a)
    BY DEF SoloInv
  <2> QED  BY <1>1, <1>2, <1>3, <1>4, <1>5, <2>1 DEF SoloRow, Over
<1>7. ASSUME NEW i \in 1..Len(queue'[Serve])
      PROVE  SoloCopy(queue[Serve][i])'
  <2>1. queue[Serve] \in Seq(Copy)
    BY DEF TypeInv, TypeOK, QueueOK, Apps
  <2>2. SoloCopy(queue[Serve][i]) /\ queue[Serve][i].id \in Ids
    <3>1. queue[Serve][i] \in Copy /\ i \in 1..Len(queue[Serve])
      BY <1>1, <2>1
    <3> QED  BY <3>1 DEF SoloInv, Copy
  <2> QED  BY <1>1, <1>2, <1>3, <2>2 DEF SoloCopy, Undecided
<1>8. SoloExec(exec[Serve])'
  <2> PICK k : k = exec[Serve].id
    OBVIOUS
  <2>1. SoloExec(exec[Serve]) /\ (exec[Serve].pc # "idle" => k \in Ids)
    BY DEF SoloInv, TypeInv, ExecShapes, ExecShape, Apps
  <2>2. (k \in Actions /\ ~FollowedUp(k) => ~FollowedUp(exec[Serve].id)')
        /\ (~Queued(k) => ~Queued(exec[Serve].id)')
    BY <1>1, <1>5 DEF Queued, FollowedUp, Exists
  <2>3. exec[Serve].pc # "idle" => Exists(exec[Serve].id)'
    BY <1>1, <1>3, <2>1 DEF SoloExec, Exists
  <2> QED  BY <1>1, <1>2, <1>3, <2>1, <2>2, <2>3 DEF SoloExec, Undecided
<1>9. ASSUME NEW p \in Handlers
      PROVE  SoloTask(task[p])'
  <2>1. SoloTask(task[p]) /\ (task[p].pc \in ProposingPc \cup RevertingPc => task[p].id \in Ids)
    BY SoloBusy DEF SoloInv
  <2>2. task[p].pc \in ProposingPc \cup RevertingPc => (Exists(task[p].id) <=> Exists(task[p].id)')
    BY <1>1, <1>3, <2>1 DEF Exists
  <2> QED  BY <1>1, <1>2, <1>3, <2>1, <2>2 DEF SoloTask, Undecided, ProposingPc, RevertingPc
<1>10. ASSUME NEW e \in Evals, NEW c \in scan'[e]
       PROVE  SoloScan(c)'
  <2>1. SoloScan(c) /\ Type(c.id) = "backoff_increase" /\ c.id \in Ids
    BY <1>1 DEF SoloInv, TypeInv, TypeOK, RecoveryOK, ScanShapes, Copy
  <2>2. Reset(c.id) \in Ids
    BY <2>1, FollowUpNames
  <2> QED  BY <1>2, <1>3, <2>1, <2>2 DEF SoloScan, Open
<1>11. SoloSends' /\ SoloProposals'
  BY <1>1 DEF SoloInv, SoloSends, SoloProposals, Proposing
<1>12. /\ \A i \in 1..Len(queue'[Serve]) : SoloCopy(queue[Serve][i])'
       /\ \A a \in Actions : SoloRow(a)'
       /\ \A p \in Handlers : SoloTask(task[p])'
       /\ \A e \in Evals : \A c \in scan'[e] : SoloScan(c)'
  BY <1>6, <1>7, <1>9, <1>10
<1> QED  BY <1>8, <1>11, <1>12 DEF SoloInv

LEMMA SoloElsewhere ==
    ASSUME TypeInv, TypeInv', SoloInv, Unattended,
           BeginEvaluation \/ Time \/ Operate \/ UNCHANGED vars
    PROVE  SoloInv'
<1>1. UNCHANGED <<rows, queue, handed, exec, scan>>
  BY DEF vars, BeginEvaluation, Time, ApprovalDeadlinePasses, BackoffLapses, Operate, CreateFreeze,
     ClearFreeze, ToggleWindow
<1>2. SoloTasksAt(NoId) /\ SoloProposals'
  <2>1. CASE BeginEvaluation
    <3>1. /\ Ticker \in Handlers /\ task'[Ticker].pc \notin ProposingPc \cup RevertingPc
          /\ \A q \in Handlers \ {Ticker} : task'[q] = task[q]
      BY <2>1, TaskSteps DEF BeginEvaluation, Handlers, ProposingPc, RevertingPc
    <3> QED  BY <3>1, SoloBusy, SoloTaskMoves, PlaneAssumption
  <2>2. CASE UNCHANGED task
    BY <2>2, SoloBusy, SoloTasksKept, PlaneAssumption
  <2> QED  BY <2>1, <2>2 DEF vars, Time, ApprovalDeadlinePasses, BackoffLapses, Operate,
              CreateFreeze, ClearFreeze, ToggleWindow
<1> QED  BY <1>1, <1>2, SoloLocal, SoloFrame

LEMMA SoloCrash ==
    ASSUME TypeInv, TypeInv', SoloInv, Unattended, Crash
    PROVE  SoloInv'
<1>1. /\ UNCHANGED <<rows, handed>> /\ exec'[Serve].pc = "idle" /\ queue'[Serve] = <<>>
      /\ \A e \in Evals : scan'[e] = {}
      /\ \A p \in Handlers : task'[p].pc \in {"idle", "done"}
  BY CrashClears, PlaneAssumption DEF Unattended
<1>2. SoloRowsAt(NoId) /\ RowsAt(NoId)
  BY <1>1, SoloStill
<1>3. SoloCopiesAt(NoId) /\ SoloSends'
  BY <1>1 DEF SoloCopiesAt, SoloSends
<1>4. SoloTasksAt(NoId) /\ SoloProposals'
  BY <1>1 DEF SoloTasksAt, SoloProposals, Proposing, ProposingPc, RevertingPc
<1>5. SoloScansAt(NoId) /\ SoloExec(exec[Serve])'
  BY <1>1 DEF SoloScansAt, SoloExec
<1> QED  BY <1>2, <1>3, <1>4, <1>5, SoloFrame

LEMMA SoloRecovery ==
    ASSUME TypeInv, TypeInv', RestInv, ClosedInv, SoloInv, Unattended, ~Fault, Recover
    PROVE  SoloInv'
<1>1. UNCHANGED <<queue, task, scan, handed>> /\ Cli = {} /\ Trusty
  BY PlaneAssumption DEF Recover, Restart, RecoverRow, StartWorkers, Unattended, Trusty
<1>2. CASE Restart \/ StartWorkers
  <2>1. UNCHANGED <<rows, exec>>
    BY <1>2 DEF Restart, StartWorkers
  <2>2. SoloTasksAt(NoId) /\ SoloProposals'
    BY <1>1, SoloBusy, SoloTasksKept, PlaneAssumption
  <2> QED  BY <1>1, <2>1, <2>2, SoloLocal, SoloFrame
<1>3. CASE RecoverRow
  <2>1. PICK c \in todo :
          /\ Write(c.id, Recovered(c.id, c.row))
          /\ exec' = IF Type(c.id) = "restart_transport"
                     THEN [exec EXCEPT ![Serve] = [pc |-> "followup", id |-> c.id,
                                                   row |-> Recovered(c.id, c.row)]]
                     ELSE exec
    BY <1>3 DEF RecoverRow, WriteOrLose
  <2> PICK k : k = c.id
    OBVIOUS
  <2> DEFINE row == Recovered(k, c.row)
  <2>2. /\ daemon = "recovering" /\ exec[Serve].pc = "idle"
        /\ \A p \in Handlers : task[p].pc \in {"idle", "done"}
        /\ \A e \in Evals : scan[e] = {}
    BY <1>1, <1>3 DEF RecoverRow, RestInv
  <2>3. k \in Ids /\ c.row = rows[k] /\ Incomplete(rows[k]) /\ ~Queued(k) /\ c.row \in Row
    BY <1>1, <2>1 DEF ClosedInv, TypeInv, TypeOK, RecoveryOK, Copy
  <2>4. row.life = "recovered"
    BY <2>3 DEF Recovered, Row
  <2>5. Write(k, row)
    BY <2>1
  <2> HIDE DEF row
  <2>6. RowsAt(k) /\ rows'[k] = row
    BY <1>1, <2>3, <2>5, SoloWrote
  <2>7. Exists(k) /\ Exists(k)' /\ Over(rows[k])' /\ ~Over(rows[k])
    BY <2>3, <2>4, <2>6 DEF Exists, Over, Incomplete
  <2>8. FollowUpsKept /\ SoloRowsAt(k)
    <3>1. CASE k \in Actions
      BY <2>6, <2>7, <3>1, SoloWork
    <3>2. CASE k \notin Actions
      <4>1. FollowUpsKept
        BY <2>6, <2>7, <3>2, SoloFollowUps
      <4> QED  BY <3>2, <4>1 DEF SoloRowsAt, FollowUpsKept
    <3> QED  BY <3>1, <3>2
  <2>9. SoloCopiesAt(k) /\ SoloSends'
    BY <1>1, <2>3, SoloQueueKept
  <2>10. SoloTasksAt(k) /\ SoloProposals' /\ SoloScansAt(k)
    BY <1>1, <2>2 DEF SoloTasksAt, SoloProposals, SoloScansAt, Proposing, ProposingPc, RevertingPc
  <2>11. SoloExec(exec[Serve])'
    <3>1. CASE Type(k) = "restart_transport"
      <4>1. exec'[Serve].pc = "followup" /\ exec'[Serve].id = k
        BY <2>1, <3>1 DEF TypeInv, TypeOK, ExecOK, Apps
      <4>2. k \in Actions /\ ~FollowedUp(k)
        BY <2>3, <2>7, <3>1, FollowUpNames, SoloPlace
      <4>3. ~FollowedUp(k)'
        BY <2>8, <4>2 DEF FollowUpsKept
      <4> QED  BY <2>7, <4>1, <4>3 DEF SoloExec, FollowedUp, Exists
    <3>2. CASE Type(k) # "restart_transport"
      BY <2>1, <2>2, <3>2 DEF SoloExec
    <3> QED  BY <3>1, <3>2
  <2> QED  BY <2>6, <2>8, <2>9, <2>10, <2>11, SoloFrame
<1> QED  BY <1>2, <1>3 DEF Recover

LEMMA StepSolos ==
    TypeInv /\ TypeInv' /\ RestInv /\ ClosedInv /\ SoloInv /\ [Next]_vars => SoloInv'
<1> SUFFICES ASSUME TypeInv, TypeInv', RestInv, ClosedInv, SoloInv, [Next]_vars, Unattended'
             PROVE  SoloInv'
  BY DEF SoloInv
<1>1. Unattended /\ ~Fault
  BY FaultsGrow DEF Unattended
<1>2. Handlers = Evals /\ Apps = {Serve} /\ Sessions = {}
  BY <1>1, PlaneAssumption DEF Unattended, Handlers, Apps
<1>3. CASE Next
  BY <1>1, <1>2, <1>3, SoloEvaluator, SoloGate, SoloExecutor, SoloExpiry, SoloElsewhere,
     SoloCrash, SoloRecovery DEF Next
<1> QED  BY <1>1, <1>3, SoloElsewhere

LEMMA InitSolos == Init => SoloInv
<1> SUFFICES ASSUME Init
             PROVE  SoloInv
  OBVIOUS
<1>1. \A id \in Ids : ~Exists(id) /\ handed[id] = 0 /\ rows[id] = NoRow
  BY DEF Init, Exists, NoRow
<1>2. queue[Serve] = <<>> /\ exec[Serve].pc = "idle"
  BY DEF Init, Apps, ExecIdle
<1>3. \A p \in Handlers : task[p].pc = "idle"
  BY DEF Init, TaskIdle
<1>4. \A e \in Evals : scan[e] = {}
  BY DEF Init
<1>5. \A a \in Actions : SoloRow(a)
  <2>1. \A a \in Actions : ~FollowedUp(a) /\ ~Undone(a)
    BY <1>1, FollowUpNames DEF FollowedUp, Undone
  <2>2. ~Succeeded(NoRow)
    BY DEF Succeeded, NoRow
  <2>3. \A a \in Actions : a \in Ids
    BY FollowUpNames
  <2>4. \A a \in Actions : handed[a] = 0 /\ ~Succeeded(rows[a])
    BY <1>1, <2>2, <2>3
  <2> QED  BY <2>1, <2>4 DEF SoloRow
<1>6. \A p \in Handlers : SoloTask(task[p]) /\ ~Proposing(p)
  BY <1>3 DEF SoloTask, Proposing, ProposingPc, RevertingPc
<1> QED  BY <1>2, <1>4, <1>5, <1>6 DEF SoloInv, SoloSends, SoloProposals, SoloExec

------------------------------------------------------------------------------
(* A recovered action stays closed *)

(* A step that recovers nothing and leaves what was recovered alone. *)
ClosedRows == \A id \in Ids : IF Open(id) THEN Open(id)' ELSE rows'[id] = rows[id]

OpenSends == \A i \in 1..Len(queue'[Serve]) :
                \/ \E j \in 1..Len(queue[Serve]) : queue'[Serve][i] = queue[Serve][j]
                \/ Open(queue'[Serve][i].id)
OpenTasks == \A p \in Handlers : task'[p] = task[p] \/ OpenTask(task'[p])
OpenScans == \A e \in Evals : \A c \in scan'[e] : c \in scan[e] \/ OpenScan(c)
OpenTodo == \A c \in todo' : /\ c \in todo /\ rows'[c.id] = rows[c.id]
                             /\ ~Queued(c.id) => ~Queued(c.id)'

LEMMA ClosedFrame ==
    ASSUME TypeInv, TypeInv', ClosedInv, Trusty, ClosedRows, OpenSends, OpenTasks, OpenScans, OpenTodo,
           OpenExec(exec'[Serve])
    PROVE  ClosedInv'
<1>1. \A id \in Ids : Open(id) => Open(id)'
  BY DEF ClosedRows
<1>2. ASSUME NEW id \in Ids, rows'[id].life = "recovered"
      PROVE  ~Succeeded(rows'[id])
  BY <1>2 DEF ClosedRows, ClosedInv, Open
<1>3. ASSUME NEW i \in 1..Len(queue'[Serve])
      PROVE  Open(queue[Serve][i].id)'
  <2>1. queue'[Serve] \in Seq(Copy)
    BY DEF TypeInv, TypeOK, QueueOK, Apps
  <2>2. queue'[Serve][i] \in Copy
    BY <2>1
  <2>3. Open(queue'[Serve][i].id) /\ queue'[Serve][i].id \in Ids
    BY <2>2 DEF OpenSends, ClosedInv, Copy
  <2> QED  BY <1>1, <2>3 DEF Open
<1>4. OpenExec(exec[Serve])'
  <2>1. /\ exec'[Serve].pc # "idle" => exec'[Serve].id \in Ids
        /\ exec'[Serve].pc = "persist" => HealthRecheck(exec'[Serve].id) \in Ids
    BY FollowUpNames DEF TypeInv, ExecShapes, ExecShape, Apps
  <2> QED  BY <1>1, <2>1 DEF OpenExec, OpenTodo, Open
<1>5. ASSUME NEW p \in Handlers
      PROVE  OpenTask(task[p])'
  <2>1. OpenTask(task'[p])
    BY DEF ClosedInv, OpenTasks
  <2>2. /\ task'[p].pc \in ProposingPc \cup DecidingPc \cup RevertingPc => task'[p].id \in Ids
        /\ task'[p].pc \in RevertingPc => Reset(task'[p].id) \in Ids
    BY FollowUpNames DEF TypeInv, TaskShapes, TaskShape
  <2> QED  BY <1>1, <2>1, <2>2 DEF OpenTask, Open
<1>6. ASSUME NEW e \in Evals, NEW c \in scan'[e]
      PROVE  OpenScan(c)'
  <2>1. OpenScan(c) /\ c.id \in Ids
    BY DEF ClosedInv, OpenScans, TypeInv, TypeOK, RecoveryOK, Copy
  <2> QED  BY <1>1, <2>1 DEF OpenScan, Open
<1>7. ASSUME NEW c \in todo'
      PROVE  c.row = rows'[c.id] /\ Incomplete(c.row) /\ ~Queued(c.id)'
  BY DEF ClosedInv, OpenTodo
<1>8. /\ \A id \in Ids : rows'[id].life = "recovered" => ~Succeeded(rows'[id])
      /\ \A i \in 1..Len(queue'[Serve]) : Open(queue[Serve][i].id)'
      /\ \A p \in Handlers : OpenTask(task[p])'
      /\ \A e \in Evals : \A c \in scan'[e] : OpenScan(c)'
      /\ \A c \in todo' : c.row = rows'[c.id] /\ Incomplete(c.row) /\ ~Queued(c.id)'
  BY <1>2, <1>3, <1>5, <1>6, <1>7
<1> QED  BY <1>4, <1>8 DEF ClosedInv

LEMMA ClosedWrote ==
    ASSUME TypeInv, NEW k \in Ids, Open(k), NEW row, row.life # "recovered",
           Write(k, row) \/ UNCHANGED rows
    PROVE  ClosedRows
  BY DEF TypeInv, TypeOK, StoreOK, Write, ClosedRows, Open

LEMMA ClosedStill ==
    ASSUME TypeInv, ClosedInv, Trusty
    PROVE  /\ UNCHANGED rows => ClosedRows
           /\ UNCHANGED queue => OpenSends
           /\ UNCHANGED task => OpenTasks
           /\ UNCHANGED scan => OpenScans
           /\ UNCHANGED exec => OpenExec(exec'[Serve])
           /\ todo' = {} => OpenTodo
           /\ UNCHANGED <<rows, queue, todo>> => OpenTodo
<1>1. UNCHANGED queue => \A id : ~Queued(id) => ~Queued(id)'
  BY DEF Queued
<1> QED  BY <1>1 DEF ClosedRows, OpenSends, OpenTasks, OpenScans, OpenTodo, ClosedInv, Open

LEMMA ClosedSent ==
    ASSUME TypeInv, NEW k, NEW row, Open(k), Send(Serve, k, row)
    PROVE  OpenSends
<1>1. Serve \in Apps
  BY DEF Apps
<1>2. \A i \in 1..Len(queue'[Serve]) :
              \/ \E j \in 1..Len(queue[Serve]) : queue'[Serve][i] = queue[Serve][j]
              \/ queue'[Serve][i] = [id |-> k, row |-> row]
  BY <1>1, SentCopies
<1> QED  BY <1>2 DEF OpenSends

(* A handler p goes on. *)
LEMMA ClosedTask ==
    ASSUME NEW p \in Handlers, \A q \in Handlers \ {p} : task'[q] = task[q],
           \/ OpenTask(task'[p])
           \/ task'[p].pc \notin ProposingPc \cup DecidingPc \cup RevertingPc
    PROVE  OpenTasks
  BY DEF OpenTasks, OpenTask, ProposingPc, DecidingPc, RevertingPc

LEMMA ClosedProposal ==
    ASSUME NEW t, t.pc \in ProposingPc, Open(t.id), t.row.life # "recovered"
    PROVE  OpenTask(t)
  BY DEF OpenTask, ProposingPc, RevertingPc, DecidingPc

(* One failed statement is too much only where somebody decides. *)
LEMMA ClosedEvaluator ==
    ASSUME TypeInv, TypeInv', RestInv, ClosedInv, SoloInv, Trusty, ~Fault \/ Unattended,
           NEW e \in Evals, Evaluate(e)
    PROVE  ClosedRows /\ ClosedInv'
<1>0. /\ e \in Handlers /\ Serve \in Apps
      /\ task \in [Handlers -> TaskState] /\ scan \in [Evals -> SUBSET Copy]
      /\ OpenTask(task[e])
  BY DEF Handlers, Apps, TypeInv, TypeOK, TaskOK, RecoveryOK, ClosedInv
<1>1. UNCHANGED exec /\ OpenTodo
  <2>1. daemon = "up" /\ UNCHANGED todo /\ Cli = {}
    BY UpSteps DEF Trusty
  <2>2. todo' = {}
    BY <2>1 DEF RestInv
  <2> QED  BY <2>2, ClosedStill DEF Evaluate, ProposeDenied, Propose, ScanExpired, RevertSeen,
              CloseReverted, IssueReset, EndEvaluation
<1>2. ASSUME ClosedRows, OpenSends, OpenTasks, OpenScans
      PROVE  ClosedRows /\ ClosedInv'
  BY <1>1, <1>2, ClosedStill, ClosedFrame
<1>3. ASSUME NEW pc \in {"idle", "scan"}, TaskStep(e, pc)
      PROVE  OpenTasks
  BY <1>0, <1>3, TaskSteps, ClosedTask DEF ProposingPc, DecidingPc, RevertingPc
<1>4. CASE ProposeDenied(e)
  <2> DEFINE row == Closed(NewRow("system"), "denied_by_policy", "")
  <2>1. PICK a \in Actions : Fresh(a) /\ (Write(a, row) \/ UNCHANGED rows)
    BY <1>4, PlaneAssumption DEF ProposeDenied, WriteOrLose
  <2>2. a \in Ids /\ Open(a) /\ row.life = "completed"
    BY <2>1 DEF Fresh, Open, Ids, Closed, NewRow, NoRow
  <2> HIDE DEF row
  <2>3. ClosedRows
    BY <2>1, <2>2, ClosedWrote
  <2>4. UNCHANGED <<queue, task, scan>>
    BY <1>4 DEF ProposeDenied
  <2> QED  BY <1>2, <2>3, <2>4, ClosedStill
<1>5. CASE Propose(e)
  <2>1. PICK a \in Actions :
          /\ Fresh(a)
          /\ task' = [task EXCEPT ![e] = [TaskIdle EXCEPT !.pc = "freeze", !.op = "propose",
                                           !.id = a, !.row = NewRow("system")]]
    BY <1>5, PlaneAssumption DEF Propose
  <2>2. /\ task'[e].pc = "freeze" /\ task'[e].id = a /\ task'[e].row.life = "pending"
        /\ \A q \in Handlers \ {e} : task'[q] = task[q]
    BY <1>0, <2>1 DEF TaskIdle, NewRow, NoRow
  <2>3. Open(a)
    BY <2>1 DEF Fresh, Open
  <2>4. OpenTasks
    BY <1>0, <2>2, <2>3, ClosedProposal, ClosedTask DEF ProposingPc
  <2>5. UNCHANGED <<rows, queue, scan>>
    BY <1>5 DEF Propose
  <2> QED  BY <1>2, <2>4, <2>5, ClosedStill
<1>6. CASE ScanExpired(e)
  <2>1. PICK quiet \in SUBSET {id \in lapsed : RevertDue(id, rows[id])} :
          scan' = [scan EXCEPT ![e] = {[id |-> id, row |-> rows[id]] : id \in quiet}]
    BY <1>6 DEF ScanExpired
  <2>2. \A id \in quiet : Open(id)
    BY DEF RevertDue, ClosedInv, Open, Succeeded, TypeInv, TypeOK, StoreOK
  <2>3. OpenScans
    BY <1>0, <2>1, <2>2 DEF OpenScans, OpenScan, Open
  <2>4. UNCHANGED <<rows, queue>> /\ TaskStep(e, "scan")
    BY <1>6 DEF ScanExpired
  <2> QED  BY <1>2, <1>3, <2>3, <2>4, ClosedStill
<1>7. CASE RevertSeen(e)
  <2>1. PICK c \in scan[e] :
          /\ scan' = [scan EXCEPT ![e] = scan[e] \ {c}]
          /\ \/ UNCHANGED task
             \/ /\ \/ rows[Reset(c.id)].life = "none"
                   \/ Fault
                /\ task' = [task EXCEPT ![e].pc = "close", ![e].op = "revert",
                                        ![e].id = c.id, ![e].row = c.row]
    BY <1>7 DEF RevertSeen
  <2>2. UNCHANGED <<rows, queue>>
    BY <1>7 DEF RevertSeen
  <2>3. OpenTasks
    <3>1. CASE UNCHANGED task
      BY <3>1, ClosedStill
    <3>2. CASE ~UNCHANGED task
      <4>1. Open(Reset(c.id))
        BY <2>1, <3>2 DEF SoloInv, SoloScan, Open
      <4>2. OpenScan(c)
        BY DEF ClosedInv
      <4>3. /\ task'[e].pc = "close" /\ task'[e].id = c.id /\ task'[e].row = c.row
            /\ \A q \in Handlers \ {e} : task'[q] = task[q]
        BY <1>0, <2>1, <3>2 DEF TaskState
      <4>4. OpenTask(task'[e])
        BY <4>1, <4>2, <4>3 DEF OpenTask, OpenScan, ProposingPc, DecidingPc
      <4> QED  BY <1>0, <4>3, <4>4, ClosedTask
    <3> QED  BY <3>1, <3>2
  <2>4. OpenScans
    BY <1>0, <2>1 DEF OpenScans
  <2> QED  BY <1>2, <2>2, <2>3, <2>4, ClosedStill
<1>8. CASE CloseReverted(e)
  <2> PICK k : k = task[e].id
    OBVIOUS
  <2> DEFINE row == [task[e].row EXCEPT !.closure = "expired_and_reverted"]
  <2>1. /\ task[e].pc = "close" /\ (Write(k, row) \/ UNCHANGED rows) /\ TaskStep(e, "follow")
        /\ UNCHANGED <<queue, scan>>
    BY <1>8 DEF CloseReverted, WriteOrLose
  <2>2. k \in Ids /\ Open(k) /\ Open(Reset(k)) /\ row.life # "recovered"
    BY <1>0, <2>1, SoloBusy DEF OpenTask, RevertingPc, Row
  <2> HIDE DEF row
  <2>3. ClosedRows
    BY <2>1, <2>2, ClosedWrote
  <2>4. /\ task'[e].pc = "follow" /\ task'[e].id = k
        /\ \A q \in Handlers \ {e} : task'[q] = task[q]
    BY <1>0, <2>1, TaskSteps
  <2>5. OpenTask(task'[e])
    BY <2>2, <2>4 DEF OpenTask, ProposingPc, DecidingPc
  <2> QED  BY <1>0, <1>2, <2>1, <2>3, <2>4, <2>5, ClosedTask, ClosedStill
<1>9. CASE IssueReset(e)
  <2> PICK k : k = Reset(task[e].id)
    OBVIOUS
  <2> DEFINE row == NewRow("system")
  <2>1. /\ task[e].pc = "follow" /\ (Write(k, row) \/ UNCHANGED rows) /\ Send(Serve, k, row)
        /\ task' = [task EXCEPT ![e] = [TaskIdle EXCEPT !.pc = "scan"]]
        /\ UNCHANGED scan
    BY <1>9 DEF IssueReset, WriteOrLose
  <2>2. k \in Ids /\ Open(k) /\ row.life # "recovered"
    BY <1>0, <2>1, FollowUpNames DEF OpenTask, RevertingPc, NewRow, NoRow, TypeInv, TaskShapes,
       TaskShape
  <2> HIDE DEF row
  <2>3. ClosedRows /\ OpenSends
    BY <2>1, <2>2, ClosedWrote, ClosedSent
  <2>4. task'[e].pc = "scan" /\ \A q \in Handlers \ {e} : task'[q] = task[q]
    BY <1>0, <2>1 DEF TaskIdle
  <2>5. OpenTasks
    BY <1>0, <2>4, ClosedTask DEF ProposingPc, DecidingPc, RevertingPc
  <2> QED  BY <1>2, <2>1, <2>3, <2>5, ClosedStill
<1>10. CASE EndEvaluation(e)
  <2>1. UNCHANGED <<rows, queue, scan>> /\ TaskStep(e, "idle")
    BY <1>10 DEF EndEvaluation
  <2> QED  BY <1>2, <1>3, <2>1, ClosedStill
<1> QED  BY <1>4, <1>5, <1>6, <1>7, <1>8, <1>9, <1>10 DEF Evaluate

(* The same for what handlers do: the daemon is up and lists nothing. *)
LEMMA ClosedHandler ==
    ASSUME TypeInv, TypeInv', RestInv, ClosedInv, Trusty, daemon = "up",
           UNCHANGED <<exec, scan, todo>>, ClosedRows, OpenSends, OpenTasks
    PROVE  ClosedInv'
<1>1. todo' = {}
  BY DEF RestInv, Trusty
<1> QED  BY <1>1, ClosedStill, ClosedFrame

LEMMA ClosedGating ==
    ASSUME TypeInv, TypeInv', RestInv, ClosedInv, Trusty, NEW p \in Handlers, Gate(p)
    PROVE  ClosedRows /\ ClosedInv'
<1> SUFFICES ASSUME NEW k, k = task[p].id
             PROVE  ClosedRows /\ ClosedInv'
  OBVIOUS
<1>0. /\ daemon = "up" /\ UNCHANGED <<exec, scan, todo>> /\ AppOf(p) = Serve
  BY UpSteps, OneApp DEF Trusty, Gate, CheckFreeze, CheckMaintenance, Refuse, Persist
<1>1. task[p].pc \in ProposingPc
  BY DEF Gate, CheckFreeze, CheckMaintenance, Refuse, Persist, ProposingPc
<1>2. /\ k \in Ids /\ Open(k) /\ task[p].row \in Row /\ task[p].row.life # "recovered"
  BY <1>1, SoloBusy DEF ClosedInv, OpenTask
<1>3. /\ \A result, closure : Closed(task[p].row, result, closure).life # "recovered"
      /\ Held(task[p].row).life # "recovered"
  BY <1>2 DEF Closed, Held, Row
<1>4. ClosedRows
  <2>1. UNCHANGED rows \/ \E row : Write(k, row) /\ row.life # "recovered"
    BY <1>2, <1>3 DEF Gate, CheckFreeze, CheckMaintenance, Refuse, Persist, WriteOrLose
  <2> QED  BY <1>2, <2>1, ClosedWrote
<1>5. OpenSends
  <2>1. UNCHANGED queue \/ Send(Serve, k, task[p].row)
    BY <1>0 DEF Gate, CheckFreeze, CheckMaintenance, Refuse, Persist
  <2> QED  BY <1>2, <2>1, ClosedSent, ClosedStill
<1>6. OpenTasks
  <2>1. ASSUME NEW pc \in {"refuse", "maintenance", "persist"},
               \/ TaskStep(p, pc)
               \/ \E result, closure : TaskRow(p, pc, Closed(task[p].row, result, closure))
        PROVE  OpenTasks
    <3>1. /\ task'[p].pc = pc /\ task'[p].id = k /\ task'[p].row.life # "recovered"
          /\ \A q \in Handlers \ {p} : task'[q] = task[q]
      BY <1>2, <1>3, <2>1, TaskSteps
    <3> QED  BY <1>2, <3>1, ClosedProposal, ClosedTask DEF ProposingPc
  <2>2. ASSUME Settle(p)
        PROVE  OpenTasks
    BY <2>2, TaskSteps, ClosedTask DEF ProposingPc, DecidingPc, RevertingPc
  <2>3. CASE CheckFreeze(p) \/ CheckMaintenance(p)
    BY <2>1, <2>3 DEF CheckFreeze, CheckMaintenance
  <2>4. CASE Refuse(p) \/ Persist(p)
    BY <2>1, <2>2, <2>4 DEF Refuse, Persist, Superseded
  <2> QED  BY <2>3, <2>4 DEF Gate
<1> QED  BY <1>0, <1>4, <1>5, <1>6, ClosedHandler

LEMMA ClosedSession ==
    ASSUME TypeInv, TypeInv', RestInv, ClosedInv, Trusty, NEW s \in Sessions,
           Submit(s) \/ ReceiveDecision(s) \/ Decide(s)
    PROVE  ClosedRows /\ ClosedInv'
<1> PICK k : k = task[s].id
  OBVIOUS
<1>0. /\ s \in Handlers /\ AppOf(s) = Serve /\ task \in [Handlers -> TaskState]
      /\ daemon = "up" /\ UNCHANGED <<exec, scan, todo>>
  BY UpSteps, OneApp DEF Trusty, Handlers, TypeInv, TypeOK, TaskOK, Submit, ReceiveDecision, Decide,
     UpdateRow, ReadForMerge, WriteMerged, ReloadAndSend, DecisionFails
<1>1. OpenTask(task[s])
  BY <1>0 DEF ClosedInv
<1>2. task[s].pc \in DecidingPc => k \in Ids /\ Open(k)
  BY <1>0, <1>1 DEF OpenTask, TypeInv, TaskShapes, TaskShape
<1>3. \A pc, told : Answer(s, pc, told) /\ pc \in {"done", "drain"} => OpenTasks
  BY <1>0, TaskSteps, ClosedTask DEF ProposingPc, DecidingPc, RevertingPc
<1>4. CASE Submit(s)
  <2>1. PICK a \in Actions, pc \in {"persist", "freeze"} :
          /\ Fresh(a)
          /\ task' = [task EXCEPT ![s] = [TaskIdle EXCEPT !.pc = pc, !.op = "submit", !.id = a,
                                                           !.row = NewRow(ActorOf[s])]]
    BY <1>4, ZenonT(60) DEF Submit
  <2>2. /\ task'[s].pc = pc /\ task'[s].id = a /\ task'[s].row.life = "pending"
        /\ \A q \in Handlers \ {s} : task'[q] = task[q]
    BY <1>0, <2>1 DEF TaskIdle, NewRow, NoRow
  <2>3. Open(a)
    BY <2>1 DEF Fresh, Open
  <2>4. OpenTasks
    BY <1>0, <2>2, <2>3, ClosedProposal, ClosedTask DEF ProposingPc
  <2>5. UNCHANGED <<rows, queue>>
    BY <1>4 DEF Submit
  <2> QED  BY <1>0, <2>4, <2>5, ClosedStill, ClosedHandler
<1>5. CASE ReceiveDecision(s)
  <2>1. PICK op \in Requests \cap {"approve", "reject"}, id \in Ids, glass \in Glass :
          /\ Undecided(rows[id])
          /\ task' = [task EXCEPT ![s] =
                       [TaskIdle EXCEPT !.pc = "update", !.op = op, !.id = id,
                                        !.row = rows[id], !.glass = glass]]
    BY <1>5 DEF ReceiveDecision
  <2>2. /\ task'[s].pc = "update" /\ task'[s].id = id
        /\ \A q \in Handlers \ {s} : task'[q] = task[q]
    BY <1>0, <2>1 DEF TaskIdle
  <2>3. OpenTask(task'[s])
    BY <2>1, <2>2 DEF OpenTask, Undecided, Open, ProposingPc, RevertingPc
  <2>4. UNCHANGED <<rows, queue>>
    BY <1>5 DEF ReceiveDecision
  <2> QED  BY <1>0, <2>2, <2>3, <2>4, ClosedTask, ClosedStill, ClosedHandler
<1>6. CASE UpdateRow(s)
  <2>1. PICK new : /\ new \in {Approved(rows[k], ActorOf[s], TRUE),
                               Approved(rows[k], ActorOf[s], FALSE), Rejected(rows[k])}
                   /\ Write(k, new)
                   /\ \/ Answer(s, "done", "error")
                      \/ \E pc \in {"merge", "reload"} :
                           task' = [task EXCEPT ![s].pc = pc, ![s].hit = Undecided(rows[k])]
    BY <1>6 DEF UpdateRow, Approved
  <2>2. task[s].pc = "update" /\ k \in Ids /\ Open(k) /\ UNCHANGED queue
    BY <1>2, <1>6 DEF UpdateRow, DecidingPc
  <2>3. new.life # "recovered"
    BY <2>1, <2>2 DEF Approved, Rejected, Closed, Open, TypeInv, TypeOK, StoreOK, Row
  <2>4. ClosedRows
    BY <2>1, <2>2, <2>3, ClosedWrote
  <2>5. OpenTasks
    <3>1. ASSUME NEW pc \in {"merge", "reload"},
                 task' = [task EXCEPT ![s].pc = pc, ![s].hit = Undecided(rows[k])]
          PROVE  OpenTasks
      <4>1. /\ task'[s].pc = pc /\ task'[s].id = k
            /\ \A q \in Handlers \ {s} : task'[q] = task[q]
        BY <1>0, <3>1 DEF TaskState
      <4>2. OpenTask(task'[s])
        BY <2>2, <4>1 DEF OpenTask, ProposingPc, RevertingPc
      <4> QED  BY <1>0, <4>1, <4>2, ClosedTask
    <3> QED  BY <1>3, <2>1, <3>1
  <2> QED  BY <1>0, <2>2, <2>4, <2>5, ClosedStill, ClosedHandler
<1>7. CASE ReadForMerge(s)
  <2>1. /\ task[s].pc = "merge" /\ k \in Ids /\ Open(k) /\ UNCHANGED <<rows, queue>>
        /\ TaskRow(s, "patch", rows[k])
    BY <1>2, <1>7 DEF ReadForMerge, DecidingPc
  <2>2. /\ task'[s].pc = "patch" /\ task'[s].id = k /\ task'[s].row = rows[k]
        /\ \A q \in Handlers \ {s} : task'[q] = task[q]
    BY <1>0, <2>1, TaskSteps
  <2>3. OpenTask(task'[s])
    BY <2>1, <2>2 DEF OpenTask, ProposingPc, RevertingPc, Open
  <2> QED  BY <1>0, <2>1, <2>2, <2>3, ClosedTask, ClosedStill, ClosedHandler
<1>8. CASE WriteMerged(s)
  <2>1. /\ task[s].pc = "patch" /\ k \in Ids /\ Open(k) /\ UNCHANGED queue
        /\ Write(k, task[s].row) /\ TaskStep(s, "reload") /\ task[s].row.life # "recovered"
    BY <1>1, <1>2, <1>8 DEF WriteMerged, DecidingPc, OpenTask
  <2>2. ClosedRows
    BY <2>1, ClosedWrote
  <2>3. /\ task'[s].pc = "reload" /\ task'[s].id = k
        /\ \A q \in Handlers \ {s} : task'[q] = task[q]
    BY <1>0, <2>1, TaskSteps
  <2>4. OpenTask(task'[s])
    BY <2>1, <2>3 DEF OpenTask, ProposingPc, RevertingPc
  <2> QED  BY <1>0, <2>1, <2>2, <2>3, <2>4, ClosedTask, ClosedStill, ClosedHandler
<1>9. CASE ReloadAndSend(s)
  <2>1. /\ task[s].pc = "reload" /\ Open(k) /\ UNCHANGED rows
        /\ UNCHANGED queue \/ Send(Serve, k, rows[k])
        /\ \E told : \E pc \in {"done", "drain"} : Answer(s, pc, told)
    BY <1>0, <1>2, <1>9 DEF ReloadAndSend, DecidingPc
  <2> QED  BY <1>0, <1>3, <2>1, ClosedSent, ClosedStill, ClosedHandler
<1>10. CASE DecisionFails(s)
  <2>1. UNCHANGED <<rows, queue>> /\ Answer(s, "done", "error")
    BY <1>10 DEF DecisionFails
  <2> QED  BY <1>0, <1>3, <2>1, ClosedStill, ClosedHandler
<1> QED  BY <1>4, <1>5, <1>6, <1>7, <1>8, <1>9, <1>10 DEF Decide

(* Before its follow-up the executor acts only while the daemon is up. *)
LEMMA ClosedActor ==
    ASSUME TypeInv, RestInv, ClosedInv, Trusty, exec[Serve].pc \in ActingPc,
           NEW k, k = exec[Serve].id
    PROVE  daemon = "up" /\ k \in Ids /\ Open(k)
<1>1. daemon = "up"
  BY DEF RestInv, Trusty, ActingPc
<1>2. Open(k)
  BY DEF ClosedInv, OpenExec, ActingPc
<1>3. k \in Ids
  BY DEF TypeInv, ExecShapes, ExecShape, Apps, ActingPc
<1> QED  BY <1>1, <1>2, <1>3

LEMMA ClosedDequeue ==
    ASSUME TypeInv, TypeInv', RestInv, ClosedInv, Trusty, Dequeue(Serve)
    PROVE  ClosedRows /\ ClosedInv'
<1> SUFFICES ASSUME NEW c, c = Head(queue[Serve])
             PROVE  ClosedRows /\ ClosedInv'
  OBVIOUS
<1> DEFINE row == Closed(c.row, "denied_by_policy", "superseded")
<1>1. /\ daemon = "up" /\ exec[Serve].pc = "idle" /\ Take(Serve) /\ UNCHANGED <<todo, scan, task>>
      /\ Write(c.id, row) \/ UNCHANGED rows
      /\ \/ exec' = [exec EXCEPT ![Serve] = [pc |-> "freeze", id |-> c.id, row |-> c.row]]
         \/ exec' = exec
  BY DEF Dequeue, WriteOrLose, MayDequeue, Trusty
<1>2. queue[Serve] \in Seq(Copy) /\ queue[Serve] # <<>> /\ queue'[Serve] = Tail(queue[Serve])
  BY <1>1 DEF TypeInv, TypeOK, QueueOK, Apps, Take
<1>3. 1 \in 1..Len(queue[Serve]) /\ queue[Serve][1] = c /\ c \in Copy
  BY <1>2
<1>4. c.id \in Ids /\ Open(c.id) /\ row.life = "completed"
  BY <1>3 DEF ClosedInv, Copy, Closed, Row
<1> HIDE DEF row
<1>5. ClosedRows
  BY <1>1, <1>4, ClosedWrote
<1>6. OpenSends
  <2>1. \A i \in 1..Len(queue'[Serve]) :
           i + 1 \in 1..Len(queue[Serve]) /\ queue'[Serve][i] = queue[Serve][i + 1]
    BY <1>2
  <2> QED  BY <2>1 DEF OpenSends
<1>7. OpenExec(exec'[Serve])
  <2>1. \/ exec'[Serve].pc = "idle"
        \/ exec'[Serve].pc = "freeze" /\ exec'[Serve].id = c.id
    BY <1>1 DEF TypeInv, TypeOK, ExecOK, Apps
  <2> QED  BY <1>4, <2>1 DEF OpenExec
<1>8. OpenTasks /\ OpenScans /\ OpenTodo
  BY <1>1, ClosedStill DEF RestInv, Trusty
<1> QED  BY <1>5, <1>6, <1>7, <1>8, ClosedFrame

(* With one failed statement, nobody's requests keep the follow-up from being missed. *)
LEMMA ClosedFollowUp ==
    ASSUME TypeInv, TypeInv', ClosedInv, SoloInv, Trusty, ~Fault \/ Unattended,
           SeekFollowUp(Serve) \/ PersistFollowUp(Serve)
    PROVE  ClosedRows /\ ClosedInv'
<1> SUFFICES ASSUME NEW k, k = exec[Serve].id, NEW r, r = HealthRecheck(k)
             PROVE  ClosedRows /\ ClosedInv'
  OBVIOUS
<1>1. /\ exec[Serve].pc \in {"followup", "persist"} /\ UNCHANGED <<todo, scan, task>>
      /\ Serve \in Apps
  BY DEF SeekFollowUp, PersistFollowUp, Apps
<1>2. k \in Actions /\ TypeOf[k] = "restart_transport" /\ r \in Ids
  BY <1>1, FollowUpNames DEF TypeInv, ExecShapes, ExecShape
<1>3. OpenTasks /\ OpenScans
  BY <1>1, ClosedStill
<1>4. exec'[Serve].pc = "idle" => OpenExec(exec'[Serve])
  BY DEF OpenExec
<1>5. CASE SeekFollowUp(Serve)
  <2>1. UNCHANGED <<rows, queue>>
    BY <1>5 DEF SeekFollowUp
  <2>2. OpenExec(exec'[Serve])
    <3>1. CASE ExecDone(Serve)
      BY <1>4, <3>1, OwnSteps
    <3>2. CASE ExecStep(Serve, "persist", exec[Serve].row) /\ (rows[r].life = "none" \/ Fault)
      <4>1. exec'[Serve].pc = "persist" /\ exec'[Serve].id = k
        BY <3>2, OwnSteps
      <4>2. rows[r].life = "none"
        <5>1. CASE Unattended
          <6>1. ~FollowedUp(k)
            BY <1>1, <1>2, <5>1 DEF SoloInv, SoloExec
          <6> QED  BY <1>2, <6>1 DEF FollowedUp, Exists
        <5> QED  BY <3>2, <5>1
      <4>3. Open(r) /\ \A c \in todo : c.id # r
        BY <4>2 DEF ClosedInv, Open, Incomplete
      <4> QED  BY <4>1, <4>3 DEF OpenExec
    <3> QED  BY <1>5, <3>1, <3>2 DEF SeekFollowUp
  <2> QED  BY <1>1, <1>3, <2>1, <2>2, ClosedStill, ClosedFrame
<1>6. CASE PersistFollowUp(Serve)
  <2> DEFINE row == NewRow("system")
  <2>1. /\ exec[Serve].pc = "persist" /\ ExecDone(Serve)
        /\ \/ Write(r, row) /\ Send(Serve, r, row)
           \/ UNCHANGED <<rows, queue>>
    BY <1>6 DEF PersistFollowUp
  <2>2. Open(r) /\ (\A c \in todo : c.id # r) /\ row.life # "recovered"
    BY <2>1 DEF ClosedInv, OpenExec, NewRow, NoRow
  <2> HIDE DEF row
  <2>3. ClosedRows
    BY <1>2, <2>1, <2>2, ClosedWrote
  <2>4. OpenSends
    BY <2>1, <2>2, ClosedSent, ClosedStill
  <2>5. \A c \in todo : rows'[c.id] = rows[c.id]
    BY <2>1, <2>2 DEF Write, TypeInv, TypeOK, StoreOK, RecoveryOK, Copy
  <2>6. \A id : id # r /\ ~Queued(id) => ~Queued(id)'
    <3>1. \A i \in 1..Len(queue'[Serve]) :
             \/ \E j \in 1..Len(queue[Serve]) : queue'[Serve][i] = queue[Serve][j]
             \/ queue'[Serve][i] = [id |-> r, row |-> row]
      BY <1>1, <2>1, SentCopies
    <3> QED  BY <3>1 DEF Queued
  <2>7. OpenTodo
    BY <1>1, <2>2, <2>5, <2>6 DEF OpenTodo
  <2> QED  BY <1>3, <1>4, <2>1, <2>3, <2>4, <2>7, OwnSteps, ClosedFrame
<1> QED  BY <1>5, <1>6

LEMMA ClosedExecutor ==
    ASSUME TypeInv, TypeInv', RestInv, ClosedInv, SoloInv, Trusty, ~Fault \/ Unattended,
           Execute(Serve)
    PROVE  ClosedRows /\ ClosedInv'
<1> SUFFICES ASSUME NEW k, k = exec[Serve].id
             PROVE  ClosedRows /\ ClosedInv'
  OBVIOUS
<1> DEFINE x == exec[Serve]
<1>1. x.row \in Row /\ Serve \in Apps /\ OpenExec(x)
  BY OwnSteps DEF ClosedInv, Apps
<1>2. \A result, closure : Closed(x.row, result, closure).life = "completed"
  BY <1>1 DEF Closed, Row
<1>3. exec'[Serve].pc \in {"idle", "followup"} => OpenExec(exec'[Serve])
  BY DEF OpenExec
<1>4. ASSUME x.pc \in ActingPc, UNCHANGED <<queue, scan, todo>>, ClosedRows, OpenTasks,
             OpenExec(exec'[Serve])
      PROVE  ClosedRows /\ ClosedInv'
  <2>1. daemon = "up" /\ todo' = {}
    BY <1>4, ClosedActor DEF RestInv, Trusty
  <2> QED  BY <1>4, <2>1, ClosedStill, ClosedFrame
<1>5. ASSUME x.pc \in ActingPc, UNCHANGED <<queue, scan, todo, task>>, OpenExec(exec'[Serve]),
             \/ UNCHANGED rows
             \/ \E row : Write(k, row) /\ row.life # "recovered"
      PROVE  ClosedRows /\ ClosedInv'
  <2>1. k \in Ids /\ Open(k)
    BY <1>5, ClosedActor
  <2>2. ASSUME NEW row, Write(k, row) /\ row.life # "recovered"
        PROVE  ClosedRows
    BY <2>1, <2>2, ClosedWrote
  <2>3. ClosedRows
    BY <1>5, <2>2, ClosedStill
  <2> QED  BY <1>4, <1>5, <2>3, ClosedStill
<1>6. CASE RecheckFreeze(Serve) \/ RecheckMaintenance(Serve)
  <2>1. /\ x.pc \in ActingPc /\ UNCHANGED <<rows, queue, scan, todo, task>>
        /\ \/ \E result, closure : ExecStep(Serve, "refuse", Closed(x.row, result, closure))
           \/ \E pc \in {"maintenance", "start"} : ExecStep(Serve, pc, x.row)
    BY <1>6 DEF RecheckFreeze, RecheckMaintenance, Recheck, ActingPc
  <2>2. /\ exec'[Serve].id = k
        /\ \/ exec'[Serve].pc = "refuse" /\ exec'[Serve].row.life = "completed"
           \/ exec'[Serve].pc \in {"maintenance", "start"}
    BY <1>2, <2>1, OwnSteps
  <2>3. Open(k)
    BY <2>1, ClosedActor
  <2>4. OpenExec(exec'[Serve])
    BY <2>2, <2>3 DEF OpenExec
  <2> QED  BY <1>5, <2>1, <2>4
<1>7. CASE RefuseExecution(Serve)
  <2>1. /\ x.pc = "refuse"
        /\ Write(k, x.row) \/ UNCHANGED rows
        /\ ExecDone(Serve) /\ UNCHANGED <<queue, scan, todo, task>>
    BY <1>7 DEF RefuseExecution, WriteOrLose
  <2>2. x.pc \in ActingPc /\ x.row.life # "recovered"
    BY <1>1, <1>7 DEF RefuseExecution, OpenExec, ActingPc
  <2> QED  BY <1>3, <1>5, <2>1, <2>2, OwnSteps
<1>8. CASE Start(Serve)
  <2> DEFINE row == [x.row EXCEPT !.life = "running"]
  <2>1. x.pc \in ActingPc /\ UNCHANGED <<queue, scan, todo, task>>
    BY <1>8 DEF Start, ActingPc
  <2>2. row \in Row /\ row.life = "running"
    BY <1>1 DEF Row, Lifecycles
  <2>3. \A result, closure : Closed(row, result, closure).life = "completed"
    BY <2>2 DEF Closed, Row
  <2>4. \/ /\ UNCHANGED rows \/ \E closure : Write(k, Closed(row, "denied_by_policy", closure))
           /\ ExecDone(Serve)
        \/ Write(k, row) /\ ExecStep(Serve, "actuate", row)
    BY <1>8 DEF Start, WriteOrLose
  <2>5. Open(k)
    BY <2>1, ClosedActor
  <2>6. OpenExec(exec'[Serve])
    <3>1. ExecStep(Serve, "actuate", row) =>
             exec'[Serve].pc = "actuate" /\ exec'[Serve].id = k
      BY OwnSteps
    <3>2. exec'[Serve].pc = "actuate" /\ exec'[Serve].id = k => OpenExec(exec'[Serve])
      BY <2>5 DEF OpenExec
    <3> QED  BY <1>3, <2>4, <3>1, <3>2, OwnSteps
  <2> HIDE DEF row
  <2>7. UNCHANGED rows \/ \E new : Write(k, new) /\ new.life # "recovered"
    BY <2>2, <2>3, <2>4
  <2> QED  BY <1>5, <2>1, <2>6, <2>7
<1>9. CASE Actuate(Serve)
  <2>1. /\ x.pc \in ActingPc /\ UNCHANGED <<rows, queue, scan, todo>>
        /\ \E result, closure : ExecStep(Serve, "finish", Closed(x.row, result, closure))
    BY <1>9 DEF Actuate, ActingPc
  <2>2. exec'[Serve].pc = "finish" /\ exec'[Serve].id = k /\ exec'[Serve].row.life = "completed"
    BY <1>2, <2>1, OwnSteps
  <2>3. Open(k)
    BY <2>1, ClosedActor
  <2>4. OpenExec(exec'[Serve])
    BY <2>2, <2>3 DEF OpenExec
  <2>5. OpenTasks
    <3>1. ASSUME NEW e \in Evals, TaskStep(e, "decide")
          PROVE  OpenTasks
      <4>1. /\ e \in Handlers
            /\ task'[e].pc \notin ProposingPc \cup DecidingPc \cup RevertingPc
            /\ \A q \in Handlers \ {e} : task'[q] = task[q]
        BY <3>1, TaskSteps DEF Handlers, ProposingPc, DecidingPc, RevertingPc
      <4> QED  BY <4>1, ClosedTask
    <3> QED  BY <1>9, <3>1, ClosedStill DEF Actuate
  <2>6. ClosedRows
    BY <2>1, ClosedStill
  <2> QED  BY <1>4, <2>1, <2>4, <2>5, <2>6
<1>10. CASE Finish(Serve)
  <2>1. /\ x.pc = "finish"
        /\ Write(k, x.row) \/ UNCHANGED rows
        /\ ExecStep(Serve, "followup", x.row) \/ ExecDone(Serve)
        /\ UNCHANGED <<queue, scan, todo, task>>
    BY <1>10 DEF Finish, WriteOrLose
  <2>2. x.pc \in ActingPc /\ x.row.life # "recovered"
    BY <1>1, <1>10 DEF Finish, OpenExec, ActingPc
  <2>3. exec'[Serve].pc \in {"idle", "followup"}
    BY <2>1, OwnSteps
  <2> QED  BY <1>3, <1>5, <2>1, <2>2, <2>3
<1> QED  BY <1>6, <1>7, <1>8, <1>9, <1>10, ClosedDequeue, ClosedFollowUp DEF Execute

LEMMA ClosedElsewhere ==
    ASSUME TypeInv, TypeInv', RestInv, ClosedInv, Trusty,
           BeginEvaluation \/ ExpireStaleApprovalActions \/ Time \/ Operate \/ UNCHANGED vars
    PROVE  ClosedRows /\ ClosedInv'
<1>1. UNCHANGED <<queue, exec, scan, todo>>
  BY DEF vars, BeginEvaluation, ExpireStaleApprovalActions, Time, ApprovalDeadlinePasses,
     BackoffLapses, Operate, CreateFreeze, ClearFreeze, ToggleWindow
<1>2. CASE UNCHANGED <<rows, task>>
  BY <1>1, <1>2, ClosedStill, ClosedFrame
<1>3. CASE BeginEvaluation
  <2>1. /\ UNCHANGED rows /\ Ticker \in Handlers
        /\ task'[Ticker].pc \notin ProposingPc \cup DecidingPc \cup RevertingPc
        /\ \A q \in Handlers \ {Ticker} : task'[q] = task[q]
    BY <1>3, TaskSteps DEF BeginEvaluation, Handlers, ProposingPc, DecidingPc, RevertingPc
  <2> QED  BY <1>1, <2>1, ClosedTask, ClosedStill, ClosedFrame
<1>4. CASE ExpireStaleApprovalActions
  <2>1. daemon = "up" /\ UNCHANGED task
    BY <1>4 DEF ExpireStaleApprovalActions
  <2>2. ASSUME NEW id \in Ids
        PROVE  IF Open(id) THEN rows'[id].life # "recovered" ELSE rows'[id] = rows[id]
    <3>1. rows'[id] = rows[id] \/ rows'[id] = ExpiredApproval(rows[id])
      BY <1>4 DEF ExpireStaleApprovalActions
    <3>2. rows[id] \in Row
      BY DEF TypeInv, TypeOK, StoreOK
    <3> QED  BY <3>1, <3>2 DEF ExpiredApproval, Undecided, Closed, Row, Open
  <2>3. ClosedRows
    BY <2>2 DEF ClosedRows, Open
  <2> QED  BY <1>1, <2>1, <2>3, ClosedStill, ClosedHandler
<1> QED  BY <1>2, <1>3, <1>4 DEF vars, Time, ApprovalDeadlinePasses, BackoffLapses, Operate,
            CreateFreeze, ClearFreeze, ToggleWindow

LEMMA ClosedCrash ==
    ASSUME TypeInv, TypeInv', ClosedInv, Trusty, Crash
    PROVE  ClosedRows /\ ClosedInv'
<1>1. /\ todo' = {} /\ UNCHANGED rows /\ exec'[Serve].pc = "idle" /\ queue'[Serve] = <<>>
      /\ \A e \in Evals : scan'[e] = {}
      /\ \A p \in Handlers : task'[p].pc \in {"idle", "done"}
  BY CrashClears DEF Trusty
<1>2. OpenExec(exec'[Serve]) /\ OpenScans /\ OpenSends
  BY <1>1 DEF OpenExec, OpenScans, OpenSends
<1>3. OpenTasks
  BY <1>1 DEF OpenTasks, OpenTask, ProposingPc, DecidingPc, RevertingPc
<1> QED  BY <1>1, <1>2, <1>3, ClosedStill, ClosedFrame

(* Recovery closes the rows it listed; nobody has one of them in hand. *)
LEMMA ClosedRecovery ==
    ASSUME TypeInv, TypeInv', RestInv, ClosedInv, Trusty, Recover
    PROVE  /\ \A id \in Ids : ~Open(id) => rows'[id] = rows[id]
           /\ ClosedInv'
<1>1. UNCHANGED <<queue, task, scan>> /\ Cli = {}
  BY DEF Recover, Restart, RecoverRow, StartWorkers, Trusty
<1>2. CASE Restart
  <2>1. /\ UNCHANGED <<rows, exec>> /\ daemon = "down"
        /\ todo' \subseteq {[id |-> id, row |-> rows[id]] : id \in {i \in Ids : Incomplete(rows[i])}}
    BY <1>2 DEF Restart
  <2>2. queue'[Serve] = <<>>
    BY <1>1, <2>1 DEF RestInv
  <2>3. \A c \in todo' : c.row = rows'[c.id] /\ Incomplete(c.row) /\ ~Queued(c.id)'
    BY <2>1, <2>2 DEF Queued
  <2>4. exec[Serve].pc = "idle"
    BY <1>1, <2>1 DEF RestInv
  <2>5. OpenExec(exec[Serve])'
    BY <2>1, <2>4 DEF OpenExec
  <2>6. /\ \A id \in Ids : rows'[id].life = "recovered" => ~Succeeded(rows'[id])
        /\ \A i \in 1..Len(queue'[Serve]) : Open(queue[Serve][i].id)'
        /\ \A p \in Handlers : OpenTask(task[p])'
        /\ \A e \in Evals : \A c \in scan'[e] : OpenScan(c)'
    BY <1>1, <2>1 DEF ClosedInv, OpenTask, OpenScan, Open
  <2> QED  BY <2>1, <2>3, <2>5, <2>6 DEF ClosedInv
<1>3. CASE StartWorkers
  <2>1. UNCHANGED <<rows, exec, todo>>
    BY <1>3 DEF StartWorkers
  <2> QED  BY <1>1, <2>1, ClosedStill, ClosedFrame
<1>4. CASE RecoverRow
  <2>1. PICK c \in todo :
          /\ todo' = todo \ {c}
          /\ Write(c.id, Recovered(c.id, c.row)) \/ UNCHANGED rows
          /\ exec' = exec \/ exec'[Serve].pc = "followup"
    BY <1>4 DEF RecoverRow, WriteOrLose, TypeInv, TypeOK, ExecOK, Apps
  <2> SUFFICES ASSUME NEW k, k = c.id
               PROVE  /\ \A id \in Ids : ~Open(id) => rows'[id] = rows[id]
                      /\ ClosedInv'
    OBVIOUS
  <2>2. /\ exec[Serve].pc = "idle"
        /\ \A p \in Handlers : task[p].pc \in {"idle", "done"}
        /\ \A e \in Evals : scan[e] = {}
    BY <1>1, <1>4 DEF RecoverRow, RestInv
  <2>3. k \in Ids /\ c.row = rows[k] /\ Incomplete(rows[k]) /\ ~Queued(k) /\ c.row \in Row
    BY <2>1 DEF ClosedInv, TypeInv, TypeOK, RecoveryOK, Copy
  <2>4. ~Succeeded(Recovered(k, c.row))
    BY <2>3 DEF Recovered, Row, Succeeded
  <2>5. \A id \in Ids : /\ id # k => rows'[id] = rows[id]
                        /\ rows'[k] = rows[k] \/ rows'[k] = Recovered(k, c.row)
    BY <2>1, <2>3 DEF Write, TypeInv, TypeOK, StoreOK
  <2>6. \A id \in Ids : ~Open(id) => rows'[id] = rows[id]
    BY <2>3, <2>5 DEF Open, Incomplete
  <2>7. \A id \in Ids : rows'[id].life = "recovered" => ~Succeeded(rows'[id])
    BY <2>4, <2>5 DEF ClosedInv
  <2>8. ASSUME NEW i \in 1..Len(queue'[Serve])
        PROVE  Open(queue[Serve][i].id)'
    <3>1. queue[Serve] \in Seq(Copy) /\ queue' = queue
      BY <1>1 DEF TypeInv, TypeOK, QueueOK, Apps
    <3>2. queue[Serve][i] \in Copy /\ i \in 1..Len(queue[Serve])
      BY <3>1
    <3>3. Open(queue[Serve][i].id) /\ queue[Serve][i].id \in Ids /\ queue[Serve][i].id # k
      BY <2>3, <3>2 DEF ClosedInv, Copy, Queued
    <3> QED  BY <2>5, <3>1, <3>3 DEF Open
  <2>9. OpenExec(exec[Serve])'
    BY <2>1, <2>2 DEF OpenExec
  <2>10. /\ \A p \in Handlers : OpenTask(task[p])'
         /\ \A e \in Evals : \A d \in scan'[e] : OpenScan(d)'
    BY <1>1, <2>2 DEF OpenTask, OpenScan, ProposingPc, DecidingPc, RevertingPc
  <2>11. ASSUME NEW d \in todo'
         PROVE  d.row = rows'[d.id] /\ Incomplete(d.row) /\ ~Queued(d.id)'
    <3>1. d \in todo /\ d # c /\ d \in Copy /\ c \in Copy
      BY <2>1 DEF TypeInv, TypeOK, RecoveryOK
    <3>2. d.row = rows[d.id] /\ Incomplete(d.row) /\ ~Queued(d.id)
      BY <3>1 DEF ClosedInv
    <3>3. d.id # k
      BY <2>3, <3>1, <3>2 DEF Copy
    <3>4. ~Queued(d.id)'
      BY <1>1, <3>2 DEF Queued
    <3> QED  BY <2>5, <3>1, <3>2, <3>3, <3>4 DEF Copy
  <2> QED  BY <2>6, <2>7, <2>8, <2>9, <2>10, <2>11 DEF ClosedInv
<1> QED  BY <1>2, <1>3, <1>4 DEF Recover, ClosedRows

(* While the daemon can be trusted, a statement fails only where nobody decides. *)
LEMMA TrustyBefore ==
    ASSUME TypeInv, [Next]_vars, Trusty'
    PROVE  Trusty /\ (~Fault \/ Unattended)
<1>1. /\ faults \in Nat
      /\ faults' = faults \/ Fault
      /\ Fault => faults' = faults + 1
  BY FaultsMove DEF TypeInv, TypeOK, HistoryOK, Fault
<1>2. Cli = {} /\ (faults' = 0 \/ (faults' = 1 /\ Sessions = {}))
  BY DEF Trusty
<1>3. Fault => faults = 0 /\ faults' = 1
  BY <1>1, <1>2
<1> QED  BY <1>1, <1>2, <1>3 DEF Trusty, Unattended

LEMMA StepCloses ==
    ASSUME TypeInv, TypeInv', RestInv, SoloInv, ClosedInv, [Next]_vars, Trusty'
    PROVE  ClosedInv' /\ \A id \in Ids : ~Open(id) => rows'[id] = rows[id]
<1>1. Trusty /\ (~Fault \/ Unattended)
  BY TrustyBefore
<1>2. Apps = {Serve} /\ Handlers = Sessions \cup Evals
  BY <1>1, OneApp DEF Trusty, Handlers
<1>3. ClosedRows => \A id \in Ids : ~Open(id) => rows'[id] = rows[id]
  BY DEF ClosedRows
<1>4. CASE UNCHANGED vars
  BY <1>1, <1>3, <1>4, ClosedElsewhere
<1>5. CASE Next
  <2>1. \A s \in Sessions : ~ExitCli(s) /\ ~Kill(s)
    BY <1>1, UpSteps DEF Trusty
  <2>2. CASE Recover
    BY <1>1, <2>2, ClosedRecovery
  <2>3. CASE ~Recover
    BY <1>1, <1>2, <1>3, <1>5, <2>1, <2>3, ClosedElsewhere, ClosedEvaluator, ClosedGating,
       ClosedSession, ClosedExecutor, ClosedCrash DEF Next
  <2> QED  BY <2>2, <2>3
<1> QED  BY <1>4, <1>5

LEMMA InitCloses == Init => ClosedInv
<1> SUFFICES ASSUME Init
             PROVE  ClosedInv
  OBVIOUS
<1>1. \A id \in Ids : rows[id].life = "none"
  BY DEF Init, NoRow
<1>2. queue[Serve] = <<>> /\ exec[Serve].pc = "idle" /\ todo = {}
  BY DEF Init, Apps, ExecIdle
<1>3. \A p \in Handlers : OpenTask(task[p])
  BY DEF Init, TaskIdle, OpenTask, ProposingPc, DecidingPc, RevertingPc
<1>4. \A e \in Evals : scan[e] = {}
  BY DEF Init
<1> QED  BY <1>1, <1>2, <1>3, <1>4 DEF ClosedInv, OpenExec

(* With nobody's requests and no failed statement an action is in one place at a
   time; and while the daemon can be trusted no process but recovery has a
   recovered action in hand.                                               *)
THEOREM ActionsAreInOnePlace == Spec => [](SoloInv /\ ClosedInv)
<1>1. Init => SoloInv /\ ClosedInv
  BY InitSolos, InitCloses
<1>2. TypeInv /\ TypeInv' /\ RestInv /\ SoloInv /\ ClosedInv /\ [Next]_vars => SoloInv' /\ ClosedInv'
  <2> SUFFICES ASSUME TypeInv, TypeInv', RestInv, SoloInv, ClosedInv, [Next]_vars
               PROVE  SoloInv' /\ ClosedInv'
    OBVIOUS
  <2>1. Trusty' => ClosedInv'
    BY StepCloses
  <2> QED  BY <2>1, StepSolos DEF ClosedInv
<1> QED  BY <1>1, <1>2, TypeCorrect, DaemonRests, PTL DEF Spec

------------------------------------------------------------------------------
(* The properties of the recovery run *)

(* A reset is issued only for a raise that did happen and, unless operators ask
   for something or statements fail, that its parent's row calls reverted. *)
THEOREM ResetsFollowRaises == Spec => []ResetFollowsRaise
<1>1. TypeInv /\ RaiseInv /\ SoloInv => ResetFollowsRaise
  <2> SUFFICES ASSUME TypeInv, RaiseInv, SoloInv, NEW a \in Actions,
                      TypeOf[a] = "backoff_increase", rows[Reset(a)].life # "none"
               PROVE  /\ fired[a] > 0
                      /\ Unattended => rows[a].closure = "expired_and_reverted"
    BY DEF ResetFollowsRaise, Unattended
  <2>1. Exists(Reset(a)) /\ Reset(a) \in Ids
    BY FollowUpNames DEF Exists
  <2>2. Grounded(Reset(a))
    BY <2>1 DEF RaiseInv
  <2>3. Unattended => rows[a].closure = "expired_and_reverted"
    BY <2>1 DEF SoloInv, SoloRow, Undone
  <2> QED  BY <2>2, <2>3 DEF Grounded
<1> QED  BY <1>1, TypeCorrect, ResetsAreGrounded, ActionsAreInOnePlace, PTL

(* The actuator runs for what the executor has in hand. *)
LEMMA RunsAreActs ==
    ASSUME [Next]_vars
    PROVE  fired' = fired \/ \E app \in Apps : Actuate(app)
BY ZenonT(60) DEF Next, vars, BeginEvaluation, Evaluate, ProposeDenied, Propose, ScanExpired,
   RevertSeen,
   CloseReverted, IssueReset, EndEvaluation, Gate, CheckFreeze, CheckMaintenance, Refuse,
   Persist, Submit, ReceiveDecision, Decide, UpdateRow, ReadForMerge, WriteMerged,
   ReloadAndSend, DecisionFails, ExitCli, Kill, ExpireStaleApprovalActions, Crash, Recover,
   Restart, RecoverRow, StartWorkers, Time, ApprovalDeadlinePasses, BackoffLapses, Operate,
   CreateFreeze, ClearFreeze, ToggleWindow, Execute, Dequeue, RecheckFreeze,
   RecheckMaintenance, RefuseExecution, Start, Finish, SeekFollowUp, PersistFollowUp

(* Recovery closes an action for good: while the daemon can be trusted, nothing
   runs a recovered action or moves its row, in this life of it or a later one. *)
THEOREM RecoveryIsFinal == Spec => RecoveredStaysClosed
<1> DEFINE Final == \A id \in Ids : Trusty' /\ rows[id].life = "recovered" =>
                       rows'[id].life = "recovered" /\ fired'[id] = fired[id]
<1>1. TypeInv /\ TypeInv' /\ RestInv /\ SoloInv /\ ClosedInv /\ [Next]_vars => [Final]_vars
  <2> SUFFICES ASSUME TypeInv, TypeInv', RestInv, SoloInv, ClosedInv, [Next]_vars, Trusty',
                      NEW id \in Ids, rows[id].life = "recovered"
               PROVE  rows'[id].life = "recovered" /\ fired'[id] = fired[id]
    OBVIOUS
  <2>1. rows'[id] = rows[id]
    BY StepCloses DEF Open
  <2>2. fired'[id] = fired[id]
    <3>1. CASE Actuate(Serve)
      <4>1. Trusty /\ exec[Serve].pc \in ActingPc
        BY <3>1, TrustyBefore DEF Actuate, ActingPc
      <4>2. exec[Serve].id # id
        BY <4>1, ClosedActor DEF Open
      <4> QED  BY <3>1, <4>2 DEF Actuate, TypeInv, TypeOK, HistoryOK
    <3>2. Apps = {Serve}
      BY TrustyBefore, OneApp DEF Trusty
    <3> QED  BY <3>1, <3>2, RunsAreActs
  <2> QED  BY <2>1, <2>2
<1> QED  BY <1>1, TypeCorrect, DaemonRests, ActionsAreInOnePlace, PTL DEF Spec, RecoveredStaysClosed

------------------------------------------------------------------------------
(* What is lost is found again *)

(* With nobody's requests the daemon is the only process. *)
LEMMA NobodyAsks ==
    ASSUME Sessions = {}
    PROVE  /\ Cli = {} /\ Apps = {Serve} /\ Handlers = Evals
           /\ \A p \in Handlers : AppOf(p) = Serve
  BY PlaneAssumption, OneApp DEF Handlers

(* What a step writes, sends, takes up and lists. *)
PlainRows == \A id \in Ids : \/ rows'[id] = rows[id]
                             \/ Succeeded(rows'[id]) => Over(rows'[id])
PlainSends == \A i \in 1..Len(queue'[Serve]) :
                 \/ \E j \in 1..Len(queue[Serve]) : queue'[Serve][i] = queue[Serve][j]
                 \/ Waiting(queue'[Serve][i].row)
PlainTasks == \A p \in Handlers : task'[p] = task[p] \/ PlainTask(task'[p])
PlainScans == \A e \in Evals : \A c \in scan'[e] : c \in scan[e] \/ Over(c.row)

LEMMA PlainFrame ==
    ASSUME PlainInv, Sessions = {}, PlainRows, PlainSends, PlainTasks, PlainScans,
           PlainExec(exec'[Serve])
    PROVE  PlainInv'
<1> USE DEF PlainInv
<1>1. \A id \in Ids : Succeeded(rows'[id]) => Over(rows'[id])
  BY DEF PlainRows
<1>2. \A i \in 1..Len(queue'[Serve]) : Waiting(queue'[Serve][i].row)
  BY DEF PlainSends
<1>3. \A p \in Handlers : PlainTask(task'[p])
  BY DEF PlainTasks
<1>4. \A e \in Evals : \A c \in scan'[e] : Over(c.row)
  BY DEF PlainScans
<1> QED  BY <1>1, <1>2, <1>3, <1>4 DEF Succeeded, Over, Waiting, PlainTask, PlainExec

(* What becomes of an action in a step: it stays as it is, it is closed or held for
   approval, somebody has it in hand, or it finds the channel full as a follow-up. *)
Fate(id) ==
    \/ rows'[id] = rows[id] /\ (InHand(id) => InHand(id)')
    \/ rows'[id].life \notin {"pending", "running"}
    \/ InHand(id)'
    \/ id \in FollowUps /\ rows'[id].life = "pending" /\ ~HasRoom(Serve)

Fates == \A id \in Ids : Fate(id)

(* Who has an action in hand keeps it, the ids of K aside. *)
KeepsQueue(K) ==
    \A i \in DOMAIN queue[Serve] :
       \/ queue[Serve][i].id \in K
       \/ \E j \in DOMAIN queue'[Serve] : queue'[Serve][j].id = queue[Serve][i].id
KeepsExec(K) ==
    \/ exec[Serve].pc \in {"idle", "followup", "persist"}
    \/ exec[Serve].id \in K
    \/ exec'[Serve].id = exec[Serve].id /\ exec'[Serve].pc \notin {"idle", "followup", "persist"}
KeepsTodo(K) == \A c \in todo : c.id \in K \/ c \in todo'
KeepsTasks(K) ==
    \A e \in Evals : \/ task[e].pc # "refuse"
                     \/ task[e].id \in K
                     \/ task'[e].id = task[e].id /\ task'[e].pc = "refuse"

LEMMA FatesBut ==
    ASSUME NEW K, \A id \in Ids \ K : rows'[id] = rows[id],
           KeepsQueue(K), KeepsExec(K), KeepsTodo(K), KeepsTasks(K),
           \A id \in Ids \cap K : Fate(id)
    PROVE  Fates
<1> SUFFICES ASSUME NEW id \in Ids \ K, InHand(id)
             PROVE  InHand(id)'
  BY DEF Fates, Fate
<1>1. CASE \E i \in DOMAIN queue[Serve] : queue[Serve][i].id = id
  BY <1>1 DEF KeepsQueue, InHand
<1>2. CASE exec[Serve].id = id /\ exec[Serve].pc \notin {"idle", "followup", "persist"}
  BY <1>2 DEF KeepsExec, InHand
<1>3. CASE \E c \in todo : c.id = id
  BY <1>3 DEF KeepsTodo, InHand
<1>4. CASE \E e \in Evals : task[e].id = id /\ task[e].pc = "refuse"
  BY <1>4 DEF KeepsTasks, InHand
<1> QED  BY <1>1, <1>2, <1>3, <1>4 DEF InHand

(* What a step leaves alone stays as it should be. *)
LEMMA PlainStill ==
    ASSUME PlainInv, Sessions = {}
    PROVE  /\ UNCHANGED rows => PlainRows
           /\ UNCHANGED queue => PlainSends /\ \A K : KeepsQueue(K)
           /\ UNCHANGED task => PlainTasks /\ \A K : KeepsTasks(K)
           /\ UNCHANGED scan => PlainScans
           /\ UNCHANGED exec => PlainExec(exec'[Serve]) /\ \A K : KeepsExec(K)
           /\ UNCHANGED todo => \A K : KeepsTodo(K)
<1>1. UNCHANGED queue => PlainSends /\ \A K : KeepsQueue(K)
  BY DEF PlainSends, KeepsQueue
<1>2. UNCHANGED task => PlainTasks /\ \A K : KeepsTasks(K)
  BY DEF PlainTasks, KeepsTasks
<1>3. UNCHANGED exec => PlainExec(exec'[Serve]) /\ \A K : KeepsExec(K)
  BY DEF PlainInv, KeepsExec
<1> QED  BY <1>1, <1>2, <1>3 DEF PlainRows, PlainScans, KeepsTodo

LEMMA PlainWrote ==
    ASSUME TypeInv, NEW k, NEW row, Write(k, row) \/ UNCHANGED rows,
           Succeeded(row) => Over(row)
    PROVE  PlainRows /\ \A id \in Ids \ {k} : rows'[id] = rows[id]
  BY DEF PlainRows, Write, TypeInv, TypeOK, StoreOK

LEMMA PlainSent ==
    ASSUME TypeInv, NEW k, NEW row, Send(Serve, k, row), Waiting(row)
    PROVE  PlainSends /\ (\A K : KeepsQueue(K)) /\ (HasRoom(Serve) => InHand(k)')
<1> DEFINE c == [id |-> k, row |-> row]
<1>0. Serve \in Apps /\ queue[Serve] \in Seq(Copy)
  BY DEF Apps, TypeInv, TypeOK, QueueOK
<1>1. PlainSends
  <2>1. \A i \in 1..Len(queue'[Serve]) :
           (\E j \in 1..Len(queue[Serve]) : queue'[Serve][i] = queue[Serve][j]) \/ queue'[Serve][i] = c
    BY <1>0, SentCopies
  <2> QED  BY <2>1 DEF PlainSends
<1>2. CASE HasRoom(Serve)
  <2>1. queue'[Serve] = Append(queue[Serve], c)
    BY <1>0, <1>2 DEF Send, TypeInv, TypeOK, QueueOK
  <2>2. \A i \in DOMAIN queue[Serve] : i \in DOMAIN queue'[Serve] /\ queue'[Serve][i] = queue[Serve][i]
    BY <1>0, <2>1
  <2>3. Len(queue[Serve]) + 1 \in DOMAIN queue'[Serve] /\ queue'[Serve][Len(queue[Serve]) + 1] = c
    BY <1>0, <2>1
  <2>4. \E i \in DOMAIN queue'[Serve] : queue'[Serve][i].id = k
    BY <2>3
  <2> QED  BY <1>1, <2>2, <2>4 DEF KeepsQueue, InHand
<1>3. CASE ~HasRoom(Serve)
  <2>1. UNCHANGED queue
    BY <1>3 DEF Send
  <2>2. \A K : KeepsQueue(K)
    BY <2>1 DEF KeepsQueue
  <2> QED  BY <1>1, <1>3, <2>2
<1> QED  BY <1>2, <1>3

(* A handler p goes on, whatever it had in hand being in K. *)
LEMMA PlainTaskMoves ==
    ASSUME Sessions = {}, NEW p \in Handlers, \A q \in Handlers \ {p} : task'[q] = task[q]
    PROVE  /\ PlainTask(task'[p]) => PlainTasks
           /\ \A K : task[p].pc # "refuse" \/ task[p].id \in K => KeepsTasks(K)
  BY NobodyAsks DEF PlainTasks, KeepsTasks

LEMMA PlainNew ==
    /\ \A by : NewRow(by).life = "pending" /\ Waiting(NewRow(by)) /\ ~Succeeded(NewRow(by))
    /\ \A row \in Row : \A result, closure :
          LET new == Closed(row, result, closure)
          IN new.life = "completed" /\ Over(new)
  BY DEF NewRow, NoRow, Waiting, Succeeded, Closed, Over, Row

LEMMA PlainEvaluator ==
    ASSUME TypeInv, PlainInv, Sessions = {}, NEW e \in Evals, Evaluate(e)
    PROVE  PlainInv' /\ (~Fault => Fates)
<1>0. /\ e \in Handlers /\ Cli = {} /\ task[e].row \in Row
      /\ scan \in [Evals -> SUBSET Copy]
  BY NobodyAsks DEF TypeInv, TypeOK, TaskOK, TaskState, RecoveryOK
<1>1. UNCHANGED <<exec, todo>>
  BY DEF Evaluate, ProposeDenied, Propose, ScanExpired, RevertSeen, CloseReverted, IssueReset,
     EndEvaluation
<1>2. /\ PlainExec(exec'[Serve]) /\ \A K : KeepsExec(K) /\ KeepsTodo(K)
  BY <1>1, PlainStill
<1>3. task[e].pc # "refuse"
  BY DEF Evaluate, ProposeDenied, Propose, ScanExpired, RevertSeen, CloseReverted, IssueReset,
     EndEvaluation
<1>4. ASSUME NEW pc \in {"idle", "scan", "follow"}, TaskStep(e, pc)
      PROVE  PlainTasks /\ \A K : KeepsTasks(K)
  <2>1. PlainTask(task'[e])
    BY <1>0, <1>4, TaskSteps DEF PlainTask
  <2> QED  BY <1>0, <1>3, <1>4, <2>1, TaskSteps, PlainTaskMoves
<1>5. ASSUME UNCHANGED <<rows, queue>>, PlainTasks, PlainScans, KeepsTasks({})
      PROVE  PlainInv' /\ Fates
  BY <1>2, <1>5, PlainStill, PlainFrame, FatesBut
<1>6. CASE ProposeDenied(e)
  <2> DEFINE new == Closed(NewRow("system"), "denied_by_policy", "")
  <2>1. PICK a \in Proposable : Write(a, new) \/ (Fault /\ UNCHANGED rows)
    BY <1>6 DEF ProposeDenied, WriteOrLose
  <2>2. new.life = "completed" /\ Over(new)
    BY PlainNew, NewRowTypes
  <2> HIDE DEF new
  <2>3. PlainRows /\ \A id \in Ids \ {a} : rows'[id] = rows[id]
    BY <2>1, <2>2, PlainWrote
  <2>4. UNCHANGED <<queue, task, scan>>
    BY <1>6 DEF ProposeDenied
  <2>5. ASSUME ~Fault
        PROVE  \A id \in Ids \cap {a} : Fate(id)
    BY <2>1, <2>2, <2>5 DEF Fate, Write, TypeInv, TypeOK, StoreOK
  <2> QED  BY <1>2, <2>3, <2>4, <2>5, PlainStill, PlainFrame, FatesBut
<1>7. CASE Propose(e)
  <2>1. /\ task'[e].pc = "freeze" /\ task'[e].row = NewRow("system")
        /\ \A q \in Handlers \ {e} : task'[q] = task[q]
    BY <1>0, <1>7 DEF Propose, TaskIdle, TypeInv, TypeOK, TaskOK
  <2>2. PlainTask(task'[e])
    BY <2>1, PlainNew DEF PlainTask
  <2> QED  BY <1>0, <1>3, <1>5, <1>7, <2>1, <2>2, PlainStill, PlainTaskMoves DEF Propose
<1>8. CASE ScanExpired(e)
  <2>1. PICK quiet \in SUBSET {id \in lapsed : RevertDue(id, rows[id])} :
          scan' = [scan EXCEPT ![e] = {[id |-> id, row |-> rows[id]] : id \in quiet}]
    BY <1>8 DEF ScanExpired
  <2>2. \A id \in quiet : Over(rows[id])
    BY DEF RevertDue, PlainInv, Succeeded, TypeInv, TypeOK, StoreOK
  <2>3. PlainScans
    BY <1>0, <2>1, <2>2 DEF PlainScans
  <2> QED  BY <1>4, <1>5, <1>8, <2>3 DEF ScanExpired
<1>9. CASE RevertSeen(e)
  <2>1. PICK c \in scan[e] :
          /\ scan' = [scan EXCEPT ![e] = @ \ {c}]
          /\ \/ UNCHANGED task
             \/ task' = [task EXCEPT ![e].pc = "close", ![e].op = "revert",
                                     ![e].id = c.id, ![e].row = c.row]
    BY <1>9 DEF RevertSeen
  <2>2. PlainScans
    BY <1>0, <2>1 DEF PlainScans
  <2>3. PlainTasks /\ KeepsTasks({})
    <3>1. CASE UNCHANGED task
      BY <3>1, PlainStill
    <3>2. CASE task' = [task EXCEPT ![e].pc = "close", ![e].op = "revert",
                                    ![e].id = c.id, ![e].row = c.row]
      <4>1. /\ task'[e].pc = "close" /\ task'[e].row = c.row
            /\ \A q \in Handlers \ {e} : task'[q] = task[q]
        BY <1>0, <3>2 DEF TypeInv, TypeOK, TaskOK, TaskState
      <4>2. PlainTask(task'[e])
        BY <4>1 DEF PlainInv, PlainTask
      <4> QED  BY <1>0, <1>3, <4>1, <4>2, PlainTaskMoves
    <3> QED  BY <2>1, <3>1, <3>2
  <2> QED  BY <1>5, <1>9, <2>2, <2>3 DEF RevertSeen
<1>10. CASE CloseReverted(e)
  <2> DEFINE new == [task[e].row EXCEPT !.closure = "expired_and_reverted"]
             k == task[e].id
  <2>1. Write(k, new) \/ (Fault /\ UNCHANGED rows)
    BY <1>10 DEF CloseReverted, WriteOrLose
  <2>2. Over(new)
    BY <1>0, <1>10 DEF CloseReverted, PlainInv, PlainTask, Over, Row
  <2> HIDE DEF new
  <2>3. PlainRows /\ \A id \in Ids \ {k} : rows'[id] = rows[id]
    BY <2>1, <2>2, PlainWrote
  <2>4. UNCHANGED <<queue, scan>> /\ PlainTasks /\ \A K : KeepsTasks(K)
    BY <1>4, <1>10 DEF CloseReverted
  <2>5. ASSUME ~Fault
        PROVE  \A id \in Ids \cap {k} : Fate(id)
    BY <2>1, <2>2, <2>5 DEF Fate, Write, Over, TypeInv, TypeOK, StoreOK
  <2> QED  BY <1>2, <2>3, <2>4, <2>5, PlainStill, PlainFrame, FatesBut
<1>11. CASE IssueReset(e)
  <2> SUFFICES ASSUME NEW k, k = Reset(task[e].id)
               PROVE  PlainInv' /\ (~Fault => Fates)
    OBVIOUS
  <2> DEFINE row == NewRow("system")
  <2>1. /\ Write(k, row) \/ (Fault /\ UNCHANGED rows)
        /\ Send(Serve, k, row)
        /\ task' = [task EXCEPT ![e] = [TaskIdle EXCEPT !.pc = "scan"]]
        /\ UNCHANGED scan
    BY <1>11 DEF IssueReset, WriteOrLose
  <2>2. row.life = "pending" /\ Waiting(row) /\ ~Succeeded(row)
    BY PlainNew
  <2> HIDE DEF row
  <2>3. PlainRows /\ \A id \in Ids \ {k} : rows'[id] = rows[id]
    BY <2>1, <2>2, PlainWrote
  <2>4. PlainSends /\ (\A K : KeepsQueue(K)) /\ (HasRoom(Serve) => InHand(k)')
    BY <2>1, <2>2, PlainSent
  <2>5. PlainTasks /\ \A K : KeepsTasks(K)
    <3>1. task'[e].pc = "scan" /\ \A q \in Handlers \ {e} : task'[q] = task[q]
      BY <1>0, <2>1 DEF TaskIdle, TypeInv, TypeOK, TaskOK
    <3>2. PlainTask(task'[e])
      BY <3>1 DEF PlainTask
    <3> QED  BY <1>0, <1>3, <3>1, <3>2, PlainTaskMoves
  <2>6. k \in FollowUps
    BY <1>0, <1>11, FollowUpNames DEF IssueReset, TypeInv, TaskShapes, TaskShape, RevertingPc,
       FollowUps
  <2>7. ASSUME ~Fault
        PROVE  \A id \in Ids \cap {k} : Fate(id)
    BY <2>1, <2>2, <2>4, <2>6, <2>7 DEF Fate, Write, TypeInv, TypeOK, StoreOK
  <2> QED  BY <1>2, <2>1, <2>3, <2>4, <2>5, <2>7, PlainStill, PlainFrame, FatesBut
<1>12. CASE EndEvaluation(e)
  BY <1>4, <1>5, <1>12, PlainStill DEF EndEvaluation
<1> QED  BY <1>6, <1>7, <1>8, <1>9, <1>10, <1>11, <1>12 DEF Evaluate

LEMMA PlainGate ==
    ASSUME TypeInv, PlainInv, Sessions = {}, NEW p \in Handlers, Gate(p)
    PROVE  PlainInv' /\ (~Fault => Fates)
<1> SUFFICES ASSUME NEW k, k = task[p].id
             PROVE  PlainInv' /\ (~Fault => Fates)
  OBVIOUS
<1> DEFINE row == task[p].row
<1>0. /\ row \in Row /\ PlainTask(task[p]) /\ AppOf(p) = Serve /\ p \in Evals
  BY NobodyAsks DEF TypeInv, TypeOK, TaskOK, TaskState, PlainInv
<1>1. UNCHANGED <<exec, todo, scan>>
  BY DEF Gate, CheckFreeze, CheckMaintenance, Refuse, Persist
<1>2. /\ PlainExec(exec'[Serve]) /\ PlainScans /\ \A K : KeepsExec(K) /\ KeepsTodo(K)
  BY <1>1, PlainStill
<1>3. ASSUME NEW new, TaskRow(p, "refuse", new), Over(new), task[p].pc # "refuse"
      PROVE  /\ PlainTasks /\ \A K : KeepsTasks(K)
             /\ InHand(k)'
  <2>1. task'[p].pc = "refuse" /\ task'[p].id = k /\ task'[p].row = new
    BY <1>3, TaskSteps
  <2>2. PlainTask(task'[p]) /\ InHand(k)'
    BY <1>0, <1>3, <2>1 DEF PlainTask, InHand
  <2> QED  BY <1>3, <2>2, TaskSteps, PlainTaskMoves
<1>4. ASSUME NEW pc \in {"maintenance", "persist"}, TaskStep(p, pc),
             task[p].pc \in {"freeze", "maintenance"}
      PROVE  PlainTasks /\ \A K : KeepsTasks(K)
  <2>1. PlainTask(task'[p])
    BY <1>0, <1>4, TaskSteps DEF PlainTask
  <2> QED  BY <1>4, <2>1, TaskSteps, PlainTaskMoves
<1>5. ASSUME Settle(p)
      PROVE  PlainTasks /\ KeepsTasks({k}) /\ (task[p].pc # "refuse" => KeepsTasks({}))
  <2>1. PlainTask(task'[p])
    BY <1>5, TaskSteps DEF PlainTask
  <2> QED  BY <1>5, <2>1, TaskSteps, PlainTaskMoves
<1>6. ASSUME UNCHANGED <<rows, queue>>, PlainTasks, KeepsTasks({})
      PROVE  PlainInv' /\ Fates
  BY <1>2, <1>6, PlainStill, PlainFrame, FatesBut
<1>7. CASE CheckFreeze(p)
  BY <1>0, <1>3, <1>4, <1>6, <1>7, PlainNew DEF CheckFreeze
<1>8. CASE CheckMaintenance(p)
  BY <1>0, <1>3, <1>4, <1>6, <1>8, PlainNew DEF CheckMaintenance
<1>9. CASE Refuse(p)
  <2>1. /\ Over(row) /\ UNCHANGED queue /\ Settle(p)
        /\ Write(k, row) \/ (Fault /\ UNCHANGED rows)
    BY <1>0, <1>9 DEF Refuse, WriteOrLose, PlainTask
  <2>2. PlainRows /\ \A id \in Ids \ {k} : rows'[id] = rows[id]
    BY <2>1, PlainWrote
  <2>3. ASSUME ~Fault
        PROVE  \A id \in Ids \cap {k} : Fate(id)
    BY <2>1, <2>3 DEF Fate, Write, Over, TypeInv, TypeOK, StoreOK
  <2> QED  BY <1>2, <1>5, <2>1, <2>2, <2>3, PlainStill, PlainFrame, FatesBut
<1>10. CASE Persist(p)
  <2>1. task[p].pc = "persist" /\ Waiting(row) /\ row.life = "pending" /\ ~Succeeded(row)
    BY <1>0, <1>10 DEF Persist, PlainTask, Waiting
  <2>2. CASE Write(k, Held(row)) /\ Settle(p) /\ UNCHANGED queue
    <3>1. Held(row).life = "pending_approval" /\ ~Succeeded(Held(row))
      BY <1>0 DEF Held, Row, Succeeded
    <3>2. PlainRows /\ \A id \in Ids \ {k} : rows'[id] = rows[id]
      BY <2>2, <3>1, PlainWrote
    <3>3. \A id \in Ids \cap {k} : Fate(id)
      BY <2>2, <3>1 DEF Fate, Write, TypeInv, TypeOK, StoreOK
    <3> QED  BY <1>2, <1>5, <2>2, <3>2, <3>3, PlainStill, PlainFrame, FatesBut
  <2>3. CASE /\ Write(k, row) /\ Send(Serve, k, row)
             /\ IF HasRoom(Serve) THEN Settle(p) ELSE TaskRow(p, "refuse", Superseded(row))
    <3>1. PlainRows /\ \A id \in Ids \ {k} : rows'[id] = rows[id]
      BY <2>1, <2>3, PlainWrote
    <3>2. PlainSends /\ (\A K : KeepsQueue(K)) /\ (HasRoom(Serve) => InHand(k)')
      BY <2>1, <2>3, PlainSent
    <3>3. PlainTasks /\ KeepsTasks({k}) /\ InHand(k)'
      BY <1>0, <1>3, <1>5, <2>1, <2>3, <3>2, PlainNew DEF Superseded
    <3>4. \A id \in Ids \cap {k} : Fate(id)
      BY <3>3 DEF Fate
    <3> QED  BY <1>2, <3>1, <3>2, <3>3, <3>4, PlainFrame, FatesBut
  <2>4. CASE Fault /\ Settle(p) /\ UNCHANGED <<rows, queue>>
    BY <1>5, <1>6, <2>1, <2>4
  <2> QED  BY <1>0, <1>10, <2>2, <2>3, <2>4 DEF Persist
<1> QED  BY <1>7, <1>8, <1>9, <1>10 DEF Gate

LEMMA PlainDequeue ==
    ASSUME TypeInv, PlainInv, Sessions = {}, Dequeue(Serve)
    PROVE  PlainInv' /\ Fates
<1> SUFFICES ASSUME NEW c, c = Head(queue[Serve])
             PROVE  PlainInv' /\ Fates
  OBVIOUS
<1>1. /\ exec[Serve].pc = "idle" /\ Take(Serve) /\ UNCHANGED <<todo, scan>>
      /\ queue[Serve] \in Seq(Copy) /\ queue[Serve] # <<>> /\ queue'[Serve] = Tail(queue[Serve])
  BY DEF Dequeue, Take, Apps, TypeInv, TypeOK, QueueOK
<1>2. Waiting(c.row)
  <2>1. 1 \in 1..Len(queue[Serve]) /\ queue[Serve][1] = c
    BY <1>1
  <2> QED  BY <2>1 DEF PlainInv
<1>3. /\ exec'[Serve].pc = "freeze" /\ exec'[Serve].id = c.id /\ exec'[Serve].row = c.row
      /\ UNCHANGED <<rows, task>>
  <2>1. NeedsApproval(c.id) => Incomplete(c.row)
    BY <1>2 DEF Waiting, Incomplete
  <2>2. /\ exec' = [exec EXCEPT ![Serve] = [pc |-> "freeze", id |-> c.id, row |-> c.row]]
        /\ UNCHANGED <<rows, task>>
    BY <1>2, <2>1, NobodyAsks DEF Dequeue, Waiting, Undecided
  <2>3. Serve \in Apps /\ exec \in [Apps -> ExecState]
    BY DEF Apps, TypeInv, TypeOK, ExecOK
  <2> QED  BY <2>2, <2>3
<1>4. PlainExec(exec'[Serve]) /\ InHand(c.id)'
  BY <1>2, <1>3 DEF PlainExec, InHand
<1>5. PlainSends
  <2>1. \A i \in 1..Len(queue'[Serve]) : i + 1 \in 1..Len(queue[Serve]) /\ queue'[Serve][i] = queue[Serve][i + 1]
    BY <1>1
  <2> QED  BY <2>1 DEF PlainSends
<1>6. KeepsQueue({c.id})
  <2> SUFFICES ASSUME NEW i \in DOMAIN queue[Serve], i # 1
               PROVE  \E j \in DOMAIN queue'[Serve] : queue'[Serve][j].id = queue[Serve][i].id
    BY <1>1 DEF KeepsQueue
  <2>1. i - 1 \in DOMAIN queue'[Serve] /\ queue'[Serve][i - 1] = queue[Serve][i]
    BY <1>1
  <2> QED  BY <2>1
<1>7. KeepsExec({c.id})
  BY <1>1 DEF KeepsExec
<1>8. \A id \in Ids \cap {c.id} : Fate(id)
  BY <1>4 DEF Fate
<1> QED  BY <1>1, <1>3, <1>4, <1>5, <1>6, <1>7, <1>8, PlainStill, PlainFrame, FatesBut

LEMMA PlainFollowUp ==
    ASSUME TypeInv, PlainInv, Sessions = {}, SeekFollowUp(Serve) \/ PersistFollowUp(Serve)
    PROVE  PlainInv' /\ (~Fault => Fates)
<1> SUFFICES ASSUME NEW k, k = HealthRecheck(exec[Serve].id)
             PROVE  PlainInv' /\ (~Fault => Fates)
  OBVIOUS
<1>1. /\ exec[Serve].pc \in {"followup", "persist"} /\ UNCHANGED <<todo, scan, task>>
      /\ exec'[Serve].pc \in {"idle", "persist"}
  BY OwnSteps DEF SeekFollowUp, PersistFollowUp
<1>2. PlainExec(exec'[Serve]) /\ \A K : KeepsExec(K)
  BY <1>1 DEF PlainExec, KeepsExec
<1>3. CASE UNCHANGED <<rows, queue>>
  BY <1>1, <1>2, <1>3, PlainStill, PlainFrame, FatesBut
<1>4. CASE PersistFollowUp(Serve) /\ Write(k, NewRow("system")) /\ Send(Serve, k, NewRow("system"))
  <2> DEFINE row == NewRow("system")
  <2>1. row.life = "pending" /\ Waiting(row) /\ ~Succeeded(row)
    BY PlainNew
  <2> HIDE DEF row
  <2>2. PlainRows /\ \A id \in Ids \ {k} : rows'[id] = rows[id]
    BY <1>4, <2>1, PlainWrote DEF row
  <2>3. PlainSends /\ (\A K : KeepsQueue(K)) /\ (HasRoom(Serve) => InHand(k)')
    BY <1>4, <2>1, PlainSent DEF row
  <2>4. k \in FollowUps
    BY <1>1, FollowUpNames DEF TypeInv, ExecShapes, ExecShape, Apps, FollowUps
  <2>5. \A id \in Ids \cap {k} : Fate(id)
    BY <1>4, <2>1, <2>3, <2>4 DEF Fate, Write, TypeInv, TypeOK, StoreOK, row
  <2> QED  BY <1>1, <1>2, <2>2, <2>3, <2>5, PlainStill, PlainFrame, FatesBut
<1> QED  BY <1>3, <1>4 DEF SeekFollowUp, PersistFollowUp

LEMMA PlainExecutor ==
    ASSUME TypeInv, PlainInv, Sessions = {}, Execute(Serve)
    PROVE  PlainInv' /\ (~Fault => Fates)
<1> SUFFICES ASSUME NEW k, k = exec[Serve].id
             PROVE  PlainInv' /\ (~Fault => Fates)
  OBVIOUS
<1> DEFINE x == exec[Serve]
           row == x.row
<1>0. row \in Row /\ PlainExec(x)
  BY OwnSteps DEF PlainInv
<1>1. exec'[Serve].pc \in {"idle", "followup", "persist", "actuate"} => PlainExec(exec'[Serve])
  BY DEF PlainExec
<1>2. ASSUME NEW pc, NEW new, ExecStep(Serve, pc, new), pc \notin {"idle", "followup", "persist"}
      PROVE  (\A K : KeepsExec(K)) /\ InHand(k)'
  <2>1. exec'[Serve].pc = pc /\ exec'[Serve].id = k
    BY <1>2, OwnSteps
  <2> QED  BY <1>2, <2>1 DEF KeepsExec, InHand
<1>3. KeepsExec({k})
  BY DEF KeepsExec
<1>4. ASSUME NEW new, Write(k, new) \/ (Fault /\ UNCHANGED rows), Over(new), PlainExec(exec'[Serve]),
             UNCHANGED <<queue, task, scan, todo>>
      PROVE  PlainInv' /\ (~Fault => Fates)
  <2>1. PlainRows /\ \A id \in Ids \ {k} : rows'[id] = rows[id]
    BY <1>4, PlainWrote
  <2>2. ASSUME ~Fault
        PROVE  \A id \in Ids \cap {k} : Fate(id)
    BY <1>4, <2>2 DEF Fate, Write, Over, TypeInv, TypeOK, StoreOK
  <2> QED  BY <1>3, <1>4, <2>1, <2>2, PlainStill, PlainFrame, FatesBut
<1>5. CASE RecheckFreeze(Serve) \/ RecheckMaintenance(Serve)
  <2> DEFINE frozenRow == Closed(row, "denied_by_freeze", "blocked_by_freeze")
             heldRow == Closed(row, "denied_by_maintenance", "blocked_by_maintenance")
  <2>1. /\ \/ ExecStep(Serve, "maintenance", row)
           \/ ExecStep(Serve, "start", row)
           \/ ExecStep(Serve, "refuse", frozenRow)
           \/ ExecStep(Serve, "refuse", heldRow)
        /\ UNCHANGED <<rows, queue, task, scan, todo>> /\ Waiting(row)
    BY <1>0, <1>5 DEF RecheckFreeze, RecheckMaintenance, Recheck, PlainExec
  <2>2. Over(frozenRow) /\ Over(heldRow)
    BY <1>0, PlainNew
  <2> HIDE DEF frozenRow, heldRow
  <2>3. PlainExec(exec'[Serve])
    BY <2>1, <2>2, OwnSteps DEF PlainExec
  <2>4. \A K : KeepsExec(K)
    BY <1>2, <2>1
  <2> QED  BY <2>1, <2>3, <2>4, PlainStill, PlainFrame, FatesBut
<1>6. CASE RefuseExecution(Serve)
  <2>1. /\ Over(row) /\ UNCHANGED <<queue, task, scan, todo>>
        /\ Write(k, row) \/ (Fault /\ UNCHANGED rows)
        /\ exec'[Serve].pc = "idle"
    BY <1>0, <1>6, OwnSteps DEF RefuseExecution, WriteOrLose, PlainExec
  <2> QED  BY <1>1, <1>4, <2>1
<1>7. CASE Start(Serve)
  <2> DEFINE new == [x.row EXCEPT !.life = "running"]
  <2>1. new \in Row /\ ~Succeeded(new)
    BY <1>0, <1>7 DEF Start, PlainExec, Waiting, Succeeded, Row, Lifecycles
  <2>2. UNCHANGED <<queue, task, scan, todo>>
    BY <1>7 DEF Start
  <2>3. CASE /\ WriteOrLose(k, Closed(new, "denied_by_policy", new.closure))
             /\ ExecDone(Serve)
    <3>1. Over(Closed(new, "denied_by_policy", new.closure))
      BY <2>1, PlainNew
    <3> QED  BY <1>1, <1>4, <2>2, <2>3, <3>1, OwnSteps DEF WriteOrLose
  <2>4. CASE Write(k, new) /\ ExecStep(Serve, "actuate", new)
    <3>1. exec'[Serve].pc = "actuate"
      BY <2>4, OwnSteps
    <3>2. PlainRows /\ \A id \in Ids \ {k} : rows'[id] = rows[id]
      BY <2>1, <2>4, PlainWrote
    <3>3. \A id \in Ids \cap {k} : Fate(id)
      BY <1>2, <2>4 DEF Fate
    <3> QED  BY <1>1, <1>3, <2>2, <3>1, <3>2, <3>3, PlainStill, PlainFrame, FatesBut
  <2>5. CASE Fault /\ ExecDone(Serve) /\ UNCHANGED rows
    BY <1>1, <2>2, <2>5, OwnSteps, PlainStill, PlainFrame
  <2> HIDE DEF new
  <2> QED  BY <1>7, <2>3, <2>4, <2>5 DEF Start, new
<1>8. CASE Actuate(Serve)
  <2>1. PICK outcome \in Outcomes(k) :
          ExecStep(Serve, "finish", Closed(row, outcome, ClosureAfter(k, row, outcome)))
    BY <1>8 DEF Actuate
  <2>2. Over(Closed(row, outcome, ClosureAfter(k, row, outcome)))
    BY <1>0, PlainNew
  <2>3. PlainExec(exec'[Serve]) /\ \A K : KeepsExec(K)
    BY <1>2, <2>1, <2>2, OwnSteps DEF PlainExec
  <2>4. UNCHANGED <<rows, queue, scan, todo>>
    BY <1>8 DEF Actuate
  <2>5. PlainTasks /\ \A K : KeepsTasks(K)
    <3>1. ASSUME NEW e \in Evals, task[e].pc = "idle", TaskStep(e, "decide")
          PROVE  PlainTasks /\ \A K : KeepsTasks(K)
      <4>1. /\ e \in Handlers /\ task'[e].pc = "decide"
            /\ \A q \in Handlers \ {e} : task'[q] = task[q]
        BY <3>1, TaskSteps DEF Handlers
      <4> QED  BY <3>1, <4>1, PlainTaskMoves DEF PlainTask
    <3> QED  BY <1>8, <3>1, PlainStill DEF Actuate
  <2> QED  BY <2>3, <2>4, <2>5, PlainStill, PlainFrame, FatesBut
<1>9. CASE Finish(Serve)
  <2>1. /\ Over(row) /\ UNCHANGED <<queue, task, scan, todo>>
        /\ Write(k, row) \/ (Fault /\ UNCHANGED rows)
        /\ exec'[Serve].pc \in {"idle", "followup"}
    BY <1>0, <1>9, OwnSteps DEF Finish, WriteOrLose, PlainExec
  <2> QED  BY <1>1, <1>4, <2>1
<1> QED  BY <1>5, <1>6, <1>7, <1>8, <1>9, PlainDequeue, PlainFollowUp DEF Execute

LEMMA PlainElsewhere ==
    ASSUME TypeInv, PlainInv, Sessions = {},
           BeginEvaluation \/ ExpireStaleApprovalActions \/ Time \/ Operate \/ UNCHANGED vars
    PROVE  PlainInv' /\ Fates
<1>1. UNCHANGED <<queue, exec, scan, todo>>
  BY DEF vars, BeginEvaluation, ExpireStaleApprovalActions, Time, ApprovalDeadlinePasses,
     BackoffLapses, Operate, CreateFreeze, ClearFreeze, ToggleWindow
<1>2. CASE UNCHANGED <<rows, task>>
  BY <1>1, <1>2, PlainStill, PlainFrame, FatesBut
<1>3. CASE BeginEvaluation
  <2>1. /\ UNCHANGED rows /\ Ticker \in Handlers
        /\ task[Ticker].pc = "idle" /\ task'[Ticker].pc = "decide"
        /\ \A q \in Handlers \ {Ticker} : task'[q] = task[q]
    BY <1>3, TaskSteps DEF BeginEvaluation, Handlers
  <2>2. PlainTasks /\ \A K : KeepsTasks(K)
    BY <2>1, PlainTaskMoves DEF PlainTask
  <2> QED  BY <1>1, <2>1, <2>2, PlainStill, PlainFrame, FatesBut
<1>4. CASE ExpireStaleApprovalActions
  <2>1. UNCHANGED task
    BY <1>4 DEF ExpireStaleApprovalActions
  <2>2. ASSUME NEW id \in Ids
        PROVE  \/ rows'[id] = rows[id]
               \/ rows'[id].life = "completed"
    <3>1. rows'[id] = rows[id] \/ rows'[id] = ExpiredApproval(rows[id])
      BY <1>4 DEF ExpireStaleApprovalActions
    <3>2. rows[id] \in Row
      BY DEF TypeInv, TypeOK, StoreOK
    <3> QED  BY <3>1, <3>2, PlainNew DEF ExpiredApproval
  <2>3. PlainRows
    BY <2>2 DEF PlainRows, Over
  <2>4. \A id \in Ids : Fate(id)
    BY <1>1, <2>1, <2>2 DEF Fate, InHand
  <2> QED  BY <1>1, <2>1, <2>3, <2>4, PlainStill, PlainFrame DEF Fates
<1> QED  BY <1>2, <1>3, <1>4 DEF vars, Time, ApprovalDeadlinePasses, BackoffLapses, Operate,
            CreateFreeze, ClearFreeze, ToggleWindow

LEMMA PlainCrash ==
    ASSUME TypeInv, PlainInv, Sessions = {}, Crash
    PROVE  PlainInv'
<1>1. /\ UNCHANGED rows /\ exec'[Serve].pc = "idle" /\ queue'[Serve] = <<>>
      /\ \A e \in Evals : scan'[e] = {}
      /\ \A p \in Handlers : task'[p].pc \in {"idle", "done"}
  BY CrashClears, NobodyAsks
<1>2. PlainExec(exec'[Serve]) /\ PlainScans /\ PlainSends /\ PlainTasks
  BY <1>1 DEF PlainExec, PlainScans, PlainSends, PlainTasks, PlainTask
<1> QED  BY <1>1, <1>2, PlainStill, PlainFrame

(* A start that can read the table lists every row that is pending or running. *)
LEMMA PlainRecovery ==
    ASSUME TypeInv, PlainInv, Sessions = {}, Recover
    PROVE  /\ PlainInv'
           /\ ~Fault => Fates /\ (Restart => Abandoned' = {})
<1>1. UNCHANGED <<queue, task, scan>>
  BY DEF Recover, Restart, RecoverRow, StartWorkers
<1>2. CASE Restart
  <2>1. UNCHANGED <<rows, exec>>
    BY <1>2 DEF Restart
  <2>2. ASSUME ~Fault
        PROVE  \A id \in Ids : rows'[id].life \in {"pending", "running"} => InHand(id)'
    <3>1. todo' = {[id |-> id, row |-> rows[id]] : id \in {i \in Ids : Incomplete(rows[i])}}
      BY <1>2, <2>2 DEF Restart
    <3>2. \A id \in Ids : Incomplete(rows[id]) => [id |-> id, row |-> rows[id]] \in todo'
      BY <3>1
    <3>3. \A id \in Ids : Incomplete(rows[id]) => \E c \in todo' : c.id = id
      BY <3>2
    <3> QED  BY <2>1, <3>3 DEF Incomplete, InHand
  <2> QED  BY <1>1, <2>1, <2>2, PlainStill, PlainFrame DEF Fates, Fate, Abandoned
<1>3. CASE StartWorkers
  <2>1. UNCHANGED <<rows, exec, todo>> /\ ~Restart
    BY <1>3 DEF StartWorkers, Restart
  <2> QED  BY <1>1, <2>1, PlainStill, PlainFrame, FatesBut
<1>4. CASE RecoverRow
  <2>1. PICK c \in todo :
          /\ todo' = todo \ {c}
          /\ Write(c.id, Recovered(c.id, c.row)) \/ (Fault /\ UNCHANGED rows)
          /\ exec' = exec \/ exec'[Serve].pc = "followup"
    BY <1>4 DEF RecoverRow, WriteOrLose, TypeInv, TypeOK, ExecOK, Apps
  <2>2. /\ exec[Serve].pc = "idle" /\ ~Restart
    BY <1>4 DEF RecoverRow, Restart
  <2>3. Recovered(c.id, c.row).life = "recovered" /\ Over(Recovered(c.id, c.row))
    BY DEF Recovered, Over, Row, TypeInv, TypeOK, RecoveryOK, Copy
  <2>4. PlainRows /\ \A id \in Ids \ {c.id} : rows'[id] = rows[id]
    BY <2>1, <2>3, PlainWrote
  <2>5. PlainExec(exec'[Serve]) /\ KeepsExec({c.id}) /\ KeepsTodo({c.id})
    BY <2>1, <2>2 DEF PlainExec, KeepsExec, KeepsTodo
  <2>6. ASSUME ~Fault
        PROVE  \A id \in Ids \cap {c.id} : Fate(id)
    BY <2>1, <2>3, <2>6 DEF Fate, Write, TypeInv, TypeOK, StoreOK
  <2> QED  BY <1>1, <2>2, <2>4, <2>5, <2>6, PlainStill, PlainFrame, FatesBut
<1> QED  BY <1>2, <1>3, <1>4 DEF Recover

LEMMA StepIsPlain ==
    ASSUME TypeInv, PlainInv, [Next]_vars, Sessions = {}
    PROVE  /\ PlainInv'
           /\ crashes' = crashes /\ faults' = faults =>
                 /\ Fates
                 /\ daemon = "down" /\ daemon' = "recovering" => Abandoned' = {}
<1>1. /\ faults' = faults => ~Fault
      /\ crashes' = crashes => ~Crash
  BY DEF Fault, Crash, TypeInv, TypeOK, HistoryOK
<1>2. CASE UNCHANGED vars
  <2>1. daemon' = daemon
    BY <1>2 DEF vars
  <2> QED  BY <1>2, <2>1, PlainElsewhere
<1>3. CASE Crash
  BY <1>1, <1>3, PlainCrash
<1>4. CASE Recover
  <2>1. daemon = "down" => Restart
    BY <1>4 DEF Recover, RecoverRow, StartWorkers
  <2> QED  BY <1>1, <1>4, <2>1, PlainRecovery
<1>5. CASE \/ BeginEvaluation \/ ExpireStaleApprovalActions \/ Time \/ Operate
           \/ \E e \in Evals : Evaluate(e)
           \/ \E p \in Handlers : Gate(p)
           \/ Execute(Serve)
  <2>1. daemon' = daemon
    BY <1>5, UpSteps, NobodyAsks DEF Time, ApprovalDeadlinePasses, BackoffLapses, Operate,
       CreateFreeze, ClearFreeze, ToggleWindow
  <2> QED  BY <1>1, <1>5, <2>1, PlainElsewhere, PlainEvaluator, PlainGate, PlainExecutor
<1> QED  BY <1>2, <1>3, <1>4, <1>5, NobodyAsks DEF Next

LEMMA InitIsPlain == Init => PlainInv
<1> SUFFICES ASSUME Init
             PROVE  PlainInv
  OBVIOUS
<1>1. \A id \in Ids : ~Succeeded(rows[id])
  BY DEF Init, NoRow, Succeeded
<1>2. queue[Serve] = <<>> /\ exec[Serve].pc = "idle"
  BY DEF Init, Apps, ExecIdle
<1>3. \A p \in Handlers : PlainTask(task[p])
  BY DEF Init, TaskIdle, PlainTask
<1>4. \A e \in Evals : scan[e] = {}
  BY DEF Init
<1> QED  BY <1>1, <1>2, <1>3, <1>4 DEF PlainInv, PlainExec

(* While nobody sends requests, whatever failed or died before, an action that is
   pending or running gets out of the daemon's hands only by a death, by a failing
   statement or as a follow-up that finds the channel full, and the next start that
   can read the table takes it in hand again.                              *)
THEOREM LostActionsAreFound == Spec => LostIsFoundAgain
<1> DEFINE Found == Sessions = {} /\ crashes' = crashes /\ faults' = faults =>
                      /\ daemon = "down" /\ daemon' = "recovering" => Abandoned' = {}
                      /\ \A id \in Abandoned' \ Abandoned :
                            id \in FollowUps /\ rows'[id].life = "pending" /\ ~HasRoom(Serve)
<1>1. TypeInv /\ PlainInv /\ [Next]_vars => PlainInv'
  BY StepIsPlain DEF PlainInv
<1>2. TypeInv /\ PlainInv /\ [Next]_vars => [Found]_vars
  <2> SUFFICES ASSUME TypeInv, PlainInv, [Next]_vars, Sessions = {},
                      crashes' = crashes, faults' = faults
               PROVE  Found
    OBVIOUS
  <2>1. Fates /\ (daemon = "down" /\ daemon' = "recovering" => Abandoned' = {})
    BY StepIsPlain
  <2>2. ASSUME NEW id \in Abandoned', id \notin Abandoned
        PROVE  id \in FollowUps /\ rows'[id].life = "pending" /\ ~HasRoom(Serve)
    BY <2>1, <2>2 DEF Fates, Fate, Abandoned
  <2> QED  BY <2>1, <2>2
<1> QED  BY <1>1, <1>2, InitIsPlain, TypeCorrect, PTL DEF Spec, LostIsFoundAgain
==============================================================================
