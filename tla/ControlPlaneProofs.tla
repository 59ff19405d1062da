-------------------------- MODULE ControlPlaneProofs --------------------------
(***************************************************************************)
(* Theorems about ControlPlane for all values of its constants.  Its types *)
(* are invariant, a freeze stops what had not passed its check, and every  *)
(* run of an actuator was sent.  The control plane is an ApprovalGate:     *)
(* a step moves the gates of the ids it is about (Moves), and no copy of a *)
(* row that a process still holds can move a gate when it is written back  *)
(* (Faithful).  What rows and copies claim is true (Trusted).              *)
(***************************************************************************)
EXTENDS ControlPlaneInv, FiniteSetTheorems, TLAPS

------------------------------------------------------------------------------
(* Rows: every statement maps rows to rows. *)

LEMMA RowTypes ==
    ASSUME NEW row \in Row
    PROVE  /\ Held(row) \in Row
           /\ Superseded(row) \in Row
           /\ Rejected(row) \in Row
           /\ ExpiredApproval(row) \in Row
           /\ \A result \in Results, closure \in Closures : Closed(row, result, closure) \in Row
           /\ \A actor \in Operators, bypass \in BOOLEAN : Approved(row, actor, bypass) \in Row
           /\ \A id \in Ids : Recovered(id, row) \in Row
<1>1. Held(row) \in Row
  BY DEF Row, Held, Lifecycles, Results, Closures
<1>2. ASSUME NEW result \in Results, NEW closure \in Closures
      PROVE  Closed(row, result, closure) \in Row
  BY DEF Row, Closed, Lifecycles
<1>3. /\ Superseded(row) \in Row
      /\ Rejected(row) \in Row
      /\ ExpiredApproval(row) \in Row
  BY <1>2 DEF Superseded, Rejected, ExpiredApproval, Results, Closures
<1>4. ASSUME NEW actor \in Operators, NEW bypass \in BOOLEAN
      PROVE  Approved(row, actor, bypass) \in Row
  <2>1. [row EXCEPT !.life = "pending", !.result = "approved", !.okBy = actor,
                    !.bypass = bypass] \in Row
    BY DEF Row, Lifecycles, Results
  <2> QED  BY <2>1 DEF Approved
<1>5. ASSUME NEW id \in Ids
      PROVE  Recovered(id, row) \in Row
  BY ZenonT(60) DEF Row, Recovered, Lifecycles, Results, Closures
<1> QED  BY <1>1, <1>2, <1>3, <1>4, <1>5

LEMMA NewRowTypes ==
    NoRow \in Row /\ \A by \in Operators \cup {"system"} : NewRow(by) \in Row
  BY DEF NoRow, NewRow, Row, Lifecycles, Results, Closures

LEMMA OutcomeTypes ==
    ASSUME NEW id, NEW row \in Row, NEW outcome \in Outcomes(id)
    PROVE  outcome \in Results /\ ClosureAfter(id, row, outcome) \in Closures
  BY DEF Outcomes, ClosureAfter, Row, Results, Closures

(* Only restarts have a health recheck and only raises a reset. *)
LEMMA FollowUpIds ==
    \A id \in Ids :
       /\ Type(id) = "restart_transport" => HealthRecheck(id) \in Ids
       /\ Type(id) = "backoff_increase" => Reset(id) \in Ids
  BY DEF Ids, FollowUps, Type, HealthRecheck, Reset

------------------------------------------------------------------------------
(* Types: one lemma per variable that says what keeps it well-typed. *)

USE DEF store, policy, clock, control

LEMMA WriteTypes ==
    ASSUME StoreOK, HistoryOK, NEW id, NEW row \in Row,
           WriteOrLose(id, row) \/ Write(id, row)
    PROVE  rows' \in [Ids -> Row] /\ faults' \in Nat
  BY PlaneAssumption DEF StoreOK, HistoryOK, WriteOrLose, Write, Fault

LEMMA TaskTypes ==
    ASSUME TaskOK, TaskShapes, NEW p \in Handlers, NEW t \in TaskState, TaskShape(p, t),
           task' = [task EXCEPT ![p] = t]
    PROVE  TaskOK' /\ TaskShapes'
  BY DEF TaskOK, TaskShapes

LEMMA TaskStepTypes ==
    ASSUME TaskOK, TaskShapes, NEW p \in Handlers, NEW pc \in TaskPc, TaskStep(p, pc),
           TaskShape(p, [task[p] EXCEPT !.pc = pc])
    PROVE  TaskOK' /\ TaskShapes'
<1>1. [task[p] EXCEPT !.pc = pc] \in TaskState
  BY DEF TaskOK, TaskState
<1>2. task' = [task EXCEPT ![p] = [task[p] EXCEPT !.pc = pc]]
  BY DEF TaskStep
<1> QED  BY <1>1, <1>2, TaskTypes

LEMMA ExecTypes ==
    ASSUME ExecOK, ExecShapes, NEW app \in Apps, NEW x \in ExecState, ExecShape(x),
           exec' = [exec EXCEPT ![app] = x]
    PROVE  ExecOK' /\ ExecShapes'
  BY DEF ExecOK, ExecShapes

LEMMA ExecStepTypes ==
    ASSUME ExecOK, ExecShapes, NEW app \in Apps, NEW pc \in ExecPc, NEW row \in Row,
           ExecStep(app, pc, row), exec[app].pc # "idle",
           pc \in {"followup", "persist"} => Type(exec[app].id) = "restart_transport"
    PROVE  ExecOK' /\ ExecShapes'
<1> DEFINE x == [exec[app] EXCEPT !.pc = pc, !.row = row]
<1>1. x \in ExecState /\ x.id = exec[app].id /\ x.pc = pc
  BY DEF ExecOK, ExecState
<1>2. ExecShape(x)
  BY <1>1 DEF ExecShape, ExecShapes
<1>3. exec' = [exec EXCEPT ![app] = x]
  BY DEF ExecStep
<1> QED  BY <1>1, <1>2, <1>3, ExecTypes

LEMMA IdleTypes == ExecIdle \in ExecState /\ ExecShape(ExecIdle) /\ TaskIdle \in TaskState
  BY NewRowTypes DEF ExecIdle, ExecState, ExecPc, ExecShape, TaskIdle, TaskState, TaskPc

LEMMA ExecDoneTypes ==
    ASSUME ExecOK, ExecShapes, HistoryOK, NEW app \in Apps, ExecDone(app)
    PROVE  ExecOK' /\ ExecShapes' /\ exempt' \in [FreezeScopes -> SUBSET Apps]
<1>1. ExecOK' /\ ExecShapes'
  BY IdleTypes, ExecTypes DEF ExecDone
<1> QED  BY <1>1 DEF ExecDone, HistoryOK

LEMMA SendTypes ==
    ASSUME QueueOK, HistoryOK, NEW app \in Apps, NEW id \in Ids, NEW row \in Row,
           Send(app, id, row)
    PROVE  QueueOK' /\ handed' \in [Ids -> Nat]
<1>1. [id |-> id, row |-> row] \in Copy
  BY DEF Copy
<1>2. CASE HasRoom(app)
  <2> DEFINE q == Append(queue[app], [id |-> id, row |-> row])
  <2>1. q \in Seq(Copy) /\ Len(q) = Len(queue[app]) + 1 /\ queue' = [queue EXCEPT ![app] = q]
    BY <1>1, <1>2 DEF Send, QueueOK
  <2>2. Len(q) <= MaxQueue
    BY <1>2, <2>1, PlaneAssumption DEF HasRoom, QueueOK
  <2>3. QueueOK'
    BY <2>1, <2>2 DEF QueueOK
  <2>4. handed \in [Ids -> Nat] /\ handed' = [handed EXCEPT ![id] = handed[id] + 1]
    BY <1>2 DEF Send, HistoryOK
  <2> QED  BY <2>3, <2>4
<1>3. CASE ~HasRoom(app)
  BY <1>3 DEF Send, QueueOK, HistoryOK
<1> QED  BY <1>2, <1>3

LEMMA EmptyQueueTypes ==
    ASSUME QueueOK, NEW app \in Apps, queue' = [queue EXCEPT ![app] = <<>>]
    PROVE  QueueOK'
  BY PlaneAssumption DEF QueueOK

------------------------------------------------------------------------------
(* Types: every step keeps them. *)

LEMMA EvaluatorTypes ==
    ASSUME TypeInv, NEW e \in Evals, Evaluate(e)
    PROVE  TypeInv'
<1> USE DEF TypeInv, TypeOK
<1>e. e \in Handlers /\ Serve \in Apps
  BY DEF Handlers, Apps
<1>1. CASE ProposeDenied(e)
  <2>1. PICK a \in Proposable : WriteOrLose(a, Closed(NewRow("system"), "denied_by_policy", ""))
    BY <1>1 DEF ProposeDenied
  <2>2. Closed(NewRow("system"), "denied_by_policy", "") \in Row
    BY RowTypes, NewRowTypes DEF Results, Closures
  <2>3. rows' \in [Ids -> Row] /\ faults' \in Nat
    BY <2>1, <2>2, WriteTypes
  <2> QED  BY <1>1, <2>3 DEF ProposeDenied, StoreOK, QueueOK, ExecOK, TaskOK, RecoveryOK,
              HistoryOK, ExecShapes, TaskShapes, ScanShapes
<1>2. CASE Propose(e)
  <2>1. PICK a \in Proposable :
          task' = [task EXCEPT ![e] = [TaskIdle EXCEPT !.pc = "freeze", !.op = "propose",
                                         !.id = a, !.row = NewRow("system")]]
    BY <1>2 DEF Propose
  <2> DEFINE t == [TaskIdle EXCEPT !.pc = "freeze", !.op = "propose", !.id = a,
                                   !.row = NewRow("system")]
  <2>2. a \in Ids
    BY PlaneAssumption DEF Ids
  <2>3. t \in TaskState
    BY <2>2, IdleTypes, NewRowTypes DEF TaskState, TaskPc
  <2>4. TaskShape(e, t)
    BY <2>2, <2>3 DEF TaskShape, ProposingPc, RevertingPc, DecidingPc, TaskIdle
  <2>5. TaskOK' /\ TaskShapes'
    BY <1>e, <2>1, <2>3, <2>4, TaskTypes
  <2> QED  BY <1>2, <2>5 DEF Propose, StoreOK, QueueOK, ExecOK, RecoveryOK, HistoryOK,
              ExecShapes, ScanShapes
<1>3. CASE ScanExpired(e)
  <2>1. TaskOK' /\ TaskShapes'
    <3>1. TaskShape(e, [task[e] EXCEPT !.pc = "scan"])
      BY <1>e DEF TaskOK, TaskState, TaskShape, ProposingPc, RevertingPc, DecidingPc
    <3> QED  BY <1>e, <1>3, <3>1, TaskStepTypes DEF ScanExpired, TaskPc
  <2>2. PICK quiet \in SUBSET {id \in lapsed : RevertDue(id, rows[id])} :
          scan' = [scan EXCEPT ![e] = {[id |-> id, row |-> rows[id]] : id \in quiet}]
    BY <1>3 DEF ScanExpired
  <2> DEFINE read == {[id |-> id, row |-> rows[id]] : id \in quiet}
  <2>3. read \subseteq Copy /\ \A c \in read : Type(c.id) = "backoff_increase"
    <3>1. ASSUME NEW id \in quiet
          PROVE  [id |-> id, row |-> rows[id]] \in Copy /\ Type(id) = "backoff_increase"
      BY DEF StoreOK, Copy, RevertDue
    <3> QED  BY <3>1
  <2>4. scan' \in [Evals -> SUBSET Copy] /\ ScanShapes'
    BY <2>2, <2>3 DEF RecoveryOK, ScanShapes
  <2> QED  BY <1>3, <2>1, <2>4 DEF ScanExpired, StoreOK, QueueOK, ExecOK, RecoveryOK,
              HistoryOK, ExecShapes
<1>4. CASE RevertSeen(e)
  <2>1. PICK c \in scan[e] :
          /\ scan' = [scan EXCEPT ![e] = @ \ {c}]
          /\ \/ UNCHANGED <<task, faults>>
             \/ /\ UNCHANGED faults \/ Fault
                /\ task' = [task EXCEPT ![e].pc = "close", ![e].op = "revert",
                                        ![e].id = c.id, ![e].row = c.row]
    BY <1>4 DEF RevertSeen
  <2>2. c \in Copy /\ c.id \in Ids /\ c.row \in Row /\ Type(c.id) = "backoff_increase"
    BY DEF RecoveryOK, ScanShapes, Copy
  <2>3. scan' \in [Evals -> SUBSET Copy] /\ ScanShapes'
    BY <2>1 DEF RecoveryOK, ScanShapes
  <2> DEFINE t == [task[e] EXCEPT !.pc = "close", !.op = "revert", !.id = c.id, !.row = c.row]
  <2>4. t \in TaskState /\ TaskShape(e, t)
    <3>1. task[e] \in TaskState
      BY <1>e DEF TaskOK
    <3>2. t \in TaskState
      BY <2>2, <3>1 DEF TaskState, TaskPc
    <3>3. t.pc = "close" /\ t.id = c.id
      BY <3>1 DEF TaskState
    <3> HIDE DEF t
    <3> QED  BY <2>2, <3>2, <3>3 DEF TaskShape, ProposingPc, RevertingPc, DecidingPc
  <2>5. TaskOK' /\ TaskShapes'
    <3>1. CASE UNCHANGED task
      BY <3>1 DEF TaskOK, TaskShapes
    <3>2. CASE task' = [task EXCEPT ![e] = t]
      BY <1>e, <2>4, <3>2, TaskTypes
    <3> QED  BY <2>1, <3>1, <3>2
  <2>6. faults' \in Nat
    BY <2>1 DEF HistoryOK, Fault
  <2> QED  BY <1>4, <2>3, <2>5, <2>6 DEF RevertSeen, StoreOK, QueueOK, ExecOK, RecoveryOK,
              HistoryOK, ExecShapes
<1>5. CASE CloseReverted(e)
  <2>0. task[e].row \in Row
    BY <1>e DEF TaskOK, TaskState
  <2>1. [task[e].row EXCEPT !.closure = "expired_and_reverted"] \in Row
    BY <2>0 DEF Row, Closures
  <2>2. rows' \in [Ids -> Row] /\ faults' \in Nat
    BY <1>5, <2>1, WriteTypes DEF CloseReverted
  <2>3. TaskShape(e, [task[e] EXCEPT !.pc = "follow"])
    BY <1>e, <1>5 DEF CloseReverted, TaskOK, TaskState, TaskShapes, TaskShape, ProposingPc,
       RevertingPc, DecidingPc
  <2>4. TaskOK' /\ TaskShapes'
    BY <1>e, <1>5, <2>3, TaskStepTypes DEF CloseReverted, TaskPc
  <2> QED  BY <1>5, <2>2, <2>4 DEF CloseReverted, StoreOK, QueueOK, ExecOK, RecoveryOK,
              HistoryOK, ExecShapes, ScanShapes
<1>6. CASE IssueReset(e)
  <2> DEFINE reset == Reset(task[e].id)
  <2>1. reset \in Ids
    BY <1>e, <1>6, FollowUpIds DEF IssueReset, TaskShapes, TaskShape, RevertingPc
  <2>2. NewRow("system") \in Row
    BY NewRowTypes
  <2>3. rows' \in [Ids -> Row] /\ faults' \in Nat
    BY <1>6, <2>2, WriteTypes DEF IssueReset
  <2>4. QueueOK' /\ handed' \in [Ids -> Nat]
    BY <1>e, <1>6, <2>1, <2>2, SendTypes DEF IssueReset
  <2>5. TaskOK' /\ TaskShapes'
    <3> DEFINE t == [TaskIdle EXCEPT !.pc = "scan"]
    <3>1. t \in TaskState /\ TaskShape(e, t)
      BY IdleTypes DEF TaskState, TaskPc, TaskShape, TaskIdle, ProposingPc, RevertingPc, DecidingPc
    <3> QED  BY <1>e, <1>6, <3>1, TaskTypes DEF IssueReset
  <2> QED  BY <1>6, <2>3, <2>4, <2>5 DEF IssueReset, StoreOK, ExecOK, RecoveryOK,
              HistoryOK, ExecShapes, ScanShapes
<1>7. CASE EndEvaluation(e)
  <2>1. TaskShape(e, [task[e] EXCEPT !.pc = "idle"])
    BY <1>e DEF TaskOK, TaskState, TaskShape, ProposingPc, RevertingPc, DecidingPc
  <2>2. TaskOK' /\ TaskShapes'
    BY <1>e, <1>7, <2>1, TaskStepTypes DEF EndEvaluation, TaskPc
  <2> QED  BY <1>7, <2>2 DEF EndEvaluation, StoreOK, QueueOK, ExecOK, RecoveryOK, HistoryOK,
              ExecShapes, ScanShapes
<1> QED  BY <1>1, <1>2, <1>3, <1>4, <1>5, <1>6, <1>7 DEF Evaluate

LEMMA TaskRowTypes ==
    ASSUME TaskOK, TaskShapes, NEW p \in Handlers, NEW pc \in TaskPc, NEW row \in Row,
           TaskRow(p, pc, row), TaskShape(p, [task[p] EXCEPT !.pc = pc])
    PROVE  TaskOK' /\ TaskShapes'
<1> DEFINE t == [task[p] EXCEPT !.pc = pc, !.row = row]
<1>1. t \in TaskState /\ TaskShape(p, t)
  BY DEF TaskOK, TaskState, TaskShape
<1>2. task' = [task EXCEPT ![p] = t]
  BY DEF TaskRow
<1> QED  BY <1>1, <1>2, TaskTypes

LEMMA SettleTypes ==
    ASSUME TaskOK, TaskShapes, NEW p \in Handlers, Settle(p)
    PROVE  TaskOK' /\ TaskShapes'
<1>1. CASE p \in Evals
  <2> DEFINE t == [TaskIdle EXCEPT !.pc = "decide"]
  <2>1. t \in TaskState /\ TaskShape(p, t)
    BY <1>1, IdleTypes DEF TaskState, TaskPc, TaskShape, TaskIdle, ProposingPc, RevertingPc,
       DecidingPc
  <2> QED  BY <1>1, <2>1, TaskTypes DEF Settle
<1>2. CASE p \notin Evals
  <2> DEFINE pc == IF p \in Cli THEN "exit" ELSE "done"
             t == [task[p] EXCEPT !.pc = pc, !.row = NoRow]
  <2>0. pc \in {"exit", "done"}
    OBVIOUS
  <2> HIDE DEF pc
  <2>1. t \in TaskState
    BY ZenonT(60), <2>0, NewRowTypes DEF TaskOK, TaskState, TaskPc
  <2>2. t.pc = pc
    BY DEF TaskOK, TaskState
  <2>3. TaskShape(p, t)
    BY <2>0, <2>2 DEF TaskShape, ProposingPc, RevertingPc, DecidingPc
  <2>4. task' = [task EXCEPT ![p] = t]
    BY <1>2 DEF Settle, pc
  <2> QED  BY <2>1, <2>3, <2>4, TaskTypes
<1> QED  BY <1>1, <1>2

LEMMA AnswerTypes ==
    ASSUME TaskOK, TaskShapes, NEW s \in Sessions, NEW pc \in {"done", "drain"},
           NEW told \in {"approved", "rejected", "error"}, Answer(s, pc, told)
    PROVE  TaskOK' /\ TaskShapes'
<1> DEFINE t == Answered(s, pc, told)
<1>0. s \in Handlers
  BY DEF Handlers
<1>1. t \in TaskState /\ t.pc = pc
  BY ZenonT(60), <1>0, NewRowTypes DEF Answered, TaskOK, TaskState, TaskPc
<1>2. TaskShape(s, t)
  BY <1>1 DEF TaskShape, ProposingPc, RevertingPc, DecidingPc
<1> QED  BY <1>0, <1>1, <1>2, TaskTypes DEF Answer

LEMMA GateTypes ==
    ASSUME TypeInv, NEW p \in Handlers, Gate(p)
    PROVE  TypeInv'
<1> USE DEF TypeInv, TypeOK
<1>t. task[p] \in TaskState /\ task[p].row \in Row /\ TaskShape(p, task[p])
  BY DEF TaskOK, TaskState, TaskShapes
<1>s. ASSUME task[p].pc \in ProposingPc, NEW pc \in ProposingPc
      PROVE  pc \in TaskPc /\ TaskShape(p, [task[p] EXCEPT !.pc = pc])
  BY <1>t, <1>s DEF TaskState, TaskPc, TaskShape, ProposingPc, RevertingPc, DecidingPc
<1>r. ASSUME NEW result \in Results, NEW closure \in Closures
      PROVE  Closed(task[p].row, result, closure) \in Row
  BY <1>t, RowTypes
<1>1. CASE CheckFreeze(p)
  <2>1. faults' \in Nat
    BY <1>1 DEF CheckFreeze, Fault, HistoryOK
  <2>2. TaskOK' /\ TaskShapes'
    <3>1. CASE TaskRow(p, "refuse", Closed(task[p].row, "denied_by_freeze", "blocked_by_freeze"))
      BY <1>1, <1>s, <1>r, <3>1, TaskRowTypes DEF CheckFreeze, ProposingPc, Results, Closures
    <3>2. CASE TaskStep(p, "maintenance")
      BY <1>1, <1>s, <3>2, TaskStepTypes DEF CheckFreeze, ProposingPc
    <3> QED  BY <1>1, <3>1, <3>2 DEF CheckFreeze
  <2> QED  BY <1>1, <2>1, <2>2 DEF CheckFreeze, StoreOK, QueueOK, ExecOK, RecoveryOK,
              HistoryOK, ExecShapes, ScanShapes
<1>2. CASE CheckMaintenance(p)
  <2>1. faults' \in Nat
    BY <1>2 DEF CheckMaintenance, Fault, HistoryOK
  <2>2. TaskOK' /\ TaskShapes'
    <3>1. CASE TaskRow(p, "refuse", Closed(task[p].row, "denied_by_maintenance",
                                           "blocked_by_maintenance"))
      BY <1>2, <1>s, <1>r, <3>1, TaskRowTypes DEF CheckMaintenance, ProposingPc, Results, Closures
    <3>2. CASE TaskStep(p, "persist")
      BY <1>2, <1>s, <3>2, TaskStepTypes DEF CheckMaintenance, ProposingPc
    <3> QED  BY <1>2, <3>1, <3>2 DEF CheckMaintenance
  <2> QED  BY <1>2, <2>1, <2>2 DEF CheckMaintenance, StoreOK, QueueOK, ExecOK, RecoveryOK,
              HistoryOK, ExecShapes, ScanShapes
<1>3. CASE Refuse(p)
  <2>1. rows' \in [Ids -> Row] /\ faults' \in Nat
    BY <1>3, <1>t, WriteTypes DEF Refuse
  <2>2. TaskOK' /\ TaskShapes'
    BY <1>3, SettleTypes DEF Refuse
  <2> QED  BY <1>3, <2>1, <2>2 DEF Refuse, StoreOK, QueueOK, ExecOK, RecoveryOK, HistoryOK,
              ExecShapes, ScanShapes
<1>4. CASE Persist(p)
  <2> DEFINE id == task[p].id
             row == task[p].row
             app == AppOf(p)
  <2>1. id \in Ids /\ app \in Apps
    BY <1>4, <1>t DEF Persist, TaskShape, ProposingPc, AppOf, Apps
  <2>2. Held(row) \in Row /\ Superseded(row) \in Row
    BY <1>t, RowTypes
  <2>3. rows' \in [Ids -> Row] /\ faults' \in Nat
    <3>1. CASE Fault /\ UNCHANGED rows
      BY <3>1 DEF Fault, StoreOK, HistoryOK
    <3>2. CASE Write(id, Held(row))
      BY <2>2, <3>2, WriteTypes
    <3>3. CASE Write(id, row)
      BY <1>t, <3>3, WriteTypes
    <3> QED  BY <1>4, <3>1, <3>2, <3>3 DEF Persist
  <2>4. QueueOK' /\ handed' \in [Ids -> Nat]
    <3>1. CASE UNCHANGED <<queue, handed>>
      BY <3>1 DEF QueueOK, HistoryOK
    <3>2. CASE Send(app, id, row)
      BY <1>t, <2>1, <3>2, SendTypes
    <3> QED  BY <1>4, <3>1, <3>2 DEF Persist
  <2>5. TaskOK' /\ TaskShapes'
    <3>1. CASE Settle(p)
      BY <3>1, SettleTypes
    <3>2. CASE TaskRow(p, "refuse", Superseded(row))
      BY <1>4, <1>s, <2>2, <3>2, TaskRowTypes DEF Persist, ProposingPc
    <3> QED  BY <1>4, <3>1, <3>2 DEF Persist
  <2> QED  BY <1>4, <2>3, <2>4, <2>5 DEF Persist, StoreOK, ExecOK, RecoveryOK, HistoryOK,
              ExecShapes, ScanShapes
<1> QED  BY <1>1, <1>2, <1>3, <1>4 DEF Gate

LEMMA SessionTypes ==
    ASSUME TypeInv, NEW s \in Sessions, Submit(s) \/ ReceiveDecision(s) \/ ExitCli(s)
    PROVE  TypeInv'
<1> USE DEF TypeInv, TypeOK
<1>h. s \in Handlers
  BY DEF Handlers
<1>1. CASE Submit(s)
  <2>1. PICK a \in Actions : task' = [task EXCEPT ![s] =
          [TaskIdle EXCEPT !.pc = IF NeedsApproval(a) THEN "persist" ELSE "freeze",
                           !.op = "submit", !.id = a, !.row = NewRow(ActorOf[s])]]
    BY <1>1 DEF Submit
  <2> DEFINE pc == IF NeedsApproval(a) THEN "persist" ELSE "freeze"
             t == [TaskIdle EXCEPT !.pc = pc, !.op = "submit", !.id = a,
                                   !.row = NewRow(ActorOf[s])]
  <2>2. pc \in {"persist", "freeze"}
    OBVIOUS
  <2>3. a \in Ids /\ NewRow(ActorOf[s]) \in Row
    BY PlaneAssumption, NewRowTypes DEF Ids
  <2>4. task' = [task EXCEPT ![s] = t]
    BY <2>1
  <2> HIDE DEF pc
  <2>5. t \in TaskState /\ t.pc = pc /\ t.id = a
    BY <2>2, <2>3, IdleTypes DEF TaskState, TaskPc
  <2>6. TaskShape(s, t)
    BY <2>2, <2>3, <2>5 DEF TaskShape, ProposingPc, RevertingPc, DecidingPc
  <2>7. TaskOK' /\ TaskShapes'
    BY <1>h, <2>4, <2>5, <2>6, TaskTypes
  <2> QED  BY <1>1, <2>7 DEF Submit, StoreOK, QueueOK, ExecOK, RecoveryOK, HistoryOK,
              ExecShapes, ScanShapes
<1>2. CASE ReceiveDecision(s)
  <2>1. PICK op \in Requests \cap {"approve", "reject"}, id \in Ids, glass \in Glass :
          task' = [task EXCEPT ![s] = [TaskIdle EXCEPT !.pc = "update", !.op = op, !.id = id,
                                         !.row = rows[id], !.glass = glass]]
    BY <1>2 DEF ReceiveDecision
  <2> DEFINE t == [TaskIdle EXCEPT !.pc = "update", !.op = op, !.id = id,
                                   !.row = rows[id], !.glass = glass]
  <2>2. rows[id] \in Row /\ glass \in BOOLEAN
    BY PlaneAssumption DEF StoreOK
  <2>3. t \in TaskState /\ t.pc = "update" /\ t.id = id
    BY <2>2, IdleTypes DEF TaskState, TaskPc
  <2>4. TaskShape(s, t)
    BY <2>3 DEF TaskShape, ProposingPc, RevertingPc, DecidingPc
  <2>5. TaskOK' /\ TaskShapes'
    BY <1>h, <2>1, <2>3, <2>4, TaskTypes
  <2> QED  BY <1>2, <2>5 DEF ReceiveDecision, StoreOK, QueueOK, ExecOK, RecoveryOK, HistoryOK,
              ExecShapes, ScanShapes
<1>3. CASE ExitCli(s)
  <2>1. s \in Apps
    BY <1>3 DEF ExitCli, Apps
  <2>2. QueueOK'
    BY <1>3, <2>1, EmptyQueueTypes DEF ExitCli
  <2>3. TaskShape(s, [task[s] EXCEPT !.pc = "done"])
    BY <1>h DEF TaskOK, TaskState, TaskShape, ProposingPc, RevertingPc, DecidingPc
  <2>4. TaskOK' /\ TaskShapes'
    BY <1>h, <1>3, <2>3, TaskStepTypes DEF ExitCli, TaskPc
  <2> QED  BY <1>3, <2>2, <2>4 DEF ExitCli, StoreOK, ExecOK, RecoveryOK, HistoryOK, ExecShapes,
              ScanShapes
<1> QED  BY <1>1, <1>2, <1>3

LEMMA DecisionTypes ==
    ASSUME TypeInv, NEW s \in Sessions, Decide(s)
    PROVE  TypeInv'
<1> USE DEF TypeInv, TypeOK
<1>t. /\ s \in Handlers /\ task[s] \in TaskState /\ task[s].row \in Row
      /\ TaskShape(s, task[s]) /\ AppOf(s) \in Apps
  BY DEF Handlers, TaskOK, TaskState, TaskShapes, AppOf, Apps
<1>i. task[s].pc \in DecidingPc => task[s].id \in Ids /\ rows[task[s].id] \in Row
  BY <1>t DEF TaskShape, StoreOK
<1>s. ASSUME task[s].pc \in DecidingPc, NEW pc \in DecidingPc
      PROVE  pc \in TaskPc /\ TaskShape(s, [task[s] EXCEPT !.pc = pc])
  BY <1>t, <1>s DEF TaskState, TaskPc, TaskShape, ProposingPc, RevertingPc, DecidingPc
<1>1. CASE UpdateRow(s)
  <2> DEFINE id == task[s].id
             mark == task[s].glass /\ SodWouldBlock(id, task[s].row, ActorOf[s])
             new == IF task[s].op = "approve"
                    THEN Approved(rows[id], ActorOf[s], mark) ELSE Rejected(rows[id])
  <2>1. id \in Ids /\ rows[id] \in Row /\ ActorOf[s] \in Operators /\ mark \in BOOLEAN
    BY <1>1, <1>i, PlaneAssumption DEF UpdateRow, DecidingPc
  <2>2. new \in Row
    BY <2>1, RowTypes
  <2>3. Write(id, new)
    BY <1>1 DEF UpdateRow
  <2>4. rows' \in [Ids -> Row] /\ faults' \in Nat
    BY <2>2, <2>3, WriteTypes
  <2>5. TaskOK' /\ TaskShapes'
    <3> DEFINE pc == IF MergesMetadata(s) THEN "merge" ELSE "reload"
               t == [task[s] EXCEPT !.pc = pc, !.hit = Undecided(rows[id])]
    <3>1. pc \in {"merge", "reload"} /\ Undecided(rows[id]) \in BOOLEAN
      BY DEF Undecided
    <3>2. CASE Answer(s, "done", "error")
      BY <3>2, AnswerTypes
    <3>3. CASE task' = [task EXCEPT ![s] = t]
      <4> HIDE DEF pc
      <4>1. t \in TaskState /\ t.pc = pc /\ t.id = id
        BY <1>t, <3>1 DEF TaskState, TaskPc
      <4>2. TaskShape(s, t)
        BY <2>1, <3>1, <4>1 DEF TaskShape, ProposingPc, RevertingPc, DecidingPc
      <4> QED  BY <1>t, <3>3, <4>1, <4>2, TaskTypes
    <3>4. Answer(s, "done", "error") \/ task' = [task EXCEPT ![s] = t]
      BY <1>1 DEF UpdateRow
    <3> QED  BY <3>2, <3>3, <3>4
  <2> QED  BY <1>1, <2>4, <2>5 DEF UpdateRow, StoreOK, QueueOK, ExecOK, RecoveryOK, HistoryOK,
              ExecShapes, ScanShapes
<1>2. CASE ReadForMerge(s)
  <2>1. TaskOK' /\ TaskShapes'
    BY <1>2, <1>t, <1>i, <1>s, TaskRowTypes DEF ReadForMerge, DecidingPc
  <2> QED  BY <1>2, <2>1 DEF ReadForMerge, StoreOK, QueueOK, ExecOK, RecoveryOK, HistoryOK,
              ExecShapes, ScanShapes
<1>3. CASE WriteMerged(s)
  <2>1. rows' \in [Ids -> Row] /\ faults' \in Nat
    BY <1>3, <1>t, WriteTypes DEF WriteMerged
  <2>2. TaskOK' /\ TaskShapes'
    BY <1>3, <1>t, <1>s, TaskStepTypes DEF WriteMerged, DecidingPc
  <2> QED  BY <1>3, <2>1, <2>2 DEF WriteMerged, StoreOK, QueueOK, ExecOK, RecoveryOK, HistoryOK,
              ExecShapes, ScanShapes
<1>4. CASE ReloadAndSend(s)
  <2>1. QueueOK' /\ handed' \in [Ids -> Nat]
    <3>1. CASE Send(AppOf(s), task[s].id, rows[task[s].id])
      BY <1>4, <1>t, <1>i, <3>1, SendTypes DEF ReloadAndSend, DecidingPc
    <3>2. CASE UNCHANGED <<queue, handed>>
      BY <3>2 DEF QueueOK, HistoryOK
    <3> QED  BY <1>4, <3>1, <3>2 DEF ReloadAndSend
  <2>2. TaskOK' /\ TaskShapes'
    <3>1. \E pc \in {"done", "drain"}, told \in {"approved", "rejected", "error"} :
             Answer(s, pc, told)
      BY <1>4 DEF ReloadAndSend
    <3> QED  BY <3>1, AnswerTypes
  <2> QED  BY <1>4, <2>1, <2>2 DEF ReloadAndSend, StoreOK, ExecOK, RecoveryOK, HistoryOK,
              ExecShapes, ScanShapes
<1>5. CASE DecisionFails(s)
  <2>1. TaskOK' /\ TaskShapes'
    BY <1>5, AnswerTypes DEF DecisionFails
  <2>2. faults' \in Nat
    BY <1>5 DEF DecisionFails, Fault, HistoryOK
  <2> QED  BY <1>5, <2>1, <2>2 DEF DecisionFails, StoreOK, QueueOK, ExecOK, RecoveryOK, HistoryOK,
              ExecShapes, ScanShapes
<1> QED  BY <1>1, <1>2, <1>3, <1>4, <1>5 DEF Decide

LEMMA DequeueTypes ==
    ASSUME TypeInv, NEW app \in Apps, Dequeue(app)
    PROVE  TypeInv'
<1> USE DEF TypeInv, TypeOK
<1> DEFINE c == Head(queue[app])
           x == [pc |-> "freeze", id |-> c.id, row |-> c.row]
<1>1. /\ queue[app] \in Seq(Copy) /\ queue[app] # <<>>
      /\ queue' = [queue EXCEPT ![app] = Tail(queue[app])]
  BY DEF Dequeue, Take, QueueOK
<1>2. c \in Copy /\ c.id \in Ids /\ c.row \in Row
  <2>1. c \in Copy
    BY <1>1
  <2> QED  BY <2>1 DEF Copy
<1>3. QueueOK'
  BY <1>1, PlaneAssumption DEF QueueOK
<1>4. rows' \in [Ids -> Row] /\ faults' \in Nat
  <2>1. CASE WriteOrLose(c.id, Closed(c.row, "denied_by_policy", "superseded"))
    BY <1>2, <2>1, RowTypes, WriteTypes DEF Results, Closures
  <2>2. CASE UNCHANGED <<rows, faults>>
    BY <2>2 DEF StoreOK, HistoryOK
  <2> QED  BY <2>1, <2>2 DEF Dequeue
<1>5. ExecOK' /\ ExecShapes'
  <2>1. x \in ExecState /\ ExecShape(x)
    BY <1>2 DEF ExecState, ExecPc, ExecShape
  <2>2. CASE exec' = [exec EXCEPT ![app] = x]
    BY <2>1, <2>2, ExecTypes
  <2>3. CASE exec' = exec
    BY <2>3 DEF ExecOK, ExecShapes
  <2> QED  BY <2>2, <2>3 DEF Dequeue
<1>6. TaskOK' /\ TaskShapes'
  <2>1. CASE app \in Cli
    <3>1. app \in Handlers
      BY <2>1, PlaneAssumption DEF Handlers
    <3>2. TaskStep(app, "exit")
      BY <2>1 DEF Dequeue, TaskStep
    <3>3. TaskShape(app, [task[app] EXCEPT !.pc = "exit"])
      BY <3>1 DEF TaskOK, TaskState, TaskShape, ProposingPc, RevertingPc, DecidingPc
    <3> QED  BY <3>1, <3>2, <3>3, TaskStepTypes DEF TaskPc
  <2>2. CASE app \notin Cli
    BY <2>2 DEF Dequeue, TaskOK, TaskShapes
  <2> QED  BY <2>1, <2>2
<1> QED  BY <1>3, <1>4, <1>5, <1>6 DEF Dequeue, StoreOK, RecoveryOK, HistoryOK, ScanShapes

LEMMA ExecutorTypes ==
    ASSUME TypeInv, NEW app \in Apps, Execute(app)
    PROVE  TypeInv'
<1> USE DEF TypeInv, TypeOK
<1> DEFINE id == exec[app].id
           row == exec[app].row
<1>x. row \in Row /\ (exec[app].pc # "idle" => id \in Ids) /\ ExecShape(exec[app])
  BY DEF ExecOK, ExecState, ExecShapes, ExecShape
<1>c. ASSUME NEW result \in Results, NEW closure \in Closures
      PROVE  Closed(row, result, closure) \in Row
  BY <1>x, RowTypes
<1>r. ASSUME exec[app].pc # "idle", NEW found \in BOOLEAN, NEW next \in {"maintenance", "start"},
             NEW refusal \in Row, Recheck(app, found, next, refusal)
      PROVE  ExecOK' /\ ExecShapes' /\ faults' \in Nat
  <2>1. \E pc \in {"maintenance", "start", "refuse"}, new \in Row : ExecStep(app, pc, new)
    BY <1>x, <1>r DEF Recheck
  <2>2. ExecOK' /\ ExecShapes'
    BY <1>r, <2>1, ExecStepTypes DEF ExecPc
  <2> QED  BY <1>r, <2>2 DEF Recheck, Fault, HistoryOK
<1>1. CASE Dequeue(app)
  BY <1>1, DequeueTypes
<1>2. CASE RecheckFreeze(app)
  <2>1. ExecOK' /\ ExecShapes' /\ faults' \in Nat
    BY <1>2, <1>c, <1>r DEF RecheckFreeze, Frozen, Results, Closures
  <2> QED  BY <1>2, <2>1 DEF RecheckFreeze, StoreOK, QueueOK, TaskOK, RecoveryOK, HistoryOK,
              TaskShapes, ScanShapes
<1>3. CASE RecheckMaintenance(app)
  <2>1. ExecOK' /\ ExecShapes' /\ faults' \in Nat
    BY <1>3, <1>c, <1>r DEF RecheckMaintenance, InMaintenance, Results, Closures
  <2> QED  BY <1>3, <2>1 DEF RecheckMaintenance, StoreOK, QueueOK, TaskOK, RecoveryOK, HistoryOK,
              TaskShapes, ScanShapes
<1>4. CASE RefuseExecution(app)
  <2>1. rows' \in [Ids -> Row] /\ faults' \in Nat
    BY <1>4, <1>x, WriteTypes DEF RefuseExecution
  <2>2. ExecOK' /\ ExecShapes' /\ exempt' \in [FreezeScopes -> SUBSET Apps]
    BY <1>4, ExecDoneTypes DEF RefuseExecution
  <2> QED  BY <1>4, <2>1, <2>2 DEF RefuseExecution, StoreOK, QueueOK, TaskOK, RecoveryOK,
              HistoryOK, TaskShapes, ScanShapes
<1>5. CASE Start(app)
  <2> DEFINE started == [row EXCEPT !.life = "running"]
  <2>1. started \in Row /\ started.closure \in Closures
    BY <1>x DEF Row, Lifecycles
  <2>2. Closed(started, "denied_by_policy", started.closure) \in Row
    BY <2>1, RowTypes DEF Results
  <2>3. rows' \in [Ids -> Row] /\ faults' \in Nat
    <3>1. CASE WriteOrLose(id, Closed(started, "denied_by_policy", started.closure))
      BY <2>2, <3>1, WriteTypes
    <3>2. CASE Write(id, started)
      BY <2>1, <3>2, WriteTypes
    <3>3. CASE Fault /\ UNCHANGED rows
      BY <3>3 DEF Fault, StoreOK, HistoryOK
    <3> QED  BY <1>5, <3>1, <3>2, <3>3 DEF Start
  <2>4. ExecOK' /\ ExecShapes' /\ exempt' \in [FreezeScopes -> SUBSET Apps]
    <3>1. CASE ExecDone(app)
      BY <3>1, ExecDoneTypes
    <3>2. CASE ExecStep(app, "actuate", started) /\ UNCHANGED exempt
      BY <1>5, <2>1, <3>2, ExecStepTypes DEF Start, ExecPc, HistoryOK
    <3> QED  BY <1>5, <3>1, <3>2 DEF Start
  <2> QED  BY <1>5, <2>3, <2>4 DEF Start, StoreOK, QueueOK, TaskOK, RecoveryOK, HistoryOK,
              TaskShapes, ScanShapes
<1>6. CASE Actuate(app)
  <2>1. PICK outcome \in Outcomes(id) :
          /\ ExecStep(app, "finish", Closed(row, outcome, ClosureAfter(id, row, outcome)))
          /\ fired' = IF outcome = "failed_terminal" THEN fired ELSE [fired EXCEPT ![id] = @ + 1]
    BY <1>6 DEF Actuate
  <2>2. ExecOK' /\ ExecShapes'
    BY <1>6, <1>x, <1>c, <2>1, OutcomeTypes, ExecStepTypes DEF Actuate, ExecPc
  <2>3. fired' \in [Ids -> Nat]
    <3>1. fired \in [Ids -> Nat] /\ id \in Ids
      BY <1>6, <1>x DEF Actuate, HistoryOK
    <3>2. [fired EXCEPT ![id] = fired[id] + 1] \in [Ids -> Nat]
      BY <3>1
    <3> QED  BY <2>1, <3>1, <3>2
  <2>4. TaskOK' /\ TaskShapes'
    <3>1. CASE \E e \in Evals : TaskStep(e, "decide")
      <4>1. PICK e \in Evals : TaskStep(e, "decide")
        BY <3>1
      <4>2. e \in Handlers /\ TaskShape(e, [task[e] EXCEPT !.pc = "decide"])
        BY DEF Handlers, TaskOK, TaskState, TaskShape, ProposingPc, RevertingPc, DecidingPc
      <4> QED  BY <4>1, <4>2, TaskStepTypes DEF TaskPc
    <3>2. CASE UNCHANGED task
      BY <3>2 DEF TaskOK, TaskShapes
    <3> QED  BY <1>6, <3>1, <3>2 DEF Actuate
  <2> QED  BY <1>6, <2>2, <2>3, <2>4 DEF Actuate, StoreOK, QueueOK, RecoveryOK, HistoryOK,
              ScanShapes
<1>7. CASE Finish(app)
  <2>1. rows' \in [Ids -> Row] /\ faults' \in Nat
    BY <1>7, <1>x, WriteTypes DEF Finish
  <2>2. ExecOK' /\ ExecShapes' /\ exempt' \in [FreezeScopes -> SUBSET Apps]
    <3>1. CASE ExecDone(app)
      BY <3>1, ExecDoneTypes
    <3>2. CASE /\ Type(id) = "restart_transport" /\ ExecStep(app, "followup", row)
               /\ UNCHANGED exempt
      BY <1>7, <1>x, <3>2, ExecStepTypes DEF Finish, ExecPc, HistoryOK
    <3> QED  BY <1>7, <3>1, <3>2 DEF Finish
  <2> QED  BY <1>7, <2>1, <2>2 DEF Finish, StoreOK, QueueOK, TaskOK, RecoveryOK, HistoryOK,
              TaskShapes, ScanShapes
<1>8. CASE SeekFollowUp(app)
  <2>1. ExecOK' /\ ExecShapes' /\ exempt' \in [FreezeScopes -> SUBSET Apps]
    <3>1. CASE ExecDone(app)
      BY <3>1, ExecDoneTypes
    <3>2. CASE ExecStep(app, "persist", row) /\ UNCHANGED exempt
      BY <1>8, <1>x, <3>2, ExecStepTypes DEF SeekFollowUp, ExecPc, ExecShape, HistoryOK
    <3> QED  BY <1>8, <3>1, <3>2 DEF SeekFollowUp
  <2>2. faults' \in Nat
    BY <1>8 DEF SeekFollowUp, Fault, HistoryOK
  <2> QED  BY <1>8, <2>1, <2>2 DEF SeekFollowUp, StoreOK, QueueOK, TaskOK, RecoveryOK, HistoryOK,
              TaskShapes, ScanShapes
<1>9. CASE PersistFollowUp(app)
  <2> DEFINE recheck == HealthRecheck(id)
  <2>1. recheck \in Ids /\ NewRow("system") \in Row
    BY <1>9, <1>x, FollowUpIds, NewRowTypes DEF PersistFollowUp, ExecShape
  <2>2. rows' \in [Ids -> Row] /\ faults' \in Nat
    BY <1>9, <2>1, WriteTypes DEF PersistFollowUp, Fault, StoreOK, HistoryOK
  <2>3. QueueOK' /\ handed' \in [Ids -> Nat]
    BY <1>9, <2>1, SendTypes DEF PersistFollowUp, QueueOK, HistoryOK
  <2>4. ExecOK' /\ ExecShapes' /\ exempt' \in [FreezeScopes -> SUBSET Apps]
    BY <1>9, ExecDoneTypes DEF PersistFollowUp
  <2> QED  BY <1>9, <2>2, <2>3, <2>4 DEF PersistFollowUp, StoreOK, TaskOK, RecoveryOK, HistoryOK,
              TaskShapes, ScanShapes
<1> QED  BY <1>1, <1>2, <1>3, <1>4, <1>5, <1>6, <1>7, <1>8, <1>9 DEF Execute

LEMMA EnvironmentTypes ==
    ASSUME TypeInv, BeginEvaluation \/ Time \/ Operate \/ ExpireStaleApprovalActions
    PROVE  TypeInv'
<1> USE DEF TypeInv, TypeOK
<1>1. CASE BeginEvaluation
  <2>1. Ticker \in Evals /\ Ticker \in Handlers
    BY <1>1 DEF BeginEvaluation, Handlers
  <2>2. TaskShape(Ticker, [task[Ticker] EXCEPT !.pc = "decide"])
    BY <2>1 DEF TaskOK, TaskState, TaskShape, ProposingPc, RevertingPc, DecidingPc
  <2>3. TaskOK' /\ TaskShapes'
    BY <1>1, <2>1, <2>2, TaskStepTypes DEF BeginEvaluation, TaskPc
  <2> QED  BY <1>1, <2>3 DEF BeginEvaluation, StoreOK, QueueOK, ExecOK, RecoveryOK, HistoryOK,
              ExecShapes, ScanShapes
<1>2. CASE Time
  <2>1. PICK id \in Ids : ApprovalDeadlinePasses(id) \/ BackoffLapses(id)
    BY <1>2 DEF Time
  <2> QED  BY <2>1 DEF ApprovalDeadlinePasses, BackoffLapses, StoreOK, QueueOK, ExecOK, TaskOK,
              RecoveryOK, HistoryOK, ExecShapes, TaskShapes, ScanShapes
<1>3. CASE Operate
  <2>1. CASE \E f \in FreezeScopes : CreateFreeze(f) \/ ClearFreeze(f)
    <3>1. PICK f \in FreezeScopes : CreateFreeze(f) \/ ClearFreeze(f)
      BY <2>1
    <3>2. StoreOK'
      BY <3>1 DEF CreateFreeze, ClearFreeze, StoreOK
    <3>3. HistoryOK'
      BY <3>1 DEF CreateFreeze, ClearFreeze, HistoryOK
    <3> QED  BY <3>1, <3>2, <3>3 DEF CreateFreeze, ClearFreeze, QueueOK, ExecOK, TaskOK,
                RecoveryOK, ExecShapes, TaskShapes, ScanShapes
  <2>2. CASE \E w \in WindowScopes : ToggleWindow(w)
    BY <2>2 DEF ToggleWindow, StoreOK, QueueOK, ExecOK, TaskOK, RecoveryOK, HistoryOK,
       ExecShapes, TaskShapes, ScanShapes
  <2> QED  BY <1>3, <2>1, <2>2 DEF Operate
<1>4. CASE ExpireStaleApprovalActions
  <2>1. \A id \in Ids : rows[id] \in Row /\ ExpiredApproval(rows[id]) \in Row
    BY RowTypes DEF StoreOK
  <2>2. rows' \in [Ids -> Row]
    BY <1>4, <2>1 DEF ExpireStaleApprovalActions
  <2> QED  BY <1>4, <2>2 DEF ExpireStaleApprovalActions, StoreOK, QueueOK, ExecOK, TaskOK,
              RecoveryOK, HistoryOK, ExecShapes, TaskShapes, ScanShapes
<1> QED  BY <1>1, <1>2, <1>3, <1>4

LEMMA LostTypes ==
    ASSUME TaskOK, NEW s \in Sessions
    PROVE  Lost(s) \in TaskState /\ TaskShape(s, Lost(s))
<1> DEFINE told == IF task[s].told = "none" THEN "error" ELSE task[s].told
<1>1. s \in Handlers /\ told \in {"approved", "rejected", "error"}
  BY DEF Handlers, TaskOK, TaskState
<1> HIDE DEF told
<1>2. Answered(s, "done", told) \in TaskState /\ Answered(s, "done", told).pc = "done"
  BY ZenonT(60), <1>1, NewRowTypes DEF Answered, TaskOK, TaskState, TaskPc
<1>3. Lost(s) = Answered(s, "done", told)
  BY DEF Lost, told
<1> QED  BY <1>2, <1>3 DEF TaskShape, ProposingPc, RevertingPc, DecidingPc

LEMMA CrashTypes ==
    ASSUME TypeInv, Crash \/ \E s \in Sessions : Kill(s)
    PROVE  TypeInv'
<1> USE DEF TypeInv, TypeOK
<1>1. CASE Crash
  <2>1. QueueOK' /\ ExecOK' /\ ExecShapes'
    <3>1. Serve \in Apps
      BY DEF Apps
    <3>2. QueueOK'
      BY <1>1, <3>1, EmptyQueueTypes DEF Crash
    <3> QED  BY <1>1, <3>1, <3>2, IdleTypes, ExecTypes DEF Crash
  <2>2. \A p \in Handlers : task'[p] \in TaskState /\ TaskShape(p, task'[p])
    <3> SUFFICES ASSUME NEW p \in Handlers
                 PROVE  task'[p] \in TaskState /\ TaskShape(p, task'[p])
      OBVIOUS
    <3>1. CASE p \in Evals
      <4>1. task'[p] = TaskIdle
        BY <1>1, <3>1 DEF Crash
      <4> QED  BY <4>1, IdleTypes DEF TaskIdle, TaskShape, ProposingPc, RevertingPc, DecidingPc
    <3>2. CASE p \notin Evals
      <4>1. p \in Sessions /\ (task'[p] = task[p] \/ task'[p] = Lost(p))
        BY <1>1, <3>2 DEF Crash, Handlers
      <4> QED  BY <4>1, LostTypes DEF TaskOK, TaskShapes
    <3> QED  BY <3>1, <3>2
  <2>3. TaskOK' /\ TaskShapes'
    <3>1. DOMAIN task' = Handlers /\ task' = [p \in Handlers |-> task'[p]]
      BY <1>1 DEF Crash
    <3> QED  BY <2>2, <3>1 DEF TaskOK, TaskShapes
  <2>4. RecoveryOK' /\ ScanShapes' /\ HistoryOK'
    BY <1>1 DEF Crash, RecoveryOK, ScanShapes, HistoryOK
  <2> QED  BY <1>1, <2>1, <2>3, <2>4 DEF Crash, StoreOK
<1>2. CASE \E s \in Sessions : Kill(s)
  <2>1. PICK s \in Sessions : Kill(s)
    BY <1>2
  <2>2. s \in Apps /\ s \in Handlers
    BY <2>1 DEF Kill, Apps, Handlers
  <2>3. QueueOK'
    BY <2>1, <2>2, EmptyQueueTypes DEF Kill
  <2>4. ExecOK' /\ ExecShapes'
    BY <2>1, <2>2, IdleTypes, ExecTypes DEF Kill
  <2>5. TaskOK' /\ TaskShapes'
    BY <2>1, <2>2, LostTypes, TaskTypes DEF Kill
  <2>6. HistoryOK'
    BY <2>1 DEF Kill, HistoryOK
  <2> QED  BY <2>1, <2>3, <2>4, <2>5, <2>6 DEF Kill, StoreOK, RecoveryOK, ScanShapes
<1> QED  BY <1>1, <1>2

LEMMA RecoverTypes ==
    ASSUME TypeInv, Recover
    PROVE  TypeInv'
<1> USE DEF TypeInv, TypeOK
<1>1. CASE Restart
  <2>1. {[id |-> id, row |-> rows[id]] : id \in {i \in Ids : Incomplete(rows[i])}} \subseteq Copy
    BY DEF StoreOK, Copy
  <2>2. RecoveryOK' /\ faults' \in Nat
    BY <1>1, <2>1 DEF Restart, RecoveryOK, Fault, HistoryOK
  <2> QED  BY <1>1, <2>2 DEF Restart, StoreOK, QueueOK, ExecOK, TaskOK, HistoryOK, ExecShapes,
              TaskShapes, ScanShapes
<1>2. CASE RecoverRow
  <2>1. PICK c \in todo :
          /\ todo' = todo \ {c}
          /\ WriteOrLose(c.id, Recovered(c.id, c.row))
          /\ exec' = IF Type(c.id) = "restart_transport"
                     THEN [exec EXCEPT ![Serve] = [pc |-> "followup", id |-> c.id,
                                                   row |-> Recovered(c.id, c.row)]]
                     ELSE exec
    BY <1>2 DEF RecoverRow
  <2> DEFINE x == [pc |-> "followup", id |-> c.id, row |-> Recovered(c.id, c.row)]
  <2>2. c.id \in Ids /\ c.row \in Row
    BY DEF RecoveryOK, Copy
  <2>3. Recovered(c.id, c.row) \in Row
    BY <2>2, RowTypes
  <2>4. rows' \in [Ids -> Row] /\ faults' \in Nat
    BY <2>1, <2>3, WriteTypes
  <2>5. ExecOK' /\ ExecShapes'
    <3>1. CASE Type(c.id) = "restart_transport"
      <4>1. x \in ExecState /\ ExecShape(x) /\ Serve \in Apps
        BY <2>2, <2>3, <3>1 DEF ExecState, ExecPc, ExecShape, Apps
      <4> QED  BY <2>1, <3>1, <4>1, ExecTypes
    <3>2. CASE Type(c.id) # "restart_transport"
      BY <2>1, <3>2 DEF ExecOK, ExecShapes
    <3> QED  BY <3>1, <3>2
  <2> QED  BY <1>2, <2>1, <2>4, <2>5 DEF RecoverRow, StoreOK, QueueOK, TaskOK, RecoveryOK,
              HistoryOK, TaskShapes, ScanShapes
<1>3. CASE StartWorkers
  BY <1>3 DEF StartWorkers, StoreOK, QueueOK, ExecOK, TaskOK, RecoveryOK, HistoryOK, ExecShapes,
     TaskShapes, ScanShapes
<1> QED  BY <1>1, <1>2, <1>3 DEF Recover

LEMMA InitTypes == Init => TypeInv
<1> SUFFICES ASSUME Init PROVE TypeInv
  OBVIOUS
<1>1. StoreOK /\ RecoveryOK /\ HistoryOK /\ ScanShapes
  BY NewRowTypes DEF Init, StoreOK, RecoveryOK, HistoryOK, ScanShapes
<1>2. QueueOK
  BY PlaneAssumption DEF Init, QueueOK
<1>3. ExecOK /\ ExecShapes
  BY IdleTypes DEF Init, ExecOK, ExecShapes
<1>4. TaskOK /\ TaskShapes
  BY IdleTypes DEF Init, TaskOK, TaskShapes, TaskIdle, TaskShape, ProposingPc, RevertingPc,
     DecidingPc
<1> QED  BY <1>1, <1>2, <1>3, <1>4 DEF TypeInv, TypeOK

LEMMA StepTypes == TypeInv /\ [Next]_vars => TypeInv'
<1> SUFFICES ASSUME TypeInv, [Next]_vars PROVE TypeInv'
  OBVIOUS
<1>1. CASE UNCHANGED vars
  BY <1>1 DEF vars, TypeInv, TypeOK, StoreOK, QueueOK, ExecOK, TaskOK, RecoveryOK, HistoryOK,
     ExecShapes, TaskShapes, ScanShapes
<1>2. CASE Next
  BY <1>2, EvaluatorTypes, GateTypes, SessionTypes, DecisionTypes, ExecutorTypes,
     EnvironmentTypes, CrashTypes, RecoverTypes DEF Next
<1> QED  BY <1>1, <1>2

(* The control plane keeps its types: in particular no channel outgrows its capacity,
   every id a process is at work on has a row, and follow-ups are issued for restarts
   and raises alone.                                                       *)
THEOREM TypeCorrect == Spec => [](TypeOK /\ TypeInv)
<1>1. TypeInv => TypeOK
  BY DEF TypeInv
<1> QED  BY <1>1, InitTypes, StepTypes, PTL DEF Spec

------------------------------------------------------------------------------
(* Freezes *)

(* Executors not at the step keep their place; one that ends is past no check. *)
LEMMA FreezeFrame ==
    ASSUME TypeInv, FreezeStopsTheRest, faults' = 0 => faults = 0,
           NEW app \in Apps, frozen' \subseteq frozen,
           \A a \in Apps \ {app} : exec'[a] = exec[a],
           \A f \in frozen, a \in Apps \ {app} : a \in exempt[f] => a \in exempt'[f],
           \A f \in frozen : faults' = 0 /\ PastFreezeCheck(app)' /\ Covers(f, exec'[app].id)
                                => app \in exempt'[f]
    PROVE  FreezeStopsTheRest'
  BY DEF FreezeStopsTheRest, PastFreezeCheck

LEMMA FreezeDone ==
    ASSUME TypeInv, FreezeStopsTheRest, faults' = 0 => faults = 0,
           NEW app \in Apps, frozen' = frozen, ExecDone(app)
    PROVE  FreezeStopsTheRest'
<1>1. /\ \A a \in Apps \ {app} : exec'[a] = exec[a]
      /\ exec'[app].pc = "idle"
  BY DEF ExecDone, ExecIdle, TypeInv, TypeOK, ExecOK
<1>2. \A f \in frozen, a \in Apps \ {app} : a \in exempt[f] => a \in exempt'[f]
  BY DEF ExecDone, TypeInv, TypeOK, StoreOK
<1> QED  BY <1>1, <1>2, FreezeFrame DEF PastFreezeCheck

LEMMA FreezeExecutor ==
    ASSUME TypeInv, FreezeStopsTheRest, NEW app \in Apps, Execute(app)
    PROVE  FreezeStopsTheRest'
<1>f. frozen' = frozen /\ (faults' = 0 => faults = 0)
  BY DEF Execute, Dequeue, RecheckFreeze, RecheckMaintenance, Recheck, RefuseExecution, Start,
     Actuate, Finish, SeekFollowUp, PersistFollowUp, WriteOrLose, Write, Fault, TypeInv, TypeOK,
     HistoryOK
<1>d. CASE ExecDone(app)
  BY <1>f, <1>d, FreezeDone
<1>m. ASSUME exempt' = exempt, NEW pc, NEW row, ExecStep(app, pc, row),
             pc \notin {"maintenance", "start", "actuate"} \/ PastFreezeCheck(app)
      PROVE  FreezeStopsTheRest'
  <2>1. /\ \A a \in Apps \ {app} : exec'[a] = exec[a]
        /\ exec'[app].pc = pc /\ exec'[app].id = exec[app].id
    BY <1>m DEF ExecStep, TypeInv, TypeOK, ExecOK, ExecState
  <2>2. \A f \in frozen : faults' = 0 /\ PastFreezeCheck(app)' /\ Covers(f, exec'[app].id)
                             => app \in exempt'[f]
    BY <1>f, <1>m, <2>1 DEF FreezeStopsTheRest, PastFreezeCheck
  <2> QED  BY <1>f, <1>m, <2>1, <2>2, FreezeFrame
<1>1. CASE Dequeue(app)
  <2>1. exempt' = exempt /\ exec[app].pc = "idle"
    BY <1>1 DEF Dequeue
  <2>2. /\ \A a \in Apps \ {app} : exec'[a] = exec[a]
        /\ exec'[app].pc \in {"idle", "freeze"}
    BY <1>1, <2>1 DEF Dequeue, TypeInv, TypeOK, ExecOK
  <2> QED  BY <1>f, <2>1, <2>2, FreezeFrame DEF PastFreezeCheck
<1>2. CASE RecheckFreeze(app)
  <2>1. CASE ExecStep(app, "refuse", Closed(exec[app].row, "denied_by_freeze", "blocked_by_freeze"))
    BY <1>2, <2>1, <1>m DEF RecheckFreeze
  <2>2. CASE ExecStep(app, "maintenance", exec[app].row) /\ (Fault \/ ~Frozen(exec[app].id))
    <3>1. /\ \A a \in Apps \ {app} : exec'[a] = exec[a]
          /\ exec'[app].id = exec[app].id
      BY <2>2 DEF ExecStep, TypeInv, TypeOK, ExecOK, ExecState
    <3>2. faults' = 0 => ~Frozen(exec[app].id)
      BY <2>2 DEF Fault, TypeInv, TypeOK, HistoryOK
    <3> QED  BY <1>f, <1>2, <3>1, <3>2, FreezeFrame DEF RecheckFreeze, Frozen
  <2> QED  BY <1>2, <2>1, <2>2 DEF RecheckFreeze, Recheck
<1>3. CASE RecheckMaintenance(app)
  BY <1>3, <1>m DEF RecheckMaintenance, Recheck, PastFreezeCheck
<1>4. CASE RefuseExecution(app)
  BY <1>4, <1>d DEF RefuseExecution
<1>5. CASE Start(app)
  BY <1>5, <1>d, <1>m DEF Start, PastFreezeCheck
<1>6. CASE Actuate(app)
  BY <1>6, <1>m DEF Actuate
<1>7. CASE Finish(app)
  BY <1>7, <1>d, <1>m DEF Finish
<1>8. CASE SeekFollowUp(app)
  BY <1>8, <1>d, <1>m DEF SeekFollowUp
<1>9. CASE PersistFollowUp(app)
  BY <1>9, <1>d DEF PersistFollowUp
<1> QED  BY <1>1, <1>2, <1>3, <1>4, <1>5, <1>6, <1>7, <1>8, <1>9 DEF Execute

LEMMA FreezeElsewhere ==
    ASSUME TypeInv, FreezeStopsTheRest, Next, \A app \in Apps : ~Execute(app)
    PROVE  FreezeStopsTheRest'
<1>f. faults' = 0 => faults = 0
  <2>1. faults' = faults \/ Fault
    BY ZenonT(60) DEF Next, BeginEvaluation, Evaluate, ProposeDenied, Propose, ScanExpired,
       RevertSeen,
       CloseReverted, IssueReset, EndEvaluation, Gate, CheckFreeze, CheckMaintenance, Refuse,
       Persist, Submit, ReceiveDecision, Decide, UpdateRow, ReadForMerge, WriteMerged,
       ReloadAndSend, DecisionFails, ExitCli, Kill, ExpireStaleApprovalActions, Crash, Recover,
       Restart, RecoverRow, StartWorkers, Time, ApprovalDeadlinePasses, BackoffLapses, Operate,
       CreateFreeze, ClearFreeze, ToggleWindow, WriteOrLose, Write
  <2> QED  BY <2>1 DEF Fault, TypeInv, TypeOK, HistoryOK
<1>u. CASE UNCHANGED <<frozen, exec, exempt>>
  BY <1>f, <1>u DEF FreezeStopsTheRest, PastFreezeCheck
<1>1. CASE BeginEvaluation \/ ExpireStaleApprovalActions \/ Time
  BY <1>1, <1>u DEF BeginEvaluation, ExpireStaleApprovalActions, Time, ApprovalDeadlinePasses,
     BackoffLapses
<1>2. CASE \E e \in Evals : Evaluate(e)
  BY <1>2, <1>u DEF Evaluate, ProposeDenied, Propose, ScanExpired, RevertSeen, CloseReverted,
     IssueReset, EndEvaluation
<1>3. CASE \E p \in Handlers : Gate(p)
  BY <1>3, <1>u DEF Gate, CheckFreeze, CheckMaintenance, Refuse, Persist
<1>4. CASE \E s \in Sessions : Submit(s) \/ ReceiveDecision(s) \/ Decide(s) \/ ExitCli(s)
  BY <1>4, <1>u DEF Submit, ReceiveDecision, Decide, UpdateRow, ReadForMerge, WriteMerged,
     ReloadAndSend, DecisionFails, ExitCli
<1>5. CASE Restart \/ StartWorkers
  BY <1>5, <1>u DEF Restart, StartWorkers
<1>6. CASE RecoverRow
  <2>1. /\ \A a \in Apps \ {Serve} : exec'[a] = exec[a]
        /\ exec'[Serve].pc \in {"idle", "followup"} /\ Serve \in Apps
        /\ exempt' = exempt /\ frozen' = frozen
    BY <1>6 DEF RecoverRow, TypeInv, TypeOK, ExecOK, Apps
  <2> QED  BY <1>f, <2>1, FreezeFrame DEF PastFreezeCheck
<1>7. ASSUME NEW app \in Apps, frozen' = frozen, exec' = [exec EXCEPT ![app] = ExecIdle],
             exempt' = [f \in FreezeScopes |-> exempt[f] \ {app}]
      PROVE  FreezeStopsTheRest'
  BY <1>f, <1>7, FreezeDone DEF ExecDone
<1>8. CASE Crash \/ \E s \in Sessions : Kill(s)
  BY <1>7, <1>8 DEF Crash, Kill, Apps
<1>9. CASE Operate
  <2>1. CASE \E f \in FreezeScopes : CreateFreeze(f)
    <3>1. PICK f \in FreezeScopes : CreateFreeze(f)
      BY <2>1
    <3>2. /\ exempt' = [exempt EXCEPT ![f] = {app \in Apps : PastFreezeCheck(app)}]
          /\ frozen' = frozen \cup {f} /\ exec' = exec
      BY <3>1 DEF CreateFreeze
    <3>3. \A g \in frozen : g # f => exempt'[g] = exempt[g]
      BY <3>2 DEF TypeInv, TypeOK, HistoryOK, StoreOK
    <3>4. exempt'[f] = {app \in Apps : PastFreezeCheck(app)}
      BY <3>2 DEF TypeInv, TypeOK, HistoryOK
    <3> QED  BY <1>f, <3>2, <3>3, <3>4 DEF FreezeStopsTheRest, PastFreezeCheck
  <2>2. CASE \E f \in FreezeScopes : ClearFreeze(f)
    BY <1>f, <2>2 DEF ClearFreeze, FreezeStopsTheRest, PastFreezeCheck
  <2>3. CASE \E w \in WindowScopes : ToggleWindow(w)
    BY <1>u, <2>3 DEF ToggleWindow
  <2> QED  BY <1>9, <2>1, <2>2, <2>3 DEF Operate
<1> QED  BY <1>1, <1>2, <1>3, <1>4, <1>5, <1>6, <1>8, <1>9 DEF Next, Recover

(* As long as no look-up fails, a freeze stops every action of every process but the
   one each had already taken past its own check when the freeze was created. *)
THEOREM FreezesHold == Spec => []FreezeStopsTheRest
<1>1. Init => FreezeStopsTheRest
  BY DEF Init, FreezeStopsTheRest
<1>2. TypeInv /\ FreezeStopsTheRest /\ [Next]_vars => FreezeStopsTheRest'
  <2>1. ASSUME FreezeStopsTheRest, UNCHANGED vars
        PROVE  FreezeStopsTheRest'
    BY <2>1 DEF vars, FreezeStopsTheRest, PastFreezeCheck
  <2> QED  BY <2>1, FreezeExecutor, FreezeElsewhere
<1> QED  BY <1>1, <1>2, TypeCorrect, PTL DEF Spec

------------------------------------------------------------------------------
(* Sends and runs *)

(* No executor comes to hold a send it did not hold. *)
ExecsShrink == \A a \in Apps : exec'[a].pc \in AwaitingPc =>
                                  exec[a].pc \in AwaitingPc /\ exec'[a].id = exec[a].id

LEMMA PlaceCounts ==
    ASSUME TypeInv, SendInv, NEW id \in Ids
    PROVE  /\ IsFiniteSet(Places(id)) /\ Cardinality(Places(id)) \in Nat
           /\ fired[id] \in Nat /\ handed[id] \in Nat
           /\ fired[id] + Cardinality(Places(id)) <= handed[id]
  BY FS_CardinalityType DEF SendInv, TypeInv, TypeOK, HistoryOK

(* What a step leaves of the places is fewer, so the sends still cover the runs. *)
LEMMA FewerPlaces ==
    ASSUME TypeInv, SendInv, NEW id \in Ids, NEW P, P \subseteq Places(id)
    PROVE  /\ IsFiniteSet(P) /\ Cardinality(P) \in Nat
           /\ fired[id] + Cardinality(P) <= handed[id]
<1>1. IsFiniteSet(P) /\ Cardinality(P) <= Cardinality(Places(id))
  BY PlaceCounts, FS_Subset
<1>2. Cardinality(P) \in Nat
  BY <1>1, FS_CardinalityType
<1> QED  BY <1>1, <1>2, PlaceCounts

LEMMA ShrunkPlaces ==
    ASSUME TypeInv, SendInv, UNCHANGED <<fired, handed>>, ExecsShrink, NEW app \in Apps,
           queue' = queue \/ queue' = [queue EXCEPT ![app] = <<>>]
    PROVE  SendInv'
<1> SUFFICES ASSUME NEW id \in Ids
             PROVE  /\ IsFiniteSet(Places(id)')
                    /\ fired'[id] + Cardinality(Places(id)') <= handed'[id]
  BY DEF SendInv
<1>1. Places(id)' \subseteq Places(id)
  <2> SUFFICES ASSUME NEW a \in Apps, NEW i \in 0..MaxQueue, Awaits(<<a, i>>, id)'
               PROVE  Awaits(<<a, i>>, id)
    BY DEF Places
  <2>1. CASE i = 0
    BY <2>1 DEF Awaits, ExecsShrink
  <2>2. CASE i # 0
    <3>1. i \in 1..Len(queue'[a]) /\ queue'[a][i].id = id
      BY <2>2 DEF Awaits
    <3>2. queue'[a] = queue[a]
      BY <3>1 DEF TypeInv, TypeOK, QueueOK
    <3> QED  BY <3>1, <3>2 DEF Awaits
  <2> QED  BY <2>1, <2>2
<1> QED  BY <1>1, FewerPlaces

LEMMA SentPlaces ==
    ASSUME TypeInv, SendInv, UNCHANGED fired, ExecsShrink, NEW app \in Apps, NEW k \in Ids,
           NEW row, Send(app, k, row)
    PROVE  SendInv'
<1>1. CASE ~HasRoom(app)
  BY <1>1, ShrunkPlaces DEF Send
<1>2. CASE HasRoom(app)
  <2> DEFINE c == [id |-> k, row |-> row]
             new == <<app, Len(queue[app]) + 1>>
  <2>1. /\ queue' = [queue EXCEPT ![app] = Append(queue[app], c)]
        /\ handed' = [handed EXCEPT ![k] = handed[k] + 1]
        /\ queue \in [Apps -> Seq(Copy)]
    BY <1>2 DEF Send, TypeInv, TypeOK, QueueOK
  <2>2. queue[app] \in Seq(Copy) /\ queue'[app] = Append(queue[app], c)
        /\ \A a \in Apps : a # app => queue'[a] = queue[a]
    BY <2>1
  <2> SUFFICES ASSUME NEW id \in Ids
               PROVE  /\ IsFiniteSet(Places(id)')
                      /\ fired'[id] + Cardinality(Places(id)') <= handed'[id]
    BY DEF SendInv
  <2>3. ASSUME NEW a \in Apps, NEW i \in 0..MaxQueue, Awaits(<<a, i>>, id)'
        PROVE  Awaits(<<a, i>>, id) \/ (<<a, i>> = new /\ id = k)
    <3>1. CASE i = 0
      BY <2>3, <3>1 DEF Awaits, ExecsShrink
    <3>2. CASE i # 0
      <4>1. i \in 1..Len(queue'[a]) /\ queue'[a][i].id = id
        BY <2>3, <3>2 DEF Awaits
      <4>2. CASE a # app
        BY <2>2, <4>1, <4>2 DEF Awaits
      <4>3. CASE a = app
        <5>1. CASE i = Len(queue[app]) + 1
          BY <2>2, <4>1, <4>3, <5>1
        <5>2. CASE i # Len(queue[app]) + 1
          <6>1. i \in 1..Len(queue[app]) /\ queue'[app][i] = queue[app][i]
            BY <2>2, <4>1, <4>3, <5>2
          <6> QED  BY <4>1, <4>3, <6>1 DEF Awaits
        <5> QED  BY <5>1, <5>2
      <4> QED  BY <4>2, <4>3
    <3> QED  BY <3>1, <3>2
  <2>4. CASE id # k
    <3>1. Places(id)' \subseteq Places(id)
      BY <2>3, <2>4 DEF Places
    <3>2. handed'[id] = handed[id]
      BY <2>1, <2>4 DEF TypeInv, TypeOK, HistoryOK
    <3> QED  BY <3>1, <3>2, FewerPlaces
  <2>5. CASE id = k
    <3>1. Places(id)' \subseteq Places(id) \cup {new}
      BY <2>3 DEF Places
    <3>2. handed'[id] = handed[id] + 1
      BY <2>1, <2>5 DEF TypeInv, TypeOK, HistoryOK
    <3>3. /\ IsFiniteSet(Places(id) \cup {new})
          /\ Cardinality(Places(id) \cup {new}) <= Cardinality(Places(id)) + 1
      <4> HIDE DEF new
      <4>1. /\ IsFiniteSet(Places(id) \cup {new})
            /\ \/ Cardinality(Places(id) \cup {new}) = Cardinality(Places(id))
               \/ Cardinality(Places(id) \cup {new}) = Cardinality(Places(id)) + 1
        BY PlaceCounts, FS_AddElement
      <4> QED  BY <4>1, PlaceCounts
    <3>4. /\ IsFiniteSet(Places(id)')
          /\ Cardinality(Places(id)') <= Cardinality(Places(id) \cup {new})
      BY <3>1, <3>3, FS_Subset
    <3>5. Cardinality(Places(id)') \in Nat /\ Cardinality(Places(id) \cup {new}) \in Nat
      BY <3>3, <3>4, FS_CardinalityType
    <3> QED  BY <3>2, <3>3, <3>4, <3>5, PlaceCounts
  <2> QED  BY <2>4, <2>5
<1> QED  BY <1>1, <1>2

(* The head of a channel moves into the idle executor, or is dropped. *)
LEMMA TakenPlaces ==
    ASSUME TypeInv, SendInv, NEW app \in Apps, Dequeue(app)
    PROVE  SendInv'
<1> DEFINE c == Head(queue[app])
           n == Len(queue[app])
<1>1. queue[app] # <<>> /\ queue[app] \in Seq(Copy) /\ queue \in [Apps -> Seq(Copy)]
      /\ queue' = [queue EXCEPT ![app] = Tail(queue[app])]
  BY DEF Dequeue, Take, TypeInv, TypeOK, QueueOK
<1>2. /\ n \in 1..MaxQueue /\ c = queue[app][1]
      /\ queue'[app] = Tail(queue[app]) /\ Len(queue'[app]) = n - 1
      /\ \A i \in 1..(n - 1) : queue'[app][i] = queue[app][i + 1]
      /\ \A a \in Apps : a # app => queue'[a] = queue[a]
  BY <1>1, PlaneAssumption DEF TypeInv, TypeOK, QueueOK
<1>3. /\ exec[app].pc = "idle"
      /\ exec'[app].pc \in AwaitingPc => exec'[app].id = c.id
      /\ \A a \in Apps : a # app => exec'[a] = exec[a]
      /\ UNCHANGED <<fired, handed>>
  BY DEF Dequeue, TypeInv, TypeOK, ExecOK, AwaitingPc
<1> SUFFICES ASSUME NEW id \in Ids
             PROVE  /\ IsFiniteSet(Places(id)')
                    /\ fired'[id] + Cardinality(Places(id)') <= handed'[id]
  BY DEF SendInv
<1> DEFINE from(place) == IF place[1] = app THEN <<app, place[2] + 1>> ELSE place
           f == [place \in Places(id)' |-> from(place)]
<1>4. ASSUME NEW a \in Apps, NEW i \in 0..MaxQueue, Awaits(<<a, i>>, id)'
      PROVE  from(<<a, i>>) \in Places(id)
  <2>1. CASE a # app
    <3>1. Awaits(<<a, i>>, id)
      BY <1>2, <1>3, <1>4, <2>1 DEF Awaits
    <3> QED  BY <2>1, <3>1 DEF Places
  <2>2. CASE a = app
    <3>1. CASE i = 0
      <4>1. c.id = id
        BY <1>3, <1>4, <2>2, <3>1 DEF Awaits
      <4>2. Awaits(<<app, 1>>, id)
        BY <1>2, <4>1 DEF Awaits
      <4>3. from(<<a, i>>) = <<app, 1>> /\ 1 \in 0..MaxQueue
        BY <2>2, <3>1, PlaneAssumption
      <4> QED  BY <4>2, <4>3 DEF Places
    <3>2. CASE i # 0
      <4>1. i \in 1..(n - 1) /\ queue'[app][i].id = id
        BY <1>2, <1>4, <2>2, <3>2 DEF Awaits
      <4>2. i + 1 \in 1..n /\ queue[app][i + 1].id = id /\ i + 1 \in 0..MaxQueue
        BY <1>2, <4>1, PlaneAssumption
      <4>3. Awaits(<<app, i + 1>>, id)
        BY <4>2 DEF Awaits
      <4> QED  BY <2>2, <4>2, <4>3 DEF Places
    <3> QED  BY <3>1, <3>2
  <2> QED  BY <2>1, <2>2
<1>5. Places(id)' \subseteq Apps \X (0..MaxQueue)
  BY DEF Places
<1>6. f \in [Places(id)' -> Places(id)]
  <2> SUFFICES ASSUME NEW place \in Places(id)'
               PROVE  from(place) \in Places(id)
    OBVIOUS
  <2>1. PICK a \in Apps, i \in 0..MaxQueue : place = <<a, i>>
    BY <1>5
  <2>2. Awaits(<<a, i>>, id)'
    BY <2>1 DEF Places
  <2> HIDE DEF from
  <2> QED  BY <1>4, <2>1, <2>2
<1>7. \A x, y \in Places(id)' : f[x] = f[y] => x = y
  BY <1>5
<1>8. f \in Injection(Places(id)', Places(id))
  <2> HIDE DEF f
  <2> QED  BY <1>6, <1>7 DEF Injection, IsInjective
<1>9. /\ IsFiniteSet(Places(id)')
      /\ Cardinality(Places(id)') <= Cardinality(Places(id))
  BY <1>8, PlaceCounts, FS_Injection
<1>10. Cardinality(Places(id)') \in Nat
  BY <1>9, FS_CardinalityType
<1> QED  BY <1>3, <1>9, <1>10, PlaceCounts

(* The actuator uses its send up. *)
LEMMA SpentPlaces ==
    ASSUME TypeInv, SendInv, NEW app \in Apps, Actuate(app)
    PROVE  SendInv'
<1> DEFINE k == exec[app].id
           here == <<app, 0>>
<1>1. /\ k \in Ids /\ exec[app].pc = "actuate" /\ exec'[app].pc = "finish"
      /\ \A a \in Apps : a # app => exec'[a] = exec[a]
      /\ queue' = queue /\ handed' = handed
      /\ fired' = fired \/ fired' = [fired EXCEPT ![k] = fired[k] + 1]
  BY DEF Actuate, ExecStep, TypeInv, TypeOK, ExecOK, ExecState, ExecShapes, ExecShape
<1> SUFFICES ASSUME NEW id \in Ids
             PROVE  /\ IsFiniteSet(Places(id)')
                    /\ fired'[id] + Cardinality(Places(id)') <= handed'[id]
  BY DEF SendInv
<1>2. Places(id)' \subseteq Places(id) \ {here}
  <2> SUFFICES ASSUME NEW a \in Apps, NEW i \in 0..MaxQueue, Awaits(<<a, i>>, id)'
               PROVE  Awaits(<<a, i>>, id) /\ <<a, i>> # here
    BY DEF Places
  <2> QED  BY <1>1 DEF Awaits, AwaitingPc
<1>3. CASE id # k
  <2>1. fired'[id] = fired[id]
    BY <1>1, <1>3 DEF TypeInv, TypeOK, HistoryOK
  <2> QED  BY <1>1, <1>2, <2>1, FewerPlaces
<1>4. CASE id = k
  <2>1. here \in Places(id)
    BY <1>1, <1>4, PlaneAssumption DEF Places, Awaits, AwaitingPc
  <2>2. /\ IsFiniteSet(Places(id) \ {here})
        /\ Cardinality(Places(id) \ {here}) = Cardinality(Places(id)) - 1
    BY <2>1, PlaceCounts, FS_RemoveElement
  <2>3. /\ IsFiniteSet(Places(id)')
        /\ Cardinality(Places(id)') <= Cardinality(Places(id) \ {here})
    BY <1>2, <2>2, FS_Subset
  <2>4. Cardinality(Places(id)') \in Nat /\ fired'[id] <= fired[id] + 1 /\ fired'[id] \in Nat
    BY <1>1, <2>3, FS_CardinalityType DEF TypeInv, TypeOK, HistoryOK
  <2> QED  BY <1>1, <2>2, <2>3, <2>4, PlaceCounts
<1> QED  BY <1>3, <1>4

LEMMA StepSends == TypeInv /\ SendInv /\ [Next]_vars => SendInv'
<1> SUFFICES ASSUME TypeInv, SendInv, [Next]_vars PROVE SendInv'
  OBVIOUS
<1>a. Serve \in Apps /\ exec \in [Apps -> ExecState]
  BY DEF Apps, TypeInv, TypeOK, ExecOK
<1>i. UNCHANGED exec => ExecsShrink
  BY DEF ExecsShrink
<1>x. ASSUME NEW app \in Apps, exec' = [exec EXCEPT ![app] = ExecIdle]
      PROVE  ExecsShrink
  BY <1>a, <1>x DEF ExecsShrink, ExecIdle, AwaitingPc
<1>n. ASSUME UNCHANGED <<queue, exec, fired, handed>>
      PROVE  SendInv'
  BY <1>a, <1>i, <1>n, ShrunkPlaces
<1>1. CASE UNCHANGED vars
  BY <1>1, <1>n DEF vars
<1>2. CASE \E e \in Evals : Evaluate(e)
  <2>1. PICK e \in Evals : Evaluate(e)
    BY <1>2
  <2>2. CASE IssueReset(e)
    <3>1. e \in Handlers
      BY DEF Handlers
    <3>2. Reset(task[e].id) \in Ids
      BY <2>2, <3>1, FollowUpIds DEF IssueReset, TypeInv, TaskShapes, TaskShape, RevertingPc
    <3> QED  BY <1>a, <1>i, <2>2, <3>2, SentPlaces DEF IssueReset
  <2> QED  BY <1>n, <2>1, <2>2 DEF Evaluate, ProposeDenied, Propose, ScanExpired, RevertSeen,
              CloseReverted, EndEvaluation
<1>3. CASE \E p \in Handlers : Gate(p)
  <2>1. PICK p \in Handlers : Gate(p)
    BY <1>3
  <2>2. CASE Persist(p)
    <3>1. AppOf(p) \in Apps /\ task[p].id \in Ids
      BY <2>2 DEF AppOf, Apps, Persist, TypeInv, TaskShapes, TaskShape, ProposingPc
    <3>2. UNCHANGED <<exec, fired>>
          /\ (Send(AppOf(p), task[p].id, task[p].row) \/ UNCHANGED <<queue, handed>>)
      BY <2>2 DEF Persist
    <3> QED  BY <1>i, <1>n, <3>1, <3>2, SentPlaces
  <2> QED  BY <1>n, <2>1, <2>2 DEF Gate, CheckFreeze, CheckMaintenance, Refuse
<1>4. CASE \E s \in Sessions : Submit(s) \/ ReceiveDecision(s) \/ Decide(s) \/ ExitCli(s)
  <2>1. PICK s \in Sessions : Submit(s) \/ ReceiveDecision(s) \/ Decide(s) \/ ExitCli(s)
    BY <1>4
  <2>2. CASE ReloadAndSend(s)
    <3>1. AppOf(s) \in Apps /\ task[s].id \in Ids
      BY <2>2 DEF AppOf, Apps, Handlers, ReloadAndSend, TypeInv, TaskShapes, TaskShape, DecidingPc
    <3>2. UNCHANGED <<exec, fired>>
          /\ (Send(AppOf(s), task[s].id, rows[task[s].id]) \/ UNCHANGED <<queue, handed>>)
      BY <2>2 DEF ReloadAndSend
    <3> QED  BY <1>i, <1>n, <3>1, <3>2, SentPlaces
  <2>3. CASE ExitCli(s)
    BY <1>i, <2>3, ShrunkPlaces DEF ExitCli, Apps
  <2> QED  BY <1>n, <2>1, <2>2, <2>3 DEF Submit, ReceiveDecision, Decide, UpdateRow, ReadForMerge,
              WriteMerged, DecisionFails
<1>5. CASE Crash \/ \E s \in Sessions : Kill(s)
  <2>1. PICK app \in Apps : /\ queue' = [queue EXCEPT ![app] = <<>>]
                            /\ exec' = [exec EXCEPT ![app] = ExecIdle]
    BY <1>5 DEF Crash, Kill, Apps
  <2>2. UNCHANGED <<fired, handed>>
    BY <1>5 DEF Crash, Kill
  <2> QED  BY <1>x, <2>1, <2>2, ShrunkPlaces
<1>6. CASE \E app \in Apps : Execute(app)
  <2>1. PICK app \in Apps : Execute(app)
    BY <1>6
  <2>2. ASSUME NEW pc, NEW row, ExecStep(app, pc, row),
               pc \notin AwaitingPc \/ exec[app].pc \in AwaitingPc
        PROVE  ExecsShrink
    <3>1. exec'[app].pc = pc /\ exec'[app].id = exec[app].id
          /\ \A a \in Apps : a # app => exec'[a] = exec[a]
      BY <1>a, <2>2 DEF ExecStep, ExecState
    <3> QED  BY <2>2, <3>1 DEF ExecsShrink
  <2>3. ExecDone(app) => ExecsShrink
    BY <1>x DEF ExecDone
  <2>4. CASE RecheckFreeze(app) \/ RecheckMaintenance(app)
    <3>1. UNCHANGED <<queue, fired, handed>> /\ ExecsShrink
      BY <2>2, <2>4 DEF RecheckFreeze, RecheckMaintenance, Recheck, AwaitingPc
    <3> QED  BY <3>1, ShrunkPlaces
  <2>5. CASE RefuseExecution(app) \/ Start(app)
    <3>1. UNCHANGED <<queue, fired, handed>> /\ ExecsShrink
      BY <2>2, <2>3, <2>5 DEF RefuseExecution, Start, AwaitingPc
    <3> QED  BY <3>1, ShrunkPlaces
  <2>6. CASE Finish(app) \/ SeekFollowUp(app)
    <3>1. UNCHANGED <<queue, fired, handed>> /\ ExecsShrink
      BY <2>2, <2>3, <2>6 DEF Finish, SeekFollowUp, AwaitingPc
    <3> QED  BY <3>1, ShrunkPlaces
  <2>7. CASE PersistFollowUp(app)
    <3>1. HealthRecheck(exec[app].id) \in Ids
      BY <2>7, FollowUpIds DEF PersistFollowUp, TypeInv, ExecShapes, ExecShape
    <3>2. UNCHANGED fired /\ ExecsShrink
          /\ \/ Send(app, HealthRecheck(exec[app].id), NewRow("system"))
             \/ UNCHANGED <<queue, handed>>
      BY <2>3, <2>7 DEF PersistFollowUp
    <3> QED  BY <3>1, <3>2, SentPlaces, ShrunkPlaces
  <2> QED  BY <2>1, <2>4, <2>5, <2>6, <2>7, TakenPlaces, SpentPlaces DEF Execute
<1>7. CASE Recover
  <2>1. UNCHANGED <<queue, fired, handed>>
    BY <1>7 DEF Recover, Restart, RecoverRow, StartWorkers
  <2>2. ExecsShrink
    <3>1. UNCHANGED exec \/ (exec'[Serve].pc = "followup"
                             /\ \A a \in Apps : a # Serve => exec'[a] = exec[a])
      BY <1>a, <1>7 DEF Recover, Restart, RecoverRow, StartWorkers
    <3> QED  BY <3>1 DEF ExecsShrink, AwaitingPc
  <2> QED  BY <1>a, <2>1, <2>2, ShrunkPlaces
<1>8. CASE BeginEvaluation \/ ExpireStaleApprovalActions \/ Time \/ Operate
  BY <1>n, <1>8 DEF BeginEvaluation, ExpireStaleApprovalActions, Time, ApprovalDeadlinePasses,
     BackoffLapses, Operate, CreateFreeze, ClearFreeze, ToggleWindow
<1> QED  BY <1>1, <1>2, <1>3, <1>4, <1>5, <1>6, <1>7, <1>8 DEF Next

LEMMA InitSends == Init => SendInv
<1> SUFFICES ASSUME Init, NEW id \in Ids
             PROVE  /\ IsFiniteSet(Places(id))
                    /\ fired[id] + Cardinality(Places(id)) <= handed[id]
  BY DEF SendInv
<1>1. \A a \in Apps : exec[a].pc = "idle" /\ queue[a] = <<>>
  BY DEF Init, ExecIdle
<1>2. Places(id) = {}
  BY <1>1 DEF Places, Awaits, AwaitingPc
<1> QED  BY <1>2, FS_EmptySet DEF Init

(* An actuator runs at most once for each time its action was put into a channel:
   no crash, recovery or overtaken process runs an action again by itself.  *)
THEOREM RunsAreSent == Spec => []RunsOncePerSend
<1>1. TypeInv /\ SendInv => RunsOncePerSend
  <2> SUFFICES ASSUME TypeInv, SendInv, NEW id \in Ids
               PROVE  fired[id] <= handed[id]
    BY DEF RunsOncePerSend
  <2> QED  BY PlaceCounts
<1> QED  BY <1>1, InitSends, StepSends, TypeCorrect, PTL DEF Spec

------------------------------------------------------------------------------
(* Rows and gates *)

LEMMA GateValues ==
    ASSUME NEW row \in Row
    PROVE  /\ GateOf(row) \in {"absent", "held", "open", "shut"}
           /\ GateOf(row) = "absent" <=> row.life = "none"
           /\ GateOf(row) = "held" <=> row.life = "pending_approval"
           /\ GateOf(row) = "open" <=> Decided(row) /\ row.okBy # "none"
           /\ GateOf(row) = "shut" <=> Decided(row) /\ row.okBy = "none"
  BY DEF GateOf, Undecided, Decided

LEMMA ClosedGate ==
    ASSUME NEW row \in Row, NEW result \in Results, NEW closure \in Closures
    PROVE  /\ Closed(row, result, closure).life = "completed"
           /\ row.okBy = "none" => GateOf(Closed(row, result, closure)) = "shut"
           /\ GateOf(row) \in {"open", "shut"} => GateOf(Closed(row, result, closure)) = GateOf(row)
<1> DEFINE new == Closed(row, result, closure)
<1>1. new \in Row /\ new.life = "completed" /\ new.okBy = row.okBy
  BY RowTypes DEF Closed, Row
<1>2. Decided(new)
  BY <1>1 DEF Decided
<1> QED  BY <1>1, <1>2, GateValues

(* Statements that leave a decided row's gate alone. *)
LEMMA KeptGate ==
    ASSUME NEW row \in Row, GateOf(row) \in {"open", "shut"}
    PROVE  /\ LET new == [row EXCEPT !.closure = "expired_and_reverted"]
              IN GateOf(new) = GateOf(row) /\ (Incomplete(new) <=> Incomplete(row))
           /\ GateOf([row EXCEPT !.life = "running"]) = GateOf(row)
           /\ \A id \in Ids : /\ GateOf(Recovered(id, row)) = GateOf(row)
                              /\ ~Incomplete(Recovered(id, row))
<1>0. Decided(row)
  BY GateValues
<1>1. LET new == [row EXCEPT !.closure = "expired_and_reverted"]
      IN GateOf(new) = GateOf(row) /\ (Incomplete(new) <=> Incomplete(row))
  <2> DEFINE new == [row EXCEPT !.closure = "expired_and_reverted"]
  <2>1. new \in Row /\ new.life = row.life /\ new.okBy = row.okBy
    BY DEF Row, Closures
  <2> QED  BY <2>1, GateValues DEF Decided, Incomplete
<1>2. GateOf([row EXCEPT !.life = "running"]) = GateOf(row)
  <2> DEFINE new == [row EXCEPT !.life = "running"]
  <2>1. new \in Row /\ new.life = "running" /\ new.okBy = row.okBy
    BY DEF Row, Lifecycles
  <2> QED  BY <1>0, <2>1, GateValues DEF Decided
<1>3. ASSUME NEW id \in Ids
      PROVE  GateOf(Recovered(id, row)) = GateOf(row) /\ ~Incomplete(Recovered(id, row))
  <2>1. /\ Recovered(id, row) \in Row
        /\ Recovered(id, row).life = "recovered" /\ Recovered(id, row).okBy = row.okBy
    <3>1. Recovered(id, row) \in Row
      BY RowTypes
    <3>2. \/ Recovered(id, row) = [row EXCEPT !.life = "recovered", !.result = "expired",
                                             !.closure = "expired_and_reverted"]
          \/ Recovered(id, row) = [row EXCEPT !.life = "recovered", !.result = "failed_transient",
                                             !.closure = "superseded"]
      BY DEF Recovered
    <3>3. DOMAIN row = {"life", "result", "closure", "by", "okBy", "bypass"}
      BY DEF Row
    <3>4. Recovered(id, row).life = "recovered" /\ Recovered(id, row).okBy = row.okBy
      BY <3>2, <3>3
    <3> QED  BY <3>1, <3>4
  <2> QED  BY <1>0, <2>1, GateValues DEF Decided, Incomplete
<1> QED  BY <1>1, <1>2, <1>3

(* The guarded updates: a held gate opens or shuts, any other stays. *)
LEMMA DecidedGate ==
    ASSUME NEW row \in Row, SoundRow(row), NEW actor \in Operators, NEW bypass \in BOOLEAN
    PROVE  /\ GateOf(row) = "held" =>
                /\ GateOf(Approved(row, actor, bypass)) = "open"
                /\ GateOf(Rejected(row)) = "shut"
                /\ GateOf(ExpiredApproval(row)) = "shut"
           /\ GateOf(row) # "held" =>
                /\ Approved(row, actor, bypass) = row
                /\ Rejected(row) = row
                /\ ExpiredApproval(row) = row
<1>1. GateOf(row) = "held" <=> Undecided(row)
  BY GateValues DEF Undecided
<1>2. CASE ~Undecided(row)
  BY <1>1, <1>2 DEF Approved, Rejected, ExpiredApproval
<1>3. CASE Undecided(row)
  <2>1. row.okBy = "none"
    BY <1>1, <1>3 DEF SoundRow
  <2>2. GateOf(Rejected(row)) = "shut" /\ GateOf(ExpiredApproval(row)) = "shut"
    <3>1. /\ Rejected(row) = Closed(row, "rejected", "rejected_by_operator")
          /\ ExpiredApproval(row) = Closed(row, "approval_expired", "approval_expired")
      BY <1>3 DEF Rejected, ExpiredApproval
    <3>2. /\ "rejected" \in Results /\ "rejected_by_operator" \in Closures
          /\ "approval_expired" \in Results /\ "approval_expired" \in Closures
      BY DEF Results, Closures
    <3> QED  BY <2>1, <3>1, <3>2, ClosedGate
  <2>3. GateOf(Approved(row, actor, bypass)) = "open"
    <3> DEFINE new == Approved(row, actor, bypass)
    <3>1. new \in Row /\ new.life = "pending" /\ new.okBy = actor
      BY ZenonT(60), <1>3, RowTypes DEF Approved, Row
    <3>2. actor # "none"
      BY ActionsAssumption
    <3> QED  BY <3>1, <3>2, GateValues DEF Decided
  <2> QED  BY <1>1, <1>3, <2>2, <2>3
<1> QED  BY <1>2, <1>3

LEMMA NewGate ==
    /\ GateOf(NoRow) = "absent" /\ NoRow.okBy = "none"
    /\ \A by \in Operators \cup {"system"} : NewRow(by).okBy = "none"
    /\ \A row \in Row : row.okBy = "none" => GateOf(Held(row)) = "held" /\ SoundRow(Held(row))
<1>1. GateOf(NoRow) = "absent"
  BY NewRowTypes, GateValues DEF NoRow
<1>2. ASSUME NEW row \in Row, row.okBy = "none"
      PROVE  GateOf(Held(row)) = "held" /\ SoundRow(Held(row))
  <2>1. /\ Held(row) \in Row /\ Held(row).life = "pending_approval"
        /\ Held(row).result = "pending_approval" /\ Held(row).okBy = "none"
    BY <1>2, RowTypes DEF Held, Row
  <2>2. GateOf(Held(row)) = "held" /\ ~Incomplete(Held(row))
    BY <2>1, GateValues DEF Incomplete
  <2> QED  BY <2>1, <2>2 DEF SoundRow
<1> QED  BY <1>1, <1>2 DEF NewRow, NoRow

------------------------------------------------------------------------------
(* Moves(K): only the gates of ids in K may leave "absent" or "held", the rest stay. *)

Moves(K) == \A id \in GatedIds :
    \/ GateOf(rows'[id]) = GateOf(rows[id])
    \/ id \in K /\ GateOf(rows[id]) = "absent" /\ GateOf(rows'[id]) \in {"held", "shut"}
    \/ id \in K /\ GateOf(rows[id]) = "held" /\ GateOf(rows'[id]) \in {"open", "shut"}

LEMMA Stays == ASSUME RowsSound, UNCHANGED rows PROVE Moves({}) /\ RowsSound'
  BY DEF Moves, RowsSound

LEMMA Wrote ==
    ASSUME TypeInv, RowsSound, NEW k \in Ids, NEW row \in Row,
           rows' = [rows EXCEPT ![k] = row] \/ rows' = rows,
           k \in GatedIds =>
              /\ SoundRow(row)
              /\ \/ GateOf(row) = GateOf(rows[k])
                 \/ GateOf(rows[k]) = "absent" /\ GateOf(row) \in {"held", "shut"}
                 \/ GateOf(rows[k]) = "held" /\ GateOf(row) \in {"open", "shut"}
    PROVE  Moves({k}) /\ RowsSound'
<1>1. CASE rows' = rows
  BY <1>1 DEF Moves, RowsSound
<1>2. CASE rows' = [rows EXCEPT ![k] = row]
  <2>1. \A id \in Ids : rows'[id] = IF id = k THEN row ELSE rows[id]
    BY <1>2 DEF TypeInv, TypeOK, StoreOK
  <2> QED  BY <2>1 DEF Moves, RowsSound, GatedIds
<1> QED  BY <1>1, <1>2

LEMMA WroteSame ==
    ASSUME TypeInv, RowsSound, NEW k \in Ids, NEW row \in Row,
           rows' = [rows EXCEPT ![k] = row] \/ rows' = rows,
           k \in GatedIds => SoundRow(row) /\ GateOf(row) = GateOf(rows[k])
    PROVE  Moves({}) /\ RowsSound'
<1>1. \A id \in Ids : rows'[id] = (IF id = k THEN row ELSE rows[id]) \/ rows'[id] = rows[id]
  BY DEF TypeInv, TypeOK, StoreOK
<1> QED  BY <1>1 DEF Moves, RowsSound, GatedIds

(* Writing a faithful copy back moves no gate. *)
LEMMA WroteFaithful ==
    ASSUME TypeInv, RowsSound, NEW k \in Ids, NEW row \in Row, Faithful(k, row),
           rows' = [rows EXCEPT ![k] = row] \/ rows' = rows
    PROVE  Moves({}) /\ RowsSound'
  BY WroteSame DEF Faithful, Settled, SoundRow

(* A settled gate stays, so a faithful copy stays faithful. *)
LEMMA FaithfulKept ==
    ASSUME NEW K, Moves(K), NEW id \in Ids, NEW row, Faithful(id, row)
    PROVE  Faithful(id, row)'
  BY DEF Moves, Faithful, Settled

LEMMA QueuesKept ==
    ASSUME TypeInv, \A app \in Apps : FaithfulQueue(app), NEW K, Moves(K),
           \A app \in Apps : \A i \in 1..Len(queue'[app]) :
              \/ \E j \in 1..Len(queue[app]) : queue'[app][i] = queue[app][j]
              \/ Faithful(queue[app][i].id, queue[app][i].row)'
    PROVE  \A app \in Apps : FaithfulQueue(app)'
<1> SUFFICES ASSUME NEW app \in Apps, NEW i \in 1..Len(queue'[app]),
                    NEW j \in 1..Len(queue[app]), queue'[app][i] = queue[app][j]
             PROVE  Faithful(queue[app][i].id, queue[app][i].row)'
  BY DEF FaithfulQueue
<1> DEFINE c == queue[app][j]
<1>1. c \in Copy
  <2>1. queue[app] \in Seq(Copy)
    BY DEF TypeInv, TypeOK, QueueOK
  <2> QED  BY <2>1
<1>2. c.id \in Ids /\ Faithful(c.id, c.row)
  BY <1>1 DEF Copy, FaithfulQueue
<1> QED  BY <1>2 DEF Moves, Faithful, Settled

LEMMA SentFaithful ==
    ASSUME TypeInv, \A a \in Apps : FaithfulQueue(a), NEW K, Moves(K), NEW app \in Apps,
           NEW id \in Ids, NEW row \in Row, Faithful(id, row)', Send(app, id, row)
    PROVE  \A a \in Apps : FaithfulQueue(a)'
<1>1. CASE HasRoom(app)
  <2> DEFINE c == [id |-> id, row |-> row]
  <2>1. queue' = [queue EXCEPT ![app] = Append(queue[app], c)] /\ queue[app] \in Seq(Copy)
    BY <1>1 DEF Send, TypeInv, TypeOK, QueueOK
  <2>2. \A a \in Apps : a # app => queue'[a] = queue[a]
    BY <2>1 DEF TypeInv, TypeOK, QueueOK
  <2>3. queue'[app] = Append(queue[app], c)
    BY <2>1 DEF TypeInv, TypeOK, QueueOK
  <2>4. \A i \in 1..Len(queue'[app]) :
          (i \in 1..Len(queue[app]) /\ queue'[app][i] = queue[app][i]) \/ queue'[app][i] = c
    BY <2>1, <2>3
  <2>5. \A a \in Apps : \A i \in 1..Len(queue'[a]) :
          \/ \E j \in 1..Len(queue[a]) : queue'[a][i] = queue[a][j]
          \/ Faithful(queue[a][i].id, queue[a][i].row)'
    BY <2>2, <2>4 DEF Faithful, Settled
  <2> QED  BY <2>5, QueuesKept
<1>2. CASE ~HasRoom(app)
  BY <1>2, QueuesKept DEF Send
<1> QED  BY <1>1, <1>2

LEMMA ShrunkFaithful ==
    ASSUME TypeInv, \A a \in Apps : FaithfulQueue(a), NEW K, Moves(K), NEW app \in Apps,
           \/ queue' = queue
           \/ queue' = [queue EXCEPT ![app] = <<>>]
           \/ queue[app] # <<>> /\ queue' = [queue EXCEPT ![app] = Tail(queue[app])]
    PROVE  \A a \in Apps : FaithfulQueue(a)'
<1>0. queue \in [Apps -> Seq(Copy)]
  BY DEF TypeInv, TypeOK, QueueOK
<1>1. \A a \in Apps : a # app => queue'[a] = queue[a]
  BY <1>0
<1>2. \/ queue'[app] = queue[app]
      \/ queue'[app] = <<>>
      \/ queue[app] # <<>> /\ queue'[app] = Tail(queue[app])
  BY <1>0
<1>3. \A i \in 1..Len(queue'[app]) : \E j \in 1..Len(queue[app]) : queue'[app][i] = queue[app][j]
  <2>1. CASE queue'[app] = queue[app]
    BY <2>1
  <2>2. CASE queue'[app] = <<>>
    BY <2>2
  <2>3. CASE queue[app] # <<>> /\ queue'[app] = Tail(queue[app])
    <3>1. queue[app] \in Seq(Copy)
      BY <1>0
    <3> SUFFICES ASSUME NEW i \in 1..Len(queue'[app])
                 PROVE  i + 1 \in 1..Len(queue[app]) /\ queue'[app][i] = queue[app][i + 1]
      OBVIOUS
    <3> QED  BY <2>3, <3>1
  <2> QED  BY <1>2, <2>1, <2>2, <2>3
<1>4. \A a \in Apps : \A i \in 1..Len(queue'[a]) :
         \E j \in 1..Len(queue[a]) : queue'[a][i] = queue[a][j]
  BY <1>1, <1>3
<1> QED  BY <1>4, QueuesKept

LEMMA ExecsKept ==
    ASSUME TypeInv, \A a \in Apps : FaithfulExec(a), NEW K, Moves(K), NEW A,
           \A a \in Apps \ A : exec'[a] = exec[a],
           \A a \in A : FaithfulExec(a)'
    PROVE  \A a \in Apps : FaithfulExec(a)'
<1> SUFFICES ASSUME NEW a \in Apps \ A PROVE FaithfulExec(a)'
  OBVIOUS
<1>1. exec[a].pc # "idle" => exec[a].id \in Ids
  BY DEF TypeInv, ExecShapes, ExecShape
<1> QED  BY <1>1 DEF FaithfulExec, Moves, Faithful, Settled

QuietPc == {"idle", "decide", "scan", "follow", "drain", "exit", "done"}

LEMMA TasksKept ==
    ASSUME TypeInv, \A p \in Handlers : ProposalApart(p) /\ FaithfulTask(p), NEW K, Moves(K),
           NEW P,
           \A q \in Handlers \ P : task'[q] = task[q] \/ task'[q].pc \in QuietPc,
           \A q \in Handlers \ P : Proposing(q) => task[q].id \notin K,
           \A p \in P : ProposalApart(p)' /\ FaithfulTask(p)'
    PROVE  \A p \in Handlers : ProposalApart(p)' /\ FaithfulTask(p)'
<1> SUFFICES ASSUME NEW q \in Handlers \ P
             PROVE  ProposalApart(q)' /\ FaithfulTask(q)'
  OBVIOUS
<1>1. CASE task'[q].pc \in QuietPc
  BY <1>1 DEF QuietPc, ProposalApart, FaithfulTask, Proposing, ProposingPc
<1>2. CASE task'[q] = task[q]
  <2>1. FaithfulTask(q)'
    <3>1. task[q].pc \in {"patch", "close"} => task[q].id \in Ids
      BY DEF TypeInv, TaskShapes, TaskShape, RevertingPc, DecidingPc
    <3> QED  BY <1>2, <3>1 DEF FaithfulTask, Moves, Faithful, Settled
  <2>2. ProposalApart(q)'
    <3> SUFFICES ASSUME Proposing(q)', task[q].id \in GatedIds
                 PROVE  ProposalApart(q)'
      BY <1>2 DEF ProposalApart
    <3>1. Proposing(q) /\ task[q].id \notin K
      BY <1>2 DEF Proposing
    <3>2. GateOf(rows'[task[q].id]) = "absent"
      BY <3>1 DEF Moves, ProposalApart
    <3>3. ASSUME NEW r \in Handlers, Proposing(r)', task'[r].id = task'[q].id
          PROVE  r = q
      <4>1. CASE r \in P
        BY <1>2, <3>3, <4>1 DEF ProposalApart, Proposing
      <4>2. CASE r \notin P
        <5>1. task'[r] = task[r]
          BY <3>3, <4>2 DEF Proposing, ProposingPc, QuietPc
        <5> QED  BY <1>2, <3>1, <3>3, <5>1 DEF ProposalApart, Proposing
      <4> QED  BY <4>1, <4>2
    <3> QED  BY <1>2, <3>1, <3>2, <3>3 DEF ProposalApart, Proposing
  <2> QED  BY <2>1, <2>2
<1> QED  BY <1>1, <1>2

(* What a step does not touch stays faithful. *)
LEMMA ScansKept ==
    ASSUME TypeInv, GateInv, NEW K, Moves(K), NEW E,
           \A e \in Evals \ E : scan'[e] \subseteq scan[e],
           \A e \in E : \A c \in scan'[e] : Faithful(c.id, c.row)'
    PROVE  (\A e \in Evals : \A c \in scan[e] : Faithful(c.id, c.row))'
<1> SUFFICES ASSUME NEW e \in Evals \ E, NEW c \in scan'[e]
             PROVE  Faithful(c.id, c.row)'
  OBVIOUS
<1>1. c.id \in Ids /\ Faithful(c.id, c.row)
  BY DEF GateInv, TypeInv, TypeOK, RecoveryOK, Copy
<1> QED  BY <1>1, FaithfulKept

LEMMA TodoKept ==
    ASSUME TypeInv, GateInv, NEW K, Moves(K), todo' \subseteq todo
    PROVE  (\A c \in todo : Faithful(c.id, c.row))'
<1> SUFFICES ASSUME NEW c \in todo'
             PROVE  Faithful(c.id, c.row)'
  OBVIOUS
<1>1. c.id \in Ids /\ Faithful(c.id, c.row)
  BY DEF GateInv, TypeInv, TypeOK, RecoveryOK, Copy
<1> QED  BY <1>1, FaithfulKept

------------------------------------------------------------------------------

(* A step moves at most one gate, shuts held ones, or runs an actuator behind an
   open one.                                                               *)
Drives ==
    \/ Moves({}) /\ UNCHANGED fired
    \/ /\ UNCHANGED fired
       /\ \A id \in GatedIds :
             \/ GateOf(rows'[id]) = GateOf(rows[id])
             \/ GateOf(rows[id]) = "held" /\ GateOf(rows'[id]) = "shut"
    \/ \E k \in Ids : Moves({k}) /\ UNCHANGED fired
    \/ /\ UNCHANGED rows
       /\ \E k \in Ids : /\ fired' = [fired EXCEPT ![k] = @ + 1]
                         /\ k \in GatedIds => GateOf(rows[k]) = "open"

(* What is left to show when a handler takes a step ... *)
LEMMA HandlerGates ==
    ASSUME TypeInv, GateInv, NEW K, Moves(K), RowsSound', NEW p \in Handlers,
           \A q \in Handlers \ {p} : task'[q] = task[q],
           \A q \in Handlers \ {p} : Proposing(q) => task[q].id \notin K,
           ProposalApart(p)' /\ FaithfulTask(p)',
           \A a \in Apps : FaithfulQueue(a)',
           \A e \in Evals : scan'[e] \subseteq scan[e],
           UNCHANGED <<exec, todo>>
    PROVE  GateInv'
<1>1. \A a \in Apps : FaithfulExec(a)'
  <2> DEFINE A == {}
  <2>1. /\ \A a \in Apps \ A : exec'[a] = exec[a]
        /\ \A a \in A : FaithfulExec(a)'
        /\ \A a \in Apps : FaithfulExec(a)
    BY DEF GateInv
  <2> HIDE DEF A
  <2> QED  BY <2>1, ExecsKept
<1>2. \A q \in Handlers : ProposalApart(q)' /\ FaithfulTask(q)'
  <2> DEFINE P == {p}
  <2>1. /\ \A q \in Handlers \ P : task'[q] = task[q] \/ task'[q].pc \in QuietPc
        /\ \A q \in Handlers \ P : Proposing(q) => task[q].id \notin K
        /\ \A q \in P : ProposalApart(q)' /\ FaithfulTask(q)'
        /\ \A q \in Handlers : ProposalApart(q) /\ FaithfulTask(q)
    BY DEF GateInv
  <2> HIDE DEF P
  <2> QED  BY <2>1, TasksKept
<1>3. (\A e \in Evals : \A c \in scan[e] : Faithful(c.id, c.row))'
  <2> DEFINE E == {}
  <2>1. (\A e \in Evals \ E : scan'[e] \subseteq scan[e])
        /\ \A e \in E : \A c \in scan'[e] : Faithful(c.id, c.row)'
    OBVIOUS
  <2> HIDE DEF E
  <2> QED  BY <2>1, ScansKept
<1>4. (\A c \in todo : Faithful(c.id, c.row))'
  BY TodoKept
<1> QED  BY <1>1, <1>2, <1>3, <1>4 DEF GateInv

(* ... and when an executor does. *)
LEMMA ExecutorGates ==
    ASSUME TypeInv, GateInv, Moves({}), RowsSound', NEW app \in Apps,
           \A a \in Apps \ {app} : exec'[a] = exec[a],
           FaithfulExec(app)',
           \A q \in Handlers : task'[q] = task[q] \/ task'[q].pc \in QuietPc,
           \A a \in Apps : FaithfulQueue(a)',
           UNCHANGED scan, todo' \subseteq todo
    PROVE  GateInv'
<1>1. \A a \in Apps : FaithfulExec(a)'
  <2> DEFINE A == {app}
  <2>1. /\ \A a \in Apps \ A : exec'[a] = exec[a]
        /\ \A a \in A : FaithfulExec(a)'
        /\ \A a \in Apps : FaithfulExec(a)
    BY DEF GateInv
  <2> HIDE DEF A
  <2> QED  BY <2>1, ExecsKept
<1>2. \A q \in Handlers : ProposalApart(q)' /\ FaithfulTask(q)'
  <2> DEFINE P == {}
             K == {}
  <2>1. /\ Moves(K)
        /\ \A q \in Handlers \ P : task'[q] = task[q] \/ task'[q].pc \in QuietPc
        /\ \A q \in Handlers \ P : Proposing(q) => task[q].id \notin K
        /\ \A q \in P : ProposalApart(q)' /\ FaithfulTask(q)'
        /\ \A q \in Handlers : ProposalApart(q) /\ FaithfulTask(q)
    BY DEF GateInv
  <2> HIDE DEF P, K
  <2> QED  BY <2>1, TasksKept
<1>3. (\A e \in Evals : \A c \in scan[e] : Faithful(c.id, c.row))'
  <2> DEFINE E == {}
             K == {}
  <2>1. /\ Moves(K)
        /\ \A e \in Evals \ E : scan'[e] \subseteq scan[e]
        /\ \A e \in E : \A c \in scan'[e] : Faithful(c.id, c.row)'
    OBVIOUS
  <2> HIDE DEF E, K
  <2> QED  BY <2>1, ScansKept
<1>4. (\A c \in todo : Faithful(c.id, c.row))'
  BY TodoKept
<1> QED  BY <1>1, <1>2, <1>3, <1>4 DEF GateInv

(* Follow-ups are no gates. *)
LEMMA FollowUpsUngated ==
    \A id \in Ids :
       /\ Type(id) = "restart_transport" => HealthRecheck(id) \notin GatedIds
       /\ Type(id) = "backoff_increase" => Reset(id) \notin GatedIds
  BY FollowUpsAssumption DEF GatedIds, NeedsApproval, FollowUps, Ids, Type, HealthRecheck, Reset

LEMMA QuietTask ==
    ASSUME NEW p \in Handlers, task'[p].pc \in QuietPc
    PROVE  ProposalApart(p)' /\ FaithfulTask(p)'
  BY DEF QuietPc, ProposalApart, FaithfulTask, Proposing, ProposingPc

(* A handler that writes no row and sends nothing. *)
LEMMA LocalGates ==
    ASSUME TypeInv, GateInv, UNCHANGED rows, NEW p \in Handlers,
           \A q \in Handlers \ {p} : task'[q] = task[q],
           ProposalApart(p)' /\ FaithfulTask(p)',
           UNCHANGED queue,
           \A e \in Evals : scan'[e] \subseteq scan[e],
           UNCHANGED <<exec, todo, fired>>
    PROVE  GateInv' /\ Drives
<1> DEFINE K == {}
<1>1. Moves(K) /\ RowsSound'
  BY Stays DEF GateInv
<1>2. \A q \in Handlers \ {p} : Proposing(q) => task[q].id \notin K
  OBVIOUS
<1> HIDE DEF K
<1>3. Serve \in Apps /\ \A a \in Apps : FaithfulQueue(a)
  BY DEF Apps, GateInv
<1>4. \A a \in Apps : FaithfulQueue(a)'
  BY <1>1, <1>3, ShrunkFaithful
<1>5. GateInv'
  BY <1>1, <1>2, <1>4, HandlerGates
<1> QED  BY <1>1, <1>5 DEF Drives, K

(* A fresh proposal is nobody else's. *)
LEMMA FreshProposal ==
    ASSUME TypeInv, GateInv, NEW p \in Handlers, NEW a \in Actions, Fresh(a), NEW t,
           t.id = a, t.row \in Row, t.row.okBy = "none",
           t.pc \in {"freeze", "persist"},
           task' = [task EXCEPT ![p] = t], UNCHANGED rows
    PROVE  ProposalApart(p)' /\ FaithfulTask(p)'
<1>1. task'[p] = t /\ \A q \in Handlers \ {p} : task'[q] = task[q]
  BY DEF TypeInv, TypeOK, TaskOK
<1>2. a \in Ids /\ GateOf(rows[a]) = "absent"
  <2>1. a \in Ids /\ rows[a] \in Row /\ rows[a].life = "none"
    BY DEF Fresh, Ids, TypeInv, TypeOK, StoreOK
  <2> QED  BY <2>1, GateValues
<1>3. \A q \in Handlers : Proposing(q)' /\ task'[q].id = a => q = p
  BY <1>1 DEF Fresh
<1> QED  BY <1>1, <1>2, <1>3 DEF ProposalApart, FaithfulTask, Proposing

(* Copies of the table's own rows are faithful if they are settled. *)
LEMMA ReadFaithful ==
    ASSUME TypeInv, GateInv, NEW id \in Ids, id \in GatedIds => Settled(id)
    PROVE  Faithful(id, rows[id])
  BY DEF GateInv, RowsSound, SoundRow, Faithful

LEMMA DeniedGates ==
    ASSUME TypeInv, GateInv, NEW e \in Evals, ProposeDenied(e)
    PROVE  GateInv' /\ Drives
<1>1. PICK a \in Proposable :
         Fresh(a) /\ WriteOrLose(a, Closed(NewRow("system"), "denied_by_policy", ""))
  BY DEF ProposeDenied
<1> DEFINE row == Closed(NewRow("system"), "denied_by_policy", "")
           K == {a}
<1>2. a \in Ids /\ rows[a] \in Row
  BY PlaneAssumption DEF Ids, TypeInv, TypeOK, StoreOK
<1>3. GateOf(rows[a]) = "absent"
  BY <1>1, <1>2, GateValues DEF Fresh
<1>4. /\ row \in Row /\ GateOf(row) = "shut" /\ row.life = "completed"
      /\ "denied_by_policy" \in Results /\ "" \in Closures
  <2>1. NewRow("system") \in Row /\ NewRow("system").okBy = "none"
    BY NewRowTypes, NewGate
  <2>2. "denied_by_policy" \in Results /\ "" \in Closures
    BY DEF Results, Closures
  <2> HIDE DEF row
  <2>3. row = Closed(NewRow("system"), "denied_by_policy", "")
    BY DEF row
  <2> QED  BY ZenonT(60), <2>1, <2>2, <2>3, ClosedGate, RowTypes
<1>5. SoundRow(row)
  BY <1>4 DEF SoundRow, Incomplete
<1>6. rows' = [rows EXCEPT ![a] = row] \/ rows' = rows
  BY <1>1 DEF WriteOrLose, Write
<1> HIDE DEF row
<1>7. Moves({a}) /\ RowsSound'
  BY <1>2, <1>3, <1>4, <1>5, <1>6, Wrote DEF GateInv
<1>8. Moves(K) /\ \A q \in Handlers \ {e} : Proposing(q) => task[q].id \notin K
  BY <1>1, <1>7 DEF Fresh
<1>9. e \in Handlers /\ task'[e].pc \in QuietPc /\ task' = task
  BY DEF ProposeDenied, Handlers, QuietPc
<1> HIDE DEF K
<1>10. \A b \in Apps : FaithfulQueue(b)'
  <2>1. Serve \in Apps /\ (\A b \in Apps : FaithfulQueue(b)) /\ queue' = queue
    BY DEF Apps, GateInv, ProposeDenied
  <2> QED  BY <1>8, <2>1, ShrunkFaithful
<1>11. GateInv'
  <2>1. UNCHANGED <<exec, todo>> /\ \A f \in Evals : scan'[f] \subseteq scan[f]
    BY DEF ProposeDenied
  <2>2. \A q \in Handlers \ {e} : task'[q] = task[q]
    BY <1>9
  <2> QED  BY <2>2, <1>7, <1>8, <1>9, <1>10, <2>1, QuietTask, HandlerGates
<1> QED  BY <1>2, <1>7, <1>11 DEF Drives, ProposeDenied

LEMMA ScanGates ==
    ASSUME TypeInv, GateInv, NEW e \in Evals, ScanExpired(e)
    PROVE  GateInv' /\ Drives
<1> DEFINE K == {}
           E == {e}
           P == {}
<1>1. Moves(K) /\ RowsSound' /\ e \in Handlers /\ Serve \in Apps
  BY Stays DEF GateInv, ScanExpired, Handlers, Apps
<1>2. /\ \A f \in Evals \ E : scan'[f] \subseteq scan[f]
      /\ \A c \in scan'[e] : \E id \in Ids : RevertDue(id, rows[id]) /\ c = [id |-> id, row |-> rows[id]]
  BY DEF ScanExpired, TypeInv, TypeOK, RecoveryOK, StoreOK
<1>3. ASSUME NEW c \in scan'[e]
      PROVE  Faithful(c.id, c.row)'
  <2>1. PICK id \in Ids : RevertDue(id, rows[id]) /\ c = [id |-> id, row |-> rows[id]]
    BY <1>2, <1>3
  <2>2. id \in GatedIds => Settled(id)
    <3> SUFFICES ASSUME id \in GatedIds PROVE Settled(id)
      OBVIOUS
    <3>1. rows[id] \in Row /\ SoundRow(rows[id]) /\ rows[id].result = "executed_successfully"
      BY <2>1 DEF TypeInv, TypeOK, StoreOK, GateInv, RowsSound, RevertDue
    <3> QED  BY <3>1, GateValues DEF SoundRow, Settled
  <2>3. c.id = id /\ c.row = rows[id] /\ Faithful(c.id, c.row)
    BY <2>1, <2>2, ReadFaithful
  <2> QED  BY <1>1, <2>3, FaithfulKept
<1>4. /\ \A q \in Handlers \ P : task'[q] = task[q] \/ task'[q].pc \in QuietPc
      /\ \A q \in Handlers \ P : Proposing(q) => task[q].id \notin K
      /\ \A q \in P : ProposalApart(q)' /\ FaithfulTask(q)'
      /\ \A q \in Handlers : ProposalApart(q) /\ FaithfulTask(q)
  BY <1>1 DEF GateInv, ScanExpired, TaskStep, QuietPc, TypeInv, TypeOK, TaskOK
<1>5. \A f \in E : \A c \in scan'[f] : Faithful(c.id, c.row)'
  BY <1>3
<1>6. (\A a \in Apps : FaithfulQueue(a)) /\ queue' = queue /\ exec' = exec /\ todo' \subseteq todo
      /\ \A a \in Apps : FaithfulExec(a)
  BY DEF GateInv, ScanExpired
<1>7. \A a \in Apps : FaithfulExec(a)'
  <2> DEFINE A == {}
  <2>1. (\A a \in Apps \ A : exec'[a] = exec[a]) /\ \A a \in A : FaithfulExec(a)'
    BY <1>6
  <2> HIDE DEF A, K
  <2> QED  BY <1>1, <1>6, <2>1, ExecsKept
<1> HIDE DEF K, E, P
<1>8. /\ \A q \in Handlers : ProposalApart(q)' /\ FaithfulTask(q)'
      /\ (\A f \in Evals : \A c \in scan[f] : Faithful(c.id, c.row))'
      /\ \A a \in Apps : FaithfulQueue(a)'
      /\ (\A c \in todo : Faithful(c.id, c.row))'
  BY <1>1, <1>2, <1>4, <1>5, <1>6, TasksKept, ScansKept, ShrunkFaithful, TodoKept
<1>9. GateInv'
  BY <1>1, <1>7, <1>8 DEF GateInv
<1> QED  BY <1>1, <1>9 DEF Drives, K, ScanExpired

LEMMA SeenGates ==
    ASSUME TypeInv, GateInv, NEW e \in Evals, RevertSeen(e)
    PROVE  GateInv' /\ Drives
<1>1. PICK c \in scan[e] :
         /\ scan' = [scan EXCEPT ![e] = @ \ {c}]
         /\ \/ UNCHANGED task
            \/ task' = [task EXCEPT ![e].pc = "close", ![e].op = "revert",
                                    ![e].id = c.id, ![e].row = c.row]
  BY DEF RevertSeen
<1>2. e \in Handlers /\ task \in [Handlers -> TaskState] /\ Faithful(c.id, c.row)
  BY DEF Handlers, TypeInv, TypeOK, TaskOK, GateInv
<1>3. \A q \in Handlers \ {e} : task'[q] = task[q]
  BY <1>1, <1>2
<1>4. \A f \in Evals : scan'[f] \subseteq scan[f]
  BY <1>1 DEF TypeInv, TypeOK, RecoveryOK
<1>5. ProposalApart(e)' /\ FaithfulTask(e)'
  <2>1. CASE UNCHANGED task
    BY <1>2, <2>1, QuietTask DEF RevertSeen, QuietPc
  <2>2. CASE task' = [task EXCEPT ![e].pc = "close", ![e].op = "revert",
                                  ![e].id = c.id, ![e].row = c.row]
    <3>1. task'[e].pc = "close" /\ task'[e].id = c.id /\ task'[e].row = c.row
      BY <1>2, <2>2 DEF TaskState
    <3>2. Faithful(task[e].id, task[e].row)'
      BY <1>2, <3>1 DEF Faithful, Settled, RevertSeen
    <3> QED  BY <3>1, <3>2 DEF ProposalApart, FaithfulTask, Proposing, ProposingPc
  <2> QED  BY <1>1, <2>1, <2>2
<1> QED  BY <1>2, <1>3, <1>4, <1>5, LocalGates DEF RevertSeen

LEMMA CloseGates ==
    ASSUME TypeInv, GateInv, NEW e \in Evals, CloseReverted(e)
    PROVE  GateInv' /\ Drives
<1> DEFINE row == [task[e].row EXCEPT !.closure = "expired_and_reverted"]
           K == {}
<1>1. e \in Handlers /\ task[e] \in TaskState /\ task[e].id \in Ids
  BY DEF Handlers, TypeInv, TypeOK, TaskOK, TaskShapes, TaskShape, CloseReverted, RevertingPc
<1>2. task[e].row \in Row /\ row \in Row /\ Faithful(task[e].id, task[e].row)
  BY <1>1 DEF TaskState, Row, Closures, GateInv, FaithfulTask, CloseReverted
<1>3. Faithful(task[e].id, row)
  <2>1. task[e].id \in GatedIds =>
          /\ GateOf(row) = GateOf(task[e].row)
          /\ Incomplete(row) <=> Incomplete(task[e].row)
    BY <1>2, KeptGate DEF Faithful, Settled
  <2> QED  BY <1>2, <2>1 DEF Faithful
<1>4. rows' = [rows EXCEPT ![task[e].id] = row] \/ rows' = rows
  BY DEF CloseReverted, WriteOrLose, Write
<1> HIDE DEF row
<1>5. Moves({}) /\ RowsSound'
  BY <1>1, <1>2, <1>3, <1>4, WroteFaithful DEF GateInv
<1>6. Moves(K) /\ \A q \in Handlers \ {e} : Proposing(q) => task[q].id \notin K
  BY <1>5
<1> HIDE DEF K
<1>7. task'[e].pc \in QuietPc /\ \A q \in Handlers \ {e} : task'[q] = task[q]
  BY <1>1 DEF CloseReverted, TaskStep, QuietPc, TypeInv, TypeOK, TaskOK, TaskState
<1>8. Serve \in Apps /\ (\A b \in Apps : FaithfulQueue(b)) /\ queue' = queue
      /\ (\A f \in Evals : scan'[f] \subseteq scan[f]) /\ UNCHANGED <<exec, todo, fired>>
  BY DEF Apps, GateInv, CloseReverted
<1>9. \A b \in Apps : FaithfulQueue(b)'
  BY <1>6, <1>8, ShrunkFaithful
<1>10. GateInv'
  BY <1>1, <1>5, <1>6, <1>7, <1>8, <1>9, QuietTask, HandlerGates
<1> QED  BY <1>5, <1>8, <1>10 DEF Drives

LEMMA IssueGates ==
    ASSUME TypeInv, GateInv, NEW e \in Evals, IssueReset(e)
    PROVE  GateInv' /\ Drives
<1> DEFINE K == {}
<1>1. e \in Handlers /\ task[e].id \in Ids /\ Type(task[e].id) = "backoff_increase"
  BY DEF Handlers, TypeInv, TaskShapes, TaskShape, IssueReset, RevertingPc
<1>2. PICK reset \in Ids : /\ reset = Reset(task[e].id)
                          /\ reset \notin GatedIds /\ NewRow("system") \in Row
  BY <1>1, FollowUpIds, FollowUpsUngated, NewRowTypes
<1>3. rows' = [rows EXCEPT ![reset] = NewRow("system")] \/ rows' = rows
  BY <1>2 DEF IssueReset, WriteOrLose, Write
<1>4. Send(Serve, reset, NewRow("system")) /\ UNCHANGED <<exec, scan, todo, fired>>
  BY <1>2 DEF IssueReset
<1>5. Moves({}) /\ RowsSound'
  BY <1>2, <1>3, WroteSame DEF GateInv
<1>6. Moves(K) /\ \A q \in Handlers \ {e} : Proposing(q) => task[q].id \notin K
  BY <1>5
<1>7. task'[e].pc \in QuietPc /\ \A q \in Handlers \ {e} : task'[q] = task[q]
  BY <1>1 DEF IssueReset, QuietPc, TypeInv, TypeOK, TaskOK, TaskIdle
<1> HIDE DEF K
<1>8. \A b \in Apps : FaithfulQueue(b)'
  <2>1. Faithful(reset, NewRow("system"))'
    BY <1>2 DEF Faithful
  <2>2. Serve \in Apps /\ \A b \in Apps : FaithfulQueue(b)
    BY DEF Apps, GateInv
  <2> QED  BY <1>2, <1>4, <1>6, <2>1, <2>2, SentFaithful
<1>9. GateInv'
  <2>1. \A f \in Evals : scan'[f] \subseteq scan[f]
    BY <1>4
  <2> QED  BY <1>1, <1>4, <1>5, <1>6, <1>7, <1>8, <2>1, QuietTask, HandlerGates
<1> QED  BY <1>4, <1>5, <1>9 DEF Drives

LEMMA EvaluatorGates ==
    ASSUME TypeInv, GateInv,
           BeginEvaluation \/ \E e \in Evals : Evaluate(e)
    PROVE  GateInv' /\ Drives
<1>0. task \in [Handlers -> TaskState] /\ Evals \subseteq Handlers
  BY DEF Handlers, TypeInv, TypeOK, TaskOK
<1>1. CASE BeginEvaluation
  <2>1. /\ Ticker \in Handlers /\ task'[Ticker].pc \in QuietPc
        /\ \A q \in Handlers \ {Ticker} : task'[q] = task[q]
    BY <1>0, <1>1 DEF BeginEvaluation, TaskStep, TaskState, QuietPc
  <2> QED  BY <1>1, <2>1, QuietTask, LocalGates DEF BeginEvaluation
<1>2. ASSUME NEW e \in Evals, Evaluate(e)
      PROVE  GateInv' /\ Drives
  <2>1. CASE Propose(e)
    <3>1. PICK a \in Proposable :
            /\ Fresh(a)
            /\ task' = [task EXCEPT ![e] = [TaskIdle EXCEPT !.pc = "freeze", !.op = "propose",
                                              !.id = a, !.row = NewRow("system")]]
      BY <2>1 DEF Propose
    <3> DEFINE t == [TaskIdle EXCEPT !.pc = "freeze", !.op = "propose",
                                     !.id = a, !.row = NewRow("system")]
    <3>2. t.id = a /\ t.row \in Row /\ t.row.okBy = "none" /\ t.pc = "freeze"
      BY NewRowTypes, NewGate DEF TaskIdle
    <3>3. a \in Actions /\ e \in Handlers /\ \A q \in Handlers \ {e} : task'[q] = task[q]
      BY <1>0, <3>1, PlaneAssumption
    <3> HIDE DEF t
    <3>4. task' = [task EXCEPT ![e] = t] /\ UNCHANGED rows
      BY <2>1, <3>1 DEF t, Propose
    <3>5. ProposalApart(e)' /\ FaithfulTask(e)'
      BY <3>1, <3>2, <3>3, <3>4, FreshProposal
    <3> QED  BY <2>1, <3>3, <3>5, LocalGates DEF Propose
  <2>2. CASE EndEvaluation(e)
    <3>1. /\ e \in Handlers /\ task'[e].pc \in QuietPc
          /\ \A q \in Handlers \ {e} : task'[q] = task[q]
      BY <1>0, <2>2 DEF EndEvaluation, TaskStep, TaskState, QuietPc
    <3> QED  BY <2>2, <3>1, QuietTask, LocalGates DEF EndEvaluation
  <2> QED  BY <1>2, <2>1, <2>2, DeniedGates, ScanGates, SeenGates, CloseGates, IssueGates
           DEF Evaluate
<1> QED  BY <1>1, <1>2

(* The trust gate, of the evaluator and of an operator's submission. *)
LEMMA CheckGates ==
    ASSUME TypeInv, GateInv, NEW p \in Handlers, CheckFreeze(p) \/ CheckMaintenance(p)
    PROVE  GateInv' /\ Drives
<1>1. /\ task[p] \in TaskState /\ task[p].row \in Row /\ ProposalApart(p)
      /\ Proposing(p) /\ UNCHANGED <<rows, queue, exec, scan, todo, fired>>
  BY DEF TypeInv, TypeOK, TaskOK, TaskState, GateInv, CheckFreeze, CheckMaintenance,
         Proposing, ProposingPc
<1>2. PICK result \in Results, closure \in Closures, pc \in {"refuse", "maintenance", "persist"} :
         \/ pc # "refuse" /\ TaskStep(p, pc)
         \/ pc = "refuse" /\ TaskRow(p, pc, Closed(task[p].row, result, closure))
  BY DEF CheckFreeze, CheckMaintenance, Results, Closures
<1>3. /\ task'[p].pc = pc /\ task'[p].id = task[p].id
      /\ task'[p].row \in Row
      /\ task[p].row.okBy = "none" => task'[p].row.okBy = "none"
      /\ pc = "refuse" => task'[p].row.life = "completed"
      /\ \A q \in Handlers \ {p} : task'[q] = task[q]
  <2>1. Closed(task[p].row, result, closure) \in Row
    BY <1>1, RowTypes
  <2>2. /\ Closed(task[p].row, result, closure).okBy = task[p].row.okBy
        /\ Closed(task[p].row, result, closure).life = "completed"
    BY <1>1 DEF Closed, Row
  <2>3. task \in [Handlers -> TaskState]
    BY DEF TypeInv, TypeOK, TaskOK
  <2>4. CASE TaskStep(p, pc) /\ pc # "refuse"
    <3>1. task'[p] = [task[p] EXCEPT !.pc = pc] /\ \A q \in Handlers \ {p} : task'[q] = task[q]
      BY <2>3, <2>4 DEF TaskStep
    <3> QED  BY <1>1, <2>4, <3>1 DEF TaskState
  <2>5. CASE TaskRow(p, pc, Closed(task[p].row, result, closure))
    <3> DEFINE row == Closed(task[p].row, result, closure)
    <3>1. task' = [task EXCEPT ![p] = [task[p] EXCEPT !.pc = pc, !.row = row]]
      BY <2>5 DEF TaskRow
    <3> HIDE DEF row
    <3>2. /\ task'[p] = [task[p] EXCEPT !.pc = pc, !.row = row]
          /\ \A q \in Handlers \ {p} : task'[q] = task[q]
      BY <2>3, <3>1
    <3>3. task'[p].pc = pc /\ task'[p].id = task[p].id /\ task'[p].row = row
      BY <1>1, <3>2 DEF TaskState
    <3> QED  BY <2>1, <2>2, <3>2, <3>3 DEF row
  <2> QED  BY <1>2, <2>4, <2>5
<1>4. ProposalApart(p)' /\ FaithfulTask(p)'
  <2>1. \A q \in Handlers : Proposing(q)' /\ task'[q].id = task'[p].id /\ task[p].id \in GatedIds => q = p
    BY <1>1, <1>3 DEF ProposalApart, Proposing
  <2>2. FaithfulTask(p)'
    BY <1>3 DEF FaithfulTask
  <2> QED  BY <1>1, <1>3, <2>1, <2>2 DEF ProposalApart
<1> QED  BY <1>1, <1>3, <1>4, LocalGates

(* What a proposal's own write does to its gate. *)
LEMMA ProposalWrites ==
    ASSUME TypeInv, GateInv, NEW p \in Handlers, Proposing(p), NEW id \in Ids, id = task[p].id,
           NEW row \in Row, rows' = [rows EXCEPT ![id] = row] \/ rows' = rows,
           id \in GatedIds => SoundRow(row) /\ GateOf(row) \in {"held", "shut"},
           \/ task'[p].pc \in QuietPc
           \/ id \notin GatedIds /\ task'[p].id = id /\ task'[p].pc = "refuse",
           \A q \in Handlers \ {p} : task'[q] = task[q],
           \/ UNCHANGED queue
           \/ id \notin GatedIds /\ \E app \in Apps, r \in Row : Send(app, id, r),
           UNCHANGED <<exec, todo, scan, fired>>
    PROVE  GateInv' /\ Drives
<1> DEFINE K == {id} \cap GatedIds
<1>1. id \in GatedIds => GateOf(rows[id]) = "absent"
  BY DEF GateInv, ProposalApart
<1>2. Moves({id}) /\ RowsSound'
  BY <1>1, Wrote DEF GateInv
<1>3. Moves(K) /\ \A q \in Handlers \ {p} : Proposing(q) => task[q].id \notin K
  BY <1>2 DEF Moves, GateInv, ProposalApart
<1> HIDE DEF K
<1>4. \A a \in Apps : FaithfulQueue(a)'
  <2>1. Serve \in Apps /\ \A a \in Apps : FaithfulQueue(a)
    BY DEF Apps, GateInv
  <2>2. CASE UNCHANGED queue
    BY <1>3, <2>1, <2>2, ShrunkFaithful
  <2>3. CASE id \notin GatedIds /\ \E app \in Apps, r \in Row : Send(app, id, r)
    <3>1. PICK app \in Apps, r \in Row : Send(app, id, r)
      BY <2>3
    <3>2. Faithful(id, r)'
      BY <2>3 DEF Faithful
    <3> QED  BY <1>3, <2>1, <3>1, <3>2, SentFaithful
  <2> QED  BY <2>2, <2>3
<1>5. GateInv'
  <2>1. \A e \in Evals : scan'[e] \subseteq scan[e]
    OBVIOUS
  <2>2. ProposalApart(p)' /\ FaithfulTask(p)'
    <3>1. CASE id \notin GatedIds /\ task'[p].id = id /\ task'[p].pc = "refuse"
      BY <3>1 DEF ProposalApart, FaithfulTask
    <3> QED  BY <3>1, QuietTask
  <2> QED  BY <1>2, <1>3, <1>4, <2>1, <2>2, HandlerGates
<1> QED  BY <1>2, <1>5 DEF Drives

LEMMA SettledTask ==
    ASSUME TypeInv, NEW p \in Handlers, Settle(p)
    PROVE  task'[p].pc \in QuietPc /\ \A q \in Handlers \ {p} : task'[q] = task[q]
  BY DEF TypeInv, TypeOK, TaskOK, TaskState, Settle, QuietPc, TaskIdle

LEMMA TrustGates ==
    ASSUME TypeInv, GateInv, NEW p \in Handlers, Gate(p)
    PROVE  GateInv' /\ Drives
<1>0. ASSUME task[p].pc \in {"refuse", "persist"}
      PROVE  /\ Proposing(p) /\ task[p].id \in Ids /\ task[p].row \in Row
             /\ task[p].id \in GatedIds =>
                  /\ task[p].row.okBy = "none"
                  /\ task[p].pc = "refuse" => task[p].row.life = "completed"
  BY <1>0 DEF TypeInv, TypeOK, TaskOK, TaskState, TaskShapes, TaskShape, GateInv, ProposalApart,
              Proposing, ProposingPc
<1>1. CASE Refuse(p)
  <2>1. PICK id \in Ids, row \in Row : id = task[p].id /\ row = task[p].row
    BY <1>0, <1>1 DEF Refuse
  <2>2. id \in GatedIds => SoundRow(row) /\ GateOf(row) = "shut"
    BY <1>0, <1>1, <2>1, GateValues DEF Refuse, SoundRow, Incomplete, Decided
  <2>3. rows' = [rows EXCEPT ![id] = row] \/ rows' = rows
    BY <1>1, <2>1 DEF Refuse, WriteOrLose, Write
  <2>4. UNCHANGED <<queue, exec, todo, scan, fired>> /\ Settle(p)
    BY <1>1 DEF Refuse
  <2> QED  BY <1>0, <1>1, <2>1, <2>2, <2>3, <2>4, SettledTask, ProposalWrites DEF Refuse
<1>2. CASE Persist(p)
  <2>1. PICK id \in Ids, row \in Row : id = task[p].id /\ row = task[p].row
    BY <1>0, <1>2 DEF Persist
  <2>2. UNCHANGED <<exec, todo, scan, fired>> /\ Proposing(p) /\ AppOf(p) \in Apps
    BY <1>0, <1>2 DEF Persist, AppOf, Apps
  <2>3. id \in GatedIds <=> NeedsApproval(id)
    BY DEF GatedIds
  <2>4. CASE NeedsApproval(id) /\ Write(id, Held(row)) /\ Settle(p) /\ UNCHANGED queue
    <3>1. Held(row) \in Row /\ SoundRow(Held(row)) /\ GateOf(Held(row)) = "held"
      BY <1>0, <1>2, <2>1, <2>3, <2>4, RowTypes, NewGate DEF Persist
    <3>2. rows' = [rows EXCEPT ![id] = Held(row)]
      BY <2>4 DEF Write
    <3> QED  BY <2>1, <2>2, <2>4, <3>1, <3>2, SettledTask, ProposalWrites
  <2>5. CASE /\ ~NeedsApproval(id) /\ Write(id, row) /\ Send(AppOf(p), id, row)
             /\ Settle(p) \/ TaskRow(p, "refuse", Superseded(row))
    <3>1. rows' = [rows EXCEPT ![id] = row]
      BY <2>5 DEF Write
    <3>2. /\ \/ task'[p].pc \in QuietPc
             \/ id \notin GatedIds /\ task'[p].id = id /\ task'[p].pc = "refuse"
          /\ \A q \in Handlers \ {p} : task'[q] = task[q]
      <4>1. CASE Settle(p)
        BY <4>1, SettledTask
      <4>2. CASE TaskRow(p, "refuse", Superseded(row))
        BY <2>1, <2>3, <2>5, <4>2 DEF TaskRow, TypeInv, TypeOK, TaskOK, TaskState
      <4> QED  BY <2>5, <4>1, <4>2
    <3> QED  BY <2>1, <2>2, <2>3, <2>5, <3>1, <3>2, ProposalWrites
  <2>6. CASE Settle(p) /\ UNCHANGED <<rows, queue>>
    <3>1. PICK new \in Row : id \in GatedIds => SoundRow(new) /\ GateOf(new) \in {"held", "shut"}
      BY <1>0, <1>2, <2>1, RowTypes, NewGate DEF Persist
    <3> QED  BY <2>1, <2>2, <2>6, <3>1, SettledTask, ProposalWrites
  <2> QED  BY <1>2, <2>1, <2>4, <2>5, <2>6 DEF Persist
<1> QED  BY <1>1, <1>2, CheckGates DEF Gate

------------------------------------------------------------------------------
(* Operator requests *)

LEMMA SubmitGates ==
    ASSUME TypeInv, GateInv, NEW s \in Sessions, Submit(s)
    PROVE  GateInv' /\ Drives
<1>1. PICK a \in Actions \ Proposable :
        /\ Fresh(a)
        /\ task' = [task EXCEPT ![s] =
                      [TaskIdle EXCEPT !.pc = IF NeedsApproval(a) THEN "persist" ELSE "freeze",
                                       !.op = "submit", !.id = a, !.row = NewRow(ActorOf[s])]]
  BY DEF Submit
<1> DEFINE t == [TaskIdle EXCEPT !.pc = IF NeedsApproval(a) THEN "persist" ELSE "freeze",
                                 !.op = "submit", !.id = a, !.row = NewRow(ActorOf[s])]
<1>2. t.id = a /\ t.row \in Row /\ t.row.okBy = "none" /\ t.pc \in {"freeze", "persist"}
  <2>1. ActorOf[s] \in Operators
    BY PlaneAssumption
  <2> QED  BY <2>1, NewRowTypes, NewGate DEF TaskIdle
<1>3. s \in Handlers /\ \A q \in Handlers \ {s} : task'[q] = task[q]
  BY <1>1 DEF Handlers, TypeInv, TypeOK, TaskOK
<1> HIDE DEF t
<1>4. task' = [task EXCEPT ![s] = t] /\ UNCHANGED rows
  BY <1>1 DEF t, Submit
<1>5. ProposalApart(s)' /\ FaithfulTask(s)'
  BY <1>1, <1>2, <1>3, <1>4, FreshProposal
<1> QED  BY <1>3, <1>5, LocalGates DEF Submit

LEMMA ReceiveGates ==
    ASSUME TypeInv, GateInv, NEW s \in Sessions, ReceiveDecision(s)
    PROVE  GateInv' /\ Drives
<1>1. PICK op \in {"approve", "reject"}, id \in Ids, glass \in Glass :
        /\ Undecided(rows[id])
        /\ task' = [task EXCEPT ![s] =
                      [TaskIdle EXCEPT !.pc = "update", !.op = op, !.id = id,
                                       !.row = rows[id], !.glass = glass]]
  BY DEF ReceiveDecision
<1>2. /\ s \in Handlers /\ \A q \in Handlers \ {s} : task'[q] = task[q]
      /\ task'[s].pc = "update" /\ task'[s].id = id
  BY <1>1 DEF Handlers, TypeInv, TypeOK, TaskOK, TaskIdle
<1>3. GateOf(rows[id]) # "absent" /\ UNCHANGED rows
  BY <1>1, GateValues DEF TypeInv, TypeOK, StoreOK, Undecided, ReceiveDecision
<1>4. ProposalApart(s)' /\ FaithfulTask(s)'
  BY <1>2, <1>3 DEF ProposalApart, FaithfulTask, Proposing, ProposingPc
<1> QED  BY <1>2, <1>4, LocalGates DEF ReceiveDecision

LEMMA ExitGates ==
    ASSUME TypeInv, GateInv, NEW s \in Sessions, ExitCli(s)
    PROVE  GateInv' /\ Drives
<1> DEFINE K == {}
<1>1. Moves(K) /\ RowsSound'
  BY Stays DEF GateInv, ExitCli
<1>2. /\ s \in Handlers /\ s \in Apps /\ task'[s].pc \in QuietPc
      /\ \A q \in Handlers \ {s} : task'[q] = task[q]
      /\ \A q \in Handlers \ {s} : Proposing(q) => task[q].id \notin K
  BY DEF ExitCli, Handlers, Apps, TaskStep, QuietPc, TypeInv, TypeOK, TaskOK, TaskState
<1>3. (\A a \in Apps : FaithfulQueue(a)) /\ queue' = [queue EXCEPT ![s] = <<>>]
      /\ UNCHANGED <<exec, todo>> /\ \A e \in Evals : scan'[e] \subseteq scan[e]
  BY DEF GateInv, ExitCli
<1> HIDE DEF K
<1>4. \A a \in Apps : FaithfulQueue(a)'
  BY <1>1, <1>2, <1>3, ShrunkFaithful
<1>5. GateInv'
  BY <1>1, <1>2, <1>3, <1>4, QuietTask, HandlerGates
<1> QED  BY <1>1, <1>5 DEF Drives, K, ExitCli

(* The guarded UPDATE is the only statement that opens a gate. *)
LEMMA UpdateGates ==
    ASSUME TypeInv, GateInv, NEW s \in Sessions, UpdateRow(s)
    PROVE  GateInv' /\ Drives
<1>1. /\ s \in Handlers /\ task[s] \in TaskState /\ task[s].id \in Ids
      /\ task[s].id \in GatedIds => GateOf(rows[task[s].id]) # "absent"
  BY DEF Handlers, TypeInv, TypeOK, TaskOK, TaskShapes, TaskShape, DecidingPc, UpdateRow,
         GateInv, FaithfulTask
<1>2. PICK id \in Ids, bypass \in BOOLEAN, new \in Row :
         /\ id = task[s].id
         /\ new \in {Approved(rows[id], ActorOf[s], bypass), Rejected(rows[id])}
         /\ rows' = [rows EXCEPT ![id] = new]
         /\ \/ task'[s].pc \in QuietPc
            \/ ~Undecided(new) /\ task'[s].pc \in {"merge", "reload"} /\ task'[s].id = id
         /\ \A q \in Handlers \ {s} : task'[q] = task[q]
  <2> DEFINE id == task[s].id
             bypass == task[s].glass /\ SodWouldBlock(id, task[s].row, ActorOf[s])
             new == IF task[s].op = "approve" THEN Approved(rows[id], ActorOf[s], bypass)
                    ELSE Rejected(rows[id])
  <2>1. rows[id] \in Row /\ ActorOf[s] \in Operators /\ bypass \in BOOLEAN
    BY <1>1, PlaneAssumption DEF TypeInv, TypeOK, StoreOK, TaskState
  <2>2. new \in Row /\ new \in {Approved(rows[id], ActorOf[s], bypass), Rejected(rows[id])}
    BY <2>1, RowTypes
  <2>3. rows' = [rows EXCEPT ![id] = new]
    BY DEF UpdateRow, Write
  <2>4. IF Undecided(new) THEN Answer(s, "done", "error")
        ELSE task' = [task EXCEPT ![s].pc = IF MergesMetadata(s) THEN "merge" ELSE "reload",
                                  ![s].hit = Undecided(rows[id])]
    BY DEF UpdateRow
  <2> HIDE DEF new
  <2>5. /\ \/ task'[s].pc \in QuietPc
           \/ ~Undecided(new) /\ task'[s].pc \in {"merge", "reload"} /\ task'[s].id = id
        /\ \A q \in Handlers \ {s} : task'[q] = task[q]
    <3>0. task \in [Handlers -> TaskState]
      BY DEF TypeInv, TypeOK, TaskOK
    <3>1. CASE Undecided(new)
      BY ZenonT(60), <1>1, <2>4, <3>0, <3>1 DEF Answer, Answered, QuietPc, TaskState
    <3>2. CASE ~Undecided(new)
      <4>1. PICK pc \in {"merge", "reload"}, hit \in BOOLEAN :
               task' = [task EXCEPT ![s].pc = pc, ![s].hit = hit]
        BY <2>4, <3>2 DEF Undecided
      <4> QED  BY <1>1, <3>0, <3>2, <4>1 DEF TaskState
    <3> QED  BY <3>1, <3>2
  <2> HIDE DEF id, bypass
  <2>6. id \in Ids /\ id = task[s].id
    BY <1>1 DEF id
  <2> QED  BY <2>1, <2>2, <2>3, <2>5, <2>6
<1>3. id \in GatedIds => /\ GateOf(rows[id]) # "absent"
                         /\ GateOf(rows[id]) = "held" => GateOf(new) \in {"open", "shut"}
                         /\ GateOf(rows[id]) # "held" => new = rows[id]
                         /\ SoundRow(rows[id])
                         /\ SoundRow(new)
  <2> SUFFICES ASSUME id \in GatedIds
               PROVE  /\ GateOf(rows[id]) # "absent" /\ SoundRow(rows[id])
                      /\ GateOf(rows[id]) = "held" => GateOf(new) \in {"open", "shut"}
                      /\ GateOf(rows[id]) # "held" => new = rows[id]
                      /\ SoundRow(new)
    OBVIOUS
  <2>1. rows[id] \in Row /\ SoundRow(rows[id]) /\ ActorOf[s] \in Operators
    BY PlaneAssumption DEF TypeInv, TypeOK, StoreOK, GateInv, RowsSound
  <2>2. /\ GateOf(rows[id]) = "held" => GateOf(new) \in {"open", "shut"}
        /\ GateOf(rows[id]) # "held" => new = rows[id]
    BY <1>2, <2>1, DecidedGate
  <2>3. SoundRow(new)
    <3>1. CASE new = rows[id]
      BY <2>1, <3>1
    <3>2. CASE GateOf(rows[id]) = "held" /\ new = Approved(rows[id], ActorOf[s], bypass)
      BY <2>1, <3>2, DecidedGate DEF SoundRow
    <3>3. CASE GateOf(rows[id]) = "held" /\ new = Rejected(rows[id])
      <4>1. GateOf(new) = "shut"
        BY <2>1, <3>3, DecidedGate
      <4>2. Undecided(rows[id])
        BY <2>1, <3>3, GateValues DEF Undecided
      <4>3. new.life = "completed"
        BY <2>1, <3>3, <4>2 DEF Rejected, Closed, Row
      <4> QED  BY <4>1, <4>3 DEF SoundRow, Incomplete
    <3> QED  BY <1>2, <2>2, <3>1, <3>2, <3>3
  <2> QED  BY <1>1, <1>2, <2>1, <2>2, <2>3
<1> DEFINE K == {id} \cap GatedIds
<1>4. Moves({id}) /\ RowsSound'
  BY <1>2, <1>3, Wrote DEF GateInv
<1>5. Moves(K) /\ \A q \in Handlers \ {s} : Proposing(q) => task[q].id \notin K
  BY <1>3, <1>4 DEF Moves, GateInv, ProposalApart
<1>6. rows'[id] = new
  BY <1>2 DEF TypeInv, TypeOK, StoreOK
<1>7. id \in GatedIds /\ ~Undecided(new) => GateOf(rows'[id]) \in {"open", "shut"}
  BY <1>2, <1>3, <1>6, GateValues DEF Undecided
<1>8. ProposalApart(s)' /\ FaithfulTask(s)'
  BY <1>2, <1>7 DEF ProposalApart, FaithfulTask, Proposing, ProposingPc, QuietPc, Settled
<1>9. /\ Serve \in Apps /\ (\A a \in Apps : FaithfulQueue(a)) /\ queue' = queue
      /\ UNCHANGED <<exec, todo, fired>> /\ \A e \in Evals : scan'[e] \subseteq scan[e]
  BY DEF Apps, GateInv, UpdateRow
<1> HIDE DEF K
<1>10. \A a \in Apps : FaithfulQueue(a)'
  BY <1>5, <1>9, ShrunkFaithful
<1>11. GateInv'
  BY <1>1, <1>2, <1>4, <1>5, <1>8, <1>9, <1>10, HandlerGates
<1> QED  BY <1>4, <1>9, <1>11 DEF Drives

LEMMA MergeGates ==
    ASSUME TypeInv, GateInv, NEW s \in Sessions,
           ReadForMerge(s) \/ WriteMerged(s) \/ DecisionFails(s)
    PROVE  GateInv' /\ Drives
<1>0. /\ s \in Handlers /\ task \in [Handlers -> TaskState] /\ task[s].row \in Row
      /\ rows \in [Ids -> Row] /\ FaithfulTask(s)
  BY DEF Handlers, TypeInv, TypeOK, TaskOK, TaskState, StoreOK, GateInv
<1>1. CASE ReadForMerge(s)
  <2>1. PICK id \in Ids : id = task[s].id /\ (id \in GatedIds => Settled(id))
    BY <1>0, <1>1 DEF ReadForMerge, TypeInv, TaskShapes, TaskShape, DecidingPc, FaithfulTask
  <2>2. /\ \A q \in Handlers \ {s} : task'[q] = task[q]
        /\ task'[s].pc = "patch" /\ task'[s].id = id /\ task'[s].row = rows[id]
    BY <1>0, <1>1, <2>1 DEF ReadForMerge, TaskRow, TaskState
  <2>3. Faithful(id, rows[id])
    BY <2>1, ReadFaithful
  <2>4. ProposalApart(s)' /\ FaithfulTask(s)'
    <3>1. Faithful(task[s].id, task[s].row)'
      BY <1>1, <2>2, <2>3 DEF ReadForMerge, Faithful, Settled
    <3> QED  BY <2>2, <3>1 DEF ProposalApart, FaithfulTask, Proposing, ProposingPc
  <2> QED  BY <1>0, <1>1, <2>2, <2>4, LocalGates DEF ReadForMerge
<1>2. CASE WriteMerged(s)
  <2> DEFINE K == {}
  <2>1. PICK id \in Ids, row \in Row : id = task[s].id /\ row = task[s].row /\ Faithful(id, row)
    BY <1>0, <1>2 DEF WriteMerged, TypeInv, TaskShapes, TaskShape, DecidingPc, FaithfulTask
  <2>2. rows' = [rows EXCEPT ![id] = row]
    BY <1>2, <2>1 DEF WriteMerged, Write
  <2>3. Moves({}) /\ RowsSound'
    BY <2>1, <2>2, WroteFaithful DEF GateInv
  <2>4. Moves(K) /\ \A q \in Handlers \ {s} : Proposing(q) => task[q].id \notin K
    BY <2>3
  <2>5. /\ \A q \in Handlers \ {s} : task'[q] = task[q]
        /\ task'[s].pc = "reload" /\ task'[s].id = id
    BY <1>0, <1>2, <2>1 DEF WriteMerged, TaskStep, TaskState
  <2>6. id \in GatedIds => Settled(id)'
    BY <2>1, <2>3 DEF Faithful, Settled, Moves
  <2>7. ProposalApart(s)' /\ FaithfulTask(s)'
    BY <2>5, <2>6 DEF ProposalApart, FaithfulTask, Proposing, ProposingPc, Settled
  <2>8. /\ Serve \in Apps /\ (\A a \in Apps : FaithfulQueue(a)) /\ queue' = queue
        /\ UNCHANGED <<exec, todo, fired>> /\ \A e \in Evals : scan'[e] \subseteq scan[e]
    BY <1>2 DEF Apps, GateInv, WriteMerged
  <2> HIDE DEF K
  <2>9. \A a \in Apps : FaithfulQueue(a)'
    BY <2>4, <2>8, ShrunkFaithful
  <2>10. GateInv'
    BY <1>0, <2>3, <2>4, <2>5, <2>7, <2>8, <2>9, HandlerGates
  <2> QED  BY <2>3, <2>8, <2>10 DEF Drives
<1>3. CASE DecisionFails(s)
  <2>1. /\ \A q \in Handlers \ {s} : task'[q] = task[q]
        /\ task'[s].pc \in QuietPc
    BY <1>0, <1>3 DEF DecisionFails, Answer, Answered, TaskState, QuietPc
  <2> QED  BY <1>0, <1>3, <2>1, QuietTask, LocalGates DEF DecisionFails
<1> QED  BY <1>1, <1>2, <1>3

(* The row sent to the executor is the one in the table, its gate settled. *)
LEMMA ReloadGates ==
    ASSUME TypeInv, GateInv, NEW s \in Sessions, ReloadAndSend(s)
    PROVE  GateInv' /\ Drives
<1> DEFINE K == {}
<1>1. PICK id \in Ids : id = task[s].id /\ (id \in GatedIds => Settled(id))
  BY DEF ReloadAndSend, TypeInv, TaskShapes, TaskShape, DecidingPc, Handlers, GateInv,
         FaithfulTask
<1>2. PICK app \in Apps, row \in Row : /\ row = rows[id]
                                       /\ Send(app, id, row) \/ UNCHANGED queue
  BY <1>1 DEF ReloadAndSend, AppOf, Apps, TypeInv, TypeOK, StoreOK
<1>3. Moves({}) /\ RowsSound'
  BY Stays DEF GateInv, ReloadAndSend
<1>4. Faithful(id, row)'
  <2>1. Faithful(id, rows[id])
    BY <1>1, ReadFaithful
  <2> QED  BY <1>2, <2>1 DEF ReloadAndSend, Faithful, Settled
<1>5. Moves(K) /\ \A q \in Handlers \ {s} : Proposing(q) => task[q].id \notin K
  BY <1>3
<1> HIDE DEF K
<1>6. \A a \in Apps : FaithfulQueue(a)'
  <2>1. Serve \in Apps /\ \A a \in Apps : FaithfulQueue(a)
    BY DEF Apps, GateInv
  <2>2. CASE UNCHANGED queue
    BY <1>5, <2>1, <2>2, ShrunkFaithful
  <2>3. CASE Send(app, id, row)
    BY <1>4, <1>5, <2>1, <2>3, SentFaithful
  <2> QED  BY <1>2, <2>2, <2>3
<1>7. /\ s \in Handlers /\ task'[s].pc \in QuietPc
      /\ \A q \in Handlers \ {s} : task'[q] = task[q]
  <2>1. task \in [Handlers -> TaskState] /\ s \in Handlers
    BY DEF Handlers, TypeInv, TypeOK, TaskOK
  <2>2. PICK pc \in {"drain", "done"}, told \in {"approved", "rejected", "error"} :
           Answer(s, pc, told)
    BY DEF ReloadAndSend
  <2> QED  BY <2>1, <2>2 DEF Answer, Answered, QuietPc, TaskState
<1>8. UNCHANGED <<exec, todo, fired>> /\ \A e \in Evals : scan'[e] \subseteq scan[e]
  BY DEF ReloadAndSend
<1>9. GateInv'
  BY <1>3, <1>5, <1>6, <1>7, <1>8, QuietTask, HandlerGates
<1> QED  BY <1>3, <1>8, <1>9 DEF Drives

LEMMA SessionGates ==
    ASSUME TypeInv, GateInv, NEW s \in Sessions,
           Submit(s) \/ ReceiveDecision(s) \/ Decide(s) \/ ExitCli(s)
    PROVE  GateInv' /\ Drives
  BY SubmitGates, ReceiveGates, UpdateGates, MergeGates, ReloadGates, ExitGates DEF Decide

------------------------------------------------------------------------------
(* Executors *)

(* An executor that has an action past its mode gate. *)
Busy(app) == exec[app].pc \in {"freeze", "maintenance", "refuse", "start", "actuate", "finish"}

LEMMA BusyExec ==
    ASSUME TypeInv, GateInv, NEW app \in Apps
    PROVE  /\ exec[app].pc # "idle" => /\ exec[app].id \in Ids /\ exec[app].row \in Row
                                       /\ Faithful(exec[app].id, exec[app].row)
           /\ Busy(app) /\ exec[app].id \in GatedIds => GateOf(exec[app].row) = "open"
  BY DEF TypeInv, TypeOK, ExecOK, ExecState, ExecShapes, ExecShape, GateInv, FaithfulExec, Busy

(* An executor at work on id writes back a copy whose gate agrees with the table. *)
LEMMA ExecWrites ==
    ASSUME TypeInv, GateInv, NEW app \in Apps, NEW id \in Ids, NEW row \in Row,
           Faithful(id, row),
           rows' = [rows EXCEPT ![id] = row] \/ rows' = rows,
           \A a \in Apps \ {app} : exec'[a] = exec[a],
           \/ exec'[app].pc = "idle"
           \/ /\ exec'[app].pc # "idle" /\ exec'[app].id = id /\ Faithful(id, exec'[app].row)
              /\ id \in GatedIds /\ exec'[app].pc \notin {"followup", "persist"} =>
                    GateOf(exec'[app].row) = "open",
           UNCHANGED <<queue, task, scan, todo, fired>>
    PROVE  GateInv' /\ Drives
<1>1. Moves({}) /\ RowsSound'
  BY WroteFaithful DEF GateInv
<1>2. FaithfulExec(app)'
  <2>1. CASE exec'[app].pc = "idle"
    BY <2>1 DEF FaithfulExec
  <2>2. CASE exec'[app].pc # "idle"
    <3>1. Faithful(exec[app].id, exec[app].row)'
      BY <1>1, <2>2 DEF Moves, Faithful, Settled
    <3> QED  BY <2>2, <3>1 DEF FaithfulExec
  <2> QED  BY <2>1, <2>2
<1>3. \A a \in Apps : FaithfulQueue(a)'
  <2> DEFINE K == {}
  <2>1. Moves(K) /\ (\A a \in Apps : FaithfulQueue(a)) /\ queue' = queue
    BY <1>1 DEF GateInv
  <2> HIDE DEF K
  <2> QED  BY <2>1, ShrunkFaithful
<1>4. GateInv'
  <2>1. (\A q \in Handlers : task'[q] = task[q] \/ task'[q].pc \in QuietPc) /\ todo' \subseteq todo
    OBVIOUS
  <2> QED  BY <1>1, <1>2, <1>3, <2>1, ExecutorGates
<1> QED  BY <1>1, <1>4 DEF Drives

LEMMA DequeueGates ==
    ASSUME TypeInv, GateInv, NEW app \in Apps, Dequeue(app)
    PROVE  GateInv' /\ Drives
<1> DEFINE K == {}
<1>1. queue[app] \in Seq(Copy) /\ queue[app] # <<>>
  BY DEF Dequeue, Take, TypeInv, TypeOK, QueueOK
<1>2. PICK id \in Ids, row \in Row : id = Head(queue[app]).id /\ row = Head(queue[app]).row
                                     /\ Faithful(id, row)
  <2>1. Head(queue[app]) = queue[app][1] /\ 1 \in 1..Len(queue[app]) /\ queue[app][1] \in Copy
    BY <1>1
  <2> QED  BY <2>1 DEF Copy, GateInv, FaithfulQueue
<1>3. UNCHANGED rows
  <2>1. CASE NeedsApproval(id) /\ ~Incomplete(row) /\ Undecided(row)
    <3>1. GateOf(row) \in {"open", "shut"}
      BY <1>2, <2>1 DEF Faithful, Settled, GatedIds
    <3>2. GateOf(row) = "held"
      BY <2>1, GateValues DEF Undecided
    <3> QED  BY <3>1, <3>2
  <2>2. CASE ~(NeedsApproval(id) /\ ~Incomplete(row) /\ Undecided(row))
    BY <1>2, <2>2 DEF Dequeue
  <2> QED  BY <2>1, <2>2
<1>4. Moves({}) /\ RowsSound'
  BY <1>3, Stays DEF GateInv
<1>5. /\ \A a \in Apps \ {app} : exec'[a] = exec[a]
      /\ \/ exec'[app] = exec[app]
         \/ /\ exec'[app].id = id /\ exec'[app].row = row /\ exec'[app].pc = "freeze"
            /\ NeedsApproval(id) => Incomplete(row)
  BY <1>2 DEF Dequeue, TypeInv, TypeOK, ExecOK
<1>6. FaithfulExec(app)'
  <2>1. CASE exec'[app] = exec[app]
    BY <2>1 DEF Dequeue, FaithfulExec
  <2>2. CASE /\ exec'[app].id = id /\ exec'[app].row = row /\ exec'[app].pc = "freeze"
             /\ NeedsApproval(id) => Incomplete(row)
    <3>1. Faithful(exec[app].id, exec[app].row)'
      BY <1>2, <1>3, <2>2 DEF Faithful, Settled
    <3> QED  BY <1>2, <2>2, <3>1 DEF FaithfulExec, Faithful, GatedIds
  <2> QED  BY <1>5, <2>1, <2>2
<1>7. \A q \in Handlers : task'[q] = task[q] \/ task'[q].pc \in QuietPc
  BY DEF Dequeue, TypeInv, TypeOK, TaskOK, TaskState, QuietPc
<1>8. \A a \in Apps : FaithfulQueue(a)'
  <2>1. Moves(K) /\ (\A a \in Apps : FaithfulQueue(a))
        /\ queue' = [queue EXCEPT ![app] = Tail(queue[app])]
    BY <1>4 DEF GateInv, Dequeue, Take
  <2> HIDE DEF K
  <2> QED  BY <1>1, <2>1, ShrunkFaithful
<1>9. GateInv'
  <2>1. UNCHANGED scan /\ todo' \subseteq todo
    BY DEF Dequeue
  <2> QED  BY <1>4, <1>5, <1>6, <1>7, <1>8, <2>1, ExecutorGates
<1> QED  BY <1>4, <1>9 DEF Drives, Dequeue

(* A copy with an open gate that is closed or started stays one. *)
LEMMA OpenCopies ==
    ASSUME TypeInv, GateInv, NEW app \in Apps, Busy(app), NEW id \in Ids, id = exec[app].id
    PROVE  LET row == exec[app].row
               started == [row EXCEPT !.life = "running"]
               Sound(r) == r \in Row /\ Faithful(id, r) /\ (id \in GatedIds => GateOf(r) = "open")
           IN /\ Sound(row) /\ Sound(started)
              /\ \A result \in Results, closure \in Closures :
                    Sound(Closed(row, result, closure)) /\ Sound(Closed(started, result, closure))
<1> DEFINE row == exec[app].row
           started == [row EXCEPT !.life = "running"]
           Sound(r) == r \in Row /\ Faithful(id, r) /\ (id \in GatedIds => GateOf(r) = "open")
<1>1. Sound(row)
  BY BusyExec DEF Busy
<1>2. ASSUME NEW r \in Row, Sound(r)
      PROVE  \A result \in Results, closure \in Closures : Sound(Closed(r, result, closure))
  <2> SUFFICES ASSUME NEW result \in Results, NEW closure \in Closures
               PROVE  Sound(Closed(r, result, closure))
    OBVIOUS
  <2> QED  BY <1>2, ClosedGate, RowTypes DEF Faithful, Incomplete
<1>3. Sound(started)
  <2>1. started \in Row
    BY <1>1 DEF Row, Lifecycles
  <2>2. id \in GatedIds => GateOf(started) = "open"
    BY <1>1, KeptGate
  <2> QED  BY <1>1, <2>1, <2>2 DEF Faithful
<1> HIDE DEF row, started, Sound
<1>4. row \in Row /\ started \in Row
  BY <1>1, <1>3 DEF Sound
<1> QED  BY <1>1, <1>2, <1>3, <1>4 DEF row, started, Sound

LEMMA RecheckGates ==
    ASSUME TypeInv, GateInv, NEW app \in Apps,
           RecheckFreeze(app) \/ RecheckMaintenance(app)
    PROVE  GateInv' /\ Drives
<1>1. Busy(app) /\ exec[app] \in ExecState /\ exec \in [Apps -> ExecState]
  BY DEF RecheckFreeze, RecheckMaintenance, Busy, TypeInv, TypeOK, ExecOK
<1>2. PICK id \in Ids : id = exec[app].id
  BY <1>1, BusyExec DEF Busy
<1>3. PICK result \in Results, closure \in Closures, pc \in {"refuse", "maintenance", "start"},
           row \in Row :
         /\ row \in {exec[app].row, Closed(exec[app].row, result, closure)}
         /\ ExecStep(app, pc, row)
  BY ZenonT(60), <1>1, <1>2, OpenCopies DEF RecheckFreeze, RecheckMaintenance, Recheck, Results,
     Closures
<1>4. /\ \A a \in Apps \ {app} : exec'[a] = exec[a]
      /\ exec'[app].pc = pc /\ exec'[app].id = id /\ exec'[app].row = row
  BY <1>1, <1>2, <1>3 DEF ExecStep, ExecState
<1>5. row \in Row /\ Faithful(id, row) /\ (id \in GatedIds => GateOf(row) = "open")
  BY <1>1, <1>2, <1>3, OpenCopies
<1>6. UNCHANGED <<rows, queue, task, scan, todo, fired>>
  BY DEF RecheckFreeze, RecheckMaintenance
<1> QED  BY <1>4, <1>5, <1>6, ExecWrites

LEMMA IdleExec ==
    ASSUME TypeInv, NEW app \in Apps, ExecDone(app)
    PROVE  exec'[app].pc = "idle" /\ \A a \in Apps \ {app} : exec'[a] = exec[a]
  BY DEF ExecDone, ExecIdle, TypeInv, TypeOK, ExecOK

LEMMA StartGates ==
    ASSUME TypeInv, GateInv, NEW app \in Apps, RefuseExecution(app) \/ Start(app)
    PROVE  GateInv' /\ Drives
<1>1. Busy(app) /\ exec[app] \in ExecState /\ exec \in [Apps -> ExecState]
      /\ UNCHANGED <<queue, task, scan, todo, fired>>
  BY DEF RefuseExecution, Start, Busy, TypeInv, TypeOK, ExecOK
<1>2. PICK id \in Ids : id = exec[app].id
  BY <1>1, BusyExec DEF Busy
<1> DEFINE started == [exec[app].row EXCEPT !.life = "running"]
<1>3. /\ exec[app].row \in Row /\ Faithful(id, exec[app].row)
      /\ started \in Row /\ Faithful(id, started) /\ (id \in GatedIds => GateOf(started) = "open")
      /\ \A result \in Results, closure \in Closures :
            Closed(started, result, closure) \in Row /\ Faithful(id, Closed(started, result, closure))
  BY <1>1, <1>2, OpenCopies
<1>4. started.closure \in Closures /\ "denied_by_policy" \in Results
  BY <1>3 DEF Row, Results
<1> HIDE DEF started
<1>5. CASE RefuseExecution(app)
  <2>1. (rows' = [rows EXCEPT ![id] = exec[app].row] \/ rows' = rows) /\ ExecDone(app)
    BY <1>2, <1>5 DEF RefuseExecution, WriteOrLose, Write
  <2> QED  BY <1>1, <1>3, <2>1, IdleExec, ExecWrites
<1>6. CASE Start(app)
  <2>1. PICK row \in {started, Closed(started, "denied_by_policy", started.closure)} :
          /\ rows' = [rows EXCEPT ![id] = row] \/ rows' = rows
          /\ ExecDone(app) \/ ExecStep(app, "actuate", started)
    BY <1>2, <1>6 DEF Start, WriteOrLose, Write, started
  <2>2. row \in Row /\ Faithful(id, row)
    BY <1>3, <1>4, <2>1
  <2>3. CASE ExecDone(app)
    BY <1>1, <2>1, <2>2, <2>3, IdleExec, ExecWrites
  <2>4. CASE ExecStep(app, "actuate", started)
    <3>1. /\ \A a \in Apps \ {app} : exec'[a] = exec[a]
          /\ exec'[app].pc = "actuate" /\ exec'[app].id = id /\ exec'[app].row = started
      BY <1>1, <1>2, <2>4 DEF ExecStep, ExecState
    <3> QED  BY <1>1, <1>3, <2>1, <2>2, <3>1, ExecWrites
  <2> QED  BY <2>1, <2>3, <2>4
<1> QED  BY <1>5, <1>6

(* Only an executor whose copy, and so the table, says the gate is open acts. *)
LEMMA ActuateGates ==
    ASSUME TypeInv, GateInv, NEW app \in Apps, Actuate(app)
    PROVE  GateInv' /\ Drives
<1>1. Busy(app) /\ exec[app] \in ExecState /\ exec \in [Apps -> ExecState]
      /\ UNCHANGED <<rows, queue, scan, todo>>
  BY DEF Actuate, Busy, TypeInv, TypeOK, ExecOK
<1>2. PICK id \in Ids : id = exec[app].id
  BY <1>1, BusyExec DEF Busy
<1>3. PICK outcome \in Outcomes(id) :
        /\ ExecStep(app, "finish", Closed(exec[app].row, outcome,
                                          ClosureAfter(id, exec[app].row, outcome)))
        /\ fired' = fired \/ fired' = [fired EXCEPT ![id] = @ + 1]
  BY <1>2 DEF Actuate
<1>4. PICK row \in Row :
        /\ ExecStep(app, "finish", row)
        /\ Faithful(id, row) /\ (id \in GatedIds => GateOf(row) = "open")
  <2>1. exec[app].row \in Row
    BY <1>1 DEF ExecState
  <2>2. outcome \in Results /\ ClosureAfter(id, exec[app].row, outcome) \in Closures
    BY <2>1, OutcomeTypes
  <2> DEFINE closure == ClosureAfter(id, exec[app].row, outcome)
  <2> HIDE DEF closure
  <2>3. outcome \in Results /\ closure \in Closures
        /\ ExecStep(app, "finish", Closed(exec[app].row, outcome, closure))
    BY <1>3, <2>2 DEF closure
  <2>4. \A r \in Results, c \in Closures :
           LET new == Closed(exec[app].row, r, c)
           IN new \in Row /\ Faithful(id, new) /\ (id \in GatedIds => GateOf(new) = "open")
    BY <1>1, <1>2, OpenCopies
  <2> QED  BY <2>3, <2>4
<1>5. /\ \A a \in Apps \ {app} : exec'[a] = exec[a]
      /\ exec'[app].pc = "finish" /\ exec'[app].id = id /\ exec'[app].row = row
  BY <1>1, <1>2, <1>4 DEF ExecStep, ExecState
<1>6. FaithfulExec(app)'
  <2>1. Faithful(exec[app].id, exec[app].row)'
    BY <1>1, <1>4, <1>5 DEF Faithful, Settled
  <2> QED  BY <1>4, <1>5, <2>1 DEF FaithfulExec
<1>7. \A q \in Handlers : task'[q] = task[q] \/ task'[q].pc \in QuietPc
  BY DEF Actuate, TaskStep, TypeInv, TypeOK, TaskOK, TaskState, QuietPc
<1>8. Moves({}) /\ RowsSound'
  BY <1>1, Stays DEF GateInv
<1>9. \A a \in Apps : FaithfulQueue(a)'
  <2> DEFINE K == {}
  <2>1. Moves(K) /\ (\A a \in Apps : FaithfulQueue(a)) /\ queue' = queue
    BY <1>1, <1>8 DEF GateInv
  <2> HIDE DEF K
  <2> QED  BY <2>1, ShrunkFaithful
<1>10. GateInv'
  <2>1. UNCHANGED scan /\ todo' \subseteq todo
    BY <1>1
  <2> QED  BY <1>5, <1>6, <1>7, <1>8, <1>9, <2>1, ExecutorGates
<1>11. Drives
  <2>1. id \in GatedIds => GateOf(rows[id]) = "open"
    BY <1>1, <1>2, BusyExec DEF Busy, Faithful
  <2> QED  BY <1>1, <1>3, <1>8, <2>1 DEF Drives
<1> QED  BY <1>10, <1>11

LEMMA FinishGates ==
    ASSUME TypeInv, GateInv, NEW app \in Apps, Finish(app) \/ SeekFollowUp(app)
    PROVE  GateInv' /\ Drives
<1>1. /\ exec[app] \in ExecState /\ exec \in [Apps -> ExecState] /\ exec[app].pc # "idle"
      /\ UNCHANGED <<queue, task, scan, todo, fired>>
  BY DEF Finish, SeekFollowUp, TypeInv, TypeOK, ExecOK
<1>2. PICK id \in Ids, row \in Row : id = exec[app].id /\ row = exec[app].row /\ Faithful(id, row)
  BY <1>1, BusyExec
<1>3. /\ rows' = [rows EXCEPT ![id] = row] \/ rows' = rows
      /\ ExecDone(app) \/ \E pc \in {"followup", "persist"} : ExecStep(app, pc, row)
  BY <1>2 DEF Finish, SeekFollowUp, WriteOrLose, Write
<1>4. CASE ExecDone(app)
  BY <1>1, <1>2, <1>3, <1>4, IdleExec, ExecWrites
<1>5. CASE \E pc \in {"followup", "persist"} : ExecStep(app, pc, row)
  <2>1. /\ \A a \in Apps \ {app} : exec'[a] = exec[a]
        /\ exec'[app].pc \in {"followup", "persist"} /\ exec'[app].id = id /\ exec'[app].row = row
    BY <1>1, <1>2, <1>5 DEF ExecStep, ExecState
  <2> QED  BY <1>1, <1>2, <1>3, <2>1, ExecWrites
<1> QED  BY <1>3, <1>4, <1>5

LEMMA FollowUpGates ==
    ASSUME TypeInv, GateInv, NEW app \in Apps, PersistFollowUp(app)
    PROVE  GateInv' /\ Drives
<1> DEFINE K == {}
<1>1. PICK recheck \in Ids : /\ recheck = HealthRecheck(exec[app].id)
                            /\ recheck \notin GatedIds
  <2>1. exec[app].id \in Ids /\ Type(exec[app].id) = "restart_transport"
    BY DEF PersistFollowUp, TypeInv, ExecShapes, ExecShape
  <2> QED  BY <2>1, FollowUpIds, FollowUpsUngated
<1>2. /\ rows' = [rows EXCEPT ![recheck] = NewRow("system")] \/ rows' = rows
      /\ Send(app, recheck, NewRow("system")) \/ UNCHANGED queue
      /\ ExecDone(app) /\ UNCHANGED <<task, scan, todo, fired>>
  BY <1>1 DEF PersistFollowUp, Write
<1>3. NewRow("system") \in Row
  BY NewRowTypes
<1>4. Moves({}) /\ RowsSound'
  BY <1>1, <1>2, <1>3, WroteSame DEF GateInv
<1>5. FaithfulExec(app)' /\ \A a \in Apps \ {app} : exec'[a] = exec[a]
  BY <1>2, IdleExec DEF FaithfulExec
<1>6. Moves(K) /\ \A a \in Apps : FaithfulQueue(a)
  BY <1>4 DEF GateInv
<1> HIDE DEF K
<1>7. \A a \in Apps : FaithfulQueue(a)'
  <2>1. CASE UNCHANGED queue
    BY <1>6, <2>1, ShrunkFaithful
  <2>2. CASE Send(app, recheck, NewRow("system"))
    <3>1. Faithful(recheck, NewRow("system"))'
      BY <1>1 DEF Faithful
    <3> QED  BY <1>3, <1>6, <2>2, <3>1, SentFaithful
  <2> QED  BY <1>2, <2>1, <2>2
<1>8. GateInv'
  <2>1. (\A q \in Handlers : task'[q] = task[q] \/ task'[q].pc \in QuietPc) /\ todo' \subseteq todo
    BY <1>2
  <2> QED  BY <1>2, <1>4, <1>5, <1>7, <2>1, ExecutorGates
<1> QED  BY <1>2, <1>4, <1>8 DEF Drives

LEMMA ExecuteGates ==
    ASSUME TypeInv, GateInv, NEW app \in Apps, Execute(app)
    PROVE  GateInv' /\ Drives
  BY DequeueGates, RecheckGates, StartGates, ActuateGates, FinishGates, FollowUpGates DEF Execute

------------------------------------------------------------------------------
(* The environment, crashes and recovery *)

LEMMA StillGates ==
    ASSUME TypeInv, GateInv, UNCHANGED <<rows, queue, exec, task, scan, fired>>,
           todo' = todo \/ \A c \in todo' : Faithful(c.id, c.row)
    PROVE  GateInv' /\ Drives
<1>1. Moves({}) /\ RowsSound'
  BY Stays DEF GateInv
<1>2. \A app \in Apps : FaithfulQueue(app)' /\ FaithfulExec(app)'
  BY DEF GateInv, FaithfulQueue, FaithfulExec, Faithful, Settled
<1>3. \A p \in Handlers : ProposalApart(p)' /\ FaithfulTask(p)'
  BY DEF GateInv, ProposalApart, Proposing, FaithfulTask, Faithful, Settled
<1>4. /\ (\A e \in Evals : \A c \in scan[e] : Faithful(c.id, c.row))'
      /\ (\A c \in todo : Faithful(c.id, c.row))'
  BY DEF GateInv, Faithful, Settled
<1> QED  BY <1>1, <1>2, <1>3, <1>4 DEF GateInv, Drives

LEMMA ExpiryGates ==
    ASSUME TypeInv, GateInv, ExpireStaleApprovalActions
    PROVE  GateInv' /\ Drives
<1> DEFINE K == {id \in GatedIds : GateOf(rows[id]) = "held"}
           P == {}
           A == {}
           E == {}
<1>1. ASSUME NEW id \in GatedIds
      PROVE  /\ SoundRow(rows'[id])
             /\ \/ rows'[id] = rows[id]
                \/ GateOf(rows[id]) = "held" /\ GateOf(rows'[id]) = "shut"
  <2>1. /\ id \in Ids /\ rows[id] \in Row /\ SoundRow(rows[id])
        /\ rows'[id] = ExpiredApproval(rows[id]) \/ rows'[id] = rows[id]
    BY DEF GatedIds, TypeInv, TypeOK, StoreOK, GateInv, RowsSound, ExpireStaleApprovalActions
  <2>2. CASE rows'[id] # rows[id]
    <3>1. Undecided(rows[id])
      BY <2>1, <2>2 DEF ExpiredApproval
    <3>2. GateOf(rows[id]) = "held" /\ rows[id].okBy = "none"
      BY <2>1, <3>1, GateValues DEF Undecided, SoundRow
    <3>3. rows'[id] = Closed(rows[id], "approval_expired", "approval_expired")
      BY <2>1, <2>2, <3>1 DEF ExpiredApproval
    <3>4. "approval_expired" \in Results /\ "approval_expired" \in Closures
      BY DEF Results, Closures
    <3>5. rows'[id].life = "completed" /\ GateOf(rows'[id]) = "shut"
      BY <2>1, <3>2, <3>3, <3>4, ClosedGate
    <3> QED  BY <3>2, <3>5 DEF SoundRow, Incomplete
  <2> QED  BY <2>1, <2>2
<1>2. Moves(K) /\ RowsSound'
  BY <1>1 DEF Moves, RowsSound
<1>3. /\ \A q \in Handlers \ P : task'[q] = task[q] \/ task'[q].pc \in QuietPc
      /\ \A q \in Handlers \ P : Proposing(q) => task[q].id \notin K
      /\ \A q \in P : ProposalApart(q)' /\ FaithfulTask(q)'
      /\ \A q \in Handlers : ProposalApart(q) /\ FaithfulTask(q)
  BY DEF GateInv, ProposalApart, ExpireStaleApprovalActions
<1>4. /\ Serve \in Apps /\ queue' = queue /\ (\A a \in Apps : FaithfulQueue(a))
      /\ (\A a \in Apps \ A : exec'[a] = exec[a]) /\ (\A a \in A : FaithfulExec(a)')
      /\ (\A a \in Apps : FaithfulExec(a))
      /\ (\A e \in Evals \ E : scan'[e] \subseteq scan[e])
      /\ (\A e \in E : \A c \in scan'[e] : Faithful(c.id, c.row)')
      /\ todo' \subseteq todo /\ UNCHANGED fired
  BY DEF Apps, GateInv, ExpireStaleApprovalActions
<1>5. Drives
  BY <1>1, <1>4 DEF Drives
<1> HIDE DEF K, P, A, E
<1>6. /\ \A q \in Handlers : ProposalApart(q)' /\ FaithfulTask(q)'
      /\ \A a \in Apps : FaithfulQueue(a)'
      /\ \A a \in Apps : FaithfulExec(a)'
      /\ (\A e \in Evals : \A c \in scan[e] : Faithful(c.id, c.row))'
      /\ (\A c \in todo : Faithful(c.id, c.row))'
  <2>1. \A q \in Handlers : ProposalApart(q)' /\ FaithfulTask(q)'
    BY <1>2, <1>3, TasksKept
  <2>2. \A a \in Apps : FaithfulQueue(a)'
    BY <1>2, <1>4, ShrunkFaithful
  <2>3. \A a \in Apps : FaithfulExec(a)'
    BY <1>2, <1>4, ExecsKept
  <2>4. (\A e \in Evals : \A c \in scan[e] : Faithful(c.id, c.row))'
    BY <1>2, <1>4, ScansKept
  <2> QED  BY <1>2, <1>4, <2>1, <2>2, <2>3, <2>4, TodoKept
<1> QED  BY <1>2, <1>5, <1>6 DEF GateInv

(* A process that dies loses its channel, its executor and its handlers. *)
LEMMA DeathGates ==
    ASSUME TypeInv, GateInv, NEW app \in Apps,
           queue' = [queue EXCEPT ![app] = <<>>],
           exec' = [exec EXCEPT ![app] = ExecIdle],
           \A q \in Handlers : task'[q] = task[q] \/ task'[q].pc \in QuietPc,
           \A e \in Evals : scan'[e] \subseteq scan[e],
           todo' \subseteq todo, UNCHANGED <<rows, fired>>
    PROVE  GateInv' /\ Drives
<1> DEFINE K == {}
           P == {}
           A == {app}
           E == {}
<1>1. Moves(K) /\ RowsSound' /\ Drives
  BY Stays DEF GateInv, Drives
<1>2. /\ (\A q \in Handlers \ P : task'[q] = task[q] \/ task'[q].pc \in QuietPc)
      /\ (\A q \in Handlers \ P : Proposing(q) => task[q].id \notin K)
      /\ (\A q \in P : ProposalApart(q)' /\ FaithfulTask(q)')
      /\ (\A q \in Handlers : ProposalApart(q) /\ FaithfulTask(q))
      /\ (\A e \in Evals \ E : scan'[e] \subseteq scan[e])
      /\ (\A e \in E : \A c \in scan'[e] : Faithful(c.id, c.row)')
      /\ (\A a \in Apps : FaithfulQueue(a))
      /\ (\A a \in Apps : FaithfulExec(a))
  BY DEF GateInv
<1>3. (\A a \in Apps \ A : exec'[a] = exec[a]) /\ (\A a \in A : FaithfulExec(a)')
  BY DEF ExecIdle, FaithfulExec, TypeInv, TypeOK, ExecOK
<1> HIDE DEF K, P, A, E
<1>4. \A q \in Handlers : ProposalApart(q)' /\ FaithfulTask(q)'
  BY <1>1, <1>2, TasksKept
<1>5. \A a \in Apps : FaithfulQueue(a)'
  BY <1>1, <1>2, ShrunkFaithful
<1>6. \A a \in Apps : FaithfulExec(a)'
  BY <1>1, <1>2, <1>3, ExecsKept
<1>7. /\ (\A e \in Evals : \A c \in scan[e] : Faithful(c.id, c.row))'
      /\ (\A c \in todo : Faithful(c.id, c.row))'
  BY <1>1, <1>2, ScansKept, TodoKept
<1> QED  BY <1>1, <1>4, <1>5, <1>6, <1>7 DEF GateInv

LEMMA LossGates ==
    ASSUME TypeInv, GateInv, Crash \/ \E s \in Sessions : Kill(s)
    PROVE  GateInv' /\ Drives
<1>0. \A p \in Handlers : Lost(p).pc = "done"
  BY DEF Lost, Answered, TypeInv, TypeOK, TaskOK, TaskState
<1>1. CASE Crash
  <2>1. \A q \in Handlers : task'[q] = task[q] \/ task'[q].pc \in QuietPc
    BY <1>0, <1>1 DEF Crash, TaskIdle, QuietPc
  <2> QED  BY <1>1, <2>1, DeathGates DEF Crash, Apps
<1>2. ASSUME NEW s \in Sessions, Kill(s) PROVE GateInv' /\ Drives
  <2>1. \A q \in Handlers : task'[q] = task[q] \/ task'[q].pc \in QuietPc
    BY <1>0, <1>2 DEF Kill, QuietPc, TypeInv, TypeOK, TaskOK
  <2> QED  BY <1>2, <2>1, DeathGates DEF Kill, Apps
<1> QED  BY <1>1, <1>2

LEMMA RecoverGates ==
    ASSUME TypeInv, GateInv, Recover
    PROVE  GateInv' /\ Drives
<1>1. CASE Restart
  <2>1. \A c \in todo' : Faithful(c.id, c.row)
    <3> SUFFICES ASSUME NEW c \in todo' PROVE Faithful(c.id, c.row)
      OBVIOUS
    <3>1. PICK id \in Ids : Incomplete(rows[id]) /\ c = [id |-> id, row |-> rows[id]]
      BY <1>1 DEF Restart
    <3>2. id \in GatedIds => Settled(id)
      BY <3>1 DEF GateInv, RowsSound, SoundRow, Settled
    <3> QED  BY <3>1, <3>2, ReadFaithful
  <2> QED  BY <1>1, <2>1, StillGates DEF Restart
<1>2. CASE StartWorkers
  BY <1>2, StillGates DEF StartWorkers
<1>3. CASE RecoverRow
  <2>1. PICK c \in todo : /\ todo' = todo \ {c}
                          /\ WriteOrLose(c.id, Recovered(c.id, c.row))
                          /\ \/ exec' = exec
                             \/ exec' = [exec EXCEPT ![Serve] =
                                          [pc |-> "followup", id |-> c.id,
                                           row |-> Recovered(c.id, c.row)]]
    BY <1>3 DEF RecoverRow
  <2>2. PICK id \in Ids, old \in Row : id = c.id /\ old = c.row /\ Faithful(id, old)
    BY DEF GateInv, TypeInv, TypeOK, RecoveryOK, Copy
  <2>3. PICK row \in Row : row = Recovered(id, old) /\ Faithful(id, row)
    <3>1. Recovered(id, old) \in Row
      BY RowTypes
    <3>2. id \in GatedIds => /\ GateOf(Recovered(id, old)) = GateOf(old)
                             /\ ~Incomplete(Recovered(id, old))
      BY <2>2, KeptGate DEF Faithful, Settled
    <3> QED  BY <2>2, <3>1, <3>2 DEF Faithful
  <2>4. rows' = [rows EXCEPT ![id] = row] \/ rows' = rows
    BY <2>1, <2>2, <2>3 DEF WriteOrLose, Write
  <2>5. Moves({}) /\ RowsSound'
    BY <2>3, <2>4, WroteFaithful DEF GateInv
  <2>6. Serve \in Apps /\ \A a \in Apps \ {Serve} : exec'[a] = exec[a]
    BY <2>1 DEF Apps, TypeInv, TypeOK, ExecOK
  <2>7. FaithfulExec(Serve)'
    <3>1. CASE exec' = exec
      BY <1>3, <3>1 DEF RecoverRow, FaithfulExec
    <3>2. CASE exec' = [exec EXCEPT ![Serve] = [pc |-> "followup", id |-> c.id,
                                                row |-> Recovered(c.id, c.row)]]
      <4>1. exec'[Serve] = [pc |-> "followup", id |-> id, row |-> row]
        BY <2>2, <2>3, <2>6, <3>2 DEF TypeInv, TypeOK, ExecOK
      <4>2. Faithful(exec[Serve].id, exec[Serve].row)'
        BY <2>3, <2>5, <4>1 DEF Moves, Faithful, Settled
      <4> QED  BY <4>1, <4>2 DEF FaithfulExec
    <3> QED  BY <2>1, <3>1, <3>2
  <2>8. \A a \in Apps : FaithfulQueue(a)'
    <3> DEFINE K == {}
    <3>1. Moves(K) /\ (\A a \in Apps : FaithfulQueue(a)) /\ queue' = queue
      BY <1>3, <2>5 DEF GateInv, RecoverRow
    <3> HIDE DEF K
    <3> QED  BY <2>6, <3>1, ShrunkFaithful
  <2>9. /\ \A q \in Handlers : task'[q] = task[q] \/ task'[q].pc \in QuietPc
        /\ UNCHANGED <<scan, fired>> /\ todo' \subseteq todo
    BY <1>3, <2>1 DEF RecoverRow
  <2>10. GateInv'
    BY <2>5, <2>6, <2>7, <2>8, <2>9, ExecutorGates
  <2> QED  BY <2>5, <2>9, <2>10 DEF Drives
<1> QED  BY <1>1, <1>2, <1>3 DEF Recover

LEMMA StepGates ==
    ASSUME TypeInv, GateInv, [Next]_vars
    PROVE  GateInv' /\ Drives
<1>1. CASE UNCHANGED vars
  BY <1>1, StillGates DEF vars
<1>2. CASE Time \/ Operate
  <2>1. UNCHANGED <<rows, queue, exec, task, scan, todo, fired>>
    BY <1>2 DEF Time, Operate, ApprovalDeadlinePasses, BackoffLapses, CreateFreeze, ClearFreeze,
           ToggleWindow
  <2> QED  BY <2>1, StillGates
<1> QED  BY <1>1, <1>2, EvaluatorGates, TrustGates, SessionGates, ExecuteGates, ExpiryGates,
         LossGates, RecoverGates DEF Next

LEMMA InitGates == Init => GateInv /\ Gates!Init
<1> SUFFICES ASSUME Init PROVE GateInv /\ Gates!Init
  OBVIOUS
<1>1. /\ GateOf(NoRow) = "absent" /\ NoRow.okBy = "none" /\ NoRow.result = ""
      /\ ~Incomplete(NoRow)
  BY NewGate DEF NoRow, Incomplete
<1>2. \A id \in Ids : rows[id] = NoRow /\ fired[id] = 0
  BY DEF Init
<1>3. RowsSound
  BY <1>1, <1>2 DEF RowsSound, SoundRow, GatedIds
<1>4. \A app \in Apps : FaithfulQueue(app) /\ FaithfulExec(app)
  BY DEF Init, FaithfulQueue, FaithfulExec, ExecIdle
<1>5. \A p \in Handlers : ProposalApart(p) /\ FaithfulTask(p)
  BY DEF Init, ProposalApart, FaithfulTask, Proposing, ProposingPc, TaskIdle
<1>6. GateInv
  BY <1>3, <1>4, <1>5 DEF GateInv, Init
<1>7. Gates!Init
  <2> DEFINE Ran(id) == fired[id] > 0
  <2>1. GatedIds \subseteq Ids
    BY DEF GatedIds
  <2>2. \A id \in GatedIds : Ran(id) = FALSE
    BY <1>2, <2>1
  <2>3. [id \in GatedIds |-> GateOf(rows[id])] = [id \in GatedIds |-> "absent"]
    BY <1>1, <1>2, <2>1
  <2> HIDE DEF Ran
  <2>4. [id \in GatedIds |-> Ran(id)] = [id \in GatedIds |-> FALSE]
    BY <2>2, Zenon
  <2> QED  BY <2>3, <2>4 DEF Gates!Init, Ran
<1> QED  BY <1>6, <1>7

(* Every copy of a gated row agrees with the table on its gate, always: no write
   back of a stale copy, from the executor, the metadata merge, the revert of
   a raise or recovery, can undo a decision.                               *)
THEOREM CopiesAreFaithful == Spec => []GateInv
<1>1. Init => GateInv
  BY InitGates
<1>2. TypeInv /\ GateInv /\ [Next]_vars => GateInv'
  BY StepGates
<1> QED  BY <1>1, <1>2, TypeCorrect, PTL DEF Spec

------------------------------------------------------------------------------
(* The refinement *)

LEMMA StepRefines ==
    ASSUME TypeInv, TypeInv', GateInv, [Next]_vars
    PROVE  [Gates!Next]_<<[id \in GatedIds |-> GateOf(rows[id])],
                          [id \in GatedIds |-> fired[id] > 0]>>
<1> DEFINE g == [id \in GatedIds |-> GateOf(rows[id])]
           a == [id \in GatedIds |-> fired[id] > 0]
<1>0. Drives
  BY StepGates
<1>1. GatedIds \subseteq Ids /\ fired \in [Ids -> Nat]
  BY DEF GatedIds, TypeInv, TypeOK, HistoryOK
<1>2. CASE Moves({}) /\ UNCHANGED fired
  BY <1>2 DEF Moves
<1>3. CASE /\ UNCHANGED fired
           /\ \A id \in GatedIds :
                 \/ GateOf(rows'[id]) = GateOf(rows[id])
                 \/ GateOf(rows[id]) = "held" /\ GateOf(rows'[id]) = "shut"
  <2> DEFINE S == {id \in GatedIds : GateOf(rows'[id]) # GateOf(rows[id])}
  <2>1. S \in SUBSET GatedIds /\ \A id \in S : g[id] = "held"
    BY <1>3
  <2>2. g' = [id \in GatedIds |-> IF id \in S THEN "shut" ELSE g[id]]
    BY <1>3
  <2>3. a' = a
    BY <1>3
  <2> QED  BY <2>1, <2>2, <2>3 DEF Gates!Next, Gates!Shut
<1>4. CASE \E k \in Ids : Moves({k}) /\ UNCHANGED fired
  <2>1. PICK k \in Ids : Moves({k}) /\ UNCHANGED fired
    BY <1>4
  <2>2. a' = a /\ \A id \in GatedIds : id # k => g'[id] = g[id]
    BY <2>1 DEF Moves
  <2>3. CASE k \notin GatedIds \/ g'[k] = g[k]
    BY <2>2, <2>3
  <2>4. CASE k \in GatedIds /\ g'[k] # g[k]
    <3>1. g' = [g EXCEPT ![k] = g'[k]]
      BY <2>2, <2>4
    <3>2. CASE g[k] = "absent" /\ g'[k] \in {"held", "shut"}
      BY <2>2, <2>4, <3>1, <3>2 DEF Gates!Next, Gates!Enter
    <3>3. CASE g[k] = "held" /\ g'[k] = "open"
      BY <2>2, <2>4, <3>1, <3>3 DEF Gates!Next, Gates!Open
    <3>4. CASE g[k] = "held" /\ g'[k] = "shut"
      <4>1. {k} \in SUBSET GatedIds /\ g' = [id \in GatedIds |-> IF id \in {k} THEN "shut" ELSE g[id]]
        BY <2>2, <2>4, <3>4
      <4> QED  BY <2>2, <3>4, <4>1 DEF Gates!Next, Gates!Shut
    <3> QED  BY <2>1, <2>4, <3>2, <3>3, <3>4 DEF Moves
  <2> QED  BY <2>3, <2>4
<1>5. CASE /\ UNCHANGED rows
           /\ \E k \in Ids : /\ fired' = [fired EXCEPT ![k] = @ + 1]
                             /\ k \in GatedIds => GateOf(rows[k]) = "open"
  <2>1. PICK k \in Ids : /\ fired' = [fired EXCEPT ![k] = @ + 1]
                         /\ k \in GatedIds => GateOf(rows[k]) = "open"
    BY <1>5
  <2>2. g' = g /\ \A id \in GatedIds : fired'[id] = IF id = k THEN fired[id] + 1 ELSE fired[id]
    BY <1>1, <1>5, <2>1
  <2>3. CASE k \notin GatedIds
    BY <1>1, <2>2, <2>3
  <2>4. CASE k \in GatedIds
    <3>1. g[k] = "open"
      BY <2>1, <2>4
    <3> DEFINE Ran(id) == fired[id] > 0
               Will(id) == fired'[id] > 0
    <3>2. /\ Will(k) = TRUE
          /\ \A id \in GatedIds : id # k => Will(id) = Ran(id)
      BY <1>1, <2>2, <2>4
    <3>3. a' = [a EXCEPT ![k] = TRUE]
      <4>1. a = [id \in GatedIds |-> Ran(id)] /\ a' = [id \in GatedIds |-> Will(id)]
        OBVIOUS
      <4> HIDE DEF Ran, Will, a
      <4>2. [id \in GatedIds |-> Will(id)] = [[id \in GatedIds |-> Ran(id)] EXCEPT ![k] = TRUE]
        <5> SUFFICES ASSUME NEW id \in GatedIds
                     PROVE  Will(id) = IF id = k THEN TRUE ELSE Ran(id)
          BY Zenon
        <5> QED  BY <3>2
      <4> QED  BY <4>1, <4>2
    <3> QED  BY <2>2, <2>4, <3>1, <3>3 DEF Gates!Next, Gates!Act
  <2> QED  BY <2>3, <2>4
<1> QED  BY <1>0, <1>2, <1>3, <1>4, <1>5 DEF Drives

(* Nothing under an approval policy runs before its approval took effect, and
   what was rejected, has expired or was refused stays so.                 *)
THEOREM GateImplemented == Spec => ImplementsGate
<1>1. Init => Gates!Init
  BY InitGates
<1>2. TypeInv /\ TypeInv' /\ GateInv /\ [Next]_vars =>
        [Gates!Next]_<<[id \in GatedIds |-> GateOf(rows[id])],
                       [id \in GatedIds |-> fired[id] > 0]>>
  BY StepRefines
<1> QED  BY <1>1, <1>2, TypeCorrect, CopiesAreFaithful, PTL DEF Spec, ImplementsGate, Gates!Spec

------------------------------------------------------------------------------
(* What rows and their copies claim *)

(* Honest and Trusted of the state a step leads to, for an id and a row of this one. *)
HonestNext(id, row) ==
    /\ row.result = "executed_successfully" => id \in Ids /\ fired'[id] > 0
    /\ row.okBy = row.by => row.bypass
    /\ Undecided(row) => id \in GatedIds
TrustedNext(id, row) ==
    /\ HonestNext(id, row)
    /\ id \in GatedIds => row.by = rows'[id].by

(* A step takes back no run, and no row in the table changes its submitter. *)
Steady ==
    /\ \A id \in Ids : fired[id] > 0 => fired'[id] > 0
    /\ \A id \in GatedIds : rows[id].life # "none" => rows'[id].by = rows[id].by

(* The row claims nothing the other did not. *)
Derives(new, row) ==
    /\ new.by = row.by /\ new.okBy = row.okBy /\ new.bypass = row.bypass
    /\ Undecided(new) => Undecided(row)
    /\ new.result = "executed_successfully" => row.result = "executed_successfully"

LEMMA DerivedRows ==
    ASSUME NEW row \in Row
    PROVE  /\ \A result \in Results \ {"executed_successfully"}, closure \in Closures :
                 Derives(Closed(row, result, closure), row)
           /\ Derives(Superseded(row), row)
           /\ Derives(Rejected(row), row)
           /\ Derives(ExpiredApproval(row), row)
           /\ Derives([row EXCEPT !.closure = "expired_and_reverted"], row)
           /\ Derives([row EXCEPT !.life = "running"], row)
           /\ \A id \in Ids : Derives(Recovered(id, row), row)
<1>0. DOMAIN row = {"life", "result", "closure", "by", "okBy", "bypass"}
  BY DEF Row
<1>1. ASSUME NEW result \in Results \ {"executed_successfully"}, NEW closure \in Closures
      PROVE  Derives(Closed(row, result, closure), row)
  BY <1>0 DEF Derives, Closed, Undecided
<1>2. Derives(Superseded(row), row) /\ Derives(Rejected(row), row)
      /\ Derives(ExpiredApproval(row), row)
  BY <1>0 DEF Derives, Superseded, Rejected, ExpiredApproval, Closed, Undecided
<1>3. /\ Derives([row EXCEPT !.closure = "expired_and_reverted"], row)
      /\ Derives([row EXCEPT !.life = "running"], row)
  BY <1>0 DEF Derives, Undecided
<1>4. ASSUME NEW id \in Ids
      PROVE  Derives(Recovered(id, row), row)
  BY <1>0 DEF Derives, Recovered, Undecided
<1> QED  BY <1>1, <1>2, <1>3, <1>4

LEMMA DerivedTrust ==
    ASSUME NEW id, NEW row, NEW new, Derives(new, row)
    PROVE  /\ Honest(id, row) => Honest(id, new)
           /\ Trusted(id, row) => Trusted(id, new)
           /\ HonestNext(id, row) => HonestNext(id, new)
           /\ TrustedNext(id, row) => TrustedNext(id, new)
  BY DEF Derives, Honest, Trusted, HonestNext, TrustedNext

LEMMA NewRowHonest ==
    ASSUME NEW id
    PROVE  /\ Honest(id, NoRow) /\ HonestNext(id, NoRow)
           /\ \A by \in Operators \cup {"system"} :
                 Honest(id, NewRow(by)) /\ HonestNext(id, NewRow(by))
  BY ActionsAssumption DEF Honest, HonestNext, NoRow, NewRow, Undecided

(* A gated id that has copies has a row. *)
Present(id) == id \in Ids /\ (id \in GatedIds => rows[id].life # "none")

LEMMA SettledPresent ==
    ASSUME TypeInv, NEW id \in Ids, id \in GatedIds => GateOf(rows[id]) # "absent"
    PROVE  Present(id)
<1>1. rows[id] \in Row
  BY DEF TypeInv, TypeOK, StoreOK
<1> QED  BY <1>1, GateValues DEF Present

LEMMA FaithfulPresent ==
    ASSUME TypeInv, NEW id \in Ids, NEW row, Faithful(id, row)
    PROVE  Present(id)
<1>1. id \in GatedIds => GateOf(rows[id]) # "absent"
  BY DEF Faithful, Settled
<1> QED  BY <1>1, SettledPresent

LEMMA CopiesPresent ==
    ASSUME TypeInv, GateInv
    PROVE  /\ \A app \in Apps : \A i \in 1..Len(queue[app]) :
                 Present(queue[app][i].id) /\ queue[app][i].row \in Row
           /\ \A app \in Apps : exec[app].pc # "idle" =>
                 Present(exec[app].id) /\ exec[app].row \in Row
           /\ \A p \in Handlers : task[p].pc \in {"update", "patch", "close"} =>
                 Present(task[p].id) /\ task[p].row \in Row
           /\ \A e \in Evals : \A c \in scan[e] : Present(c.id) /\ c.row \in Row
           /\ \A c \in todo : Present(c.id) /\ c.row \in Row
<1> USE DEF TypeInv, TypeOK
<1>1. ASSUME NEW app \in Apps, NEW i \in 1..Len(queue[app])
      PROVE  Present(queue[app][i].id) /\ queue[app][i].row \in Row
  <2>1. queue[app] \in Seq(Copy)
    BY DEF QueueOK
  <2>2. queue[app][i] \in Copy
    BY <2>1
  <2>3. Faithful(queue[app][i].id, queue[app][i].row)
    BY DEF GateInv, FaithfulQueue
  <2> QED  BY <2>2, <2>3, FaithfulPresent DEF Copy
<1>2. ASSUME NEW app \in Apps, exec[app].pc # "idle"
      PROVE  Present(exec[app].id) /\ exec[app].row \in Row
  <2>1. exec[app].id \in Ids /\ exec[app].row \in Row
    BY <1>2 DEF ExecOK, ExecState, ExecShapes, ExecShape
  <2>2. Faithful(exec[app].id, exec[app].row)
    BY <1>2 DEF GateInv, FaithfulExec
  <2> QED  BY <2>1, <2>2, FaithfulPresent
<1>3. ASSUME NEW p \in Handlers, task[p].pc \in {"update", "patch", "close"}
      PROVE  Present(task[p].id) /\ task[p].row \in Row
  <2>1. task[p].id \in Ids /\ task[p].row \in Row
    BY <1>3 DEF TaskOK, TaskState, TaskShapes, TaskShape, RevertingPc, DecidingPc
  <2>2. FaithfulTask(p)
    BY DEF GateInv
  <2>3. CASE task[p].pc = "update"
    BY <2>1, <2>2, <2>3, SettledPresent DEF FaithfulTask
  <2>4. CASE task[p].pc # "update"
    <3>1. Faithful(task[p].id, task[p].row)
      BY <1>3, <2>2, <2>4 DEF FaithfulTask
    <3> QED  BY <2>1, <3>1, FaithfulPresent
  <2> QED  BY <2>3, <2>4
<1>4. ASSUME NEW e \in Evals, NEW c \in scan[e]
      PROVE  Present(c.id) /\ c.row \in Row
  <2>1. c \in Copy /\ Faithful(c.id, c.row)
    BY DEF RecoveryOK, GateInv
  <2> QED  BY <2>1, FaithfulPresent DEF Copy
<1>5. ASSUME NEW c \in todo
      PROVE  Present(c.id) /\ c.row \in Row
  <2>1. c \in Copy /\ Faithful(c.id, c.row)
    BY DEF RecoveryOK, GateInv
  <2> QED  BY <2>1, FaithfulPresent DEF Copy
<1> QED  BY <1>1, <1>2, <1>3, <1>4, <1>5

LEMMA TrustKept ==
    ASSUME Steady, NEW id, NEW row
    PROVE  /\ Honest(id, row) => HonestNext(id, row)
           /\ Present(id) /\ Trusted(id, row) => TrustedNext(id, row)
  BY DEF Steady, Honest, HonestNext, Trusted, TrustedNext, Present

(* What a step leaves alone, and what it derives from a trusted copy, stays so. *)
TrustedStore == \A id \in Ids : HonestNext(id, rows'[id])
TrustedSends == \A a \in Apps : \A i \in 1..Len(queue'[a]) :
                  \/ \E j \in 1..Len(queue[a]) : queue'[a][i] = queue[a][j]
                  \/ TrustedNext(queue'[a][i].id, queue'[a][i].row)
TrustedExecs == \A a \in Apps : \/ exec'[a] = exec[a]
                                \/ exec'[a].pc = "idle"
                                \/ TrustedNext(exec'[a].id, exec'[a].row)
PlainPc == QuietPc \cup {"merge", "reload"}
TrustedTasks == \A p \in Handlers : \/ task'[p] = task[p]
                                    \/ task'[p].pc \in PlainPc
                                    \/ TrustedTask(p)'

LEMMA HonestFrame ==
    ASSUME TypeInv, GateInv, HonestInv, Steady,
           TrustedStore, TrustedSends, TrustedExecs, TrustedTasks,
           \A e \in Evals : \A c \in scan'[e] : c \in scan[e] \/ TrustedNext(c.id, c.row),
           \A c \in todo' : c \in todo \/ TrustedNext(c.id, c.row)
    PROVE  HonestInv'
<1>1. (\A id \in Ids : Honest(id, rows[id]))'
  BY DEF TrustedStore, HonestNext, Honest
<1>2. ASSUME NEW app \in Apps
      PROVE  TrustedQueue(app)'
  <2> SUFFICES ASSUME NEW i \in 1..Len(queue'[app])
               PROVE  TrustedNext(queue'[app][i].id, queue'[app][i].row)
    BY DEF TrustedQueue, Trusted, Honest, TrustedNext, HonestNext
  <2>1. ASSUME NEW j \in 1..Len(queue[app]), queue'[app][i] = queue[app][j]
        PROVE  TrustedNext(queue'[app][i].id, queue'[app][i].row)
    <3>1. Present(queue[app][j].id) /\ Trusted(queue[app][j].id, queue[app][j].row)
      BY CopiesPresent DEF HonestInv, TrustedQueue
    <3> QED  BY <2>1, <3>1, TrustKept
  <2> QED  BY <2>1 DEF TrustedSends
<1>3. ASSUME NEW app \in Apps
      PROVE  TrustedExec(app)'
  <2> SUFFICES ASSUME exec'[app].pc # "idle", exec'[app] = exec[app]
               PROVE  TrustedNext(exec'[app].id, exec'[app].row)
    BY DEF TrustedExecs, TrustedExec, Trusted, Honest, TrustedNext, HonestNext
  <2>1. Present(exec[app].id) /\ Trusted(exec[app].id, exec[app].row)
    BY CopiesPresent DEF HonestInv, TrustedExec
  <2> QED  BY <2>1, TrustKept
<1>4. ASSUME NEW p \in Handlers
      PROVE  TrustedTask(p)'
  <2>1. CASE task'[p].pc \in PlainPc
    BY <2>1 DEF PlainPc, QuietPc, TrustedTask, Proposing, ProposingPc
  <2>2. CASE task'[p] = task[p]
    <3>1. TrustedTask(p)
      BY DEF HonestInv
    <3>2. Proposing(p) => HonestNext(task[p].id, task[p].row)
      BY <3>1, TrustKept DEF TrustedTask
    <3>3. task[p].pc \in {"update", "patch", "close"} => TrustedNext(task[p].id, task[p].row)
      BY <3>1, TrustKept, CopiesPresent DEF TrustedTask
    <3> QED  BY <2>2, <3>1, <3>2, <3>3 DEF TrustedTask, Trusted, Honest, TrustedNext, HonestNext,
                Proposing
  <2> QED  BY <2>1, <2>2 DEF TrustedTasks
<1>5. ASSUME NEW e \in Evals, NEW c \in scan'[e]
      PROVE  TrustedNext(c.id, c.row)
  <2>1. c \in scan[e] => Present(c.id) /\ Trusted(c.id, c.row)
    BY CopiesPresent DEF HonestInv
  <2> QED  BY <1>5, <2>1, TrustKept
<1>6. ASSUME NEW c \in todo'
      PROVE  TrustedNext(c.id, c.row)
  <2>1. c \in todo => Present(c.id) /\ Trusted(c.id, c.row)
    BY CopiesPresent DEF HonestInv
  <2> QED  BY <1>6, <2>1, TrustKept
<1>7. /\ (\A e \in Evals : \A c \in scan[e] : Trusted(c.id, c.row))'
      /\ (\A c \in todo : Trusted(c.id, c.row))'
  BY <1>5, <1>6 DEF Trusted, Honest, TrustedNext, HonestNext
<1> QED  BY <1>1, <1>2, <1>3, <1>4, <1>7 DEF HonestInv

LEMMA StillTrusted ==
    ASSUME TypeInv, HonestInv, UNCHANGED rows,
           \A id \in Ids : fired'[id] = fired[id] \/ fired'[id] = fired[id] + 1
    PROVE  Steady /\ TrustedStore
<1>1. Steady
  BY DEF Steady, TypeInv, TypeOK, HistoryOK
<1> QED  BY <1>1, TrustKept DEF TrustedStore, HonestInv

LEMMA WroteTrusted ==
    ASSUME TypeInv, HonestInv, UNCHANGED fired, NEW k \in Ids, NEW row,
           rows' = [rows EXCEPT ![k] = row] \/ rows' = rows,
           Honest(k, row),
           k \in GatedIds /\ rows[k].life # "none" => row.by = rows[k].by
    PROVE  Steady /\ TrustedStore
<1>1. \A id \in Ids : rows'[id] = rows[id] \/ (id = k /\ rows'[id] = row)
  BY DEF TypeInv, TypeOK, StoreOK
<1>2. Steady
  BY <1>1 DEF Steady, GatedIds
<1> QED  BY <1>1, <1>2, TrustKept DEF TrustedStore, HonestInv

LEMMA SentTrusted ==
    ASSUME TypeInv, NEW app \in Apps, NEW id, NEW row, TrustedNext(id, row), Send(app, id, row)
    PROVE  TrustedSends
<1>1. CASE HasRoom(app)
  <2> DEFINE c == [id |-> id, row |-> row]
  <2>1. queue' = [queue EXCEPT ![app] = Append(queue[app], c)]
        /\ queue \in [Apps -> Seq(Copy)]
    BY <1>1 DEF Send, TypeInv, TypeOK, QueueOK
  <2>2. \A a \in Apps : a # app => queue'[a] = queue[a]
    BY <2>1
  <2>3. queue'[app] = Append(queue[app], c) /\ queue[app] \in Seq(Copy)
    BY <2>1
  <2>4. \A i \in 1..Len(queue'[app]) :
          (i \in 1..Len(queue[app]) /\ queue'[app][i] = queue[app][i]) \/ queue'[app][i] = c
    BY <2>3
  <2> QED  BY <2>2, <2>4 DEF TrustedSends
<1>2. CASE ~HasRoom(app)
  BY <1>2 DEF Send, TrustedSends
<1> QED  BY <1>1, <1>2

LEMMA ShrunkTrusted ==
    ASSUME TypeInv, NEW app \in Apps,
           \/ queue' = queue
           \/ queue' = [queue EXCEPT ![app] = <<>>]
           \/ queue[app] # <<>> /\ queue' = [queue EXCEPT ![app] = Tail(queue[app])]
    PROVE  TrustedSends
<1>0. queue \in [Apps -> Seq(Copy)]
  BY DEF TypeInv, TypeOK, QueueOK
<1>1. \A a \in Apps : a # app => queue'[a] = queue[a]
  BY <1>0
<1>2. \/ queue'[app] = queue[app]
      \/ queue'[app] = <<>>
      \/ queue[app] # <<>> /\ queue'[app] = Tail(queue[app])
  BY <1>0
<1>3. \A i \in 1..Len(queue'[app]) : \E j \in 1..Len(queue[app]) : queue'[app][i] = queue[app][j]
  <2>1. CASE queue'[app] = queue[app]
    BY <2>1
  <2>2. CASE queue'[app] = <<>>
    BY <2>2
  <2>3. CASE queue[app] # <<>> /\ queue'[app] = Tail(queue[app])
    <3>1. queue[app] \in Seq(Copy)
      BY <1>0
    <3> SUFFICES ASSUME NEW i \in 1..Len(queue'[app])
                 PROVE  i + 1 \in 1..Len(queue[app]) /\ queue'[app][i] = queue[app][i + 1]
      OBVIOUS
    <3> QED  BY <2>3, <3>1
  <2> QED  BY <1>2, <2>1, <2>2, <2>3
<1> QED  BY <1>1, <1>3 DEF TrustedSends

(* What is left to show when a handler takes a step ... *)
LEMMA HandlerTrusted ==
    ASSUME TypeInv, GateInv, HonestInv, Steady, TrustedStore, TrustedSends, NEW p \in Handlers,
           \A q \in Handlers \ {p} : task'[q] = task[q],
           task'[p].pc \in PlainPc \/ TrustedTask(p)',
           \A e \in Evals : scan'[e] \subseteq scan[e],
           UNCHANGED <<exec, todo>>
    PROVE  HonestInv'
<1>1. TrustedExecs /\ TrustedTasks
  BY DEF TrustedExecs, TrustedTasks
<1> QED  BY <1>1, HonestFrame

(* ... and when an executor does. *)
LEMMA ExecutorTrusted ==
    ASSUME TypeInv, GateInv, HonestInv, Steady, TrustedStore, TrustedSends, NEW app \in Apps,
           \A a \in Apps \ {app} : exec'[a] = exec[a],
           \/ exec'[app] = exec[app]
           \/ exec'[app].pc = "idle"
           \/ TrustedNext(exec'[app].id, exec'[app].row),
           \A q \in Handlers : task'[q] = task[q] \/ task'[q].pc \in PlainPc,
           UNCHANGED scan, todo' \subseteq todo
    PROVE  HonestInv'
<1>1. TrustedExecs /\ TrustedTasks
  BY DEF TrustedExecs, TrustedTasks
<1> QED  BY <1>1, HonestFrame

LEMMA TaskSteps ==
    ASSUME TypeInv, NEW p \in Handlers
    PROVE  /\ \A pc : TaskStep(p, pc) =>
                 /\ task'[p].pc = pc /\ task'[p].id = task[p].id /\ task'[p].row = task[p].row
                 /\ \A q \in Handlers \ {p} : task'[q] = task[q]
           /\ \A pc, row : TaskRow(p, pc, row) =>
                 /\ task'[p].pc = pc /\ task'[p].id = task[p].id /\ task'[p].row = row
                 /\ \A q \in Handlers \ {p} : task'[q] = task[q]
           /\ Settle(p) =>
                 /\ task'[p].pc \in {"decide", "exit", "done"}
                 /\ \A q \in Handlers \ {p} : task'[q] = task[q]
           /\ \A pc, told : Answer(p, pc, told) =>
                 /\ task'[p].pc = pc
                 /\ \A q \in Handlers \ {p} : task'[q] = task[q]
<1>1. task \in [Handlers -> TaskState]
  BY DEF TypeInv, TypeOK, TaskOK
<1>2. ASSUME NEW pc, TaskStep(p, pc)
      PROVE  /\ task'[p].pc = pc /\ task'[p].id = task[p].id /\ task'[p].row = task[p].row
             /\ \A q \in Handlers \ {p} : task'[q] = task[q]
  BY <1>1, <1>2 DEF TaskStep, TaskState
<1>3. ASSUME NEW pc, NEW row, TaskRow(p, pc, row)
      PROVE  /\ task'[p].pc = pc /\ task'[p].id = task[p].id /\ task'[p].row = row
             /\ \A q \in Handlers \ {p} : task'[q] = task[q]
  BY <1>1, <1>3 DEF TaskRow, TaskState
<1>4. ASSUME Settle(p)
      PROVE  /\ task'[p].pc \in {"decide", "exit", "done"}
             /\ \A q \in Handlers \ {p} : task'[q] = task[q]
  BY <1>1, <1>4 DEF Settle, TaskState, TaskIdle
<1>5. ASSUME NEW pc, NEW told, Answer(p, pc, told)
      PROVE  /\ task'[p].pc = pc
             /\ \A q \in Handlers \ {p} : task'[q] = task[q]
  BY <1>1, <1>5 DEF Answer, Answered, TaskState
<1> QED  BY <1>2, <1>3, <1>4, <1>5

LEMMA EvaluatorHonest ==
    ASSUME TypeInv, GateInv, HonestInv, NEW e \in Evals, Evaluate(e)
    PROVE  HonestInv'
<1>0. e \in Handlers /\ Serve \in Apps
  BY DEF Handlers, Apps
<1>q. ASSUME UNCHANGED queue
      PROVE  TrustedSends
  BY <1>0, <1>q, ShrunkTrusted
<1>s. ASSUME UNCHANGED <<rows, fired>>
      PROVE  Steady /\ TrustedStore
  BY <1>s, StillTrusted
<1>1. CASE ProposeDenied(e)
  <2>1. PICK a \in Proposable :
          /\ Fresh(a)
          /\ WriteOrLose(a, Closed(NewRow("system"), "denied_by_policy", ""))
    BY <1>1 DEF ProposeDenied
  <2> DEFINE row == Closed(NewRow("system"), "denied_by_policy", "")
  <2>2. a \in Ids /\ rows[a].life = "none"
    BY <2>1, PlaneAssumption DEF Ids, Fresh
  <2>3. Derives(row, NewRow("system"))
    BY DerivedRows, NewRowTypes DEF Results, Closures
  <2>4. Honest(a, row)
    BY ZenonT(60), <2>3, DerivedTrust, NewRowHonest
  <2>5. rows' = [rows EXCEPT ![a] = row] \/ rows' = rows
    BY <2>1 DEF WriteOrLose, Write
  <2>6. UNCHANGED <<fired, queue, exec, task, scan, todo>>
    BY <1>1 DEF ProposeDenied
  <2> HIDE DEF row
  <2>7. Steady /\ TrustedStore
    BY <2>2, <2>4, <2>5, <2>6, WroteTrusted
  <2>8. TrustedExecs /\ TrustedTasks
    BY <2>6 DEF TrustedExecs, TrustedTasks
  <2> QED  BY <1>q, <2>6, <2>7, <2>8, HonestFrame
<1>2. CASE Propose(e)
  <2>1. PICK a \in Proposable :
          task' = [task EXCEPT ![e] = [TaskIdle EXCEPT !.pc = "freeze", !.op = "propose",
                                           !.id = a, !.row = NewRow("system")]]
    BY <1>2 DEF Propose
  <2>2. /\ task'[e].pc = "freeze" /\ task'[e].row = NewRow("system")
        /\ \A q \in Handlers \ {e} : task'[q] = task[q]
    BY <1>0, <2>1 DEF TaskIdle, TypeInv, TypeOK, TaskOK
  <2>3. TrustedTask(e)'
    <3>1. HonestNext(task'[e].id, task'[e].row)
      BY <2>2, NewRowHonest
    <3> QED  BY <2>2, <3>1 DEF TrustedTask, Proposing, ProposingPc, HonestNext, Honest
  <2> QED  BY <1>0, <1>2, <1>q, <1>s, <2>2, <2>3, HandlerTrusted DEF Propose
<1>3. CASE ScanExpired(e)
  <2>1. PICK quiet \in SUBSET {id \in lapsed : RevertDue(id, rows[id])} :
          scan' = [scan EXCEPT ![e] = {[id |-> id, row |-> rows[id]] : id \in quiet}]
    BY <1>3 DEF ScanExpired
  <2>2. Steady /\ TrustedStore /\ TrustedSends
    BY <1>3, <1>s, <1>q DEF ScanExpired
  <2>3. \A f \in Evals : \A c \in scan'[f] : c \in scan[f] \/ TrustedNext(c.id, c.row)
    <3> SUFFICES ASSUME NEW c \in scan'[e]
                 PROVE  TrustedNext(c.id, c.row)
      BY <2>1 DEF TypeInv, TypeOK, RecoveryOK
    <3>1. c.id \in Ids /\ c.row = rows[c.id]
      BY <2>1 DEF TypeInv, TypeOK, RecoveryOK, StoreOK
    <3>2. rows' = rows
      BY <1>3 DEF ScanExpired
    <3> QED  BY <2>2, <3>1, <3>2 DEF TrustedStore, TrustedNext
  <2>4. TrustedExecs /\ TrustedTasks /\ UNCHANGED todo
    <3>1. task'[e].pc = "scan" /\ \A q \in Handlers \ {e} : task'[q] = task[q]
      BY <1>0, <1>3, TaskSteps DEF ScanExpired
    <3> QED  BY <1>3, <3>1 DEF ScanExpired, TrustedExecs, TrustedTasks, PlainPc, QuietPc
  <2> QED  BY <2>2, <2>3, <2>4, HonestFrame
<1>4. CASE RevertSeen(e)
  <2>1. PICK c \in scan[e] :
          /\ scan' = [scan EXCEPT ![e] = @ \ {c}]
          /\ \/ UNCHANGED task
             \/ task' = [task EXCEPT ![e].pc = "close", ![e].op = "revert",
                                     ![e].id = c.id, ![e].row = c.row]
    BY <1>4 DEF RevertSeen
  <2>2. Steady /\ TrustedStore /\ TrustedSends /\ UNCHANGED <<exec, todo>>
    BY <1>4, <1>s, <1>q DEF RevertSeen
  <2>3. \A f \in Evals : scan'[f] \subseteq scan[f]
    BY <2>1 DEF TypeInv, TypeOK, RecoveryOK
  <2>4. CASE UNCHANGED task
    <3>1. TrustedExecs /\ TrustedTasks
      BY <2>2, <2>4 DEF TrustedExecs, TrustedTasks
    <3> QED  BY <2>2, <2>3, <3>1, HonestFrame
  <2>5. CASE task' = [task EXCEPT ![e].pc = "close", ![e].op = "revert",
                                  ![e].id = c.id, ![e].row = c.row]
    <3>1. /\ task'[e].pc = "close" /\ task'[e].id = c.id /\ task'[e].row = c.row
          /\ \A q \in Handlers \ {e} : task'[q] = task[q]
      BY <1>0, <2>5 DEF TypeInv, TypeOK, TaskOK, TaskState
    <3>2. TrustedNext(c.id, c.row)
      BY <2>2, CopiesPresent, TrustKept DEF HonestInv
    <3>3. TrustedTask(e)'
      BY <3>1, <3>2 DEF TrustedTask, Proposing, ProposingPc, TrustedNext, HonestNext, Trusted,
         Honest
    <3> QED  BY <1>0, <2>2, <2>3, <3>1, <3>3, HandlerTrusted
  <2> QED  BY <2>1, <2>4, <2>5
<1>5. CASE CloseReverted(e)
  <2> DEFINE id == task[e].id
             row == [task[e].row EXCEPT !.closure = "expired_and_reverted"]
  <2>1. Present(id) /\ task[e].row \in Row /\ Trusted(id, task[e].row)
    BY <1>0, <1>5, CopiesPresent DEF CloseReverted, HonestInv, TrustedTask
  <2>2. Derives(row, task[e].row)
    BY <2>1, DerivedRows
  <2>3. Trusted(id, row)
    BY <2>1, <2>2, DerivedTrust
  <2>4. rows' = [rows EXCEPT ![id] = row] \/ rows' = rows
    BY <1>5 DEF CloseReverted, WriteOrLose, Write
  <2>5. task'[e].pc = "follow" /\ \A q \in Handlers \ {e} : task'[q] = task[q]
    BY <1>0, <1>5, TaskSteps DEF CloseReverted
  <2>6. UNCHANGED <<fired, queue, exec, scan, todo>>
    BY <1>5 DEF CloseReverted
  <2> HIDE DEF id, row
  <2>7. Steady /\ TrustedStore
    BY <2>1, <2>3, <2>4, <2>6, WroteTrusted DEF Trusted, Present
  <2> QED  BY <1>0, <1>q, <2>5, <2>6, <2>7, HandlerTrusted DEF PlainPc, QuietPc
<1>6. CASE IssueReset(e)
  <2> DEFINE reset == Reset(task[e].id)
             row == NewRow("system")
  <2>1. reset \in Ids \ GatedIds
    <3>1. task[e].id \in Ids /\ Type(task[e].id) = "backoff_increase"
      BY <1>0, <1>6 DEF IssueReset, TypeInv, TaskShapes, TaskShape, RevertingPc
    <3> QED  BY <3>1, FollowUpIds, FollowUpsUngated
  <2>2. rows' = [rows EXCEPT ![reset] = row] \/ rows' = rows
    BY <1>6 DEF IssueReset, WriteOrLose, Write
  <2>3. Send(Serve, reset, row) /\ UNCHANGED <<fired, exec, scan, todo>>
    BY <1>6 DEF IssueReset
  <2>4. task'[e].pc = "scan" /\ \A q \in Handlers \ {e} : task'[q] = task[q]
    <3>1. task' = [task EXCEPT ![e] = [TaskIdle EXCEPT !.pc = "scan"]]
      BY <1>6 DEF IssueReset
    <3> QED  BY <1>0, <3>1 DEF TaskIdle, TypeInv, TypeOK, TaskOK
  <2>5. Honest(reset, row) /\ TrustedNext(reset, row)
    BY <2>1, NewRowHonest DEF TrustedNext
  <2> HIDE DEF reset, row
  <2>6. Steady /\ TrustedStore
    BY <2>1, <2>2, <2>3, <2>5, WroteTrusted
  <2>7. TrustedSends
    BY <1>0, <2>3, <2>5, SentTrusted
  <2> QED  BY <1>0, <2>3, <2>4, <2>6, <2>7, HandlerTrusted DEF PlainPc, QuietPc
<1>7. CASE EndEvaluation(e)
  <2>1. task'[e].pc = "idle" /\ \A q \in Handlers \ {e} : task'[q] = task[q]
    BY <1>0, <1>7, TaskSteps DEF EndEvaluation
  <2> QED  BY <1>0, <1>7, <1>q, <1>s, <2>1, HandlerTrusted DEF EndEvaluation, PlainPc, QuietPc
<1> QED  BY <1>1, <1>2, <1>3, <1>4, <1>5, <1>6, <1>7 DEF Evaluate

LEMMA ProposingTrusted ==
    ASSUME NEW p \in Handlers, task'[p].pc \in ProposingPc,
           HonestNext(task'[p].id, task'[p].row)
    PROVE  TrustedTask(p)'
  BY DEF TrustedTask, Proposing, ProposingPc, HonestNext, Honest

LEMMA TrustHonest ==
    ASSUME TypeInv, GateInv, HonestInv, NEW p \in Handlers, Gate(p)
    PROVE  HonestInv'
<1> DEFINE id == task[p].id
           row == task[p].row
<1>0. AppOf(p) \in Apps
  BY DEF AppOf, Apps
<1>1. /\ id \in Ids /\ row \in Row /\ Honest(id, row) /\ Proposing(p)
      /\ id \in GatedIds => rows[id].life = "none"
  <2>1. Proposing(p)
    BY DEF Gate, CheckFreeze, CheckMaintenance, Refuse, Persist, Proposing, ProposingPc
  <2>2. id \in Ids /\ row \in Row /\ rows[id] \in Row
    BY <2>1 DEF Proposing, TypeInv, TypeOK, TaskOK, TaskState, TaskShapes, TaskShape, StoreOK
  <2>3. id \in GatedIds => GateOf(rows[id]) = "absent"
    BY <2>1 DEF GateInv, ProposalApart
  <2>4. Honest(id, row)
    BY <2>1 DEF HonestInv, TrustedTask
  <2> QED  BY <2>1, <2>2, <2>3, <2>4, GateValues
<1>2. UNCHANGED <<exec, scan, todo, fired>>
  BY DEF Gate, CheckFreeze, CheckMaintenance, Refuse, Persist
<1>3. ASSUME NEW k, NEW new, k = id, Honest(k, new),
             rows' = [rows EXCEPT ![k] = new] \/ rows' = rows
      PROVE  Steady /\ TrustedStore
  BY <1>1, <1>2, <1>3, WroteTrusted
<1>4. ASSUME UNCHANGED queue
      PROVE  TrustedSends
  BY <1>0, <1>4, ShrunkTrusted
<1>5. CASE CheckFreeze(p) \/ CheckMaintenance(p)
  <2>1. UNCHANGED <<rows, queue>>
    BY <1>5 DEF CheckFreeze, CheckMaintenance
  <2>2. Steady /\ TrustedStore /\ TrustedSends
    BY <1>2, <1>4, <2>1, StillTrusted
  <2>3. PICK new \in {row, Closed(row, "denied_by_freeze", "blocked_by_freeze"),
                      Closed(row, "denied_by_maintenance", "blocked_by_maintenance")} :
          \/ TaskRow(p, "refuse", new)
          \/ new = row /\ (TaskStep(p, "maintenance") \/ TaskStep(p, "persist"))
    BY <1>5 DEF CheckFreeze, CheckMaintenance
  <2>4. HonestNext(id, new)
    <3>1. Derives(new, row)
      <4>1. /\ {"denied_by_freeze", "denied_by_maintenance"}
                  \subseteq Results \ {"executed_successfully"}
            /\ {"blocked_by_freeze", "blocked_by_maintenance"} \subseteq Closures
        BY DEF Results, Closures
      <4>2. Derives(row, row)
        BY DEF Derives
      <4> QED  BY <1>1, <4>1, <4>2, DerivedRows
    <3> QED  BY <1>1, <2>2, <3>1, DerivedTrust, TrustKept
  <2>5. /\ task'[p].pc \in ProposingPc /\ task'[p].id = id /\ task'[p].row = new
        /\ \A q \in Handlers \ {p} : task'[q] = task[q]
    BY <2>3, TaskSteps DEF ProposingPc
  <2>6. TrustedTask(p)'
    BY <2>4, <2>5, ProposingTrusted
  <2> QED  BY <1>2, <2>2, <2>5, <2>6, HandlerTrusted
<1>6. CASE Refuse(p)
  <2>1. rows' = [rows EXCEPT ![id] = row] \/ rows' = rows
    BY <1>6 DEF Refuse, WriteOrLose, Write
  <2>2. Steady /\ TrustedStore
    BY <1>1, <1>3, <2>1
  <2>3. /\ task'[p].pc \in {"decide", "exit", "done"}
        /\ \A q \in Handlers \ {p} : task'[q] = task[q]
    BY <1>6, TaskSteps DEF Refuse
  <2> QED  BY <1>2, <1>4, <1>6, <2>2, <2>3, HandlerTrusted DEF Refuse, PlainPc, QuietPc
<1>7. CASE Persist(p)
  <2>0. ASSUME Settle(p)
        PROVE  /\ task'[p].pc \in PlainPc
               /\ \A q \in Handlers \ {p} : task'[q] = task[q]
    BY <2>0, TaskSteps DEF PlainPc, QuietPc
  <2>1. CASE NeedsApproval(id) /\ Write(id, Held(row)) /\ Settle(p) /\ UNCHANGED queue
    <3>1. id \in GatedIds
      BY <1>1, <2>1 DEF GatedIds
    <3>2. Honest(id, Held(row))
      <4>1. DOMAIN row = {"life", "result", "closure", "by", "okBy", "bypass"}
        BY <1>1 DEF Row
      <4> QED  BY <1>1, <3>1, <4>1 DEF Held, Honest
    <3>3. Steady /\ TrustedStore
      BY <1>1, <1>3, <2>1, <3>2 DEF Write
    <3> QED  BY <1>2, <1>4, <2>0, <2>1, <3>3, HandlerTrusted
  <2>2. CASE /\ ~NeedsApproval(id) /\ Write(id, row) /\ Send(AppOf(p), id, row)
             /\ IF HasRoom(AppOf(p)) THEN Settle(p) ELSE TaskRow(p, "refuse", Superseded(row))
    <3>1. id \notin GatedIds
      BY <2>2 DEF GatedIds
    <3>2. Steady /\ TrustedStore
      BY <1>1, <1>3, <2>2 DEF Write
    <3>3. TrustedNext(id, row)
      BY <1>1, <3>1, <3>2, TrustKept DEF TrustedNext
    <3>4. TrustedSends
      BY <1>0, <2>2, <3>3, SentTrusted
    <3>5. /\ task'[p].pc \in PlainPc \/ TrustedTask(p)'
          /\ \A q \in Handlers \ {p} : task'[q] = task[q]
      <4>1. CASE HasRoom(AppOf(p))
        BY <2>0, <2>2, <4>1
      <4>2. CASE ~HasRoom(AppOf(p))
        <5>1. /\ task'[p].pc = "refuse" /\ task'[p].id = id /\ task'[p].row = Superseded(row)
              /\ \A q \in Handlers \ {p} : task'[q] = task[q]
          BY <2>2, <4>2, TaskSteps
        <5>2. HonestNext(id, Superseded(row))
          BY <1>1, <3>3, DerivedRows, DerivedTrust DEF TrustedNext
        <5> QED  BY <5>1, <5>2, ProposingTrusted DEF ProposingPc
      <4> QED  BY <4>1, <4>2
    <3> QED  BY <1>2, <3>2, <3>4, <3>5, HandlerTrusted
  <2>3. CASE Settle(p) /\ UNCHANGED <<rows, queue>>
    <3>1. Steady /\ TrustedStore
      BY <1>2, <2>3, StillTrusted
    <3> QED  BY <1>2, <1>4, <2>0, <2>3, <3>1, HandlerTrusted
  <2> QED  BY <1>7, <2>1, <2>2, <2>3 DEF Persist
<1> QED  BY <1>5, <1>6, <1>7 DEF Gate

(* An approval of an action its approver submitted carries the bypass: the check that
   asked for break-glass saw the submitter the row still names.            *)
LEMMA ApprovalHonest ==
    ASSUME TypeInv, GateInv, HonestInv, NEW s \in Sessions, task[s].pc = "update"
    PROVE  LET id == task[s].id
               bypass == task[s].glass /\ SodWouldBlock(id, task[s].row, ActorOf[s])
           IN Honest(id, Approved(rows[id], ActorOf[s], bypass))
              /\ Approved(rows[id], ActorOf[s], bypass).by = rows[id].by
<1> DEFINE id == task[s].id
           row == rows[id]
           actor == ActorOf[s]
           bypass == task[s].glass /\ SodWouldBlock(id, task[s].row, actor)
           new == Approved(row, actor, bypass)
<1>1. s \in Handlers /\ actor \in Operators /\ actor # "system"
  BY PlaneAssumption, ActionsAssumption DEF Handlers
<1>2. id \in Ids /\ row \in Row /\ Honest(id, row)
  BY <1>1 DEF TypeInv, TypeOK, StoreOK, TaskShapes, TaskShape, DecidingPc, HonestInv
<1>3. CASE ~Undecided(row)
  BY <1>2, <1>3 DEF Approved
<1>4. CASE Undecided(row)
  <2>1. DOMAIN row = {"life", "result", "closure", "by", "okBy", "bypass"}
    BY <1>2 DEF Row
  <2>2. /\ new.life = "pending" /\ new.result = "approved" /\ new.okBy = actor
        /\ new.bypass = bypass /\ new.by = row.by
    BY <1>4, <2>1 DEF Approved
  <2>3. id \in GatedIds
    BY <1>2, <1>4 DEF Honest
  <2>4. /\ task[s].row.by = row.by /\ Undecided(task[s].row)
        /\ SodWouldBlock(id, task[s].row, actor) => task[s].glass
    BY <1>1, <2>3 DEF HonestInv, TrustedTask, Trusted
  <2>5. actor = row.by => bypass
    BY <1>1, <2>3, <2>4 DEF SodWouldBlock, GatedIds
  <2> HIDE DEF new, bypass
  <2> QED  BY <2>2, <2>5 DEF Honest, Undecided, new, bypass
<1> QED  BY <1>3, <1>4

LEMMA DecisionHonest ==
    ASSUME TypeInv, GateInv, HonestInv, NEW s \in Sessions,
           UpdateRow(s) \/ ReadForMerge(s) \/ WriteMerged(s)
    PROVE  HonestInv'
<1> DEFINE id == task[s].id
<1>0. s \in Handlers /\ AppOf(s) \in Apps
  BY DEF Handlers, AppOf, Apps
<1>1. UNCHANGED <<queue, exec, scan, todo, fired>>
  BY DEF UpdateRow, ReadForMerge, WriteMerged
<1>2. TrustedSends
  BY <1>0, <1>1, ShrunkTrusted
<1>3. id \in Ids /\ rows[id] \in Row /\ Honest(id, rows[id])
  BY <1>0 DEF UpdateRow, ReadForMerge, WriteMerged, TypeInv, TypeOK, StoreOK, TaskShapes,
     TaskShape, DecidingPc, HonestInv
<1>4. CASE UpdateRow(s)
  <2> DEFINE bypass == task[s].glass /\ SodWouldBlock(id, task[s].row, ActorOf[s])
             new == IF task[s].op = "approve" THEN Approved(rows[id], ActorOf[s], bypass)
                    ELSE Rejected(rows[id])
  <2>1. rows' = [rows EXCEPT ![id] = new]
    BY <1>4 DEF UpdateRow, Write
  <2>2. Honest(id, new) /\ new.by = rows[id].by
    <3>1. Derives(Rejected(rows[id]), rows[id])
      BY <1>3, DerivedRows
    <3>2. Honest(id, Rejected(rows[id])) /\ Rejected(rows[id]).by = rows[id].by
      BY <1>3, <3>1, DerivedTrust DEF Derives
    <3>3. /\ Honest(id, Approved(rows[id], ActorOf[s], bypass))
          /\ Approved(rows[id], ActorOf[s], bypass).by = rows[id].by
      BY <1>4, ApprovalHonest DEF UpdateRow
    <3> HIDE DEF bypass
    <3> QED  BY <3>2, <3>3
  <2>3. \/ Answer(s, "done", "error")
        \/ task' = [task EXCEPT ![s].pc = IF MergesMetadata(s) THEN "merge" ELSE "reload",
                                ![s].hit = Undecided(rows[id])]
    BY <1>4 DEF UpdateRow
  <2>4. task'[s].pc \in PlainPc /\ \A q \in Handlers \ {s} : task'[q] = task[q]
    <3>1. CASE Answer(s, "done", "error")
      BY <1>0, <3>1, TaskSteps DEF PlainPc, QuietPc
    <3>2. CASE task' = [task EXCEPT ![s].pc = IF MergesMetadata(s) THEN "merge" ELSE "reload",
                                    ![s].hit = Undecided(rows[id])]
      BY <1>0, <3>2 DEF PlainPc, TypeInv, TypeOK, TaskOK, TaskState
    <3> QED  BY <2>3, <3>1, <3>2
  <2> HIDE DEF new
  <2>5. Steady /\ TrustedStore
    BY <1>1, <1>3, <2>1, <2>2, WroteTrusted
  <2> QED  BY <1>0, <1>1, <1>2, <2>4, <2>5, HandlerTrusted
<1>5. CASE ReadForMerge(s)
  <2>1. Steady /\ TrustedStore /\ rows' = rows
    BY <1>1, <1>5, StillTrusted DEF ReadForMerge
  <2>2. /\ task'[s].pc = "patch" /\ task'[s].id = id /\ task'[s].row = rows[id]
        /\ \A q \in Handlers \ {s} : task'[q] = task[q]
    BY <1>0, <1>5, TaskSteps DEF ReadForMerge
  <2>3. TrustedTask(s)'
    <3>1. HonestNext(id, rows[id])
      BY <1>3, <2>1, TrustKept
    <3> QED  BY <2>1, <2>2, <3>1 DEF TrustedTask, Proposing, ProposingPc, Trusted, HonestNext,
            Honest
  <2> QED  BY <1>0, <1>1, <1>2, <2>1, <2>2, <2>3, HandlerTrusted
<1>6. CASE WriteMerged(s)
  <2>1. rows' = [rows EXCEPT ![id] = task[s].row]
    BY <1>6 DEF WriteMerged, Write
  <2>2. Trusted(id, task[s].row)
    BY <1>0, <1>6 DEF WriteMerged, HonestInv, TrustedTask
  <2>3. Steady /\ TrustedStore
    BY <1>1, <1>3, <2>1, <2>2, WroteTrusted DEF Trusted
  <2>4. task'[s].pc = "reload" /\ \A q \in Handlers \ {s} : task'[q] = task[q]
    BY <1>0, <1>6, TaskSteps DEF WriteMerged
  <2> QED  BY <1>0, <1>1, <1>2, <2>3, <2>4, HandlerTrusted DEF PlainPc
<1> QED  BY <1>4, <1>5, <1>6

LEMMA SessionHonest ==
    ASSUME TypeInv, GateInv, HonestInv, NEW s \in Sessions,
           Submit(s) \/ ReceiveDecision(s) \/ Decide(s) \/ ExitCli(s)
    PROVE  HonestInv'
<1>0. s \in Handlers /\ AppOf(s) \in Apps
  BY DEF Handlers, AppOf, Apps
<1>1. CASE UpdateRow(s) \/ ReadForMerge(s) \/ WriteMerged(s)
  BY <1>1, DecisionHonest
<1>2. CASE ReloadAndSend(s)
  <2>0. task[s].id \in Ids /\ rows' = rows /\ UNCHANGED <<exec, scan, todo, fired>>
    BY <1>0, <1>2 DEF ReloadAndSend, TypeInv, TaskShapes, TaskShape, DecidingPc
  <2>1. Steady /\ TrustedStore
    BY <2>0, StillTrusted
  <2>2. TrustedNext(task[s].id, rows[task[s].id])
    BY <2>0, <2>1 DEF TrustedStore, TrustedNext
  <2>3. TrustedSends
    <3>1. CASE UNCHANGED queue
      BY <1>0, <3>1, ShrunkTrusted
    <3>2. CASE Send(AppOf(s), task[s].id, rows[task[s].id])
      BY <1>0, <2>2, <3>2, SentTrusted
    <3> QED  BY <1>2, <3>1, <3>2 DEF ReloadAndSend
  <2>4. task'[s].pc \in {"drain", "done"} /\ \A q \in Handlers \ {s} : task'[q] = task[q]
    BY <1>0, <1>2, TaskSteps DEF ReloadAndSend
  <2> QED  BY <1>0, <2>0, <2>1, <2>3, <2>4, HandlerTrusted DEF PlainPc, QuietPc
<1>3. CASE DecisionFails(s) \/ ExitCli(s)
  <2>1. UNCHANGED <<rows, exec, scan, todo, fired>>
    BY <1>3 DEF DecisionFails, ExitCli
  <2>2. Steady /\ TrustedStore
    BY <2>1, StillTrusted
  <2>3. TrustedSends
    <3>1. CASE DecisionFails(s)
      BY <1>0, <3>1, ShrunkTrusted DEF DecisionFails
    <3>2. CASE ExitCli(s)
      BY <3>2, ShrunkTrusted DEF ExitCli, Apps
    <3> QED  BY <1>3, <3>1, <3>2
  <2>4. task'[s].pc = "done" /\ \A q \in Handlers \ {s} : task'[q] = task[q]
    BY <1>0, <1>3, TaskSteps DEF DecisionFails, ExitCli
  <2> QED  BY <1>0, <2>1, <2>2, <2>3, <2>4, HandlerTrusted DEF PlainPc, QuietPc
<1>4. CASE Submit(s)
  <2>1. PICK a \in Actions \ Proposable :
          task' = [task EXCEPT ![s] =
                     [TaskIdle EXCEPT !.pc = IF NeedsApproval(a) THEN "persist" ELSE "freeze",
                                      !.op = "submit", !.id = a, !.row = NewRow(ActorOf[s])]]
    BY <1>4 DEF Submit
  <2>2. /\ task'[s].pc \in ProposingPc /\ task'[s].row = NewRow(ActorOf[s])
        /\ \A q \in Handlers \ {s} : task'[q] = task[q]
    BY <1>0, <2>1 DEF TaskIdle, TypeInv, TypeOK, TaskOK, ProposingPc
  <2>3. HonestNext(task'[s].id, task'[s].row)
    BY <2>2, NewRowHonest, PlaneAssumption
  <2>4. UNCHANGED <<rows, queue, exec, scan, todo, fired>>
    BY <1>4 DEF Submit
  <2>5. Steady /\ TrustedStore /\ TrustedSends
    BY <1>0, <2>4, StillTrusted, ShrunkTrusted
  <2>6. TrustedTask(s)'
    BY <1>0, <2>2, <2>3, ProposingTrusted
  <2> QED  BY <1>0, <2>2, <2>4, <2>5, <2>6, HandlerTrusted
<1>5. CASE ReceiveDecision(s)
  <2>1. PICK op \in Requests \cap {"approve", "reject"}, id \in Ids, glass \in Glass :
          /\ Undecided(rows[id])
          /\ SodWouldBlock(id, rows[id], ActorOf[s]) => glass
          /\ task' = [task EXCEPT ![s] =
                        [TaskIdle EXCEPT !.pc = "update", !.op = op, !.id = id,
                                         !.row = rows[id], !.glass = glass]]
    BY <1>5 DEF ReceiveDecision
  <2>2. /\ task'[s].pc = "update" /\ task'[s].id = id /\ task'[s].row = rows[id]
        /\ task'[s].glass = glass
        /\ \A q \in Handlers \ {s} : task'[q] = task[q]
    BY <1>0, <2>1 DEF TaskIdle, TypeInv, TypeOK, TaskOK
  <2>3. UNCHANGED <<rows, queue, exec, scan, todo, fired>>
    BY <1>5 DEF ReceiveDecision
  <2>4. Steady /\ TrustedStore /\ TrustedSends
    BY <1>0, <2>3, StillTrusted, ShrunkTrusted
  <2>5. HonestNext(id, rows[id])
    BY <2>3, <2>4 DEF TrustedStore
  <2>6. TrustedTask(s)'
    BY <2>1, <2>2, <2>3, <2>5 DEF TrustedTask, Proposing, ProposingPc, Trusted, HonestNext, Honest
  <2> QED  BY <1>0, <2>2, <2>3, <2>4, <2>6, HandlerTrusted
<1> QED  BY <1>1, <1>2, <1>3, <1>4, <1>5 DEF Decide

LEMMA BusyTrusted ==
    ASSUME TypeInv, GateInv, HonestInv, NEW app \in Apps, exec[app].pc # "idle"
    PROVE  /\ exec[app].id \in Ids /\ exec[app].row \in Row
           /\ Trusted(exec[app].id, exec[app].row) /\ Present(exec[app].id)
  BY CopiesPresent DEF Present, HonestInv, TrustedExec

LEMMA ExecSteps ==
    ASSUME TypeInv, NEW app \in Apps
    PROVE  /\ \A pc, row : ExecStep(app, pc, row) =>
                 /\ exec'[app].pc = pc /\ exec'[app].id = exec[app].id /\ exec'[app].row = row
                 /\ \A a \in Apps \ {app} : exec'[a] = exec[a]
           /\ ExecDone(app) =>
                 exec'[app].pc = "idle" /\ \A a \in Apps \ {app} : exec'[a] = exec[a]
<1>1. exec \in [Apps -> ExecState]
  BY DEF TypeInv, TypeOK, ExecOK
<1>2. ASSUME NEW pc, NEW row, ExecStep(app, pc, row)
      PROVE  /\ exec'[app].pc = pc /\ exec'[app].id = exec[app].id /\ exec'[app].row = row
             /\ \A a \in Apps \ {app} : exec'[a] = exec[a]
  BY <1>1, <1>2 DEF ExecStep, ExecState
<1>3. ASSUME ExecDone(app)
      PROVE  exec'[app].pc = "idle" /\ \A a \in Apps \ {app} : exec'[a] = exec[a]
  BY <1>1, <1>3 DEF ExecDone, ExecIdle
<1> QED  BY <1>2, <1>3

LEMMA DequeueHonest ==
    ASSUME TypeInv, GateInv, HonestInv, NEW app \in Apps, Dequeue(app)
    PROVE  HonestInv'
<1> DEFINE c == Head(queue[app])
           row == Closed(c.row, "denied_by_policy", "superseded")
<1>1. queue[app] # <<>> /\ queue[app] \in Seq(Copy)
      /\ queue' = [queue EXCEPT ![app] = Tail(queue[app])]
  BY DEF Dequeue, Take, TypeInv, TypeOK, QueueOK
<1>2. c = queue[app][1] /\ 1 \in 1..Len(queue[app])
  BY <1>1
<1>3. Present(c.id) /\ c.row \in Row /\ Trusted(c.id, c.row)
  BY <1>2, CopiesPresent DEF HonestInv, TrustedQueue
<1>4. Trusted(c.id, row)
  <2>1. Derives(row, c.row)
    BY <1>3, DerivedRows DEF Results, Closures
  <2> QED  BY <1>3, <2>1, DerivedTrust
<1>5. UNCHANGED <<fired, scan, todo>>
  BY DEF Dequeue
<1>6. rows' = [rows EXCEPT ![c.id] = row] \/ rows' = rows
  BY DEF Dequeue, WriteOrLose, Write
<1>7. Steady /\ TrustedStore
  BY <1>3, <1>4, <1>5, <1>6, WroteTrusted DEF Trusted, Present
<1>8. TrustedSends
  BY <1>1, ShrunkTrusted
<1>9. /\ \A a \in Apps \ {app} : exec'[a] = exec[a]
      /\ \/ exec'[app] = exec[app]
         \/ exec'[app].id = c.id /\ exec'[app].row = c.row
  BY DEF Dequeue, TypeInv, TypeOK, ExecOK
<1>10. TrustedNext(c.id, c.row)
  BY <1>3, <1>7, TrustKept
<1>11. \A q \in Handlers : task'[q] = task[q] \/ task'[q].pc = "exit"
  BY DEF Dequeue, TypeInv, TypeOK, TaskOK, TaskState
<1> HIDE DEF c, row
<1> QED  BY <1>5, <1>7, <1>8, <1>9, <1>10, <1>11, ExecutorTrusted DEF PlainPc, QuietPc

LEMMA RecheckHonest ==
    ASSUME TypeInv, GateInv, HonestInv, NEW app \in Apps,
           RecheckFreeze(app) \/ RecheckMaintenance(app)
    PROVE  HonestInv'
<1> DEFINE id == exec[app].id
           row == exec[app].row
<1>1. UNCHANGED <<rows, queue, task, scan, todo, fired>>
  BY DEF RecheckFreeze, RecheckMaintenance
<1>2. /\ id \in Ids /\ row \in Row /\ Trusted(id, row) /\ Present(id)
  BY BusyTrusted DEF RecheckFreeze, RecheckMaintenance
<1>3. PICK new \in {row, Closed(row, "denied_by_freeze", "blocked_by_freeze"),
                    Closed(row, "denied_by_maintenance", "blocked_by_maintenance")} :
        \E pc \in ExecPc : ExecStep(app, pc, new)
  BY DEF RecheckFreeze, RecheckMaintenance, Recheck, ExecPc
<1>4. Derives(new, row)
  <2>1. /\ {"denied_by_freeze", "denied_by_maintenance"}
              \subseteq Results \ {"executed_successfully"}
        /\ {"blocked_by_freeze", "blocked_by_maintenance"} \subseteq Closures
    BY DEF Results, Closures
  <2>2. Derives(row, row)
    BY DEF Derives
  <2> QED  BY <1>2, <2>1, <2>2, DerivedRows
<1>5. Steady /\ TrustedStore /\ TrustedSends
  BY <1>1, StillTrusted, ShrunkTrusted
<1>6. TrustedNext(id, new)
  BY <1>2, <1>4, <1>5, DerivedTrust, TrustKept
<1>7. /\ exec'[app].id = id /\ exec'[app].row = new
      /\ \A a \in Apps \ {app} : exec'[a] = exec[a]
  BY <1>3, ExecSteps
<1> QED  BY <1>1, <1>5, <1>6, <1>7, ExecutorTrusted

LEMMA StartHonest ==
    ASSUME TypeInv, GateInv, HonestInv, NEW app \in Apps, RefuseExecution(app) \/ Start(app)
    PROVE  HonestInv'
<1> DEFINE id == exec[app].id
           row == exec[app].row
           started == [row EXCEPT !.life = "running"]
           denied == Closed(started, "denied_by_policy", started.closure)
<1>1. UNCHANGED <<queue, task, scan, todo, fired>>
  BY DEF RefuseExecution, Start
<1>2. id \in Ids /\ row \in Row /\ Trusted(id, row) /\ Present(id)
  BY BusyTrusted DEF RefuseExecution, Start
<1>3. PICK new \in {row, started, denied} :
        /\ rows' = [rows EXCEPT ![id] = new] \/ rows' = rows
        /\ ExecDone(app) \/ ExecStep(app, "actuate", new)
  BY DEF RefuseExecution, Start, WriteOrLose, Write
<1>4. Trusted(id, new)
  <2>1. started \in Row /\ Derives(started, row)
    BY <1>2, DerivedRows DEF Row, Lifecycles
  <2>2. started.closure \in Closures /\ "denied_by_policy" \in Results \ {"executed_successfully"}
    BY <2>1 DEF Row, Results
  <2>3. Derives(denied, started)
    <3> HIDE DEF started
    <3> QED  BY <2>1, <2>2, DerivedRows
  <2> HIDE DEF started, denied
  <2> QED  BY <1>2, <2>1, <2>3, DerivedTrust
<1> HIDE DEF started, denied
<1>5. Steady /\ TrustedStore
  BY <1>1, <1>2, <1>3, <1>4, WroteTrusted DEF Trusted
<1>6. TrustedSends
  BY <1>1, ShrunkTrusted
<1>7. TrustedNext(id, new)
  BY <1>2, <1>4, <1>5, TrustKept
<1>8. /\ \A a \in Apps \ {app} : exec'[a] = exec[a]
      /\ exec'[app].pc = "idle" \/ (exec'[app].id = id /\ exec'[app].row = new)
  BY <1>3, ExecSteps
<1> QED  BY <1>1, <1>5, <1>6, <1>7, <1>8, ExecutorTrusted

(* The only step that writes a success is the one that runs the actuator. *)
LEMMA ActuateHonest ==
    ASSUME TypeInv, GateInv, HonestInv, NEW app \in Apps, Actuate(app)
    PROVE  HonestInv'
<1> DEFINE id == exec[app].id
           row == exec[app].row
<1>1. UNCHANGED <<rows, queue, scan, todo>>
  BY DEF Actuate
<1>2. id \in Ids /\ row \in Row /\ Trusted(id, row) /\ Present(id)
  BY BusyTrusted DEF Actuate
<1>3. PICK outcome \in Outcomes(id) :
        /\ ExecStep(app, "finish", Closed(row, outcome, ClosureAfter(id, row, outcome)))
        /\ fired' = IF outcome = "failed_terminal" THEN fired ELSE [fired EXCEPT ![id] = @ + 1]
  BY DEF Actuate
<1> DEFINE new == Closed(row, outcome, ClosureAfter(id, row, outcome))
<1>4. /\ \A k \in Ids : fired'[k] = fired[k] \/ fired'[k] = fired[k] + 1
      /\ outcome = "executed_successfully" => fired'[id] > 0
  BY <1>2, <1>3 DEF TypeInv, TypeOK, HistoryOK
<1>5. Steady /\ TrustedStore /\ TrustedSends
  BY <1>1, <1>4, StillTrusted, ShrunkTrusted
<1>6. TrustedNext(id, new)
  <2>1. DOMAIN row = {"life", "result", "closure", "by", "okBy", "bypass"}
    BY <1>2 DEF Row
  <2>2. /\ new.life = "completed" /\ new.result = outcome /\ new.by = row.by
        /\ new.okBy = row.okBy /\ new.bypass = row.bypass
    BY <2>1 DEF Closed
  <2>3. TrustedNext(id, row)
    BY <1>2, <1>5, TrustKept
  <2> HIDE DEF new
  <2> QED  BY <1>2, <1>4, <2>2, <2>3 DEF TrustedNext, HonestNext, Undecided
<1> HIDE DEF new
<1>7. /\ exec'[app].id = id /\ exec'[app].row = new
      /\ \A a \in Apps \ {app} : exec'[a] = exec[a]
  BY <1>3, ExecSteps DEF new
<1>8. \A q \in Handlers : task'[q] = task[q] \/ task'[q].pc = "decide"
  <2>1. CASE UNCHANGED task
    BY <2>1
  <2>2. CASE \E e \in Evals : TaskStep(e, "decide")
    BY <2>2, TaskSteps DEF Handlers
  <2> QED  BY <2>1, <2>2 DEF Actuate
<1> QED  BY <1>1, <1>5, <1>6, <1>7, <1>8, ExecutorTrusted DEF PlainPc, QuietPc

LEMMA FollowUpHonest ==
    ASSUME TypeInv, GateInv, HonestInv, NEW app \in Apps,
           Finish(app) \/ SeekFollowUp(app) \/ PersistFollowUp(app)
    PROVE  HonestInv'
<1> DEFINE id == exec[app].id
           row == exec[app].row
<1>1. UNCHANGED <<task, scan, todo, fired>>
  BY DEF Finish, SeekFollowUp, PersistFollowUp
<1>2. id \in Ids /\ row \in Row /\ Trusted(id, row) /\ Present(id)
  BY BusyTrusted DEF Finish, SeekFollowUp, PersistFollowUp
<1>3. ASSUME Steady
      PROVE  TrustedNext(id, row)
  BY <1>2, <1>3, TrustKept
<1>4. ASSUME NEW pc, ExecStep(app, pc, row) \/ ExecDone(app)
      PROVE  /\ \A a \in Apps \ {app} : exec'[a] = exec[a]
             /\ exec'[app].pc = "idle" \/ (exec'[app].id = id /\ exec'[app].row = row)
  BY <1>4, ExecSteps
<1>5. CASE Finish(app)
  <2>1. rows' = [rows EXCEPT ![id] = row] \/ rows' = rows
    BY <1>5 DEF Finish, WriteOrLose, Write
  <2>2. Steady /\ TrustedStore
    BY <1>1, <1>2, <2>1, WroteTrusted DEF Trusted
  <2>3. TrustedSends
    BY <1>5, ShrunkTrusted DEF Finish
  <2>4. ExecStep(app, "followup", row) \/ ExecDone(app)
    BY <1>5 DEF Finish
  <2> QED  BY <1>1, <1>3, <1>4, <2>2, <2>3, <2>4, ExecutorTrusted
<1>6. CASE SeekFollowUp(app)
  <2>1. UNCHANGED <<rows, queue>>
    BY <1>6 DEF SeekFollowUp
  <2>2. Steady /\ TrustedStore /\ TrustedSends
    BY <1>1, <2>1, StillTrusted, ShrunkTrusted
  <2>3. ExecStep(app, "persist", row) \/ ExecDone(app)
    BY <1>6 DEF SeekFollowUp
  <2> QED  BY <1>1, <1>3, <1>4, <2>2, <2>3, ExecutorTrusted
<1>7. CASE PersistFollowUp(app)
  <2> DEFINE recheck == HealthRecheck(id)
             new == NewRow("system")
  <2>1. recheck \in Ids \ GatedIds
    <3>1. Type(id) = "restart_transport"
      BY <1>7 DEF PersistFollowUp, TypeInv, ExecShapes, ExecShape
    <3> QED  BY <1>2, <3>1, FollowUpIds, FollowUpsUngated
  <2>2. /\ rows' = [rows EXCEPT ![recheck] = new] \/ rows' = rows
        /\ Send(app, recheck, new) \/ UNCHANGED queue
        /\ ExecDone(app)
    BY <1>7 DEF PersistFollowUp, Write
  <2>3. Honest(recheck, new) /\ TrustedNext(recheck, new)
    BY <2>1, NewRowHonest DEF TrustedNext
  <2> HIDE DEF recheck, new
  <2>4. Steady /\ TrustedStore
    BY <1>1, <2>1, <2>2, <2>3, WroteTrusted
  <2>5. TrustedSends
    BY <2>2, <2>3, SentTrusted, ShrunkTrusted
  <2>6. exec'[app].pc = "idle" /\ \A a \in Apps \ {app} : exec'[a] = exec[a]
    BY <2>2, ExecSteps
  <2> QED  BY <1>1, <2>4, <2>5, <2>6, ExecutorTrusted
<1> QED  BY <1>5, <1>6, <1>7

LEMMA ElsewhereHonest ==
    ASSUME TypeInv, GateInv, HonestInv,
           BeginEvaluation \/ ExpireStaleApprovalActions \/ Time \/ Operate
    PROVE  HonestInv'
<1>1. UNCHANGED <<queue, exec, scan, todo, fired>>
  BY DEF BeginEvaluation, ExpireStaleApprovalActions, Time, ApprovalDeadlinePasses, BackoffLapses,
     Operate, CreateFreeze, ClearFreeze, ToggleWindow
<1>2. TrustedSends /\ TrustedExecs
  BY <1>1, ShrunkTrusted DEF TrustedExecs, Apps
<1>3. TrustedTasks
  <2>1. CASE BeginEvaluation
    <3>1. Ticker \in Handlers /\ TaskStep(Ticker, "decide")
      BY <2>1 DEF BeginEvaluation, Handlers
    <3> QED  BY <3>1, TaskSteps DEF TrustedTasks, PlainPc, QuietPc
  <2>2. CASE UNCHANGED task
    BY <2>2 DEF TrustedTasks
  <2> QED  BY <2>1, <2>2 DEF ExpireStaleApprovalActions, Time, ApprovalDeadlinePasses,
              BackoffLapses, Operate, CreateFreeze, ClearFreeze, ToggleWindow
<1>4. Steady /\ TrustedStore
  <2>1. CASE UNCHANGED rows
    BY <1>1, <2>1, StillTrusted
  <2>2. CASE ExpireStaleApprovalActions
    <3>1. ASSUME NEW id \in Ids
          PROVE  Derives(rows'[id], rows[id])
      <4>1. rows[id] \in Row
        BY DEF TypeInv, TypeOK, StoreOK
      <4>2. rows'[id] = rows[id] \/ rows'[id] = ExpiredApproval(rows[id])
        BY <2>2 DEF ExpireStaleApprovalActions
      <4>3. Derives(rows[id], rows[id])
        BY DEF Derives
      <4> QED  BY <4>1, <4>2, <4>3, DerivedRows
    <3>2. Steady
      BY <1>1, <3>1 DEF Steady, Derives, GatedIds
    <3>3. ASSUME NEW id \in Ids
          PROVE  HonestNext(id, rows'[id])
      BY <3>1, <3>2, TrustKept, DerivedTrust DEF HonestInv
    <3> QED  BY <3>2, <3>3 DEF TrustedStore
  <2> QED  BY <2>1, <2>2 DEF BeginEvaluation, Time, ApprovalDeadlinePasses, BackoffLapses,
              Operate, CreateFreeze, ClearFreeze, ToggleWindow
<1> QED  BY <1>1, <1>2, <1>3, <1>4, HonestFrame

LEMMA DeathHonest ==
    ASSUME TypeInv, GateInv, HonestInv, Crash \/ \E s \in Sessions : Kill(s)
    PROVE  HonestInv'
<1>1. PICK app \in Apps :
        /\ queue' = [queue EXCEPT ![app] = <<>>]
        /\ exec' = [exec EXCEPT ![app] = ExecIdle]
  BY DEF Crash, Kill, Apps
<1>2. UNCHANGED <<rows, fired>>
  BY DEF Crash, Kill
<1>3. Steady /\ TrustedStore /\ TrustedSends
  BY <1>1, <1>2, StillTrusted, ShrunkTrusted
<1>4. TrustedExecs
  BY <1>1 DEF TrustedExecs, ExecIdle, TypeInv, TypeOK, ExecOK
<1>5. TrustedTasks
  <2>1. \A p \in Handlers : Lost(p).pc = "done"
    BY DEF Lost, Answered, TypeInv, TypeOK, TaskOK, TaskState
  <2>2. \A p \in Handlers : task'[p] = task[p] \/ task'[p] = TaskIdle \/ task'[p] = Lost(p)
    <3>1. CASE Crash
      BY <3>1 DEF Crash
    <3>2. CASE \E s \in Sessions : Kill(s)
      BY <3>2 DEF Kill, TypeInv, TypeOK, TaskOK
    <3> QED  BY <3>1, <3>2
  <2> QED  BY <2>1, <2>2 DEF TrustedTasks, TaskIdle, PlainPc, QuietPc
<1>6. /\ \A e \in Evals : scan'[e] \subseteq scan[e]
      /\ todo' \subseteq todo
  BY DEF Crash, Kill
<1> QED  BY <1>3, <1>4, <1>5, <1>6, HonestFrame

LEMMA RecoverHonest ==
    ASSUME TypeInv, GateInv, HonestInv, Recover
    PROVE  HonestInv'
<1>0. Serve \in Apps
  BY DEF Apps
<1>1. UNCHANGED <<queue, task, scan, fired>>
  BY DEF Recover, Restart, RecoverRow, StartWorkers
<1>2. TrustedSends /\ TrustedTasks
  BY <1>0, <1>1, ShrunkTrusted DEF TrustedTasks
<1>3. CASE Restart \/ StartWorkers
  <2>1. UNCHANGED <<rows, exec>>
    BY <1>3 DEF Restart, StartWorkers
  <2>2. Steady /\ TrustedStore /\ TrustedExecs
    BY <1>1, <2>1, StillTrusted DEF TrustedExecs
  <2>3. \A c \in todo' : c \in todo \/ TrustedNext(c.id, c.row)
    <3>1. \A c \in todo' : c \in todo \/ (c.id \in Ids /\ c.row = rows[c.id])
      BY <1>3 DEF Restart, StartWorkers
    <3> QED  BY <2>1, <2>2, <3>1 DEF TrustedStore, TrustedNext
  <2> QED  BY <1>1, <1>2, <2>2, <2>3, HonestFrame
<1>4. CASE RecoverRow
  <2>1. PICK c \in todo :
          /\ todo' = todo \ {c}
          /\ WriteOrLose(c.id, Recovered(c.id, c.row))
          /\ exec' = IF Type(c.id) = "restart_transport"
                     THEN [exec EXCEPT ![Serve] = [pc |-> "followup", id |-> c.id,
                                                   row |-> Recovered(c.id, c.row)]]
                     ELSE exec
    BY <1>4 DEF RecoverRow
  <2> DEFINE row == Recovered(c.id, c.row)
  <2>2. c.id \in Ids /\ Present(c.id) /\ Trusted(c.id, row)
    <3>1. Present(c.id) /\ c.row \in Row /\ Trusted(c.id, c.row)
      BY CopiesPresent DEF HonestInv
    <3>2. Derives(row, c.row)
      BY <3>1, DerivedRows DEF Present
    <3> QED  BY <3>1, <3>2, DerivedTrust DEF Present
  <2>3. rows' = [rows EXCEPT ![c.id] = row] \/ rows' = rows
    BY <2>1 DEF WriteOrLose, Write
  <2>4. /\ \A a \in Apps \ {Serve} : exec'[a] = exec[a]
        /\ exec'[Serve] = exec[Serve] \/ (exec'[Serve].id = c.id /\ exec'[Serve].row = row)
    BY <1>0, <2>1 DEF TypeInv, TypeOK, ExecOK
  <2> HIDE DEF row
  <2>5. Steady /\ TrustedStore
    BY <1>1, <2>2, <2>3, WroteTrusted DEF Trusted
  <2>6. TrustedNext(c.id, row)
    BY <2>2, <2>5, TrustKept
  <2> QED  BY <1>0, <1>1, <1>2, <2>1, <2>4, <2>5, <2>6, ExecutorTrusted
<1> QED  BY <1>3, <1>4 DEF Recover

LEMMA StepHonest == TypeInv /\ GateInv /\ HonestInv /\ [Next]_vars => HonestInv'
<1> SUFFICES ASSUME TypeInv, GateInv, HonestInv, [Next]_vars PROVE HonestInv'
  OBVIOUS
<1>1. CASE UNCHANGED vars
  <2>1. /\ Steady /\ TrustedStore /\ UNCHANGED <<queue, exec, task, scan, todo>>
    BY <1>1, StillTrusted DEF vars
  <2>2. TrustedSends /\ TrustedExecs /\ TrustedTasks
    BY <2>1 DEF TrustedSends, TrustedExecs, TrustedTasks
  <2> QED  BY <2>1, <2>2, HonestFrame
<1>2. CASE Next
  BY <1>2, EvaluatorHonest, TrustHonest, SessionHonest, DequeueHonest, RecheckHonest, StartHonest,
     ActuateHonest, FollowUpHonest, ElsewhereHonest, DeathHonest, RecoverHonest DEF Next, Execute
<1> QED  BY <1>1, <1>2

LEMMA InitHonest == Init => HonestInv
<1> SUFFICES ASSUME Init PROVE HonestInv
  OBVIOUS
<1>1. \A id \in Ids : Honest(id, rows[id])
  BY NewRowHonest DEF Init
<1>2. \A app \in Apps : TrustedQueue(app) /\ TrustedExec(app)
  BY DEF Init, TrustedQueue, TrustedExec, ExecIdle
<1>3. \A p \in Handlers : TrustedTask(p)
  BY DEF Init, TrustedTask, TaskIdle, Proposing, ProposingPc
<1> QED  BY <1>1, <1>2, <1>3 DEF Init, HonestInv

(* Whatever process kept a copy of a row, and however late it writes it back, no row
   claims a success that did not happen, names another submitter or waits for an
   approval its policy does not ask for.                                   *)
THEOREM CopiesAreHonest == Spec => []HonestInv
<1>1. TypeInv /\ GateInv /\ HonestInv /\ [Next]_vars => HonestInv'
  BY StepHonest
<1> QED  BY <1>1, InitHonest, TypeCorrect, CopiesAreFaithful, PTL DEF Spec

(* A row reports success only of an action whose actuator ran. *)
THEOREM SuccessHappened == Spec => []SuccessIsTrue
<1>1. HonestInv => SuccessIsTrue
  BY DEF HonestInv, Honest, SuccessIsTrue
<1> QED  BY <1>1, CopiesAreHonest, PTL

(* An operator's approval of their own action is marked as a bypass in the table for
   good, whatever stale copies of the row are written over it.             *)
THEOREM DutiesSeparated == Spec => []SelfApprovalIsMarked
<1>1. HonestInv => SelfApprovalIsMarked
  BY DEF HonestInv, Honest, SelfApprovalIsMarked
<1> QED  BY <1>1, CopiesAreHonest, PTL
==============================================================================
