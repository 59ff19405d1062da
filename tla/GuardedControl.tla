---------------------------- MODULE GuardedControl ----------------------------
(***************************************************************************)
(* How the guarded control decides.  An evaluation reads the rows that may *)
(* be active, then takes one candidate after the other: it reads what the  *)
(* candidate's target has been through (once for each target) and what the *)
(* window holds, and decides.  Only when all are decided are the rows      *)
(* written and the allowed ones put into the executor's queue.  The ticker *)
(* and the health rechecks the executor starts each evaluate for           *)
(* themselves.  What becomes of a queued action (freezes, leases, crashes, *)
(* reverts) is in ControlPlane; here it is started and ends.               *)
(***************************************************************************)
EXTENDS MeshEvidence, Integers

CONSTANTS
    Views,              \* what an evaluation may see
    Evaluator,          \* evaluations that may be under way
    ControlMode, EmergencyDisable, AllowedActions, MaxActions, Cooldown, Window,
    MinConfidence, AllowMesh, AllowRestart, AllowSuppression, RestartCap,
    ManualOnly,         \* transports with manual_only or suppress_auto_actions
    FreezeRouting,      \* transports with freeze_routing
    ReadsFail,          \* whether the statements of an evaluation may fail
    MaxLimit,           \* cfg.Intelligence.Queries.MaxLimit
    ControlQueue,       \* cfg.Control.MaxQueue
    Pace, Horizon,      \* bounds: the seconds the clock moves by, and its last
    MaxRows             \* bound: rows when an evaluation begins

ASSUME GuardAssumption ==
          /\ \A v \in Views : IsView(v)
          /\ ControlMode \in {"disabled", "advisory", "guarded_auto"}
          /\ EmergencyDisable \in BOOLEAN
          /\ {MaxActions, Cooldown, Window, MinConfidence, RestartCap, MaxLimit,
              ControlQueue, Pace, Horizon, MaxRows} \subseteq Nat
          /\ {AllowMesh, AllowRestart, AllowSuppression, ReadsFail} \subseteq BOOLEAN
          /\ ManualOnly \subseteq Transport /\ FreezeRouting \subseteq Transport

VARIABLES
    rows,       \* control_actions, in the order they were inserted
    now,        \* seconds
    queue,      \* indexes of rows
    running,    \* the row the executor is at, 0 if none
    eval,       \* [Evaluator -> local state of evaluateControl]
    unread      \* history: targets and times whose look-up for the cooldown failed

guardVars == <<rows, now, queue, running, eval, unread>>

Executed == {"executed_successfully", "executed_noop"}
Evaluation(pc, at, view, active, left, past, decided, row) ==
    [pc |-> pc, at |-> at, view |-> view, active |-> active, left |-> left,
     past |-> past, decided |-> decided, row |-> row]
NoEvaluation == Evaluation("idle", 0, {}, {}, {}, <<>>, <<>>, 0)
Evaluating(at, view, active, left, past, decided) ==
    Evaluation("deciding", at, view, active, left, past, decided, 0)
ToWrite(at, decided, row) == Evaluation("writing", at, {}, {}, {}, <<>>, decided, row)

GuardInit ==
    /\ rows = <<>>
    /\ now = 0
    /\ queue = <<>>
    /\ running = 0
    /\ eval = [e \in Evaluator |-> NoEvaluation]
    /\ unread = {}

------------------------------------------------------------------------------
(* The table. *)

Opened(c, at, life, result) ==
    [action |-> c, created |-> at, life |-> life, result |-> result, done |-> -1]
NewRow(c, at) == Opened(c, at, "pending", "")

Moved(row, life, result) == Opened(row.action, row.created, life, result)
Closed(row, result, at) ==
    [action |-> row.action, created |-> row.created, life |-> "completed", result |-> result, done |-> at]

(* ControlActions: of the rows created since then the newest, as many as the
   limit allows; rows of one second come in any order.                     *)
Newest(since, target, limit) ==
    LET hits == {i \in DOMAIN rows : /\ rows[i].created >= since
                                     /\ target \in {NoTarget, rows[i].action.target}}
        n == IF Cardinality(hits) < limit THEN Cardinality(hits) ELSE limit
    IN  {K \in SUBSET hits : /\ Cardinality(K) = n
                             /\ \A i \in K, j \in hits \ K : rows[i].created >= rows[j].created}

Lifetime(type) ==
    CASE type = "temporarily_deprioritize_transport" -> 900
      [] type \in {"backoff_increase", "temporarily_suppress_noisy_source"} -> 600
      [] OTHER -> 0

(* One without an expiry is active only if it is reversible, and none is. *)
IsEffectivelyActive(row, at) ==
    /\ row.result = "executed_successfully"
    /\ Lifetime(row.action.type) > 0 /\ at < row.created + Lifetime(row.action.type)

IsInFlight(row) == row.life \in {"pending", "running"}

------------------------------------------------------------------------------
(* The checks of a candidate c. *)

MaxActionsPerWindow == IF MaxActions > 100 THEN 100 ELSE MaxActions
CooldownPerTarget == IF Cooldown \in 1..9 THEN 10 ELSE Cooldown

IsMeshLevel(c) == c.segment # NoSegment \/ c.type = "temporarily_deprioritize_transport"

PolicyPass(c) ==
    /\ c.type \in AllowedActions
    /\ c.type = "restart_transport" => AllowRestart
    /\ c.type = "temporarily_suppress_noisy_source" => AllowSuppression
    /\ IsMeshLevel(c) => AllowMesh

OverrideActive(c) ==
    \/ c.target \in ManualOnly
    \/ c.type = "temporarily_deprioritize_transport" /\ c.target \in FreezeRouting

ConflictingActiveAction(active, c, at) ==
    \E row \in active :
        /\ row.action.target \in {NoTarget, c.target}
        /\ IsEffectivelyActive(row, at) \/ IsInFlight(row)
        /\ \/ row.action.type = c.type
           \/ row.action.type = "restart_transport" /\ c.type = "resubscribe_transport"

(* Mutant: only what succeeded is looked at. *)
CooldownAfterSuccess(past, c, at) ==
    c.target = NoTarget \/ CooldownPerTarget = 0 \/
    \A row \in past : row.result = "executed_successfully" => at - row.done >= CooldownPerTarget

CooldownSatisfied(past, c, at) ==
    c.target = NoTarget \/ CooldownPerTarget = 0 \/
    \A row \in past : row.result \in Executed => at - row.done >= CooldownPerTarget

(* Counted among the rows with the indexes K, as they are now. *)
BudgetSatisfied(K, c) ==
    LET executed == {i \in K : rows[i].result \in Executed}
        restarts == {i \in executed : rows[i].action.type = "restart_transport"}
    IN  \/ MaxActionsPerWindow = 0
        \/ /\ Cardinality(executed) < MaxActionsPerWindow
           /\ c.type = "restart_transport" /\ RestartCap > 0 => Cardinality(restarts) < RestartCap

(* What c and the view alone decide; every type there is a candidate of has an
   actuator, a known blast radius and is reversible.                         *)
Admitted(c, v) ==
    /\ ~EmergencyDisable /\ ~OverrideActive(c)
    /\ ControlMode = "guarded_auto"
    /\ PolicyPass(c)
    /\ c.confidence >= MinConfidence
    /\ c.type = "temporarily_deprioritize_transport" => HealthyAlternateExists(v, c.target)
    /\ EvidencePass(c, v)

(* Why c is denied, "" if it is not. *)
Denial(c, v, active, past, within, at) ==
    IF ~Admitted(c, v) THEN "policy"
    ELSE IF ~CooldownSatisfied(past, c, at) THEN "cooldown"
    ELSE IF ~within THEN "budget"
    ELSE IF ConflictingActiveAction(active, c, at) THEN "conflict"
    ELSE ""

------------------------------------------------------------------------------
(* Evaluations. *)

RowsOf(Ks) == {{rows[i] : i \in K} : K \in Ks}

(* The rows with these indexes; a look-up that fails counts as one of no rows. *)
Reads(Ks) == RowsOf(Ks) \cup (IF ReadsFail THEN {{}} ELSE {})

(* The view, and the rows of the window. *)
Evaluate(e) ==
    /\ eval[e].pc = "idle" /\ Len(rows) < MaxRows
    /\ \E v \in Views, active \in Reads(Newest(now - Window, NoTarget, MaxLimit)) :
          eval' = [eval EXCEPT ![e] =
                     Evaluating(now, v, active, CandidateActions(v), <<>>, <<>>)]
    /\ UNCHANGED <<rows, now, queue, running, unread>>

(* What the candidate's target has been through: as the evaluation has read it
   before, else as the table has it; a look-up that fails is kept as empty (and
   is one that succeeds where there is nothing).                             *)
LooksUp(e, c, past) ==
    LET me == eval[e]
        known == {p.rows : p \in {q \in {me.past[i] : i \in DOMAIN me.past} : q.target = c.target}}
        found == RowsOf(Newest(me.at - CooldownPerTarget, c.target, 50))
    IN  \/ /\ past \in IF known # {} THEN known ELSE found
           /\ UNCHANGED unread
        \/ /\ ReadsFail /\ known = {} /\ past = {} /\ past \notin found
           /\ unread' = unread \cup {<<c.target, me.at>>}

Histories(e, c) ==
    {eval[e].past[i].rows : i \in DOMAIN eval[e].past} \cup {{}}
    \cup RowsOf(Newest(eval[e].at - CooldownPerTarget, c.target, 50))

(* The surest first; those as sure as each other in an order of their names. *)
EvaluateCandidate(e) ==
    LET me == eval[e]
        budget(c) == {BudgetSatisfied(K, c) :
                        K \in Newest(me.at - Window, NoTarget, MaxActionsPerWindow + 10)}
                     \cup (IF ReadsFail THEN {FALSE} ELSE {})
    IN  /\ me.pc = "deciding"
        /\ \E c \in me.left :
             /\ \A d \in me.left : d.confidence <= c.confidence
             /\ \E past \in Histories(e, c), within \in budget(c) :
                  /\ LooksUp(e, c, past)
                  /\ eval' = [eval EXCEPT ![e] =
                       Evaluating(me.at, me.view, me.active, me.left \ {c},
                           Append(me.past, [target |-> c.target, rows |-> past]),
                           Append(me.decided, [action |-> c,
                               code |-> Denial(c, me.view, me.active, past, within, me.at)]))]
        /\ UNCHANGED <<rows, now, queue, running>>

(* All are decided: what they were decided by is not looked at again. *)
EndCandidates(e) ==
    /\ eval[e].pc = "deciding" /\ eval[e].left = {}
    /\ eval' = [eval EXCEPT ![e] = ToWrite(@.at, @.decided, 0)]
    /\ UNCHANGED <<rows, now, queue, running, unread>>

Decided(e) == eval[e].pc = "writing" /\ eval[e].row = 0 /\ eval[e].decided # <<>>
Inserted(row) == rows' = Append(rows, row)
NextDecision(e) == eval' = [eval EXCEPT ![e] = ToWrite(@.at, Tail(@.decided), 0)]

(* A denied action is written closed; the statement may fail. *)
WriteDenied(e) ==
    LET d == Head(eval[e].decided)
        result == IF d.code = "cooldown" THEN "denied_by_cooldown" ELSE "denied_by_policy"
    IN  /\ Decided(e) /\ d.code # ""
        /\ Inserted(Closed(NewRow(d.action, eval[e].at), result, eval[e].at)) \/ UNCHANGED rows
        /\ NextDecision(e)
        /\ UNCHANGED <<now, queue, running, unread>>

(* An allowed one that a freeze or a maintenance window blocks, or that is held
   for approval; the statement may fail.                                     *)
WriteStopped(e) ==
    LET d == Head(eval[e].decided)
        row == NewRow(d.action, eval[e].at)
    IN  /\ Decided(e) /\ d.code = ""
        /\ \/ Inserted(Closed(row, "denied_by_freeze", eval[e].at))
           \/ Inserted(Moved(row, "pending_approval", "pending_approval"))
           \/ UNCHANGED rows
        /\ NextDecision(e)
        /\ UNCHANGED <<now, queue, running, unread>>

Send(i) == queue' = Append(queue, i)
HasRoom == Len(queue) < ControlQueue

(* An allowed one is written, *)
WriteAllowed(e) ==
    LET d == Head(eval[e].decided)
    IN  /\ Decided(e) /\ d.code = ""
        /\ \/ /\ Inserted(NewRow(d.action, eval[e].at))
              /\ eval' = [eval EXCEPT ![e] = ToWrite(@.at, @.decided, Len(rows) + 1)]
           \/ UNCHANGED rows /\ NextDecision(e)
        /\ UNCHANGED <<now, queue, running, unread>>

(* and then sent; where the channel is full it is written once more, closed, and
   this statement may fail too.                                              *)
SendAllowed(e) ==
    LET i == eval[e].row
    IN  /\ i # 0
        /\ \/ HasRoom /\ Send(i) /\ UNCHANGED rows
           \/ /\ ~HasRoom /\ UNCHANGED queue
              /\ \/ rows' = [rows EXCEPT ![i] = Closed(@, "failed_transient", eval[e].at)]
                 \/ UNCHANGED rows
        /\ NextDecision(e)
        /\ UNCHANGED <<now, running, unread>>

EndEvaluation(e) ==
    /\ eval[e].pc = "writing" /\ eval[e].decided = <<>>
    /\ eval' = [eval EXCEPT ![e] = NoEvaluation]
    /\ UNCHANGED <<rows, now, queue, running, unread>>

------------------------------------------------------------------------------
(* The rest of the world. *)

Approve(i) ==
    /\ rows[i].life = "pending_approval" /\ HasRoom
    /\ rows' = [rows EXCEPT ![i] = Moved(@, "pending", "approved")]
    /\ Send(i)
    /\ UNCHANGED <<now, running, eval, unread>>

Reject(i) ==
    /\ rows[i].life = "pending_approval"
    /\ rows' = [rows EXCEPT ![i] = Closed(@, "rejected", now)]
    /\ UNCHANGED <<now, queue, running, eval, unread>>

Start ==
    /\ running = 0 /\ queue # <<>>
    /\ running' = Head(queue) /\ queue' = Tail(queue)
    /\ rows' = [rows EXCEPT ![Head(queue)] = Moved(@, "running", @.result)]
    /\ UNCHANGED <<now, eval, unread>>

Finish ==
    /\ running # 0 /\ running' = 0
    /\ \E result \in Executed \cup {"failed_transient"} :
          rows' = [rows EXCEPT ![running] = Closed(@, result, now)]
    /\ UNCHANGED <<now, queue, eval, unread>>

(* The clock stays at Horizon. *)
Pass ==
    /\ now' = IF now + Pace <= Horizon THEN now + Pace ELSE now
    /\ UNCHANGED <<rows, queue, running, eval, unread>>

GuardNext ==
    \/ \E e \in Evaluator :
          \/ Evaluate(e) \/ EvaluateCandidate(e) \/ EndCandidates(e) \/ EndEvaluation(e)
          \/ WriteDenied(e) \/ WriteStopped(e) \/ WriteAllowed(e) \/ SendAllowed(e)
    \/ \E i \in DOMAIN rows : Approve(i) \/ Reject(i)
    \/ Start \/ Finish \/ Pass

GuardSpec == GuardInit /\ [][GuardNext]_guardVars

------------------------------------------------------------------------------
Permitted(c) ==
    /\ ControlMode = "guarded_auto" /\ ~EmergencyDisable
    /\ PolicyPass(c) /\ ~OverrideActive(c)
    /\ c.confidence >= MinConfidence

HasRun(row) == row.life = "completed" /\ row.result \in Executed

(* No action on c's target that the look-up of an evaluation at this time covers
   had run in the cooldown before it.                                        *)
Rested(c, at) ==
    \A j \in DOMAIN rows :
        /\ HasRun(rows[j]) /\ rows[j].action.target = c.target
        /\ rows[j].created >= at - CooldownPerTarget /\ rows[j].done < at
        => rows[j].done + CooldownPerTarget <= at

(* An action that the guard lets through, at whatever stage it is (decided, held
   for approval, queued or executed), is none that the policy, an override of its
   target or the mode forbids, and its target has rested, though evaluations go on
   at the same time, each with its copy of what a target has been through, while
   actions start and end.  Excepted from the cooldown is what the code's look-up
   does not cover: actions created before the cooldown that ended in it, look-ups
   that fail, and those past their fifty rows.                                *)
OnlyPermittedRuns ==
    \A i \in DOMAIN rows :
        rows[i].life # "completed" \/ rows[i].result \in Executed =>
            LET c == rows[i].action
            IN  /\ Permitted(c)
                /\ c.target # NoTarget /\ <<c.target, rows[i].created>> \notin unread
                   /\ Len(rows) <= 50 => Rested(c, rows[i].created)

(* What the window counts against the budget, at any time. *)
ExecutedInWindow ==
    {i \in DOMAIN rows : rows[i].created >= now - Window /\ rows[i].result \in Executed}
==============================================================================
