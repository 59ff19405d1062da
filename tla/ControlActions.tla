---------------------------- MODULE ControlActions ----------------------------
(***************************************************************************)
(* The control_actions table of MEL's guarded control plane: the fields of *)
(* a row that later steps branch on, the SQL statements that move a row    *)
(* between lifecycle states, and the policy predicates the service asks    *)
(* of a row.  Every database access spawns one sqlite3 process, so each    *)
(* statement is atomic and nothing spanning two statements is.             *)
(***************************************************************************)
EXTENDS Naturals, Sequences, FiniteSets

CONSTANTS Actions,        \* ids given to proposed and to operator-queued actions
          TypeOf,         \* [Actions -> ActionTypes]
          TransportOf,    \* [Actions -> transports]: the target transport
          ApprovalTypes,  \* action types the policy sends through approval
          Operators       \* operator identities

ActionTypes == {"restart_transport",          \* and resubscribe_transport
                "backoff_increase", "backoff_reset",
                "trigger_health_recheck",
                "temporarily_deprioritize",   \* and the two suppression types
                "unsupported"}                \* any other string an operator sends

ASSUME ActionsAssumption ==
          /\ TypeOf \in [Actions -> ActionTypes]
          /\ ApprovalTypes \subseteq ActionTypes
          /\ "system" \notin Operators
          /\ "none" \notin Operators

(***************************************************************************)
(* Follow-ups carry ids derived from their parent's: "<id>-health-recheck" *)
(* and "<id>-reset".                                                       *)
(***************************************************************************)
HealthRecheck(a) == <<a, "trigger_health_recheck">>
Reset(a) == <<a, "backoff_reset">>

FollowUps == {HealthRecheck(a) : a \in {x \in Actions : TypeOf[x] = "restart_transport"}}
             \cup {Reset(a) : a \in {x \in Actions : TypeOf[x] = "backoff_increase"}}

ASSUME FollowUpsAssumption == Actions \cap FollowUps = {}

Ids == Actions \cup FollowUps

Type(id) == IF id \in Actions THEN TypeOf[id] ELSE id[2]
Transport(id) == IF id \in Actions THEN TransportOf[id] ELSE TransportOf[id[1]]

(* resolveExecutionMode runs on proposals only; a follow-up has no mode and
   controlActionRecord stores it as "auto".                                *)
NeedsApproval(id) == id \in Actions /\ TypeOf[id] \in ApprovalTypes

------------------------------------------------------------------------------
Lifecycles == {"none", "pending_approval", "pending", "running", "completed", "recovered"}

Results == {"", "pending_approval", "approved", "rejected", "approval_expired",
            "executed_successfully", "failed_terminal", "failed_transient", "expired",
            "denied_by_policy", "denied_by_freeze", "denied_by_maintenance"}

Closures == {"", "superseded", "recovered_and_closed", "expired_and_reverted",
             "rejected_by_operator", "approval_expired",
             "blocked_by_freeze", "blocked_by_maintenance"}

(* by, okBy and bypass are submitted_by, approved_by and sod_bypass. *)
Row == [life : Lifecycles, result : Results, closure : Closures,
        by : Operators \cup {"system"}, okBy : Operators \cup {"none"}, bypass : BOOLEAN]

NoRow == [life |-> "none", result |-> "", closure |-> "",
          by |-> "system", okBy |-> "none", bypass |-> FALSE]

NewRow(submitter) == [NoRow EXCEPT !.life = "pending", !.by = submitter]

Held(row) == [row EXCEPT !.life = "pending_approval", !.result = "pending_approval"]

Closed(row, result, closure) ==
    [row EXCEPT !.life = "completed", !.result = result, !.closure = closure]

Superseded(row) == Closed(row, "failed_transient", "superseded")

Undecided(row) == row.life = "pending_approval"
Decided(row) == row.life \notin {"none", "pending_approval"}

(* Mutant of the next: the WHERE clause is missing. *)
ApprovedUnguarded(row, actor, bypass) ==
    [row EXCEPT !.life = "pending", !.result = "approved", !.okBy = actor, !.bypass = bypass]

(* The three guarded UPDATE ... WHERE lifecycle_state='pending_approval'. *)
Approved(row, actor, bypass) ==
    IF Undecided(row)
    THEN [row EXCEPT !.life = "pending", !.result = "approved",
                     !.okBy = actor, !.bypass = bypass]
    ELSE row

Rejected(row) ==
    IF Undecided(row) THEN Closed(row, "rejected", "rejected_by_operator") ELSE row

ExpiredApproval(row) ==
    IF Undecided(row) THEN Closed(row, "approval_expired", "approval_expired") ELSE row

(* Mutant: the actor is compared with the approver, who is not known yet. *)
SodAsksApprover(id, row, actor) == NeedsApproval(id) /\ Undecided(row) /\ row.okBy = actor

(* approvalSodWouldBlock *)
SodWouldBlock(id, row, actor) ==
    /\ NeedsApproval(id)
    /\ Undecided(row)
    /\ row.by # "system"
    /\ row.by = actor

(* Mutants: recovery forgets what was still queued, or what was in flight. *)
IncompleteRunning(row) == row.life = "running"
IncompletePending(row) == row.life = "pending"

Incomplete(row) == row.life \in {"pending", "running"}

(* Mutant: recovery takes an action that was started for one that succeeded. *)
RecoveredAsDone(id, row) == [row EXCEPT !.life = "recovered", !.result = "executed_successfully"]

(* recoverIncompleteControlActions, the fields it overwrites *)
Recovered(id, row) ==
    IF Type(id) = "backoff_increase"
    THEN [row EXCEPT !.life = "recovered", !.result = "expired",
                     !.closure = "expired_and_reverted"]
    ELSE [row EXCEPT !.life = "recovered", !.result = "failed_transient",
                     !.closure = "superseded"]

(* The reality matrix has an actuator for every type but unknown ones. *)
AdvisoryDenied(id) == Type(id) = "unsupported"

(* The closure executeControlAction writes beside the outcome of the actuator. *)
ClosureAfter(id, row, outcome) ==
    CASE outcome = "failed_transient" -> "superseded"
      [] /\ outcome = "executed_successfully"
         /\ Type(id) \in {"backoff_reset", "trigger_health_recheck", "temporarily_deprioritize"}
         -> "recovered_and_closed"
      [] OTHER -> row.closure

(* Mutant: the outcome of the raise is not looked at. *)
RevertDueAnyResult(id, row) == Type(id) = "backoff_increase" /\ row.closure = ""

(* queueRecoveryActions looks at successful backoff increases left open. *)
RevertDue(id, row) ==
    /\ Type(id) = "backoff_increase"
    /\ row.result = "executed_successfully"
    /\ row.closure = ""

(***************************************************************************)
(* Freezes and maintenance windows: a scope is a record naming its kind    *)
(* and, for a transport or an action type, the value it is about.          *)
(***************************************************************************)
Covers(scope, id) ==
    \/ scope.kind = "global"
    \/ scope.kind = "transport" /\ scope.value = Transport(id)
    \/ scope.kind = "action_type" /\ scope.value = Type(id)

WindowCovers(scope, id) == scope.kind # "action_type" /\ Covers(scope, id)
==============================================================================
