------------------------------- MODULE Incidents -------------------------------
(***************************************************************************)
(* The incidents table and those who write it: the worker that escalates   *)
(* observations, the operators' requests, and the topology worker's        *)
(* regressions.  UpsertIncident writes all columns of a row, and whoever   *)
(* changes a row has read it before in a statement of its own; nothing is  *)
(* held from the one to the other.                                         *)
(*                                                                         *)
(* Of an incident the columns are kept that one of them changes and        *)
(* another may undo; an incident is named by its cause and the second that *)
(* was put behind it, 0 if none was.                                       *)
(***************************************************************************)
EXTENDS Naturals, Sequences

CONSTANTS Cause,        \* transports and reasons whose observations are escalated
          Operator,     \* requests that may be under way
          QueueLength,  \* observations the bus, its consumer and observationCh hold
          MaxTime, MaxInputs, MaxDeskFaults   \* bounds: seconds; observations, requests and refreshes; faults

Mesh == "meshintel"
Worker == "worker"
Nobody == "nobody"

ASSUME DeskAssumption ==
          /\ Mesh \notin Cause /\ {Nobody, Worker, Mesh} \cap Operator = {}
          /\ QueueLength \in Nat \ {0}
          /\ MaxTime \in Nat \ {0} /\ MaxInputs \in Nat /\ MaxDeskFaults \in Nat

VARIABLES
    incidents,  \* [Id -> Incident]
    clock,      \* seconds
    waiting,    \* observations that are published and not yet taken
    worker,     \* observationWorker in escalateToIncident
    edit,       \* [Operator -> a request between its read and its write]
    mesh,       \* mesh_intel_state
    refresh,    \* where EvaluateViabilityRegression is
    outdated,   \* history: who has read a row that was written since
    inputs, deskFaults      \* what the bounds count

deskVars == <<incidents, clock, waiting, worker, edit, mesh, refresh, outdated, inputs, deskFaults>>

Id == (Cause \X (0..MaxTime)) \cup {<<Mesh, 0>>}
Review == {"open", "investigating"}
Incident == [state : {"absent", "open", "acknowledged", "escalated", "resolved"},
             owner : Operator \cup {Nobody}, review : Review]
Kind == {"acknowledge", "resolve", "escalate", "handoff", "patch", "runbook"}

(* What an escalation or a regression writes, whatever is there. *)
Columns(state, owner, review) == [state |-> state, owner |-> owner, review |-> review]
Anew == Columns("open", Nobody, "open")

(* An incident that is not in the table. *)
Absent == Columns("absent", Nobody, "open")

Idle == [pc |-> "idle"]
NoRegression == [streak |-> 0, good |-> "none"]

DeskInit ==
    /\ incidents = [id \in Id |-> Absent]
    /\ clock = 1
    /\ waiting = <<>>
    /\ worker = Idle
    /\ edit = [o \in Operator |-> Idle]
    /\ mesh = NoRegression
    /\ refresh = "idle"
    /\ outdated = {}
    /\ inputs = 0 /\ deskFaults = 0

DeskFault == deskFaults < MaxDeskFaults /\ deskFaults' = deskFaults + 1

Input == inputs < MaxInputs /\ inputs' = inputs + 1

(* Those who have read the row of id and are about to write it. *)
Writing(id) ==
    {o \in Operator : edit[o].pc = "writing" /\ edit[o].id = id}
    \cup (IF worker.pc = "writing" /\ worker.id = id THEN {Worker} ELSE {})

(* UpsertIncident, or its failure, by one who has no part in it afterwards. *)
Upsert(me, id, incident) ==
    \/ /\ incidents' = [incidents EXCEPT ![id] = incident]
       /\ outdated' = (outdated \cup Writing(id)) \ {me}
       /\ UNCHANGED deskFaults
    \/ DeskFault /\ outdated' = outdated \ {me} /\ UNCHANGED incidents

(* Past the bound the clock stands. *)
Second ==
    /\ clock' = IF clock < MaxTime THEN clock + 1 ELSE clock
    /\ UNCHANGED <<incidents, waiting, worker, edit, mesh, refresh, outdated, inputs, deskFaults>>

------------------------------------------------------------------------------
(* Observations.  One that finds the bus full is dropped and changes no incident. *)

Publish(c) ==
    /\ Input
    /\ Len(waiting) < QueueLength /\ waiting' = Append(waiting, c)
    /\ UNCHANGED <<incidents, clock, worker, edit, mesh, refresh, outdated, deskFaults>>

Observe ==
    /\ worker.pc = "idle" /\ waiting # <<>>
    /\ worker' = [pc |-> "reading", cause |-> Head(waiting)]
    /\ waiting' = Tail(waiting)
    /\ UNCHANGED <<incidents, clock, edit, mesh, refresh, outdated, inputs, deskFaults>>

IsResolved(id) == incidents[id].state = "resolved"

(* Mutant: an occurrence is always written to the first incident of its cause. *)
EscalatedFirst(c) == <<c, 0>>

(* After the first incident of a cause is resolved each second has one of its own. *)
Escalated(c) == IF IsResolved(<<c, 0>>) THEN <<c, clock>> ELSE <<c, 0>>

(* escalateToIncident: a read that fails counts as nothing found. *)
ReadExisting ==
    /\ worker.pc = "reading"
    /\ LET writing(id, blind) == [pc |-> "writing", id |-> id, blind |-> blind]
       IN  \/ worker' = writing(Escalated(worker.cause), FALSE) /\ UNCHANGED deskFaults
           \/ worker' = writing(<<worker.cause, 0>>, TRUE) /\ DeskFault
    /\ UNCHANGED <<incidents, clock, waiting, edit, mesh, refresh, outdated, inputs>>

WriteEscalated ==
    /\ worker.pc = "writing"
    /\ Upsert(Worker, worker.id, Anew)
    /\ worker' = Idle
    /\ UNCHANGED <<clock, waiting, edit, mesh, refresh, inputs>>

------------------------------------------------------------------------------
(* Requests. *)

ReadToEdit(o, id, kind) ==
    /\ Input
    /\ edit[o].pc = "idle" /\ incidents[id] # Absent
    /\ edit' = [edit EXCEPT ![o] = [pc |-> "writing", kind |-> kind, id |-> id,
                                    copy |-> incidents[id]]]
    /\ UNCHANGED <<incidents, clock, waiting, worker, mesh, refresh, outdated, deskFaults>>

(* Mutant: acknowledging an incident gives it to nobody. *)
EditedByTakingOver(kind, copy) ==
    CASE kind = "acknowledge" -> {Columns("acknowledged", Nobody, copy.review)}
      [] kind = "resolve"     -> {Columns("resolved", copy.owner, copy.review)}
      [] kind = "escalate"    -> {Columns("escalated", copy.owner, copy.review)}
      [] kind = "handoff"     -> {Columns(copy.state, to, copy.review) : to \in Operator}
      [] kind = "patch"       -> {Columns(copy.state, copy.owner, review) : review \in Review}
      [] kind = "runbook"     -> {copy}

(* What a request makes of the row it has read, whatever the row's state. *)
Edited(kind, copy) ==
    CASE kind = "acknowledge" -> {Columns("acknowledged", copy.owner, copy.review)}
      [] kind = "resolve"     -> {Columns("resolved", copy.owner, copy.review)}
      [] kind = "escalate"    -> {Columns("escalated", copy.owner, copy.review)}
      [] kind = "handoff"     -> {Columns(copy.state, to, copy.review) : to \in Operator}
      [] kind = "patch"       -> {Columns(copy.state, copy.owner, review) : review \in Review}
      [] kind = "runbook"     -> {copy}

WriteEdited(o) ==
    /\ edit[o].pc = "writing"
    /\ \E incident \in Edited(edit[o].kind, edit[o].copy) :
          Upsert(o, edit[o].id, incident)
    /\ edit' = [edit EXCEPT ![o] = Idle]
    /\ UNCHANGED <<clock, waiting, worker, mesh, refresh, inputs>>

------------------------------------------------------------------------------
(* EvaluateViabilityRegression, at each refresh of the topology. *)

Threshold == 3

(* SaveMeshIntelState; its failure leaves the state as it was. *)
Save(state) == \/ mesh' = state /\ UNCHANGED deskFaults
               \/ DeskFault /\ UNCHANGED mesh

MeshIsFine ==
    /\ refresh = "idle" /\ Input
    /\ \E v \in {"healthy", "other"} : Save([streak |-> 0, good |-> v])
    /\ UNCHANGED <<incidents, clock, waiting, worker, edit, refresh, outdated>>

(* Bad for long enough, and healthy before; whether there are messages enough,
   the transports are in order, the score has dropped enough and the incident's
   fingerprint is a new one is left free.                                    *)
MeshIsBad ==
    LET streak == IF mesh.streak < Threshold THEN mesh.streak + 1 ELSE Threshold
    IN  /\ refresh = "idle" /\ Input
        /\ \/ /\ Save([mesh EXCEPT !.streak = streak])
              /\ UNCHANGED refresh
           \/ /\ streak = Threshold /\ mesh.good = "healthy"
              /\ refresh' = "writing"
              /\ UNCHANGED <<mesh, deskFaults>>
        /\ UNCHANGED <<incidents, clock, waiting, worker, edit, outdated>>

WriteRegression ==
    /\ refresh = "writing"
    /\ Upsert(Mesh, <<Mesh, 0>>, Anew)
    /\ refresh' = IF deskFaults' = deskFaults THEN "saving" ELSE "idle"
    /\ UNCHANGED <<clock, waiting, worker, edit, mesh, inputs>>

SaveRegression ==
    /\ refresh = "saving" /\ refresh' = "idle"
    /\ Save([mesh EXCEPT !.streak = 0])
    /\ UNCHANGED <<incidents, clock, waiting, worker, edit, outdated, inputs>>

------------------------------------------------------------------------------
(* The process dies and starts again: observations and requests are gone. *)
DeskRestart ==
    /\ DeskFault
    /\ waiting' = <<>> /\ worker' = Idle
    /\ edit' = [o \in Operator |-> Idle]
    /\ refresh' = "idle"
    /\ outdated' = {}
    /\ UNCHANGED <<incidents, clock, mesh, inputs>>

DeskNext ==
    \/ Second \/ Observe \/ ReadExisting \/ WriteEscalated
    \/ \E c \in Cause : Publish(c)
    \/ \E o \in Operator : WriteEdited(o) \/ \E id \in Id, kind \in Kind : ReadToEdit(o, id, kind)
    \/ MeshIsFine \/ MeshIsBad \/ WriteRegression \/ SaveRegression
    \/ DeskRestart

DeskSpec == DeskInit /\ [][DeskNext]_deskVars

------------------------------------------------------------------------------
DeskTypeOK ==
    /\ incidents \in [Id -> Incident]
    /\ clock \in 1..MaxTime
    /\ waiting \in Seq(Cause)
    /\ \A o \in Operator : edit[o].pc # "idle" => edit[o].copy \in Incident

(* This step is o's write to id, or the worker's. *)
EditsNow(o, id) == edit[o].pc = "writing" /\ edit[o].id = id /\ edit'[o].pc = "idle"
EscalatesNow(id) == worker.pc = "writing" /\ worker.id = id /\ worker'.pc = "idle"

(* A resolved incident becomes open again only by a write that was decided on an
   older copy of it, by an escalation whose read failed or whose incident is that
   of its own second, or as the one incident there is of the mesh.            *)
ResolutionStands ==
    [][\A id \in Id :
          IsResolved(id) /\ incidents'[id].state = "open" =>
             \/ \E o \in Operator : EditsNow(o, id) /\ o \in outdated
             \/ EscalatesNow(id) /\ (Worker \in outdated \/ worker.blind \/ id[2] > 0)
             \/ id[1] = Mesh /\ refresh = "writing"]_deskVars

Edits(id, kind) == \E o \in Operator : EditsNow(o, id) /\ (edit[o].kind = kind \/ o \in outdated)
Erases(id) == incidents'[id] = Anew /\ (EscalatesNow(id) \/ id[1] = Mesh)

(* What one operator has put into an incident another takes away only by a request
   that is about it, or one that was decided on an older copy; else it goes only
   by an escalation or a regression, and then all of it does.                 *)
WorkIsTaken ==
    [][\A id \in Id : incidents[id] # Absent =>
          /\ incidents'[id].owner # incidents[id].owner => Edits(id, "handoff") \/ Erases(id)
          /\ incidents'[id].review # incidents[id].review => Edits(id, "patch") \/ Erases(id)]_deskVars
==============================================================================
