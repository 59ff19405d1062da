--------------------------- MODULE ControlPlaneInv ---------------------------
(***************************************************************************)
(* The inductive invariants of ControlPlane that its theorems rest on.     *)
(* TypeInv says which ids a busy process can be at work on.  GateInv says  *)
(* that every copy of a gated action's row, wherever a process keeps one,  *)
(* agrees with the table on whether its gate is open: once an approval is  *)
(* decided no copy can reverse the decision by being written back.         *)
(* HonestInv says what every copy may claim, and SendInv counts the sends  *)
(* of an id that wait in a channel or an executor.  OwnInv says who may    *)
(* hold a running row while the daemon is alone.  RaiseInv ties whatever   *)
(* is about a reset to the raise it undoes; RestInv says what is at work   *)
(* while the daemon is not up; SoloInv says where an action can be when    *)
(* nobody asks for anything and no statement fails, ClosedInv that nobody  *)
(* has a recovered action in hand, and PlainInv what the copies of a       *)
(* daemon without requests can say, whatever failed or died before.        *)
(***************************************************************************)
EXTENDS ControlPlane

ExecShape(x) ==
    /\ x.pc # "idle" => x.id \in Ids
    /\ x.pc \in {"followup", "persist"} => Type(x.id) = "restart_transport"

ProposingPc == {"freeze", "maintenance", "refuse", "persist"}
RevertingPc == {"close", "follow"}
DecidingPc == {"update", "merge", "patch", "reload"}

TaskShape(p, t) ==
    /\ t.pc \in ProposingPc \cup RevertingPc \cup DecidingPc => t.id \in Ids
    /\ t.pc \in RevertingPc => Type(t.id) = "backoff_increase"
    /\ t.pc \in DecidingPc => p \in Sessions
    /\ t.pc \in RevertingPc \cup {"decide", "scan"} => p \in Evals

ExecShapes == \A app \in Apps : ExecShape(exec[app])
TaskShapes == \A p \in Handlers : TaskShape(p, task[p])
ScanShapes == \A e \in Evals : \A c \in scan[e] : Type(c.id) = "backoff_increase"

TypeInv == TypeOK /\ ExecShapes /\ TaskShapes /\ ScanShapes

------------------------------------------------------------------------------
Settled(id) == GateOf(rows[id]) \in {"open", "shut"}

(* A row of a gated action in the table. *)
SoundRow(row) ==
    /\ GateOf(row) \in {"absent", "held"} => row.okBy = "none"
    /\ GateOf(row) \in {"absent", "held"} => row.result # "executed_successfully"
    /\ Incomplete(row) => GateOf(row) = "open"

RowsSound == \A id \in GatedIds : SoundRow(rows[id])

(* A copy that some process may still act on or write back. *)
Faithful(id, row) ==
    id \in GatedIds =>
       /\ Settled(id)
       /\ GateOf(row) = GateOf(rows[id])
       /\ Incomplete(row) => GateOf(row) = "open"

FaithfulQueue(app) == \A i \in 1..Len(queue[app]) : Faithful(queue[app][i].id, queue[app][i].row)

FaithfulExec(app) ==
    /\ exec[app].pc # "idle" => Faithful(exec[app].id, exec[app].row)
    /\ exec[app].pc \notin {"idle", "followup", "persist"} /\ exec[app].id \in GatedIds =>
          GateOf(exec[app].row) = "open"

Proposing(p) == task[p].pc \in ProposingPc

(* The row of a proposal is not in the table yet, and nobody else proposes its id. *)
ProposalApart(p) ==
    Proposing(p) /\ task[p].id \in GatedIds =>
       /\ GateOf(rows[task[p].id]) = "absent"
       /\ task[p].row.okBy = "none"
       /\ task[p].pc = "refuse" => task[p].row.life = "completed"
       /\ \A q \in Handlers : Proposing(q) /\ task[q].id = task[p].id => q = p

FaithfulTask(p) ==
    /\ task[p].pc \in {"patch", "close"} => Faithful(task[p].id, task[p].row)
    /\ task[p].id \in GatedIds =>
          /\ task[p].pc = "update" => GateOf(rows[task[p].id]) # "absent"
          /\ task[p].pc \in {"merge", "reload"} => Settled(task[p].id)

GateInv == /\ RowsSound
           /\ \A app \in Apps : FaithfulQueue(app) /\ FaithfulExec(app)
           /\ \A p \in Handlers : ProposalApart(p) /\ FaithfulTask(p)
           /\ \A e \in Evals : \A c \in scan[e] : Faithful(c.id, c.row)
           /\ \A c \in todo : Faithful(c.id, c.row)

------------------------------------------------------------------------------
(* What a row may claim, in the table or in a copy of it: a success that took
   place, an approval that separates duties, a wait for an approval its policy
   asks for.                                                               *)
Honest(id, row) ==
    /\ row.result = "executed_successfully" => id \in Ids /\ fired[id] > 0
    /\ row.okBy = row.by => row.bypass
    /\ Undecided(row) => id \in GatedIds

(* A copy names the submitter the table names. *)
Trusted(id, row) ==
    /\ Honest(id, row)
    /\ id \in GatedIds => row.by = rows[id].by

TrustedQueue(app) == \A i \in 1..Len(queue[app]) : Trusted(queue[app][i].id, queue[app][i].row)
TrustedExec(app) == exec[app].pc # "idle" => Trusted(exec[app].id, exec[app].row)

TrustedTask(p) ==
    /\ Proposing(p) => Honest(task[p].id, task[p].row)
    /\ task[p].pc \in {"update", "patch", "close"} => Trusted(task[p].id, task[p].row)
    /\ task[p].pc = "update" =>
          /\ Undecided(task[p].row)
          /\ SodWouldBlock(task[p].id, task[p].row, ActorOf[p]) => task[p].glass

HonestInv == /\ \A id \in Ids : Honest(id, rows[id])
             /\ \A app \in Apps : TrustedQueue(app) /\ TrustedExec(app)
             /\ \A p \in Handlers : TrustedTask(p)
             /\ \A e \in Evals : \A c \in scan[e] : Trusted(c.id, c.row)
             /\ \A c \in todo : Trusted(c.id, c.row)

------------------------------------------------------------------------------
(* The places that hold a send of an id that has not run: <<app, 0>> is the
   executor before its actuator, <<app, i>> the i-th element of the channel. *)
AwaitingPc == {"freeze", "maintenance", "start", "actuate"}

Awaits(place, id) ==
    \/ place[2] = 0 /\ exec[place[1]].pc \in AwaitingPc /\ exec[place[1]].id = id
    \/ place[2] \in 1..Len(queue[place[1]]) /\ queue[place[1]][place[2]].id = id

Places(id) == {place \in Apps \X (0..MaxQueue) : Awaits(place, id)}

SendInv == \A id \in Ids : /\ IsFiniteSet(Places(id))
                          /\ fired[id] + Cardinality(Places(id)) <= handed[id]

------------------------------------------------------------------------------
(* The daemon alone on its database, without a failed statement or break-glass:
   only its executor makes a row running, and nobody else holds a running copy. *)
Alone == faults = 0 /\ Cli = {} /\ Glass = {FALSE}

Unfinished(row) == Incomplete(row) => row.result # "executed_successfully"

OwnCopy(c) == Unfinished(c.row) /\ (c.id \notin GatedIds => Incomplete(c.row))

OwnExec(x) ==
    /\ x.pc \in AwaitingPc => Incomplete(x.row) /\ Unfinished(x.row)
    /\ x.pc \in {"refuse", "finish"} => x.row.life = "completed"
    /\ daemon # "up" => x.pc \in {"idle", "followup", "persist"}

OwnTask(t) ==
    /\ ~t.glass /\ t.pc \notin {"merge", "patch"}
    /\ t.pc \in ProposingPc => t.row.life # "running" /\ Unfinished(t.row)
    /\ t.pc \in ProposingPc \ {"refuse"} => t.row.life = "pending"
    /\ t.pc = "close" => ~Incomplete(t.row)
    /\ t.pc \in {"update", "reload"} => t.id \in GatedIds

Owned(id) ==
    /\ daemon = "up" => exec[Serve].id = id /\ exec[Serve].pc \in {"actuate", "finish"}
    /\ daemon = "recovering" => \E c \in todo : c.id = id

OwnInv == Alone => /\ \A id \in Ids : Unfinished(rows[id])
                   /\ \A id \in Ids : rows[id].life = "running" => Owned(id)
                   /\ \A i \in 1..Len(queue[Serve]) : OwnCopy(queue[Serve][i])
                   /\ OwnExec(exec[Serve])
                   /\ \A p \in Handlers : OwnTask(task[p])
                   /\ \A e \in Evals : \A c \in scan[e] : ~Incomplete(c.row)
------------------------------------------------------------------------------
(* A reset is at work or in the table only after the raise it undoes has run. *)
Exists(id) == rows[id].life # "none"

Grounded(id) ==
    \A a \in Actions : TypeOf[a] = "backoff_increase" /\ id = Reset(a) => fired[a] > 0

GroundedTask(t) ==
    /\ t.pc \in ProposingPc \cup DecidingPc => Grounded(t.id)
    /\ t.pc \in RevertingPc => fired[t.id] > 0

RaiseInv ==
    /\ \A id \in Ids : Exists(id) => Grounded(id)
    /\ \A app \in Apps : \A i \in 1..Len(queue[app]) : Grounded(queue[app][i].id)
    /\ \A app \in Apps : exec[app].pc # "idle" => Grounded(exec[app].id)
    /\ \A p \in Handlers : GroundedTask(task[p])
    /\ \A e \in Evals : \A c \in scan[e] : fired[c.id] > 0
    /\ \A c \in todo : Grounded(c.id)

------------------------------------------------------------------------------
(* While the daemon, the only process, is not up, nothing but recovery is at work. *)
RestInv == Cli = {} =>
    /\ daemon # "up" =>
          /\ \A p \in Handlers : task[p].pc \in {"idle", "done"}
          /\ \A e \in Evals : scan[e] = {}
          /\ exec[Serve].pc \in {"idle", "followup", "persist"}
    /\ daemon = "down" => exec[Serve].pc = "idle" /\ queue[Serve] = <<>>
    /\ todo # {} => daemon = "recovering"

------------------------------------------------------------------------------
(* The daemon with nobody's requests and no failed statement: an action is in
   one place at a time, and its row says in which.                         *)
Unattended == Sessions = {} /\ faults = 0

Open(id) == rows[id].life # "recovered"
Over(row) == row.life \in {"completed", "recovered"}
Succeeded(row) == row.result = "executed_successfully"
FollowedUp(a) == TypeOf[a] = "restart_transport" /\ Exists(HealthRecheck(a))
Undone(a) == TypeOf[a] = "backoff_increase" /\ Exists(Reset(a))
Queued(id) == \E i \in 1..Len(queue[Serve]) : queue[Serve][i].id = id

SoloTask(t) ==
    /\ t.pc \in ProposingPc =>
         /\ t.id \in Actions /\ handed[t.id] = 0 /\ ~Succeeded(t.row)
         /\ IF t.pc = "refuse"
            THEN t.row.life = "completed" /\ rows[t.id].life \in {"none", "pending"}
            ELSE t.row.life = "pending" /\ ~Exists(t.id)
    /\ t.pc \in RevertingPc => Over(rows[t.id])
    /\ t.pc = "close" => Over(t.row)
    /\ t.pc = "follow" => rows[t.id].closure = "expired_and_reverted"

SoloCopy(c) ==
    /\ Exists(c.id) /\ ~Succeeded(c.row)
    /\ c.id \in Actions => handed[c.id] > 0 /\ rows[c.id].life = "pending"

SoloExec(x) ==
    /\ x.pc # "idle" => Exists(x.id)
    /\ x.pc \in {"freeze", "maintenance", "start"} => ~Succeeded(x.row)
    /\ x.pc \in {"refuse", "finish"} => x.row.life = "completed"
    /\ x.pc # "idle" /\ x.id \in Actions =>
         /\ x.pc \in {"freeze", "maintenance", "start", "refuse"} => rows[x.id].life = "pending"
         /\ x.pc \in {"actuate", "finish"} => rows[x.id].life = "running"
         /\ IF x.pc \in {"followup", "persist"}
            THEN Over(rows[x.id]) /\ ~FollowedUp(x.id)
            ELSE handed[x.id] > 0 /\ ~Queued(x.id)

(* An action that succeeded or has a follow-up is over. *)
SoloRow(a) ==
    /\ handed[a] > 0 => Exists(a)
    /\ TypeOf[a] = "backoff_increase" /\ Succeeded(rows[a]) => Over(rows[a])
    /\ FollowedUp(a) => Over(rows[a])
    /\ Undone(a) => Over(rows[a]) /\ rows[a].closure = "expired_and_reverted"

(* What an evaluation has found due is over, and its reset was not recovered. *)
SoloScan(c) == Over(c.row) /\ Over(rows[c.id]) /\ Open(Reset(c.id))

SoloProposals ==
    \A p, q \in Handlers : Proposing(p) /\ Proposing(q) /\ task[p].id = task[q].id => p = q

SoloSends ==
    \A i, j \in 1..Len(queue[Serve]) :
       queue[Serve][i].id \in Actions /\ queue[Serve][i].id = queue[Serve][j].id => i = j

SoloInv == Unattended =>
    /\ SoloSends /\ SoloProposals
    /\ \A i \in 1..Len(queue[Serve]) : SoloCopy(queue[Serve][i])
    /\ SoloExec(exec[Serve])
    /\ \A a \in Actions : SoloRow(a)
    /\ \A p \in Handlers : SoloTask(task[p])
    /\ \A e \in Evals : \A c \in scan[e] : SoloScan(c)

------------------------------------------------------------------------------
(* Nobody but recovery, which has listed it, has a recovered action in hand.
   One failed statement is too little to find one again, unless an operator's
   second approval runs a parent twice.                                     *)
OpenTask(t) ==
    /\ t.pc \in ProposingPc \cup DecidingPc \cup RevertingPc => Open(t.id)
    /\ t.pc \in RevertingPc => Open(Reset(t.id))
    /\ t.pc \in ProposingPc \cup {"patch", "close"} => t.row.life # "recovered"

OpenExec(x) ==
    /\ x.pc \notin {"idle", "followup", "persist"} => Open(x.id)
    /\ x.pc \in {"refuse", "finish"} => x.row.life # "recovered"
    /\ x.pc = "persist" => /\ Open(HealthRecheck(x.id))
                           /\ \A c \in todo : c.id # HealthRecheck(x.id)

OpenScan(c) == Open(c.id) /\ c.row.life # "recovered"

ClosedInv == Trusty =>
    /\ \A id \in Ids : rows[id].life = "recovered" => ~Succeeded(rows[id])
    /\ \A i \in 1..Len(queue[Serve]) : Open(queue[Serve][i].id)
    /\ OpenExec(exec[Serve])
    /\ \A p \in Handlers : OpenTask(task[p])
    /\ \A e \in Evals : \A c \in scan[e] : OpenScan(c)
    /\ \A c \in todo : c.row = rows[c.id] /\ Incomplete(c.row) /\ ~Queued(c.id)

------------------------------------------------------------------------------
(* With nobody's requests, whatever failed or died before: a copy on its way to the
   actuator is as its proposal made it, and one about to be written back is over. *)
Waiting(row) == row.life = "pending" /\ ~Succeeded(row)

PlainTask(t) ==
    /\ t.pc \in {"freeze", "maintenance", "persist"} => Waiting(t.row)
    /\ t.pc \in {"refuse", "close"} => Over(t.row)

PlainExec(x) ==
    /\ x.pc \in {"freeze", "maintenance", "start"} => Waiting(x.row)
    /\ x.pc \in {"refuse", "finish"} => Over(x.row)

PlainInv == Sessions = {} =>
    /\ \A id \in Ids : Succeeded(rows[id]) => Over(rows[id])
    /\ \A i \in 1..Len(queue[Serve]) : Waiting(queue[Serve][i].row)
    /\ PlainExec(exec[Serve])
    /\ \A p \in Handlers : PlainTask(task[p])
    /\ \A e \in Evals : \A c \in scan[e] : Over(c.row)
==============================================================================
