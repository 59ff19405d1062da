---------------------------- MODULE CaptureSession ----------------------------
(***************************************************************************)
(* One AgentPCAP process after the other, each run, demo or open: the      *)
(* command's main goroutine, the capture session it fills and saves, and   *)
(* the web server, whose requests follow the session, empty it for a demo  *)
(* or put the session of an uploaded file in its place.  A session has a   *)
(* lock; what Close does after its first section, the server's pointer to  *)
(* the session shown and the file have none.                               *)
(*                                                                         *)
(* An event is the number of its making.  Sessions are numbered, 0 being   *)
(* the command's own.                                                      *)
(***************************************************************************)
EXTENDS Naturals, Sequences, FiniteSets

CONSTANTS Viewer,         \* browsers that may follow a session
          Player,         \* demos that may be under way
          Failed,         \* events whose status is an error or a timeout
          MaxKept,        \* SessionConfig.MaxEvents
          StreamBuffer,   \* what a subscriber's channel holds
          DemoLength,     \* the events of a demo
          MaxMade, MaxUploads   \* bounds: events in all, and uploads to one process

ASSUME CaptureAssumption ==
          /\ Failed \subseteq Nat
          /\ MaxKept \in Nat \ {0} /\ StreamBuffer \in Nat \ {0} /\ DemoLength \in Nat
          /\ MaxMade \in Nat /\ MaxUploads \in Nat

VARIABLES
    command, step, todo,   \* the command, where it is, the events its demo has left
    session,    \* [0..MaxUploads -> Session]
    shown,      \* Server.session
    uploads,
    viewer,     \* [Viewer -> handleSSEStream with its channel]
    player,     \* [Player -> RunDemoLive or handleLoadDemo]
    copy,       \* what Close has copied to save
    file,       \* the file at OutputPath
    made,
    due         \* history: what Close found, and whether it was emptied since

main == <<command, step, todo>>
served == <<shown, uploads>>
captureVars == <<command, step, todo, session, shown, uploads, viewer, player, copy, file, made, due>>

Command == {"run", "demo", "open"}
Step == {"child", "demo", "close", "copy", "create", "write", "serving", "stopping", "exited"}
Sessions == 0..MaxUploads

Failures(events) == {i \in DOMAIN events : events[i] \in Failed}

(* NewSession, filled with the events of a file; ever is history: all it has taken. *)
Holding(events) == [events |-> events, errors |-> Cardinality(Failures(events)),
                    closed |-> FALSE, ever |-> events]

Away == [on |-> FALSE, of |-> 0, open |-> FALSE, buffer |-> <<>>, got |-> <<>>,
         from |-> 0, missed |-> FALSE]
NotPlaying == [pc |-> "idle", of |-> 0, left |-> 0, request |-> FALSE]
NothingDue == [events |-> <<>>, emptied |-> FALSE]
Saved(state, events, d) == [state |-> state, events |-> events, due |-> d.events,
                            emptied |-> d.emptied]

Afresh(events) ==
    /\ session' = [s \in Sessions |-> Holding(IF s = 0 THEN events ELSE <<>>)]
    /\ shown' = 0 /\ uploads' = 0
    /\ viewer' = [v \in Viewer |-> Away]
    /\ player' = [p \in Player |-> NotPlaying]
    /\ copy' = Saved("none", <<>>, NothingDue) /\ due' = NothingDue

CaptureInit ==
    /\ command = "run" /\ step = "exited" /\ todo = 0
    /\ session = [s \in Sessions |-> Holding(<<>>)]
    /\ shown = 0 /\ uploads = 0
    /\ viewer = [v \in Viewer |-> Away]
    /\ player = [p \in Player |-> NotPlaying]
    /\ copy = Saved("none", <<>>, NothingDue) /\ due = NothingDue
    /\ file = Saved("none", <<>>, NothingDue)
    /\ made = 0

------------------------------------------------------------------------------
(* The session. *)

Accepts(s) == ~session[s].closed /\ Len(session[s].events) < MaxKept

Kept(s, e) ==
    session' = [session EXCEPT ![s] =
                  [events |-> Append(@.events, e),
                   errors |-> IF e \in Failed THEN @.errors + 1 ELSE @.errors,
                   closed |-> @.closed, ever |-> Append(@.ever, e)]]

(* A subscriber whose channel is full is passed over. *)
Offered(v, e) ==
    IF Len(viewer[v].buffer) < StreamBuffer
    THEN [viewer[v] EXCEPT !.buffer = Append(@, e)]
    ELSE [viewer[v] EXCEPT !.missed = TRUE]

Broadcast(s, e) ==
    viewer' = [v \in Viewer |-> IF viewer[v].open /\ viewer[v].of = s
                                THEN Offered(v, e) ELSE viewer[v]]

(* Mutant: subscribers are told before the limit is looked at. *)
IngestToldFirst(s) ==
    /\ made < MaxMade /\ made' = made + 1
    /\ IF session[s].closed THEN UNCHANGED viewer ELSE Broadcast(s, made')
    /\ IF Accepts(s) THEN Kept(s, made') ELSE UNCHANGED session

IngestEvent(s) ==
    /\ made < MaxMade /\ made' = made + 1
    /\ IF Accepts(s) THEN Kept(s, made') /\ Broadcast(s, made')
                     ELSE UNCHANGED <<session, viewer>>

(* Reset also opens a closed session again; its subscribers stay. *)
Reset(s) ==
    /\ session' = [session EXCEPT ![s] = [events |-> <<>>, errors |-> 0, closed |-> FALSE,
                                         ever |-> @.ever]]
    /\ due' = [due EXCEPT !.emptied = @ \/ s = 0]

------------------------------------------------------------------------------
(* The command. *)

(* Every goroutine ends with the process. *)
Exit == step' = "exited" /\ todo' = 0 /\ Afresh(<<>>)

Run ==
    /\ step = "exited"
    /\ command' = "run" /\ step' = "child" /\ todo' = 0
    /\ Afresh(<<>>)
    /\ UNCHANGED <<file, made>>

Demo ==
    /\ step = "exited"
    /\ command' = "demo" /\ step' = "demo" /\ todo' = DemoLength
    /\ Afresh(<<>>)
    /\ UNCHANGED <<file, made>>

Open ==
    /\ step = "exited" /\ file.state = "whole"
    /\ command' = "open" /\ step' = "serving" /\ todo' = 0
    /\ Afresh(file.events)
    /\ UNCHANGED <<file, made>>

(* The proxy of a run, whose exchanges and tunnels may end after the child has. *)
Exchange ==
    /\ command = "run" /\ step # "exited"
    /\ IngestEvent(0)
    /\ UNCHANGED <<main, served, player, copy, file, due>>

RunDemo ==
    /\ step = "demo" /\ todo > 0 /\ todo' = todo - 1
    /\ IngestEvent(0)
    /\ UNCHANGED <<command, step, served, player, copy, file, due>>

Ends ==
    /\ step = "child" \/ (step = "demo" /\ todo = 0)
    /\ step' = "close"
    /\ UNCHANGED <<command, todo, session, served, viewer, player, copy, file, made, due>>

(* Mutant: the session is closed for its subscribers only. *)
MarkClosedNever == UNCHANGED session

MarkClosed == session' = [session EXCEPT ![0].closed = TRUE]

CloseSession ==
    /\ step = "close" /\ step' = "copy"
    /\ MarkClosed
    /\ viewer' = [v \in Viewer |-> [viewer[v] EXCEPT !.open = @ /\ viewer[v].of # 0]]
    /\ due' = [events |-> session[0].events, emptied |-> FALSE]
    /\ UNCHANGED <<command, todo, served, player, copy, file, made>>

(* Capture, after the lock was let go. *)
CopyCapture ==
    /\ step = "copy" /\ step' = "create"
    /\ copy' = Saved("none", session[0].events, due)
    /\ UNCHANGED <<command, todo, session, served, viewer, player, file, made, due>>

(* The error of Save is dropped. *)
AfterClose == IF command = "run" THEN Exit
              ELSE /\ step' = "serving"
                   /\ UNCHANGED <<todo, session, served, viewer, player, copy, due>>

(* The file that was there is cut to nothing. *)
CreateFile ==
    /\ step = "create"
    /\ \/ /\ step' = "write" /\ file' = Saved("partial", <<>>, NothingDue)
          /\ UNCHANGED <<todo, session, served, viewer, player, copy, due>>
       \/ AfterClose /\ UNCHANGED file
    /\ UNCHANGED <<command, made>>

WriteFile ==
    /\ step = "write"
    /\ file' = [copy EXCEPT !.state = "whole"] \/ UNCHANGED file
    /\ AfterClose
    /\ UNCHANGED <<command, made>>

(* Ctrl+C in demo and open; Shutdown waits for the requests under way. *)
Interrupted ==
    /\ step = "serving" /\ step' = "stopping"
    /\ UNCHANGED <<command, todo, session, served, viewer, player, copy, file, made, due>>

Stop ==
    /\ step = "stopping"
    /\ \A v \in Viewer : ~viewer[v].on
    /\ \A p \in Player : ~player[p].request
    /\ Exit
    /\ UNCHANGED <<command, file, made>>

Die ==
    /\ step # "exited" /\ Exit
    /\ UNCHANGED <<command, file, made>>

------------------------------------------------------------------------------
(* Requests to the web server. *)

Serving == step \notin {"stopping", "exited"}

ReceiveTraces ==
    /\ Serving
    /\ IngestEvent(shown)
    /\ UNCHANGED <<main, served, player, copy, file, due>>

SubscribeTo(v) ==
    /\ Serving /\ ~viewer[v].on
    /\ viewer' = [viewer EXCEPT ![v] =
          [on |-> TRUE, of |-> shown, open |-> TRUE, buffer |-> <<>>, got |-> <<>>,
           from |-> Len(session[shown].ever), missed |-> FALSE]]
    /\ UNCHANGED <<main, session, served, player, copy, file, made, due>>

Receive(v) ==
    /\ viewer[v].buffer # <<>>
    /\ viewer' = [viewer EXCEPT ![v].got = Append(@, Head(viewer[v].buffer)),
                                ![v].buffer = Tail(@)]
    /\ UNCHANGED <<main, session, served, player, copy, file, made, due>>

(* The browser goes away, or the channel is closed and empty. *)
Leave(v) ==
    /\ viewer[v].on
    /\ viewer' = [viewer EXCEPT ![v] = Away]
    /\ UNCHANGED <<main, session, served, player, copy, file, made, due>>

(* The events of the file are ingested before anyone is shown the session. *)
Upload ==
    /\ Serving /\ uploads < MaxUploads /\ file.state = "whole"
    /\ uploads' = uploads + 1 /\ shown' = uploads'
    /\ session' = [session EXCEPT ![uploads'] = Holding(file.events)]
    /\ UNCHANGED <<main, viewer, player, copy, file, made, due>>

Playing(s, request) == [pc |-> "playing", of |-> s, left |-> DemoLength, request |-> request]

(* handleSimulate: a goroutine that is given the session shown. *)
Simulate(p) ==
    /\ Serving /\ player[p].pc = "idle"
    /\ player' = [player EXCEPT ![p].pc = "starting", ![p].of = shown]
    /\ UNCHANGED <<main, session, served, viewer, copy, file, made, due>>

RunDemoLive(p) ==
    /\ player[p].pc = "starting"
    /\ Reset(player[p].of)
    /\ player' = [player EXCEPT ![p] = Playing(@.of, FALSE)]
    /\ UNCHANGED <<main, served, viewer, copy, file, made>>

(* handleLoadDemo looks twice which session is shown. *)
LoadDemo(p) ==
    /\ Serving /\ player[p].pc = "idle"
    /\ Reset(shown)
    /\ player' = [player EXCEPT ![p].pc = "emptied", ![p].request = TRUE]
    /\ UNCHANGED <<main, served, viewer, copy, file, made>>

LookAgain(p) ==
    /\ player[p].pc = "emptied"
    /\ player' = [player EXCEPT ![p] = Playing(shown, TRUE)]
    /\ UNCHANGED <<main, session, served, viewer, copy, file, made, due>>

Play(p) ==
    /\ player[p].pc = "playing" /\ player[p].left > 0
    /\ IngestEvent(player[p].of)
    /\ player' = [player EXCEPT ![p].left = @ - 1]
    /\ UNCHANGED <<main, served, copy, file, due>>

EndPlaying(p) ==
    /\ player[p].pc = "playing" /\ player[p].left = 0
    /\ player' = [player EXCEPT ![p] = NotPlaying]
    /\ UNCHANGED <<main, session, served, viewer, copy, file, made, due>>

CaptureNext ==
    \/ Run \/ Demo \/ Open \/ Exchange \/ RunDemo \/ Ends
    \/ CloseSession \/ CopyCapture \/ CreateFile \/ WriteFile \/ Interrupted \/ Stop \/ Die
    \/ ReceiveTraces \/ Upload
    \/ \E v \in Viewer : SubscribeTo(v) \/ Receive(v) \/ Leave(v)
    \/ \E p \in Player : \/ Simulate(p) \/ RunDemoLive(p) \/ LoadDemo(p) \/ LookAgain(p)
                         \/ Play(p) \/ EndPlaying(p)

CaptureSpec == CaptureInit /\ [][CaptureNext]_captureVars

------------------------------------------------------------------------------
Session == [events : Seq(Nat), errors : Nat, closed : BOOLEAN, ever : Seq(Nat)]
File == [state : {"none", "partial", "whole"}, events : Seq(Nat), due : Seq(Nat),
         emptied : BOOLEAN]

CaptureTypeOK ==
    /\ command \in Command /\ step \in Step /\ todo \in 0..DemoLength
    /\ session \in [Sessions -> Session]
    /\ shown \in Sessions /\ uploads \in Sessions
    /\ viewer \in [Viewer -> [on : BOOLEAN, of : Sessions, open : BOOLEAN, buffer : Seq(Nat),
                              got : Seq(Nat), from : Nat, missed : BOOLEAN]]
    /\ player \in [Player -> [pc : {"idle", "starting", "emptied", "playing"}, of : Sessions,
                              left : 0..DemoLength, request : BOOLEAN]]
    /\ copy \in File /\ file \in File
    /\ due \in [events : Seq(Nat), emptied : BOOLEAN]
    /\ made \in 0..MaxMade

(* A session's running total of failures is that of its events, whatever is kept,
   refused, emptied or uploaded.                                             *)
TotalsMatch == \A s \in Sessions : session[s].errors = Cardinality(Failures(session[s].events))

(* A file that was written to its end holds what the command's session held when
   it was closed: exchanges that end late, the gap between closing and copying,
   a death and a file that was there before do not change it; only a demo does
   that empties the session in that gap.                                      *)
SavedIsWhole == file.state = "whole" => file.events = file.due \/ file.emptied

(* What a viewer has been sent of the session it follows is what the session has
   taken since then, in that order and nothing twice: all of it, as far as its
   channel did not run full.                                                  *)
StreamIsFaithful ==
    \A v \in Viewer :
        LET me == viewer[v]
            sent == me.got \o me.buffer
            taken == SubSeq(session[me.of].ever, me.from + 1, Len(session[me.of].ever))
        IN  /\ \A i, j \in DOMAIN sent : i < j => sent[i] < sent[j]
            /\ \A i \in DOMAIN sent : \E j \in DOMAIN taken : taken[j] = sent[i]
            /\ me.open /\ ~me.missed => sent = taken
==============================================================================
