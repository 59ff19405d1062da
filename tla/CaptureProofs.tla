----------------------------- MODULE CaptureProofs -----------------------------
(***************************************************************************)
(* Theorems about CaptureSession for any viewers, demos, events and        *)
(* limits: its types, the totals of a session, the file a command leaves   *)
(* and what a browser that follows a session is sent.                      *)
(***************************************************************************)
EXTENDS CaptureSession, FiniteSetTheorems, SequenceTheorems, TLAPS

(* The failures of a sequence are finitely many of its positions. *)
LEMMA FailuresFinite ==
    ASSUME NEW ev \in Seq(Nat)
    PROVE  IsFiniteSet(Failures(ev)) /\ Cardinality(Failures(ev)) \in Nat
<1>1. IsFiniteSet(1..Len(ev))
  BY FS_Interval
<1>2. Failures(ev) \subseteq 1..Len(ev)
  BY DEF Failures
<1> QED  BY <1>1, <1>2, FS_Subset, FS_CardinalityType

(* A session filled from typed events is typed. *)
LEMMA HoldingTypes ==
    ASSUME NEW ev \in Seq(Nat)
    PROVE  Holding(ev) \in Session
  BY FailuresFinite DEF Holding, Session

(* What a new process starts with is typed. *)
LEMMA AfreshTypes ==
    ASSUME NEW ev \in Seq(Nat), Afresh(ev)
    PROVE  /\ session' \in [Sessions -> Session]
           /\ shown' \in Sessions /\ uploads' \in Sessions
           /\ viewer' = [v \in Viewer |-> Away]
           /\ player' = [p \in Player |-> NotPlaying]
           /\ copy' = Saved("none", <<>>, NothingDue) /\ due' = NothingDue
<1>1. <<>> \in Seq(Nat) /\ 0 \in Sessions
  BY CaptureAssumption DEF Sessions
<1>2. Holding(ev) \in Session /\ Holding(<<>>) \in Session
  BY <1>1, HoldingTypes
<1> QED  BY <1>1, <1>2 DEF Afresh

StreamOf == [on : BOOLEAN, of : Sessions, open : BOOLEAN, buffer : Seq(Nat),
             got : Seq(Nat), from : Nat, missed : BOOLEAN]
Demonstration == [pc : {"idle", "starting", "emptied", "playing"}, of : Sessions,
                  left : 0..DemoLength, request : BOOLEAN]

(* The values a process starts with have their types. *)
LEMMA RestTypes ==
    /\ Away \in StreamOf /\ NotPlaying \in Demonstration
    /\ Saved("none", <<>>, NothingDue) \in File
    /\ NothingDue \in [events : Seq(Nat), emptied : BOOLEAN]
<1>1. <<>> \in Seq(Nat) /\ 0 \in Sessions /\ 0 \in 0..DemoLength
  BY CaptureAssumption DEF Sessions
<1> QED  BY <1>1 DEF Away, NotPlaying, Saved, NothingDue, StreamOf, Demonstration, File

(* An ingested event keeps sessions, viewers and the count of events typed. *)
LEMMA IngestTypes ==
    ASSUME CaptureTypeOK, NEW s \in Sessions, IngestEvent(s)
    PROVE  /\ session' \in [Sessions -> Session]
           /\ viewer' \in [Viewer -> StreamOf]
           /\ made' \in 0..MaxMade
<1>1. made' \in 0..MaxMade /\ made' \in Nat
  BY CaptureAssumption DEF CaptureTypeOK, IngestEvent
<1>2. session \in [Sessions -> Session] /\ viewer \in [Viewer -> StreamOf]
  BY DEF CaptureTypeOK, StreamOf
<1>3. CASE Accepts(s)
  <2>1. session' \in [Sessions -> Session]
    <3>1. Append(session[s].events, made') \in Seq(Nat)
          /\ Append(session[s].ever, made') \in Seq(Nat)
      BY <1>1, <1>2 DEF Session
    <3> DEFINE more == IF made' \in Failed THEN session[s].errors + 1 ELSE session[s].errors
               next == [events |-> Append(session[s].events, made'), errors |-> more,
                        closed |-> session[s].closed,
                        ever |-> Append(session[s].ever, made')]
    <3>2. more \in Nat /\ session[s].closed \in BOOLEAN
      BY <1>2 DEF Session
    <3>3. session' = [session EXCEPT ![s] = next]
      BY <1>3 DEF IngestEvent, Kept
    <3> HIDE DEF more
    <3>4. next \in Session
      BY <3>1, <3>2 DEF Session
    <3> HIDE DEF next
    <3> QED  BY <1>2, <3>3, <3>4
  <2>2. \A v \in Viewer : Offered(v, made') \in StreamOf
    <3> TAKE v \in Viewer
    <3>1. viewer[v] \in StreamOf /\ Append(viewer[v].buffer, made') \in Seq(Nat)
      BY <1>1, <1>2 DEF StreamOf
    <3> QED  BY <3>1 DEF Offered, StreamOf
  <2> QED  BY <1>1, <1>2, <1>3, <2>1, <2>2 DEF IngestEvent, Broadcast
<1>4. CASE ~Accepts(s)
  BY <1>1, <1>2, <1>4 DEF IngestEvent
<1> QED  BY <1>3, <1>4

(* Emptying a session keeps sessions typed, and what is due. *)
LEMMA ResetTypes ==
    ASSUME CaptureTypeOK, NEW s \in Sessions, Reset(s)
    PROVE  /\ session' \in [Sessions -> Session]
           /\ due' \in [events : Seq(Nat), emptied : BOOLEAN]
<1>1. <<>> \in Seq(Nat)
  OBVIOUS
<1> QED  BY <1>1 DEF CaptureTypeOK, Reset, Session

(* A new process, a dying one and one that ends keep everything typed. *)
LEMMA RestartTypes ==
    ASSUME CaptureTypeOK, NEW ev \in Seq(Nat), Afresh(ev), todo' \in 0..DemoLength,
           command' \in Command, step' \in Step, file' \in File, made' = made
    PROVE  CaptureTypeOK'
  BY AfreshTypes, RestTypes DEF CaptureTypeOK, StreamOf, Demonstration

(* A process that ends keeps everything typed. *)
LEMMA ExitTypes ==
    ASSUME CaptureTypeOK, Exit, command' = command, file' \in File, made' = made
    PROVE  CaptureTypeOK'
<1>1. <<>> \in Seq(Nat) /\ 0 \in 0..DemoLength /\ "exited" \in Step
  BY CaptureAssumption DEF Step
<1> QED  BY <1>1, RestartTypes DEF Exit, CaptureTypeOK

(* What the command does after its session is closed keeps everything typed. *)
LEMMA AfterCloseTypes ==
    ASSUME CaptureTypeOK, AfterClose, command' = command, file' \in File, made' = made
    PROVE  CaptureTypeOK'
<1>1. CASE command = "run"
  BY <1>1, ExitTypes DEF AfterClose
<1>2. CASE command # "run"
  BY <1>2 DEF AfterClose, CaptureTypeOK, Step, served
<1> QED  BY <1>1, <1>2

(* The command's own steps keep everything typed. *)
LEMMA CommandTypes ==
    ASSUME CaptureTypeOK,
           Run \/ Demo \/ Open \/ Exchange \/ RunDemo \/ Ends \/ CloseSession \/ CopyCapture
             \/ CreateFile \/ WriteFile \/ Interrupted \/ Stop \/ Die
    PROVE  CaptureTypeOK'
<1> USE CaptureAssumption
<1>0. <<>> \in Seq(Nat) /\ 0 \in Sessions /\ 0 \in 0..DemoLength /\ DemoLength \in 0..DemoLength
  BY DEF Sessions
<1>1. CASE Run
  BY <1>0, <1>1, RestartTypes DEF Run, CaptureTypeOK, Command, Step
<1>2. CASE Demo
  BY <1>0, <1>2, RestartTypes DEF Demo, CaptureTypeOK, Command, Step
<1>3. CASE Open
  <2>1. file.events \in Seq(Nat)
    BY DEF CaptureTypeOK, File
  <2> QED  BY <1>0, <1>3, <2>1, RestartTypes DEF Open, CaptureTypeOK, Command, Step
<1>4. CASE Exchange
  BY <1>0, <1>4, IngestTypes DEF Exchange, CaptureTypeOK, main, served, StreamOf
<1>5. CASE RunDemo
  BY <1>0, <1>5, IngestTypes DEF RunDemo, CaptureTypeOK, served, StreamOf
<1>6. CASE Ends
  BY <1>6 DEF Ends, CaptureTypeOK, Step, served
<1>7. CASE CloseSession
  <2>1. session' \in [Sessions -> Session]
    BY ZenonT(60), <1>7 DEF CloseSession, MarkClosed, CaptureTypeOK, Session
  <2>2. viewer' \in [Viewer -> StreamOf]
    <3>1. viewer \in [Viewer -> StreamOf]
      BY DEF CaptureTypeOK, StreamOf
    <3>2. ASSUME NEW v \in Viewer
          PROVE  [viewer[v] EXCEPT !.open = @ /\ viewer[v].of # 0] \in StreamOf
      BY <3>1, Zenon DEF StreamOf
    <3> QED  BY <1>7, <3>2 DEF CloseSession
  <2>3. due' \in [events : Seq(Nat), emptied : BOOLEAN]
    BY <1>0, <1>7 DEF CloseSession, CaptureTypeOK, Session
  <2> QED  BY <1>7, <2>1, <2>2, <2>3 DEF CloseSession, CaptureTypeOK, StreamOf, Step, served
<1>8. CASE CopyCapture
  <2>1. session[0].events \in Seq(Nat)
    BY <1>0 DEF CaptureTypeOK, Session
  <2>2. copy' \in File
    BY <1>8, <2>1 DEF CopyCapture, CaptureTypeOK, Saved, File
  <2> QED  BY <1>8, <2>2 DEF CopyCapture, CaptureTypeOK, Step, served
<1>9. CASE CreateFile
  <2>1. Saved("partial", <<>>, NothingDue) \in File
    BY <1>0 DEF Saved, File, NothingDue
  <2>2. CASE AfterClose /\ UNCHANGED file
    BY <1>9, <2>2, AfterCloseTypes DEF CreateFile, CaptureTypeOK
  <2>3. CASE step' = "write"
    BY <1>9, <2>1, <2>2, <2>3 DEF CreateFile, CaptureTypeOK, Step, served
  <2> QED  BY <1>9, <2>2, <2>3 DEF CreateFile
<1>10. CASE WriteFile
  <2>1. file' \in File
    BY <1>10 DEF WriteFile, CaptureTypeOK, File
  <2> QED  BY <1>10, <2>1, AfterCloseTypes DEF WriteFile
<1>11. CASE Interrupted
  BY <1>11 DEF Interrupted, CaptureTypeOK, Step, served
<1>12. CASE Stop \/ Die
  BY <1>12, ExitTypes DEF Stop, Die, CaptureTypeOK
<1> QED  BY <1>1, <1>2, <1>3, <1>4, <1>5, <1>6, <1>7, <1>8, <1>9, <1>10, <1>11, <1>12

(* Following a session, and leaving it, keeps everything typed. *)
LEMMA ViewerTypes ==
    ASSUME CaptureTypeOK, NEW v \in Viewer, SubscribeTo(v) \/ Receive(v) \/ Leave(v)
    PROVE  CaptureTypeOK'
<1>1. viewer \in [Viewer -> StreamOf] /\ <<>> \in Seq(Nat)
  BY DEF CaptureTypeOK, StreamOf
<1>2. CASE SubscribeTo(v)
  <2>1. Len(session[shown].ever) \in Nat
    BY DEF CaptureTypeOK, Session
  <2>2. shown \in Sessions
    BY DEF CaptureTypeOK
  <2> DEFINE new == [on |-> TRUE, of |-> shown, open |-> TRUE, buffer |-> <<>>, got |-> <<>>,
                     from |-> Len(session[shown].ever), missed |-> FALSE]
  <2>3. new \in StreamOf
    BY <1>1, <2>1, <2>2 DEF StreamOf
  <2>4. viewer' = [viewer EXCEPT ![v] = new]
    BY <1>2 DEF SubscribeTo
  <2> HIDE DEF new
  <2>5. viewer' \in [Viewer -> StreamOf]
    BY <1>1, <2>3, <2>4
  <2> QED  BY <1>2, <2>5 DEF SubscribeTo, CaptureTypeOK, StreamOf, main, served
<1>3. CASE Receive(v)
  <2>1. viewer[v] \in StreamOf
    BY <1>1
  <2>2. Head(viewer[v].buffer) \in Nat /\ Tail(viewer[v].buffer) \in Seq(Nat)
    BY <1>3, <2>1 DEF Receive, StreamOf
  <2>3. Append(viewer[v].got, Head(viewer[v].buffer)) \in Seq(Nat)
    BY <2>1, <2>2 DEF StreamOf
  <2>4. viewer' \in [Viewer -> StreamOf]
    BY <1>1, <1>3, <2>1, <2>2, <2>3 DEF Receive, StreamOf
  <2> QED  BY <1>3, <2>4 DEF Receive, CaptureTypeOK, StreamOf, main, served
<1>4. CASE Leave(v)
  <2>1. viewer' \in [Viewer -> StreamOf]
    BY <1>1, <1>4, RestTypes DEF Leave
  <2> QED  BY <1>4, <2>1 DEF Leave, CaptureTypeOK, StreamOf, main, served
<1> QED  BY <1>2, <1>3, <1>4

(* Demos keep everything typed. *)
LEMMA PlayerTypes ==
    ASSUME CaptureTypeOK, NEW p \in Player,
           Simulate(p) \/ RunDemoLive(p) \/ LoadDemo(p) \/ LookAgain(p) \/ Play(p) \/ EndPlaying(p)
    PROVE  CaptureTypeOK'
<1> USE CaptureAssumption
<1>1. player \in [Player -> Demonstration] /\ player[p] \in Demonstration /\ shown \in Sessions
  BY DEF CaptureTypeOK, Demonstration
<1>2. player[p].of \in Sessions
  BY <1>1 DEF Demonstration
<1>3. \A s \in Sessions, r \in BOOLEAN : Playing(s, r) \in Demonstration
  BY DEF Playing, Demonstration
<1>4. CASE Simulate(p)
  <2>1. player' \in [Player -> Demonstration]
    BY <1>1, <1>4 DEF Simulate, Demonstration
  <2> QED  BY <1>4, <2>1 DEF Simulate, CaptureTypeOK, Demonstration, main, served
<1>5. CASE RunDemoLive(p)
  <2>1. player' \in [Player -> Demonstration]
    BY <1>1, <1>2, <1>3, <1>5 DEF RunDemoLive
  <2> QED  BY <1>2, <1>5, <2>1, ResetTypes DEF RunDemoLive, CaptureTypeOK, Demonstration, main, served
<1>6. CASE LoadDemo(p)
  <2>1. player' \in [Player -> Demonstration]
    BY <1>1, <1>6 DEF LoadDemo, Demonstration
  <2> QED  BY <1>1, <1>6, <2>1, ResetTypes DEF LoadDemo, CaptureTypeOK, Demonstration, main, served
<1>7. CASE LookAgain(p)
  <2>1. player' \in [Player -> Demonstration]
    BY <1>1, <1>3, <1>7 DEF LookAgain
  <2> QED  BY <1>7, <2>1 DEF LookAgain, CaptureTypeOK, Demonstration, main, served
<1>8. CASE Play(p)
  <2>1. player[p].left - 1 \in 0..DemoLength
    BY <1>1, <1>8 DEF Play, Demonstration
  <2>2. player' \in [Player -> Demonstration]
    BY <1>1, <1>8, <2>1 DEF Play, Demonstration
  <2> QED  BY <1>2, <1>8, <2>2, IngestTypes DEF Play, CaptureTypeOK, Demonstration, StreamOf, main, served
<1>9. CASE EndPlaying(p)
  <2>1. player' \in [Player -> Demonstration]
    BY <1>1, <1>9, RestTypes DEF EndPlaying
  <2> QED  BY <1>9, <2>1 DEF EndPlaying, CaptureTypeOK, Demonstration, main, served
<1> QED  BY <1>4, <1>5, <1>6, <1>7, <1>8, <1>9

(* Traces that are received, and files that are uploaded, keep everything typed. *)
LEMMA RequestTypes ==
    ASSUME CaptureTypeOK, ReceiveTraces \/ Upload
    PROVE  CaptureTypeOK'
<1>1. CASE ReceiveTraces
  <2>1. shown \in Sessions
    BY DEF CaptureTypeOK
  <2> QED  BY <1>1, <2>1, IngestTypes DEF ReceiveTraces, CaptureTypeOK, StreamOf, main, served
<1>2. CASE Upload
  <2>1. uploads' \in Sessions
    BY <1>2, CaptureAssumption DEF Upload, CaptureTypeOK, Sessions
  <2>2. Holding(file.events) \in Session
    BY HoldingTypes DEF CaptureTypeOK, File
  <2>3. session' \in [Sessions -> Session]
    BY <1>2, <2>1, <2>2 DEF Upload, CaptureTypeOK
  <2> QED  BY <1>2, <2>1, <2>3 DEF Upload, CaptureTypeOK, main
<1> QED  BY <1>1, <1>2

(* Commands, sessions, viewers, demos and files keep their types, in every process. *)
THEOREM CaptureTypes == CaptureSpec => []CaptureTypeOK
<1>1. CaptureInit => CaptureTypeOK
  <2> SUFFICES ASSUME CaptureInit PROVE CaptureTypeOK
    OBVIOUS
  <2>1. Holding(<<>>) \in Session /\ 0 \in Sessions
    <3>1. <<>> \in Seq(Nat)
      OBVIOUS
    <3>2. Holding(<<>>) \in Session
      BY <3>1, HoldingTypes
    <3> QED  BY <3>2, CaptureAssumption DEF Sessions
  <2> QED  BY <2>1, RestTypes, CaptureAssumption
           DEF CaptureInit, CaptureTypeOK, Command, Step, StreamOf, Demonstration
<1>2. CaptureTypeOK /\ [CaptureNext]_captureVars => CaptureTypeOK'
  <2> SUFFICES ASSUME CaptureTypeOK, [CaptureNext]_captureVars PROVE CaptureTypeOK'
    OBVIOUS
  <2>1. CASE UNCHANGED captureVars
    BY <2>1 DEF captureVars, CaptureTypeOK
  <2>2. CASE CaptureNext
    BY <2>2, CommandTypes, RequestTypes, ViewerTypes, PlayerTypes DEF CaptureNext
  <2> QED  BY <2>1, <2>2
<1> QED  BY <1>1, <1>2, PTL DEF CaptureSpec

------------------------------------------------------------------------------
(* The file.  Between closing and copying the session is closed and as it was
   found, or a demo has emptied it: an ingestion in that gap is refused.      *)
AsFound == step = "copy" => due.emptied \/ (session[0].closed /\ due.events = session[0].events)
Whole(f) == f.emptied \/ f.events = f.due
SavedInv == CaptureTypeOK /\ AsFound /\ Whole(copy) /\ Whole(file)

(* A closed session refuses what it is given. *)
LEMMA ClosedRefuses ==
    ASSUME CaptureTypeOK, NEW s \in Sessions, IngestEvent(s)
    PROVE  session[0].closed => session'[0] = session[0]
<1>1. session \in [Sessions -> Session] /\ 0 \in Sessions
  BY CaptureAssumption DEF CaptureTypeOK, Sessions
<1>2. CASE s = 0
  BY <1>1, <1>2 DEF IngestEvent, Accepts
<1>3. CASE s # 0
  BY <1>1, <1>3 DEF IngestEvent, Kept
<1> QED  BY <1>2, <1>3

(* Emptying the session that was closed is remembered; emptying another leaves it. *)
LEMMA ResetIsNoted ==
    ASSUME CaptureTypeOK, AsFound, NEW s \in Sessions, Reset(s), UNCHANGED main
    PROVE  AsFound'
<1>1. session \in [Sessions -> Session] /\ 0 \in Sessions
  BY CaptureAssumption DEF CaptureTypeOK, Sessions
<1>2. due'.events = due.events /\ due'.emptied = (due.emptied \/ s = 0)
  BY DEF Reset, CaptureTypeOK
<1>3. CASE s = 0
  BY <1>2, <1>3 DEF AsFound
<1>4. CASE s # 0
  BY <1>1, <1>2, <1>4 DEF AsFound, Reset, main
<1> QED  BY <1>3, <1>4

(* A process that ends saves nothing, and leaves the file it has. *)
LEMMA ExitSaves ==
    ASSUME SavedInv, Exit, Whole(file')
    PROVE  (AsFound /\ Whole(copy) /\ Whole(file))'
  BY DEF Exit, Afresh, AsFound, Whole, Saved, NothingDue

(* The command's steps keep what is saved whole. *)
LEMMA CommandSaves ==
    ASSUME SavedInv,
           Run \/ Demo \/ Open \/ Exchange \/ RunDemo \/ Ends \/ CloseSession \/ CopyCapture
             \/ CreateFile \/ WriteFile \/ Interrupted \/ Stop \/ Die
    PROVE  (AsFound /\ Whole(copy) /\ Whole(file))'
<1> USE CaptureAssumption
<1>0. 0 \in Sessions /\ session \in [Sessions -> Session]
  BY DEF SavedInv, CaptureTypeOK, Sessions
<1>1. CASE Run \/ Demo \/ Open
  BY <1>1 DEF SavedInv, Run, Demo, Open, Afresh, AsFound, Whole, Saved, NothingDue
<1>2. CASE Exchange \/ RunDemo
  BY <1>0, <1>2, ClosedRefuses DEF SavedInv, Exchange, RunDemo, AsFound, Whole, main
<1>3. CASE Ends \/ Interrupted
  BY <1>3 DEF SavedInv, Ends, Interrupted, AsFound, Whole
<1>4. CASE CloseSession
  <2>1. session'[0].closed /\ session'[0].events = session[0].events
    BY <1>0, <1>4 DEF CloseSession, MarkClosed, Session
  <2> QED  BY <1>4, <2>1 DEF SavedInv, CloseSession, AsFound, Whole
<1>5. CASE CopyCapture
  BY <1>5 DEF SavedInv, CopyCapture, AsFound, Whole, Saved
<1>6. CASE CreateFile
  <2>1. CASE AfterClose /\ UNCHANGED file
    <3>1. CASE command = "run"
      BY <2>1, <3>1, ExitSaves DEF SavedInv, AfterClose
    <3>2. CASE command # "run"
      BY <2>1, <3>2 DEF SavedInv, AfterClose, AsFound, Whole
    <3> QED  BY <3>1, <3>2
  <2>2. CASE step' = "write" /\ file' = Saved("partial", <<>>, NothingDue) /\ UNCHANGED copy
    BY <2>2 DEF SavedInv, AsFound, Whole, Saved, NothingDue
  <2> QED  BY <1>6, <2>1, <2>2 DEF CreateFile
<1>7. CASE WriteFile
  <2>1. Whole(file')
    BY <1>7 DEF WriteFile, SavedInv, Whole, CaptureTypeOK, File
  <2>2. CASE command = "run"
    BY <1>7, <2>1, <2>2, ExitSaves DEF WriteFile, AfterClose
  <2>3. CASE command # "run"
    BY <1>7, <2>1, <2>3 DEF SavedInv, WriteFile, AfterClose, AsFound, Whole
  <2> QED  BY <2>2, <2>3
<1>8. CASE Stop \/ Die
  <2>1. Exit /\ Whole(file')
    BY <1>8 DEF Stop, Die, SavedInv, Whole
  <2> QED  BY <2>1, ExitSaves
<1> QED  BY <1>1, <1>2, <1>3, <1>4, <1>5, <1>6, <1>7, <1>8

(* The requests keep what is saved whole: a session shown in place of the
   command's is another one.                                                 *)
LEMMA RequestSaves ==
    ASSUME SavedInv,
           \/ ReceiveTraces \/ Upload
           \/ \E v \in Viewer : SubscribeTo(v) \/ Receive(v) \/ Leave(v)
           \/ \E p \in Player : \/ Simulate(p) \/ RunDemoLive(p) \/ LoadDemo(p) \/ LookAgain(p)
                                \/ Play(p) \/ EndPlaying(p)
    PROVE  (AsFound /\ Whole(copy) /\ Whole(file))'
<1> USE CaptureAssumption
<1>0. /\ 0 \in Sessions /\ session \in [Sessions -> Session] /\ shown \in Sessions
      /\ uploads \in Nat /\ \A p \in Player : player[p].of \in Sessions
  BY DEF SavedInv, CaptureTypeOK, Sessions
<1>1. CASE ReceiveTraces
  BY <1>0, <1>1, ClosedRefuses DEF SavedInv, ReceiveTraces, AsFound, Whole, main
<1>2. CASE Upload
  <2>1. session'[0] = session[0]
    BY <1>0, <1>2 DEF Upload
  <2> QED  BY <1>2, <2>1 DEF SavedInv, Upload, AsFound, Whole, main
<1>3. CASE \E v \in Viewer : SubscribeTo(v) \/ Receive(v) \/ Leave(v)
  BY <1>3 DEF SavedInv, SubscribeTo, Receive, Leave, AsFound, Whole, main
<1>4. ASSUME NEW p \in Player, Simulate(p) \/ LookAgain(p) \/ EndPlaying(p)
      PROVE  (AsFound /\ Whole(copy) /\ Whole(file))'
  BY <1>4 DEF SavedInv, Simulate, LookAgain, EndPlaying, AsFound, Whole, main
<1>5. ASSUME NEW p \in Player, Play(p)
      PROVE  (AsFound /\ Whole(copy) /\ Whole(file))'
  BY <1>0, <1>5, ClosedRefuses DEF SavedInv, Play, AsFound, Whole, main
<1>6. ASSUME NEW p \in Player, RunDemoLive(p) \/ LoadDemo(p)
      PROVE  (AsFound /\ Whole(copy) /\ Whole(file))'
  <2>1. AsFound'
    BY <1>0, <1>6, ResetIsNoted DEF SavedInv, RunDemoLive, LoadDemo
  <2> QED  BY <1>6, <2>1 DEF SavedInv, RunDemoLive, LoadDemo, Whole
<1> QED  BY <1>1, <1>2, <1>3, <1>4, <1>5, <1>6

(* A file written to its end holds what the session held when it was closed, or a
   demo emptied the session before it was copied.                              *)
THEOREM SavedWhole == CaptureSpec => []SavedIsWhole
<1>1. CaptureInit => AsFound /\ Whole(copy) /\ Whole(file)
  BY DEF CaptureInit, AsFound, Whole, Saved, NothingDue
<1>2. SavedInv /\ [CaptureNext]_captureVars => (AsFound /\ Whole(copy) /\ Whole(file))'
  <2> SUFFICES ASSUME SavedInv, [CaptureNext]_captureVars
               PROVE  (AsFound /\ Whole(copy) /\ Whole(file))'
    OBVIOUS
  <2>1. CASE UNCHANGED captureVars
    BY <2>1 DEF captureVars, SavedInv, AsFound, Whole
  <2>2. CASE CaptureNext
    BY <2>2, CommandSaves, RequestSaves DEF CaptureNext
  <2> QED  BY <2>1, <2>2
<1>3. Whole(file) => SavedIsWhole
  BY DEF Whole, SavedIsWhole
<1> QED  BY <1>1, <1>2, <1>3, CaptureTypes, PTL DEF CaptureSpec, SavedInv

------------------------------------------------------------------------------
(* The stream.  No event has a higher number than the last one made, so one that is
   sent is higher than all that were sent before.                              *)
UpTo(events, n) == \A i \in 1..Len(events) : events[i] <= n

Sent(me) == me.got \o me.buffer
Taken(me, ever) == SubSeq(ever, me.from + 1, Len(ever))
Follows(me, ever) ==
    /\ me.from <= Len(ever)
    /\ \A i, j \in DOMAIN Sent(me) : i < j => Sent(me)[i] < Sent(me)[j]
    /\ \A i \in DOMAIN Sent(me) : \E j \in DOMAIN Taken(me, ever) : Taken(me, ever)[j] = Sent(me)[i]
    /\ me.open /\ ~me.missed => Sent(me) = Taken(me, ever)

SessionsUpTo == \A s \in Sessions : UpTo(session[s].events, made) /\ UpTo(session[s].ever, made)
FilesUpTo == UpTo(copy.events, made) /\ UpTo(file.events, made)
ViewersFollow ==
    \A v \in Viewer : viewer[v].of <= uploads /\ Follows(viewer[v], session[viewer[v].of].ever)
StreamInv == SessionsUpTo /\ FilesUpTo /\ shown <= uploads /\ ViewersFollow

(* Appending lengthens what was taken by the new event. *)
LEMMA TakenGrows ==
    ASSUME NEW ever \in Seq(Nat), NEW n \in Nat, n <= Len(ever), NEW e \in Nat
    PROVE  SubSeq(Append(ever, e), n + 1, Len(Append(ever, e)))
             = Append(SubSeq(ever, n + 1, Len(ever)), e)
<1> DEFINE a == SubSeq(Append(ever, e), n + 1, Len(Append(ever, e)))
           b == SubSeq(ever, n + 1, Len(ever))
<1>1. /\ Append(ever, e) \in Seq(Nat) /\ Len(Append(ever, e)) = Len(ever) + 1
      /\ \A i \in 1..Len(ever) : Append(ever, e)[i] = ever[i]
      /\ Append(ever, e)[Len(ever) + 1] = e
  BY AppendProperties
<1>2. /\ b \in Seq(Nat) /\ Len(b) = Len(ever) - n
      /\ \A i \in 1..Len(ever) - n : b[i] = ever[n + i]
  BY SubSeqProperties
<1>3. /\ a \in Seq(Nat) /\ Len(a) = Len(ever) + 1 - n
      /\ \A i \in 1..Len(ever) + 1 - n : a[i] = Append(ever, e)[n + i]
  BY <1>1, SubSeqProperties
<1> HIDE DEF a, b
<1>4. /\ Append(b, e) \in Seq(Nat) /\ Len(Append(b, e)) = Len(b) + 1
      /\ \A i \in 1..Len(b) : Append(b, e)[i] = b[i]
      /\ Append(b, e)[Len(b) + 1] = e
  BY <1>2, AppendProperties
<1>5. ASSUME NEW i \in 1..Len(a) PROVE a[i] = Append(b, e)[i]
  <2>1. Len(ever) \in Nat /\ i \in Nat /\ i >= 1 /\ i <= Len(ever) + 1 - n
    <3>1. Len(ever) \in Nat /\ Len(a) = Len(ever) + 1 - n
      BY <1>3
    <3> QED  BY <3>1
  <2>0. a[i] = Append(ever, e)[n + i]
    BY <1>3, <2>1
  <2>2. CASE i <= Len(ever) - n
    BY <1>1, <1>2, <1>4, <2>0, <2>1, <2>2
  <2>3. CASE i = Len(ever) + 1 - n
    <3>1. n + i = Len(ever) + 1 /\ i = Len(b) + 1
      BY <1>2, <2>1, <2>3
    <3> QED  BY <1>1, <1>4, <2>0, <3>1
  <2>4. i <= Len(ever) - n \/ i = Len(ever) + 1 - n
    BY <2>1
  <2> QED  BY <2>2, <2>3, <2>4
<1>6. Len(a) = Len(Append(b, e))
  BY <1>2, <1>3, <1>4
<1>7. a = Append(b, e)
  BY <1>3, <1>4, <1>5, <1>6, SeqEqual
<1> QED  BY <1>7 DEF a, b

(* What is put in the channel lengthens what is sent; receiving moves it along. *)
LEMMA SentGrows ==
    ASSUME NEW g \in Seq(Nat), NEW b \in Seq(Nat), NEW e \in Nat
    PROVE  g \o Append(b, e) = Append(g \o b, e)
<1>1. Append(b, e) = b \o <<e>> /\ <<e>> \in Seq(Nat) /\ g \o b \in Seq(Nat)
  BY AppendIsConcat, ConcatProperties
<1>2. g \o (b \o <<e>>) = (g \o b) \o <<e>>
  BY <1>1, ConcatAssociative
<1> QED  BY <1>1, <1>2, AppendIsConcat

LEMMA SentMoves ==
    ASSUME NEW g \in Seq(Nat), NEW b \in Seq(Nat), b # <<>>
    PROVE  Append(g, Head(b)) \o Tail(b) = g \o b
<1>1. Head(b) \in Nat /\ Tail(b) \in Seq(Nat)
  BY HeadTailProperties
<1>2. b = <<Head(b)>> \o Tail(b)
  <2>1. Len(b) \in Nat /\ Len(b) >= 1
    OBVIOUS
  <2>2. SubSeq(b, 1, Len(b)) = <<b[1]>> \o SubSeq(b, 2, Len(b))
    BY <2>1, SubSeqRecursiveFirst
  <2> QED  BY <2>1, <2>2, SubSeqFull, TailIsSubSeq
<1>3. Append(g, Head(b)) = g \o <<Head(b)>> /\ <<Head(b)>> \in Seq(Nat)
  BY <1>1, AppendIsConcat
<1> QED  BY SMTT(30), <1>1, <1>2, <1>3, ConcatAssociative

(* A viewer that is told of nothing, because it is not open, still follows. *)
LEMMA FollowsUntold ==
    ASSUME NEW me \in StreamOf, NEW ever \in Seq(Nat), NEW e \in Nat, Follows(me, ever),
           ~me.open \/ me.missed
    PROVE  Follows(me, Append(ever, e))
<1>1. me.from \in Nat /\ me.from <= Len(ever) /\ Len(Append(ever, e)) = Len(ever) + 1
  BY AppendProperties DEF Follows, StreamOf
<1>2. Taken(me, Append(ever, e)) = Append(Taken(me, ever), e)
  BY <1>1, TakenGrows DEF Taken
<1>3. Taken(me, ever) \in Seq(Nat)
  BY <1>1, SubSeqProperties DEF Taken
<1>4. \A j \in DOMAIN Taken(me, ever) :
        /\ j \in DOMAIN Taken(me, Append(ever, e))
        /\ Taken(me, Append(ever, e))[j] = Taken(me, ever)[j]
  BY <1>2, <1>3, AppendProperties
<1>5. Len(ever) \in Nat
  OBVIOUS
<1> QED  BY <1>1, <1>4, <1>5 DEF Follows

(* One whose channel is full is passed over, and still follows. *)
LEMMA FollowsPassedOver ==
    ASSUME NEW me \in StreamOf, NEW ever \in Seq(Nat), NEW e \in Nat, Follows(me, ever)
    PROVE  Follows([me EXCEPT !.missed = TRUE], Append(ever, e))
<1> DEFINE you == [me EXCEPT !.missed = TRUE]
<1>1. you \in StreamOf /\ you.missed
  BY DEF StreamOf
<1>2. you.got = me.got /\ you.buffer = me.buffer /\ you.from = me.from
  BY DEF StreamOf
<1> HIDE DEF you
<1>3. Follows(you, ever)
  <2>1. Sent(you) = Sent(me) /\ Taken(you, ever) = Taken(me, ever)
    BY <1>2 DEF Sent, Taken
  <2> QED  BY <1>1, <1>2, <2>1 DEF Follows
<1>4. Follows(you, Append(ever, e))
  BY <1>1, <1>3, FollowsUntold
<1> QED  BY <1>4 DEF you

(* One that is told of an event newer than all before it follows. *)
LEMMA FollowsTold ==
    ASSUME NEW me \in StreamOf, NEW ever \in Seq(Nat), NEW n \in Nat, UpTo(ever, n),
           Follows(me, ever)
    PROVE  Follows([me EXCEPT !.buffer = Append(@, n + 1)], Append(ever, n + 1))
<1> DEFINE e == n + 1
           you == [me EXCEPT !.buffer = Append(@, e)]
<1>0. e \in Nat
  OBVIOUS
<1>1. /\ you.got = me.got /\ you.buffer = Append(me.buffer, e) /\ you.from = me.from
      /\ you.open = me.open /\ you.missed = me.missed
      /\ me.got \in Seq(Nat) /\ me.buffer \in Seq(Nat)
  BY DEF StreamOf
<1>2. Sent(you) = Append(Sent(me), e) /\ Sent(me) \in Seq(Nat)
  BY ZenonT(60), <1>0, <1>1, SentGrows, ConcatProperties DEF Sent
<1>3. me.from \in Nat /\ me.from <= Len(ever) /\ Len(Append(ever, e)) = Len(ever) + 1
  BY <1>0, AppendProperties DEF Follows, StreamOf
<1>4. Taken(you, Append(ever, e)) = Append(Taken(me, ever), e)
  BY ZenonT(60), <1>0, <1>1, <1>3, TakenGrows DEF Taken
<1>5. /\ Taken(me, ever) \in Seq(Nat) /\ Len(Taken(me, ever)) = Len(ever) - me.from
      /\ \A j \in 1..Len(ever) - me.from : Taken(me, ever)[j] = ever[me.from + j]
  <2>1. me.from + 1 \in Int /\ Len(ever) \in Int
    BY <1>3
  <2>2. \A i \in me.from + 1..Len(ever) : ever[i] \in Nat
    BY <1>3
  <2>3. /\ Taken(me, ever) \in Seq(Nat)
        /\ Len(Taken(me, ever)) = IF me.from + 1 <= Len(ever)
                                  THEN Len(ever) - (me.from + 1) + 1 ELSE 0
        /\ \A j \in 1..Len(ever) - (me.from + 1) + 1 : Taken(me, ever)[j] = ever[(me.from + 1) + j - 1]
    BY <2>1, <2>2, SubSeqProperties DEF Taken
  <2>4. Len(Taken(me, ever)) = Len(ever) - me.from
    BY <1>3, <2>1, <2>3
  <2>5. ASSUME NEW j \in 1..Len(ever) - me.from
        PROVE  Taken(me, ever)[j] = ever[me.from + j]
    <3>1. Len(ever) - (me.from + 1) + 1 = Len(ever) - me.from /\ (me.from + 1) + j - 1 = me.from + j
      BY SMTT(30), <1>3, <2>1
    <3> QED  BY <2>3, <3>1
  <2> QED  BY <2>3, <2>4, <2>5
<1> DEFINE s == Sent(me)
           t == Taken(me, ever)
<1>6. /\ \A i, j \in 1..Len(s) : i < j => s[i] < s[j]
      /\ \A i \in 1..Len(s) : \E j \in 1..Len(t) : t[j] = s[i]
      /\ me.open /\ ~me.missed => s = t
  <2>1. DOMAIN s = 1..Len(s) /\ DOMAIN t = 1..Len(t)
    BY <1>2, <1>5
  <2> QED  BY <2>1, Zenon DEF Follows
<1>7. \A j \in 1..Len(t) : t[j] <= n
  <2> TAKE j \in 1..Len(t)
  <2>0. j \in 1..Len(ever) - me.from
    BY <1>5
  <2>1. me.from + j \in 1..Len(ever)
    BY <1>3, <2>0
  <2>2. t[j] = ever[me.from + j]
    BY <1>5, <2>0
  <2> QED  BY <2>1, <2>2 DEF UpTo
<1> HIDE DEF you, s, t, e
<1>8. s \in Seq(Nat) /\ t \in Seq(Nat)
  BY <1>2, <1>5 DEF s, t
<1>9. \A i \in 1..Len(s) : s[i] < e
  <2> TAKE i \in 1..Len(s)
  <2>1. PICK j \in 1..Len(t) : t[j] = s[i]
    BY <1>6
  <2>2. s[i] \in Nat /\ s[i] <= n
    BY <1>7, <1>8, <2>1
  <2> QED  BY <2>2 DEF e
<1>10. /\ Append(s, e) \in Seq(Nat) /\ Len(Append(s, e)) = Len(s) + 1
       /\ \A i \in 1..Len(s) : Append(s, e)[i] = s[i]
       /\ Append(s, e)[Len(s) + 1] = e
  BY <1>0, <1>8, AppendProperties
<1>11. /\ Append(t, e) \in Seq(Nat) /\ Len(Append(t, e)) = Len(t) + 1
       /\ \A i \in 1..Len(t) : Append(t, e)[i] = t[i]
       /\ Append(t, e)[Len(t) + 1] = e
  BY <1>0, <1>8, AppendProperties
<1>12. ASSUME NEW i \in 1..Len(s) + 1, NEW j \in 1..Len(s) + 1, i < j
       PROVE  Append(s, e)[i] < Append(s, e)[j]
  <2>1. i \in 1..Len(s)
    BY <1>8, <1>12
  <2>2. CASE j \in 1..Len(s)
    BY <1>6, <1>10, <1>12, <2>1, <2>2
  <2>3. CASE j = Len(s) + 1
    BY <1>9, <1>10, <2>1, <2>3
  <2>4. j \in 1..Len(s) \/ j = Len(s) + 1
    BY <1>8
  <2> QED  BY <2>2, <2>3, <2>4
<1>13. ASSUME NEW i \in 1..Len(s) + 1
       PROVE  \E j \in 1..Len(t) + 1 : Append(t, e)[j] = Append(s, e)[i]
  <2>1. CASE i \in 1..Len(s)
    <3>1. PICK j \in 1..Len(t) : t[j] = s[i]
      BY <1>6, <2>1
    <3>2. j \in 1..Len(t) + 1
      BY <1>8
    <3> QED  BY <1>10, <1>11, <2>1, <3>1, <3>2
  <2>2. CASE i = Len(s) + 1
    <3>1. Len(t) + 1 \in 1..Len(t) + 1
      BY <1>8
    <3> QED  BY <1>10, <1>11, <2>2, <3>1
  <2>3. i \in 1..Len(s) \/ i = Len(s) + 1
    BY <1>8
  <2> QED  BY <2>1, <2>2, <2>3
<1>14. Sent(you) = Append(s, e) /\ Taken(you, Append(ever, e)) = Append(t, e)
  BY <1>2, <1>4 DEF s, t
<1>15. DOMAIN Append(s, e) = 1..Len(s) + 1 /\ DOMAIN Append(t, e) = 1..Len(t) + 1
  BY <1>10, <1>11
<1>16. you.from <= Len(Append(ever, e))
  BY <1>1, <1>3
<1>17. Follows(you, Append(ever, e))
  BY <1>1, <1>6, <1>12, <1>13, <1>14, <1>15, <1>16, ZenonT(60) DEF Follows
<1> QED  BY <1>17 DEF you, e

(* One that just came, or is away, follows. *)
LEMMA FollowsFromHere ==
    ASSUME NEW ever \in Seq(Nat), NEW me, me.got = <<>>, me.buffer = <<>>,
           \/ me.from = Len(ever)
           \/ me.from = 0 /\ ~me.open
    PROVE  Follows(me, ever)
<1>1. Sent(me) = <<>> /\ DOMAIN Sent(me) = {}
  BY DEF Sent
<1>2. Len(ever) \in Nat /\ me.from <= Len(ever)
  OBVIOUS
<1>3. me.open => Taken(me, ever) = <<>>
  BY <1>2, SubSeqEmpty DEF Taken
<1> QED  BY <1>1, <1>2, <1>3 DEF Follows

(* Numbers that are up to one bound are up to the next, and so is that one. *)
LEMMA UpToNext ==
    ASSUME NEW events \in Seq(Nat), NEW n \in Nat, UpTo(events, n)
    PROVE  UpTo(events, n + 1) /\ UpTo(Append(events, n + 1), n + 1)
<1>1. Append(events, n + 1) \in Seq(Nat) /\ Len(Append(events, n + 1)) = Len(events) + 1
      /\ (\A i \in 1..Len(events) : Append(events, n + 1)[i] = events[i])
      /\ Append(events, n + 1)[Len(events) + 1] = n + 1
  BY AppendProperties
<1>2. \A i \in 1..Len(events) : events[i] \in Nat /\ events[i] <= n
  BY DEF UpTo
<1>3. UpTo(events, n + 1)
  BY <1>2 DEF UpTo
<1>4. ASSUME NEW i \in 1..Len(events) + 1
      PROVE  Append(events, n + 1)[i] <= n + 1
  <2>1. CASE i \in 1..Len(events)
    BY <1>1, <1>2, <2>1
  <2>2. CASE i = Len(events) + 1
    BY <1>1, <2>2
  <2> QED  BY <2>1, <2>2
<1> QED  BY <1>1, <1>3, <1>4 DEF UpTo

(* What is ingested is newer than all there is, and its session's viewers follow. *)
LEMMA IngestFollows ==
    ASSUME CaptureTypeOK, StreamInv, NEW s \in Sessions, IngestEvent(s), UNCHANGED <<copy, file>>
    PROVE  /\ SessionsUpTo' /\ FilesUpTo'
           /\ \A v \in Viewer : /\ viewer'[v].of = viewer[v].of
                               /\ Follows(viewer'[v], session'[viewer[v].of].ever)
<1>1. /\ session \in [Sessions -> Session] /\ viewer \in [Viewer -> StreamOf]
      /\ made \in Nat /\ made' = made + 1
      /\ copy \in File /\ file \in File
  BY CaptureAssumption DEF CaptureTypeOK, StreamOf, IngestEvent
<1>2. \A q \in Sessions : /\ session[q].events \in Seq(Nat) /\ session[q].ever \in Seq(Nat)
                          /\ UpTo(session[q].events, made) /\ UpTo(session[q].ever, made)
  BY <1>1 DEF StreamInv, SessionsUpTo, Session
<1>3. \A v \in Viewer : /\ viewer[v].of \in Sessions /\ viewer[v] \in StreamOf
                        /\ Follows(viewer[v], session[viewer[v].of].ever)
  BY <1>1 DEF StreamInv, ViewersFollow, StreamOf
<1>4. FilesUpTo'
  BY <1>1, UpToNext DEF StreamInv, FilesUpTo, File
<1>5. CASE ~Accepts(s)
  <2>1. session' = session /\ viewer' = viewer
    BY <1>5 DEF IngestEvent
  <2>2. SessionsUpTo'
    BY <1>1, <1>2, <2>1, UpToNext DEF SessionsUpTo
  <2> QED  BY <1>3, <1>4, <2>1, <2>2
<1>6. CASE Accepts(s)
  <2>1. Kept(s, made') /\ Broadcast(s, made')
    BY <1>6 DEF IngestEvent
  <2>2. /\ session'[s].events = Append(session[s].events, made + 1)
        /\ session'[s].ever = Append(session[s].ever, made + 1)
        /\ \A q \in Sessions \ {s} : session'[q] = session[q]
    BY <1>1, <2>1 DEF Kept
  <2>3. SessionsUpTo'
    BY <1>1, <1>2, <2>2, UpToNext DEF SessionsUpTo
  <2>4. ASSUME NEW v \in Viewer
        PROVE  /\ viewer'[v].of = viewer[v].of
               /\ Follows(viewer'[v], session'[viewer[v].of].ever)
    <3>1. CASE ~(viewer[v].open /\ viewer[v].of = s)
      <4>1. viewer'[v] = viewer[v]
        BY <2>1, <3>1 DEF Broadcast
      <4>2. CASE viewer[v].of = s
        <5>1. ~viewer[v].open
          BY <3>1, <4>2
        <5>2. Follows(viewer[v], Append(session[s].ever, made + 1))
          BY <1>1, <1>2, <1>3, <4>2, <5>1, FollowsUntold
        <5> QED  BY <2>2, <4>1, <4>2, <5>2
      <4>3. CASE viewer[v].of # s
        BY <1>3, <2>2, <4>1, <4>3
      <4> QED  BY <4>2, <4>3
    <3>2. CASE viewer[v].open /\ viewer[v].of = s
      <4>1. viewer'[v] = Offered(v, made + 1)
        BY <1>1, <2>1, <3>2 DEF Broadcast
      <4>2. CASE Len(viewer[v].buffer) < StreamBuffer
        <5>1. viewer'[v] = [viewer[v] EXCEPT !.buffer = Append(@, made + 1)]
          BY <4>1, <4>2 DEF Offered
        <5>2. Follows([viewer[v] EXCEPT !.buffer = Append(@, made + 1)],
                      Append(session[s].ever, made + 1))
          BY <1>1, <1>2, <1>3, <3>2, FollowsTold
        <5>3. viewer'[v].of = viewer[v].of
          BY <1>3, <5>1 DEF StreamOf
        <5> QED  BY <2>2, <3>2, <5>1, <5>2, <5>3
      <4>3. CASE ~(Len(viewer[v].buffer) < StreamBuffer)
        <5>1. viewer'[v] = [viewer[v] EXCEPT !.missed = TRUE]
          BY <4>1, <4>3 DEF Offered
        <5>2. Follows([viewer[v] EXCEPT !.missed = TRUE], Append(session[s].ever, made + 1))
          BY <1>1, <1>2, <1>3, <3>2, FollowsPassedOver
        <5>3. viewer'[v].of = viewer[v].of
          BY <1>3, <5>1 DEF StreamOf
        <5> QED  BY <2>2, <3>2, <5>1, <5>2, <5>3
      <4> QED  BY <4>2, <4>3
    <3> QED  BY <3>1, <3>2
  <2> QED  BY <1>4, <2>3, <2>4
<1> QED  BY <1>5, <1>6

(* Emptying a session takes nothing from what it has ever taken. *)
LEMMA ResetFollows ==
    ASSUME CaptureTypeOK, StreamInv, NEW s \in Sessions, Reset(s), UNCHANGED <<viewer, made>>
    PROVE  SessionsUpTo' /\ (\A v \in Viewer : Follows(viewer[v], session'[viewer[v].of].ever))
<1>1. session \in [Sessions -> Session] /\ \A v \in Viewer : viewer[v].of \in Sessions
  BY DEF CaptureTypeOK
<1>2. /\ \A q \in Sessions : session'[q].ever = session[q].ever
      /\ \A q \in Sessions : session'[q].events = session[q].events \/ session'[q].events = <<>>
  BY <1>1 DEF Reset
<1>3. UpTo(<<>>, made)
  BY DEF UpTo
<1> QED  BY <1>1, <1>2, <1>3 DEF StreamInv, SessionsUpTo, ViewersFollow

(* Nobody follows a session in a process that has just begun. *)
LEMMA AfreshFollows ==
    ASSUME CaptureTypeOK, StreamInv, NEW ev \in Seq(Nat), UpTo(ev, made), Afresh(ev),
           made' = made, FilesUpTo'
    PROVE  StreamInv'
<1>1. /\ session' = [q \in Sessions |-> Holding(IF q = 0 THEN ev ELSE <<>>)]
      /\ viewer' = [v \in Viewer |-> Away] /\ shown' = 0 /\ uploads' = 0
  BY DEF Afresh
<1>2. UpTo(<<>>, made) /\ <<>> \in Seq(Nat) /\ 0 \in Sessions
  BY CaptureAssumption DEF UpTo, Sessions
<1>3. \A q \in Sessions : /\ session'[q].events = (IF q = 0 THEN ev ELSE <<>>)
                          /\ session'[q].ever = (IF q = 0 THEN ev ELSE <<>>)
  BY <1>1 DEF Holding
<1>4. SessionsUpTo'
  BY <1>2, <1>3 DEF SessionsUpTo
<1>5. \A v \in Viewer : viewer'[v] = Away /\ viewer'[v].of = 0
  BY <1>1 DEF Away
<1>6. Follows(Away, ev)
  BY FollowsFromHere DEF Away
<1>7. session'[0].ever = ev
  BY <1>2, <1>3
<1>8. ViewersFollow'
  BY <1>1, <1>5, <1>6, <1>7 DEF ViewersFollow
<1> QED  BY <1>1, <1>4, <1>8 DEF StreamInv

(* A process that ends leaves no viewer, and the file it leaves is old. *)
LEMMA ExitFollows ==
    ASSUME CaptureTypeOK, StreamInv, Exit, UpTo(file'.events, made), made' = made
    PROVE  StreamInv'
<1>1. <<>> \in Seq(Nat) /\ UpTo(<<>>, made)
  BY DEF UpTo
<1>2. copy'.events = <<>>
  BY DEF Exit, Afresh, Saved
<1>3. FilesUpTo'
  BY <1>1, <1>2 DEF FilesUpTo
<1> QED  BY <1>1, <1>3, AfreshFollows DEF Exit

(* Steps that leave sessions, viewers and files as they are. *)
LEMMA NothingToFollow ==
    ASSUME StreamInv, UNCHANGED <<session, viewer, copy, file, made, shown, uploads>>
    PROVE  StreamInv'
  BY DEF StreamInv, SessionsUpTo, FilesUpTo, ViewersFollow

(* The command's steps keep every viewer following. *)
LEMMA CommandFollows ==
    ASSUME CaptureTypeOK, StreamInv,
           Run \/ Demo \/ Open \/ Exchange \/ RunDemo \/ Ends \/ CloseSession \/ CopyCapture
             \/ CreateFile \/ WriteFile \/ Interrupted \/ Stop \/ Die
    PROVE  StreamInv'
<1>0. /\ 0 \in Sessions /\ <<>> \in Seq(Nat) /\ UpTo(<<>>, made)
      /\ UpTo(copy.events, made) /\ UpTo(file.events, made)
      /\ file.events \in Seq(Nat) /\ session \in [Sessions -> Session]
      /\ viewer \in [Viewer -> StreamOf]
  BY CaptureAssumption DEF Sessions, UpTo, StreamInv, FilesUpTo, CaptureTypeOK, File, StreamOf
<1>1. CASE Run \/ Demo \/ Open
  <2>1. PICK ev \in {<<>>, file.events} : Afresh(ev)
    BY <1>1 DEF Run, Demo, Open
  <2>2. made' = made /\ file' = file /\ copy'.events = <<>>
    BY <1>1 DEF Run, Demo, Open, Afresh, Saved
  <2>3. FilesUpTo'
    BY <1>0, <2>2 DEF FilesUpTo
  <2> QED  BY <1>0, <2>1, <2>2, <2>3, AfreshFollows
<1>2. CASE Exchange \/ RunDemo
  <2>1. IngestEvent(0) /\ UNCHANGED <<copy, file>> /\ UNCHANGED served
    BY <1>2 DEF Exchange, RunDemo
  <2> QED  BY <1>0, <2>1, IngestFollows DEF StreamInv, ViewersFollow, served
<1>3. CASE Ends \/ Interrupted
  BY <1>3, NothingToFollow DEF Ends, Interrupted, served
<1>4. CASE CloseSession
  <2>1. \A s \in Sessions : /\ session'[s].events = session[s].events
                            /\ session'[s].ever = session[s].ever
    BY <1>0, <1>4 DEF CloseSession, MarkClosed, Session
  <2>2. ASSUME NEW v \in Viewer
        PROVE  /\ viewer'[v].of = viewer[v].of
               /\ Follows(viewer'[v], session[viewer[v].of].ever)
    <3>1. /\ viewer'[v].of = viewer[v].of /\ viewer'[v].from = viewer[v].from
          /\ viewer'[v].got = viewer[v].got /\ viewer'[v].buffer = viewer[v].buffer
          /\ viewer'[v].missed = viewer[v].missed /\ (viewer'[v].open => viewer[v].open)
      BY <1>0, <1>4 DEF CloseSession, StreamOf
    <3>2. Follows(viewer[v], session[viewer[v].of].ever)
      BY DEF StreamInv, ViewersFollow
    <3>3. Sent(viewer'[v]) = Sent(viewer[v])
          /\ Taken(viewer'[v], session[viewer[v].of].ever) = Taken(viewer[v], session[viewer[v].of].ever)
      BY <3>1 DEF Sent, Taken
    <3> QED  BY <3>1, <3>2, <3>3 DEF Follows
  <2>3. \A v \in Viewer : viewer[v].of \in Sessions
    BY DEF CaptureTypeOK
  <2> QED  BY <1>4, <2>1, <2>2, <2>3
           DEF CloseSession, StreamInv, SessionsUpTo, FilesUpTo, ViewersFollow, served
<1>5. CASE CopyCapture
  <2>1. UpTo(copy'.events, made)
    BY <1>0, <1>5 DEF CopyCapture, Saved, StreamInv, SessionsUpTo
  <2> QED  BY <1>0, <1>5, <2>1
           DEF CopyCapture, StreamInv, SessionsUpTo, FilesUpTo, ViewersFollow, served
<1>6. ASSUME CreateFile \/ WriteFile PROVE StreamInv'
  <2>1. UpTo(file'.events, made) /\ made' = made
    <3>1. CASE CreateFile
      BY <1>0, <3>1 DEF CreateFile, Saved
    <3>2. CASE WriteFile
      BY <1>0, <3>2 DEF WriteFile, CaptureTypeOK, File
    <3> QED  BY <1>6, <3>1, <3>2
  <2>2. CASE Exit
    BY <2>1, <2>2, ExitFollows
  <2>3. CASE UNCHANGED <<session, served, viewer, copy>>
    BY <2>1, <2>3 DEF StreamInv, SessionsUpTo, FilesUpTo, ViewersFollow, served
  <2> QED  BY <1>6, <2>2, <2>3 DEF CreateFile, WriteFile, AfterClose
<1>7. CASE Stop \/ Die
  <2>1. Exit /\ UNCHANGED <<file, made>>
    BY <1>7 DEF Stop, Die
  <2> QED  BY <1>0, <2>1, ExitFollows
<1> QED  BY <1>1, <1>2, <1>3, <1>4, <1>5, <1>6, <1>7

(* A viewer that comes, receives or goes keeps every viewer following. *)
LEMMA ViewerFollows ==
    ASSUME CaptureTypeOK, StreamInv, NEW v \in Viewer, SubscribeTo(v) \/ Receive(v) \/ Leave(v)
    PROVE  StreamInv'
<1>0. /\ viewer \in [Viewer -> StreamOf] /\ shown \in Sessions /\ uploads \in Nat
      /\ \A s \in Sessions : session[s].ever \in Seq(Nat)
      /\ 0 \in Sessions /\ viewer[v].of \in Sessions
  <2>1. \A s \in Sessions : session[s].ever \in Seq(Nat)
    BY DEF CaptureTypeOK, Session
  <2>2. viewer \in [Viewer -> StreamOf] /\ shown \in Sessions /\ viewer[v].of \in Sessions
    BY DEF CaptureTypeOK, StreamOf
  <2>3. uploads \in Nat /\ 0 \in Sessions
    BY CaptureAssumption DEF CaptureTypeOK, Sessions
  <2> QED  BY <2>1, <2>2, <2>3
<1>1. UNCHANGED <<session, served, copy, file, made>>
  BY DEF SubscribeTo, Receive, Leave
<1>2. \A w \in Viewer \ {v} : viewer'[w] = viewer[w]
  BY <1>0 DEF SubscribeTo, Receive, Leave
<1>3. viewer'[v].of <= uploads /\ Follows(viewer'[v], session[viewer'[v].of].ever)
  <2>1. CASE SubscribeTo(v)
    <3>1. /\ viewer'[v].of = shown /\ viewer'[v].from = Len(session[shown].ever)
          /\ viewer'[v].got = <<>> /\ viewer'[v].buffer = <<>>
      BY <1>0, <2>1 DEF SubscribeTo
    <3> QED  BY <1>0, <3>1, FollowsFromHere DEF StreamInv
  <2>2. CASE Receive(v)
    <3>1. viewer[v] \in StreamOf /\ viewer[v].got \in Seq(Nat) /\ viewer[v].buffer \in Seq(Nat)
          /\ viewer[v].buffer # <<>>
      BY <1>0, <2>2 DEF Receive, StreamOf
    <3>2. /\ viewer'[v].got = Append(viewer[v].got, Head(viewer[v].buffer))
          /\ viewer'[v].buffer = Tail(viewer[v].buffer)
          /\ viewer'[v].of = viewer[v].of /\ viewer'[v].from = viewer[v].from
          /\ viewer'[v].open = viewer[v].open /\ viewer'[v].missed = viewer[v].missed
      BY <1>0, <2>2, <3>1 DEF Receive, StreamOf
    <3>3. Sent(viewer'[v]) = Sent(viewer[v])
      BY <3>1, <3>2, SentMoves DEF Sent
    <3>4. Taken(viewer'[v], session[viewer[v].of].ever) = Taken(viewer[v], session[viewer[v].of].ever)
      BY <3>2 DEF Taken
    <3>5. Follows(viewer[v], session[viewer[v].of].ever) /\ viewer[v].of <= uploads
      BY DEF StreamInv, ViewersFollow
    <3> QED  BY <3>2, <3>3, <3>4, <3>5 DEF Follows
  <2>3. CASE Leave(v)
    <3>1. viewer'[v] = Away
      BY <1>0, <2>3 DEF Leave
    <3>2. Follows(Away, session[0].ever)
      BY <1>0, FollowsFromHere DEF Away
    <3> QED  BY <1>0, <3>1, <3>2 DEF Away
  <2> QED  BY <2>1, <2>2, <2>3
<1> QED  BY <1>1, <1>2, <1>3 DEF StreamInv, SessionsUpTo, FilesUpTo, ViewersFollow, served

(* Demos, traces and uploads keep every viewer following: nobody follows the session
   of an upload before it is shown.                                               *)
LEMMA RequestFollows ==
    ASSUME CaptureTypeOK, StreamInv,
           \/ ReceiveTraces \/ Upload
           \/ \E p \in Player : \/ Simulate(p) \/ RunDemoLive(p) \/ LoadDemo(p) \/ LookAgain(p)
                                \/ Play(p) \/ EndPlaying(p)
    PROVE  StreamInv'
<1>0. /\ shown \in Sessions /\ uploads \in Nat /\ \A p \in Player : player[p].of \in Sessions
      /\ \A v \in Viewer : viewer[v].of \in Nat
      /\ session \in [Sessions -> Session] /\ file.events \in Seq(Nat)
  BY CaptureAssumption DEF CaptureTypeOK, Sessions, File
<1>1. CASE ReceiveTraces
  <2>1. IngestEvent(shown) /\ UNCHANGED <<copy, file>> /\ UNCHANGED served
    BY <1>1 DEF ReceiveTraces
  <2> QED  BY <1>0, <2>1, IngestFollows DEF StreamInv, ViewersFollow, served
<1>2. CASE Upload
  <2>1. /\ uploads' = uploads + 1 /\ shown' = uploads + 1
        /\ session' = [session EXCEPT ![uploads + 1] = Holding(file.events)]
        /\ UNCHANGED <<viewer, copy, file, made>>
    BY <1>2 DEF Upload
  <2>2. UpTo(file.events, made)
    BY DEF StreamInv, FilesUpTo
  <2>3. SessionsUpTo'
    BY <1>0, <2>1, <2>2 DEF StreamInv, SessionsUpTo, Holding
  <2>4. ASSUME NEW v \in Viewer
        PROVE  /\ viewer[v].of <= uploads + 1
               /\ Follows(viewer[v], session'[viewer[v].of].ever)
    <3>1. viewer[v].of <= uploads /\ Follows(viewer[v], session[viewer[v].of].ever)
      BY DEF StreamInv, ViewersFollow
    <3>2. viewer[v].of # uploads + 1 /\ viewer[v].of <= uploads + 1
      BY <1>0, <3>1
    <3>3. viewer[v].of \in Sessions
      BY DEF CaptureTypeOK
    <3> QED  BY <1>0, <2>1, <3>1, <3>2, <3>3
  <2> QED  BY <1>0, <2>1, <2>3, <2>4 DEF StreamInv, FilesUpTo, ViewersFollow
<1>3. ASSUME NEW p \in Player, Simulate(p) \/ LookAgain(p) \/ EndPlaying(p)
      PROVE  StreamInv'
  BY <1>3, NothingToFollow DEF Simulate, LookAgain, EndPlaying, served
<1>4. ASSUME NEW p \in Player, RunDemoLive(p) \/ LoadDemo(p)
      PROVE  StreamInv'
  <2>1. PICK s \in Sessions : Reset(s)
    BY <1>0, <1>4 DEF RunDemoLive, LoadDemo
  <2>2. UNCHANGED <<viewer, made, copy, file>> /\ UNCHANGED served
    BY <1>4 DEF RunDemoLive, LoadDemo
  <2>3. SessionsUpTo' /\ (\A v \in Viewer : Follows(viewer[v], session'[viewer[v].of].ever))
    BY <2>1, <2>2, ResetFollows
  <2> QED  BY <2>2, <2>3 DEF StreamInv, FilesUpTo, ViewersFollow, served
<1>5. ASSUME NEW p \in Player, Play(p)
      PROVE  StreamInv'
  <2>1. IngestEvent(player[p].of) /\ UNCHANGED <<copy, file>> /\ UNCHANGED served
    BY <1>5 DEF Play
  <2> QED  BY <1>0, <2>1, IngestFollows DEF StreamInv, ViewersFollow, served
<1> QED  BY <1>1, <1>2, <1>3, <1>4, <1>5

(* What a viewer has been sent is what its session has taken since, in that order and
   without gap until its channel ran full.                                          *)
THEOREM StreamFaithful == CaptureSpec => []StreamIsFaithful
<1>1. CaptureInit => StreamInv
  <2> SUFFICES ASSUME CaptureInit PROVE StreamInv
    OBVIOUS
  <2>1. <<>> \in Seq(Nat) /\ UpTo(<<>>, made) /\ 0 \in Sessions
    BY CaptureAssumption DEF UpTo, Sessions
  <2>2. \A s \in Sessions : session[s].events = <<>> /\ session[s].ever = <<>>
    BY DEF CaptureInit, Holding
  <2>3. Follows(Away, <<>>)
    BY <2>1, FollowsFromHere DEF Away
  <2>4. \A v \in Viewer : viewer[v] = Away /\ Away.of = 0
    BY DEF CaptureInit, Away
  <2>5. SessionsUpTo /\ FilesUpTo
    BY <2>1, <2>2 DEF CaptureInit, SessionsUpTo, FilesUpTo, Saved
  <2> QED  BY <2>1, <2>2, <2>3, <2>4, <2>5 DEF CaptureInit, StreamInv, ViewersFollow
<1>2. CaptureTypeOK /\ StreamInv /\ [CaptureNext]_captureVars => StreamInv'
  <2> SUFFICES ASSUME CaptureTypeOK, StreamInv, [CaptureNext]_captureVars PROVE StreamInv'
    OBVIOUS
  <2>1. CASE UNCHANGED captureVars
    BY <2>1, NothingToFollow DEF captureVars
  <2>2. CASE CaptureNext
    BY <2>2, CommandFollows, ViewerFollows, RequestFollows DEF CaptureNext
  <2> QED  BY <2>1, <2>2
<1>3. StreamInv => StreamIsFaithful
  <2> SUFFICES ASSUME StreamInv, NEW v \in Viewer
               PROVE  LET me == viewer[v]
                          sent == me.got \o me.buffer
                          taken == SubSeq(session[me.of].ever, me.from + 1, Len(session[me.of].ever))
                      IN  /\ \A i, j \in DOMAIN sent : i < j => sent[i] < sent[j]
                          /\ \A i \in DOMAIN sent : \E j \in DOMAIN taken : taken[j] = sent[i]
                          /\ me.open /\ ~me.missed => sent = taken
    BY DEF StreamIsFaithful
  <2>1. Follows(viewer[v], session[viewer[v].of].ever)
    BY DEF StreamInv, ViewersFollow
  <2> QED  BY <2>1, Zenon DEF Follows, Sent, Taken
<1> QED  BY <1>1, <1>2, <1>3, CaptureTypes, PTL DEF CaptureSpec

------------------------------------------------------------------------------
(* The totals. *)

(* A new event is one failure more, or none. *)
LEMMA FailuresGrow ==
    ASSUME NEW ev \in Seq(Nat), NEW e \in Nat
    PROVE  Cardinality(Failures(Append(ev, e)))
             = IF e \in Failed THEN Cardinality(Failures(ev)) + 1 ELSE Cardinality(Failures(ev))
<1>1. /\ Append(ev, e) \in Seq(Nat) /\ Len(Append(ev, e)) = Len(ev) + 1
      /\ \A i \in 1..Len(ev) : Append(ev, e)[i] = ev[i]
      /\ Append(ev, e)[Len(ev) + 1] = e
      /\ DOMAIN ev = 1..Len(ev) /\ DOMAIN Append(ev, e) = 1..Len(ev) + 1 /\ Len(ev) \in Nat
  BY AppendProperties
<1>2. IsFiniteSet(Failures(ev)) /\ Len(ev) + 1 \notin Failures(ev)
  BY <1>1, FailuresFinite DEF Failures
<1>3. CASE e \in Failed
  <2>1. Failures(Append(ev, e)) = Failures(ev) \cup {Len(ev) + 1}
    BY <1>1, <1>3 DEF Failures
  <2> QED  BY <1>2, <1>3, <2>1, FS_AddElement
<1>4. CASE e \notin Failed
  <2>1. Failures(Append(ev, e)) = Failures(ev)
    BY <1>1, <1>4 DEF Failures
  <2> QED  BY <1>4, <2>1
<1> QED  BY <1>3, <1>4

(* What a session takes, or is filled with, is counted. *)
LEMMA TotalsSteps ==
    ASSUME CaptureTypeOK, TotalsMatch, NEW s \in Sessions, IngestEvent(s) \/ Reset(s)
    PROVE  TotalsMatch'
<1>1. /\ session \in [Sessions -> Session] /\ session[s].events \in Seq(Nat)
      /\ session[s].errors = Cardinality(Failures(session[s].events))
  BY DEF CaptureTypeOK, Session, TotalsMatch
<1>2. ASSUME session'[s].errors = Cardinality(Failures(session'[s].events)),
             \A q \in Sessions \ {s} : session'[q] = session[q]
      PROVE  TotalsMatch'
  BY <1>2 DEF TotalsMatch
<1>3. CASE IngestEvent(s) /\ Accepts(s)
  <2>1. made' \in Nat /\ Kept(s, made')
    BY <1>3, CaptureAssumption DEF IngestEvent, CaptureTypeOK
  <2>2. /\ session'[s].events = Append(session[s].events, made')
        /\ session'[s].errors = IF made' \in Failed THEN session[s].errors + 1 ELSE session[s].errors
        /\ \A q \in Sessions \ {s} : session'[q] = session[q]
    BY <1>1, <2>1 DEF Kept
  <2> QED  BY <1>1, <1>2, <2>1, <2>2, FailuresGrow
<1>4. CASE IngestEvent(s) /\ ~Accepts(s)
  BY <1>4 DEF IngestEvent, TotalsMatch
<1>5. CASE Reset(s)
  <2>1. /\ session'[s].events = <<>> /\ session'[s].errors = 0
        /\ \A q \in Sessions \ {s} : session'[q] = session[q]
    BY <1>1, <1>5 DEF Reset
  <2>2. Cardinality(Failures(<<>>)) = 0
    BY FS_EmptySet DEF Failures
  <2> QED  BY <1>2, <2>1, <2>2
<1> QED  BY <1>3, <1>4, <1>5

(* The running total of failures is that of the events, in every session. *)
THEOREM TotalsKept == CaptureSpec => []TotalsMatch
<1>1. CaptureInit => TotalsMatch
  BY DEF CaptureInit, Holding, TotalsMatch
<1>2. CaptureTypeOK /\ TotalsMatch /\ [CaptureNext]_captureVars => TotalsMatch'
  <2> SUFFICES ASSUME CaptureTypeOK, TotalsMatch, [CaptureNext]_captureVars PROVE TotalsMatch'
    OBVIOUS
  <2>0. /\ 0 \in Sessions /\ shown \in Sessions /\ \A p \in Player : player[p].of \in Sessions
        /\ session \in [Sessions -> Session]
    BY CaptureAssumption DEF CaptureTypeOK, Sessions
  <2>1. CASE UNCHANGED session
    BY <2>1 DEF TotalsMatch
  <2>2. CASE \E ev \in {<<>>, file.events} : Afresh(ev)
    BY <2>2 DEF Afresh, Holding, TotalsMatch
  <2>3. CASE \E s \in Sessions : IngestEvent(s) \/ Reset(s)
    BY <2>3, TotalsSteps
  <2>4. CASE CloseSession
    <3>1. \A s \in Sessions : /\ session'[s].events = session[s].events
                              /\ session'[s].errors = session[s].errors
      BY <2>0, <2>4 DEF CloseSession, MarkClosed, Session
    <3> QED  BY <3>1 DEF TotalsMatch
  <2>5. CASE Upload
    BY <2>0, <2>5 DEF Upload, Holding, TotalsMatch
  <2>6. CASE UNCHANGED captureVars
    BY <2>1, <2>6 DEF captureVars
  <2>7. CASE Run \/ Demo \/ Open \/ Stop \/ Die
    BY <2>2, <2>7 DEF Run, Demo, Open, Stop, Die, Exit
  <2>8. CASE Exchange \/ RunDemo \/ ReceiveTraces
    BY <2>0, <2>3, <2>8 DEF Exchange, RunDemo, ReceiveTraces
  <2>9. CASE Ends \/ CopyCapture \/ Interrupted
    BY <2>1, <2>9 DEF Ends, CopyCapture, Interrupted
  <2>10. CASE CreateFile \/ WriteFile
    BY <2>1, <2>2, <2>10 DEF CreateFile, WriteFile, AfterClose, Exit
  <2>11. CASE \E v \in Viewer : SubscribeTo(v) \/ Receive(v) \/ Leave(v)
    BY <2>1, <2>11 DEF SubscribeTo, Receive, Leave
  <2>12. ASSUME NEW p \in Player,
                \/ Simulate(p) \/ RunDemoLive(p) \/ LoadDemo(p) \/ LookAgain(p)
                \/ Play(p) \/ EndPlaying(p)
         PROVE  TotalsMatch'
    BY <2>0, <2>1, <2>3, <2>12 DEF Simulate, RunDemoLive, LoadDemo, LookAgain, Play, EndPlaying
  <2> QED  BY <2>4, <2>5, <2>6, <2>7, <2>8, <2>9, <2>10, <2>11, <2>12 DEF CaptureNext
<1> QED  BY <1>1, <1>2, CaptureTypes, PTL DEF CaptureSpec
==============================================================================
