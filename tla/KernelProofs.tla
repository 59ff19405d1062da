----------------------------- MODULE KernelProofs -----------------------------
(***************************************************************************)
(* Theorems about KernelBridge for any events, payloads, writers and       *)
(* bounds: its types are invariant, the kernel passes over nothing the log *)
(* has taken, no snapshot is ahead of its number, and a replay of the log  *)
(* makes the state of the live kernel.                                     *)
(***************************************************************************)
EXTENDS KernelBridge, EventLogProofs

------------------------------------------------------------------------------
(* Rows of a log: none shares its number with another. *)
Distinct(R) == \A r, q \in R : r.seq = q.seq => r = q
Last(R) == CHOOSE r \in R : \A q \in R : q.seq <= r.seq

LEMMA LastExists ==
    ASSUME NEW R \in SUBSET Row, IsFiniteSet(R), R # {}
    PROVE  Last(R) \in R /\ \A q \in R : q.seq <= Last(R).seq
<1> DEFINE Above(r) == {q \in R : q.seq > r.seq}
           T == {Above(r) : r \in R}
<1>1. T \subseteq FiniteSubsetsOf(R)
  BY FS_Subset DEF FiniteSubsetsOf
<1>0. T # {}
  OBVIOUS
<1> HIDE DEF T
<1>2. PICK s \in T : \A t \in T : t \subseteq s => t = s
  BY <1>0, <1>1, SmallestSubset
<1>3. PICK r \in R : s = Above(r)
  BY <1>2 DEF T
<1>4. ASSUME NEW q \in R, q.seq > r.seq
      PROVE  FALSE
  <2>1. Above(q) \in T /\ Above(q) \subseteq s
    BY <1>3, <1>4 DEF Row, T
  <2>2. q \in s /\ q \notin Above(q)
    BY <1>3, <1>4 DEF Row
  <2> QED  BY <1>2, <2>1, <2>2
<1>5. \A q \in R : q.seq <= r.seq
  BY <1>4 DEF Row
<1> QED  BY <1>5 DEF Last

(* f folds S, and with it every subset of S, from s. *)
Step(t, r) == Apply(t, r.seq, Data[r.id])
Folding(f, s, S) ==
    f = [R \in SUBSET S |-> IF R = {} THEN s ELSE Step(f[R \ {Last(R)}], Last(R))]

LEMMA BatchFolds ==
    ASSUME NEW s, NEW S
    PROVE  ApplyBatch(s, S) = (CHOOSE f : Folding(f, s, S))[S]
BY DEF ApplyBatch, MapThenFoldSet, Folding, Last, Step

LEMMA FoldingIsUnique ==
    ASSUME NEW S \in SUBSET Row, IsFiniteSet(S), NEW R \in SUBSET S, NEW s,
           NEW f, Folding(f, s, S), NEW g, Folding(g, s, R)
    PROVE  \A Q \in SUBSET R : f[Q] = g[Q]
<1> DEFINE T == {Q \in SUBSET R : f[Q] # g[Q]}
<1> SUFFICES ASSUME T # {}
             PROVE  FALSE
  OBVIOUS
<1>1. T \subseteq FiniteSubsetsOf(R)
  BY FS_Subset DEF FiniteSubsetsOf
<1> HIDE DEF T
<1>2. PICK Q \in T : \A P \in T : P \subseteq Q => P = Q
  BY <1>1, SmallestSubset
<1>3. Q \in SUBSET R /\ Q \in SUBSET S /\ f[Q] # g[Q]
  BY <1>2 DEF T
<1>4. /\ f[Q] = IF Q = {} THEN s ELSE Step(f[Q \ {Last(Q)}], Last(Q))
      /\ g[Q] = IF Q = {} THEN s ELSE Step(g[Q \ {Last(Q)}], Last(Q))
  BY <1>3 DEF Folding
<1>5. Q # {} /\ IsFiniteSet(Q)
  BY <1>3, <1>4, FS_Subset
<1>6. Last(Q) \in Q
  BY <1>3, <1>5, LastExists
<1>7. Q \ {Last(Q)} \in SUBSET R /\ Q \ {Last(Q)} \notin T
  BY <1>2, <1>3, <1>6
<1>8. f[Q \ {Last(Q)}] = g[Q \ {Last(Q)}]
  BY <1>7 DEF T
<1> QED  BY <1>3, <1>4, <1>8

LEMMA FoldingBatch ==
    ASSUME NEW S \in SUBSET Row, IsFiniteSet(S), NEW s, NEW f, Folding(f, s, S)
    PROVE  \A R \in SUBSET S : (\E g : Folding(g, s, R)) => ApplyBatch(s, R) = f[R]
<1> SUFFICES ASSUME NEW R \in SUBSET S, \E g : Folding(g, s, R)
             PROVE  ApplyBatch(s, R) = f[R]
  OBVIOUS
<1> DEFINE g == CHOOSE h : Folding(h, s, R)
<1>1. Folding(g, s, R)
  OBVIOUS
<1> HIDE DEF g
<1>2. f[R] = g[R]
  BY <1>1, FoldingIsUnique
<1> QED  BY <1>2, BatchFolds DEF g

LEMMA FoldingExists ==
    ASSUME NEW S \in SUBSET Row, IsFiniteSet(S), NEW s
    PROVE  \E f : Folding(f, s, S)
<1> DEFINE T == {R \in SUBSET S : ~\E f : Folding(f, s, R)}
<1> SUFFICES ASSUME T # {}
             PROVE  FALSE
  OBVIOUS
<1>1. T \subseteq FiniteSubsetsOf(S)
  BY FS_Subset DEF FiniteSubsetsOf
<1> HIDE DEF T
<1>2. PICK R \in T : \A Q \in T : Q \subseteq R => Q = R
  BY <1>1, SmallestSubset
<1>3. R \in SUBSET S /\ IsFiniteSet(R) /\ ~\E f : Folding(f, s, R)
  BY <1>2, FS_Subset DEF T
<1>4. \A Q \in SUBSET R : Q # R => \E f : Folding(f, s, Q)
  BY <1>2, <1>3 DEF T
<1> DEFINE f == [Q \in SUBSET R |-> IF Q = {} THEN s
                                    ELSE Step(ApplyBatch(s, Q \ {Last(Q)}), Last(Q))]
<1>5. ASSUME NEW Q \in SUBSET R, Q # {}
      PROVE  /\ Last(Q) \in Q /\ Q \ {Last(Q)} \in SUBSET R /\ Q \ {Last(Q)} # R
  BY <1>3, <1>5, LastExists, FS_Subset
<1>6. ASSUME NEW P \in SUBSET R, P # R
      PROVE  ApplyBatch(s, P) = f[P]
  <2>1. PICK g : Folding(g, s, P)
    BY <1>4, <1>6
  <2>2. P \in SUBSET Row /\ IsFiniteSet(P)
    BY <1>3, FS_Subset
  <2>3. ApplyBatch(s, P) = g[P]
    BY <2>1, <2>2, FoldingBatch
  <2>4. g[P] = IF P = {} THEN s ELSE Step(g[P \ {Last(P)}], Last(P))
    BY <2>1 DEF Folding
  <2>5. CASE P = {}
    BY <2>3, <2>4, <2>5
  <2>6. CASE P # {}
    <3>1. P \ {Last(P)} \in SUBSET P /\ P \ {Last(P)} # R /\ P \ {Last(P)} \in SUBSET R
      BY <1>5, <2>6
    <3>2. \E h : Folding(h, s, P \ {Last(P)})
      BY <1>4, <3>1
    <3>3. ApplyBatch(s, P \ {Last(P)}) = g[P \ {Last(P)}]
      BY <2>1, <2>2, <3>1, <3>2, FoldingBatch
    <3> QED  BY <2>3, <2>4, <2>6, <3>3
  <2> QED  BY <2>5, <2>6
<1>7. \A Q \in SUBSET R : Q # {} => f[Q \ {Last(Q)}] = ApplyBatch(s, Q \ {Last(Q)})
  BY <1>5, <1>6
<1>8. \A Q \in SUBSET R : f[Q] = IF Q = {} THEN s ELSE Step(f[Q \ {Last(Q)}], Last(Q))
  BY <1>7
<1>9. Folding(f, s, R)
  BY <1>8 DEF Folding
<1> QED  BY <1>3, <1>9

(* Replay applies nothing, or the event with the highest number after the rest. *)
LEMMA BatchEmpty ==
    ASSUME NEW s
    PROVE  ApplyBatch(s, {}) = s
<1>1. PICK f : Folding(f, s, {})
  BY FoldingExists, FS_EmptySet
<1>2. ApplyBatch(s, {}) = f[{}]
  BY <1>1, FoldingBatch, FS_EmptySet
<1> QED  BY <1>1, <1>2 DEF Folding

LEMMA BatchAdd ==
    ASSUME NEW S \in SUBSET Row, IsFiniteSet(S), NEW r \in Row,
           \A q \in S : q.seq < r.seq, NEW s
    PROVE  ApplyBatch(s, S \cup {r}) = Apply(ApplyBatch(s, S), r.seq, Data[r.id])
<1> DEFINE R == S \cup {r}
<1>1. R \in SUBSET Row /\ IsFiniteSet(R) /\ R # {}
  BY FS_AddElement
<1>2. Last(R) = r
  <2>1. Last(R) \in R /\ \A q \in R : q.seq <= Last(R).seq
    BY <1>1, LastExists
  <2> QED  BY <2>1 DEF Row
<1>3. R \ {r} = S
  BY DEF Row
<1>4. PICK f : Folding(f, s, R)
  BY <1>1, FoldingExists
<1>5. ApplyBatch(s, R) = f[R] /\ ApplyBatch(s, S) = f[S]
  BY <1>1, <1>4, FoldingBatch, FoldingExists
<1>6. f[R] = Step(f[R \ {Last(R)}], Last(R))
  BY <1>1, <1>4 DEF Folding
<1> QED  BY <1>2, <1>3, <1>5, <1>6 DEF Step

------------------------------------------------------------------------------
(* The kernel's state is typed, whatever events it is given. *)

(* The functions from some of S to T, and the states of a kernel. *)
Partial(S, T) == UNION {[D -> T] : D \in SUBSET S}
KernelState == [clock : Nat, last : Nat, policy : Version \cup {NoVersion},
                transports : Partial(Subject, Int), scores : Partial(MeshNode, Score),
                registry : SUBSET (MeshNode \cup {NoNode}), actions : Partial(Subject, Life),
                freezes : SUBSET Subject, windows : SUBSET Subject,
                regions : Partial(Subject, Int)]

LEMMA PutIsPartial ==
    ASSUME NEW S, NEW T, NEW f \in Partial(S, T), NEW x \in S, NEW v \in T
    PROVE  Put(f, x, v) \in Partial(S, T)
<1>1. PICK D \in SUBSET S : f \in [D -> T]
  BY DEF Partial
<1>2. Put(f, x, v) \in [D \cup {x} -> T] /\ D \cup {x} \in SUBSET S
  BY <1>1 DEF Put
<1> QED  BY <1>2 DEF Partial

LEMMA ChangedIsPartial ==
    ASSUME NEW S, NEW T, NEW f \in Partial(S, T), NEW x, NEW v \in T
    PROVE  [f EXCEPT ![x] = v] \in Partial(S, T)
<1>1. PICK D \in SUBSET S : f \in [D -> T]
  BY DEF Partial
<1>2. [f EXCEPT ![x] = v] \in [D -> T]
  BY <1>1
<1> QED  BY <1>2 DEF Partial

LEMMA WithoutIsPartial ==
    ASSUME NEW S, NEW T, NEW f \in Partial(S, T), NEW x
    PROVE  Without(f, x) \in Partial(S, T)
<1>1. PICK D \in SUBSET S : f \in [D -> T]
  BY DEF Partial
<1>2. Without(f, x) \in [D \ {x} -> T] /\ D \ {x} \in SUBSET S
  BY <1>1 DEF Without
<1> QED  BY <1>2 DEF Partial

LEMMA AtIsValue ==
    ASSUME NEW S, NEW T, NEW f \in Partial(S, T), NEW x, NEW v \in T
    PROVE  At(f, x, v) \in T
  BY DEF Partial, At

LEMMA NothingIsPartial == \A S, T : Nothing \in Partial(S, T)
<1> TAKE S, T
<1>1. Nothing \in [{} -> T] /\ {} \in SUBSET S
  BY DEF Nothing
<1> QED  BY <1>1 DEF Partial

LEMMA KernelStateIsState == \A s \in KernelState : IsState(s)
<1> TAKE s \in KernelState
<1>1. \A S, T : \A f \in Partial(S, T) : IsPartial(f, S, T)
  BY DEF Partial, IsPartial
<1>2. /\ IsPartial(s.transports, Subject, Int) /\ IsPartial(s.scores, MeshNode, Score)
      /\ IsPartial(s.actions, Subject, Life) /\ IsPartial(s.regions, Subject, Int)
  BY <1>1 DEF KernelState
<1> QED  BY <1>2 DEF KernelState, IsState

LEMMA NewStateTypes == NewState \in KernelState
  BY NothingIsPartial DEF NewState, KernelState

(* A blend of two numbers is a number, and clamped it is a level. *)
LEMMA BlendIsInt ==
    ASSUME NEW x \in Int, NEW y \in Int, NEW k \in {70, 80, 90, 95, 99}
    PROVE  Blend(k, x, y) \in Int
  BY DEF Blend

LEMMA ClampIsLevel ==
    ASSUME NEW x \in Int
    PROVE  Clamp(x) \in Level /\ Clamp(x) \in Int
  BY DEF Clamp, Level, Full

LEMMA LevelIsInt == \A x \in Level : x \in Int
  BY DEF Level, Full

LEMMA ObservationTypes ==
    ASSUME NEW s \in KernelState, NEW e \in Payload
    PROVE  HandleObservation(s, e) \in KernelState
<1> DEFINE fresh == [health |-> Full, trust |-> 500, activity |-> 0, anomaly |-> 0]
           seen == At(s.scores, e.node, fresh)
           after == [seen EXCEPT !.health = Clamp(Blend(99, @, Full)),
                                 !.activity = Clamp(Blend(95, @, Full))]
           noted == IF e.node = NoNode THEN s
                    ELSE [s EXCEPT !.registry = @ \cup {e.node}, !.scores = Put(@, e.node, after)]
           level == Clamp(Blend(99, At(noted.transports, e.about, Full), Full))
<1>1. fresh \in Score /\ Full \in Int
  BY DEF Score, Level, Full
<1>2. seen \in Score
  <2> HIDE DEF fresh
  <2> QED  BY <1>1, AtIsValue DEF KernelState
<1>3. after \in Score
  <2> HIDE DEF seen, fresh
  <2>1. /\ Clamp(Blend(99, seen.health, Full)) \in Level
        /\ Clamp(Blend(95, seen.activity, Full)) \in Level
    BY <1>1, <1>2, BlendIsInt, ClampIsLevel, LevelIsInt DEF Score
  <2> QED  BY <1>2, <2>1 DEF Score
<1>4. noted \in KernelState
  <2>1. CASE e.node # NoNode
    <3>1. Put(s.scores, e.node, after) \in Partial(MeshNode, Score)
      <4> HIDE DEF after
      <4> QED  BY <1>3, <2>1, PutIsPartial DEF KernelState, Payload
    <3> HIDE DEF after
    <3> QED  BY <3>1, <2>1 DEF KernelState, Payload
  <2> QED  BY <2>1
<1>5. HandleObservation(s, e) = [noted EXCEPT !.transports = Put(@, e.about, level)]
  BY DEF HandleObservation
<1> HIDE DEF noted
<1>6. level \in Int
  BY <1>1, <1>4, AtIsValue, BlendIsInt, ClampIsLevel DEF KernelState
<1> HIDE DEF level
<1>7. Put(noted.transports, e.about, level) \in Partial(Subject, Int)
  BY <1>4, <1>6, PutIsPartial DEF KernelState, Payload
<1> QED  BY <1>4, <1>5, <1>7 DEF KernelState

LEMMA AnomalyTypes ==
    ASSUME NEW s \in KernelState, NEW e \in Payload
    PROVE  HandleAnomaly(s, e) \in KernelState
<1> DEFINE unseen == [health |-> 0, trust |-> 0, activity |-> 0, anomaly |-> 0]
           bad == At(s.scores, e.node, unseen)
           after == [bad EXCEPT !.health = Clamp(@ - e.level \div 40),
                                !.anomaly = Clamp(Blend(80, @, e.level))]
           noted == IF e.node = NoNode THEN s
                    ELSE [s EXCEPT !.scores = Put(@, e.node, after)]
           level == Clamp(At(noted.transports, e.about, 800) - e.level \div 20)
<1>1. unseen \in Score /\ e.level \in Int /\ e.level \div 20 \in Int /\ e.level \div 40 \in Int
  BY DEF Score, Level, Full, Payload
<1>2. bad \in Score
  <2> HIDE DEF unseen
  <2> QED  BY <1>1, AtIsValue DEF KernelState
<1>3. after \in Score
  <2> HIDE DEF bad
  <2>0. bad.health \in Int /\ bad.anomaly \in Int
    BY <1>2, LevelIsInt DEF Score
  <2>1. bad.health - e.level \div 40 \in Int /\ Blend(80, bad.anomaly, e.level) \in Int
    <3>1. bad.health - e.level \div 40 \in Int
      BY <1>1, <2>0
    <3>2. Blend(80, bad.anomaly, e.level) \in Int
      BY <1>1, <2>0, BlendIsInt
    <3> QED  BY <3>1, <3>2
  <2>2. /\ Clamp(bad.health - e.level \div 40) \in Level
        /\ Clamp(Blend(80, bad.anomaly, e.level)) \in Level
    BY <2>1, ClampIsLevel
  <2> QED  BY <1>2, <2>2 DEF Score
<1>4. noted \in KernelState
  <2>1. CASE e.node # NoNode
    <3>1. Put(s.scores, e.node, after) \in Partial(MeshNode, Score)
      <4> HIDE DEF after
      <4> QED  BY <1>3, <2>1, PutIsPartial DEF KernelState, Payload
    <3> HIDE DEF after
    <3> QED  BY <3>1, <2>1 DEF KernelState, Payload
  <2> QED  BY <2>1
<1>5. HandleAnomaly(s, e) = [noted EXCEPT !.transports = Put(@, e.about, level)]
  BY DEF HandleAnomaly
<1> HIDE DEF noted
<1>6. level \in Int
  <2>1. At(noted.transports, e.about, 800) \in Int
    BY <1>4, AtIsValue DEF KernelState
  <2>2. At(noted.transports, e.about, 800) - e.level \div 20 \in Int
    BY <1>1, <2>1
  <2> QED  BY <2>2, ClampIsLevel
<1> HIDE DEF level
<1>7. Put(noted.transports, e.about, level) \in Partial(Subject, Int)
  BY <1>4, <1>6, PutIsPartial DEF KernelState, Payload
<1> QED  BY <1>4, <1>5, <1>7 DEF KernelState

LEMMA AdapterStateTypes ==
    ASSUME NEW s \in KernelState, NEW e \in Payload
    PROVE  HandleAdapterState(s, e) \in KernelState
<1> DEFINE was == At(s.transports, e.about, 0)
           level == CASE e.detail = "connected"    -> Clamp(Blend(90, was, Full))
                      [] e.detail = "disconnected" -> Clamp(was \div 2)
                      [] e.detail = "degraded"     -> Clamp(Blend(70, was, 0))
                      [] OTHER                     -> was
<1>1. 0 \in Int /\ Full \in Int
  BY DEF Full
<1>2. was \in Int
  BY <1>1, AtIsValue DEF KernelState
<1>3. HandleAdapterState(s, e) = [s EXCEPT !.transports = Put(@, e.about, level)]
  BY DEF HandleAdapterState
<1> HIDE DEF was
<1>4. /\ Clamp(Blend(90, was, Full)) \in Int /\ Clamp(Blend(70, was, 0)) \in Int
      /\ Clamp(was \div 2) \in Int
  <2>1. was \div 2 \in Int
    BY <1>2
  <2> QED  BY <1>1, <1>2, <2>1, BlendIsInt, ClampIsLevel
<1>5. level \in Int
  BY <1>2, <1>4, Zenon
<1> HIDE DEF level
<1>6. Put(s.transports, e.about, level) \in Partial(Subject, Int)
  BY <1>5, PutIsPartial DEF KernelState, Payload
<1> QED  BY <1>3, <1>6 DEF KernelState

(* Whatever the kind of the event, its handler leaves a state of a kernel. *)
LEMMA HandleTypes ==
    ASSUME NEW s \in KernelState, NEW e \in Payload
    PROVE  Handle(s, e) \in KernelState
<1>1. /\ HandleObservation(s, e) \in KernelState /\ HandleAnomaly(s, e) \in KernelState
      /\ HandleAdapterState(s, e) \in KernelState
  BY ObservationTypes, AnomalyTypes, AdapterStateTypes
<1>2. HandleTopologyUpdate(s, e) \in KernelState /\ HandleNodeState(s, e) \in KernelState
  <2>1. Without(s.scores, e.node) \in Partial(MeshNode, Score)
    BY WithoutIsPartial DEF KernelState
  <2> QED  BY <2>1 DEF HandleTopologyUpdate, HandleNodeState, KernelState, Payload
<1>3. /\ HandleTransportHealth(s, e) \in KernelState
      /\ [s EXCEPT !.regions = Put(@, e.about, e.level)] \in KernelState
  <2>1. /\ Put(s.transports, e.about, e.level) \in Partial(Subject, Int)
        /\ Put(s.regions, e.about, e.level) \in Partial(Subject, Int)
    BY PutIsPartial DEF KernelState, Payload
  <2> QED  BY <2>1 DEF HandleTransportHealth, KernelState
<1>4. HandleActionProposed(s, e) \in KernelState
  <2>1. Put(s.actions, e.about, "proposed") \in Partial(Subject, Life)
    BY PutIsPartial DEF KernelState, Payload, Life
  <2> QED  BY <2>1 DEF HandleActionProposed, KernelState
<1>5. ASSUME NEW life \in Life
      PROVE  Moves(s, e.about, life) \in KernelState
  <2>1. [s.actions EXCEPT ![e.about] = life] \in Partial(Subject, Life)
    BY ChangedIsPartial DEF KernelState
  <2> QED  BY <2>1 DEF Moves, KernelState
<1>6. \A life \in {"running", "completed", "approved", "rejected"} :
         Moves(s, e.about, life) \in KernelState
  BY <1>5 DEF Life
<1>7. /\ [s EXCEPT !.freezes = @ \cup {e.about}] \in KernelState
      /\ [s EXCEPT !.freezes = @ \ {e.about}] \in KernelState
      /\ [s EXCEPT !.windows = @ \cup {e.about}] \in KernelState
      /\ [s EXCEPT !.windows = @ \ {e.about}] \in KernelState
      /\ [s EXCEPT !.policy = e.version] \in KernelState
  BY DEF KernelState, Payload
<1> QED  BY <1>1, <1>2, <1>3, <1>4, <1>6, <1>7, Zenon DEF Handle

LEMMA ApplyTypes ==
    ASSUME NEW s \in KernelState, NEW r \in Row
    PROVE  Apply(s, r.seq, Data[r.id]) \in KernelState
<1>1. Data[r.id] \in Payload /\ r.seq \in Nat
  BY DataAssumption DEF Row
<1> DEFINE clock == (IF Data[r.id].clock > s.clock THEN Data[r.id].clock ELSE s.clock) + 1
           t == [s EXCEPT !.clock = clock, !.last = r.seq]
<1>2. t \in KernelState
  <2>1. clock \in Nat
    BY <1>1 DEF KernelState, Payload
  <2> HIDE DEF clock
  <2> QED  BY <1>1, <2>1 DEF KernelState
<1> HIDE DEF t
<1>3. Handle(t, Data[r.id]) \in KernelState
  BY <1>1, <1>2, HandleTypes
<1>4. Apply(s, r.seq, Data[r.id]) = Handle(t, Data[r.id])
  BY DEF Apply, t
<1> QED  BY <1>3, <1>4
------------------------------------------------------------------------------
(* The invariant: it is inductive, and the four properties follow from it. *)

Snapping == [phase : Phase, state : KernelState, seq : Nat, has : SUBSET Event,
             exact : BOOLEAN, prunes : BOOLEAN]
Snapshot == [state : KernelState, seq : Nat, has : SUBSET Event, exact : BOOLEAN, start : Nat]

(* BridgeTypeOK with the states and the snapshots as sets of records. *)
BridgeTypes ==
    /\ log \in Log
    /\ kernel \in KernelState
    /\ came \in SUBSET Event
    /\ hand \in [Writer -> SUBSET Row]
    /\ since \in 0..(Interval - 1)
    /\ snap \in [Snapper -> Snapping]
    /\ stored \in SUBSET Snapshot
    /\ bridgeFaults \in 0..MaxBridgeFaults
    /\ applied \in SUBSET Event
    /\ peak \in Nat /\ jumbled \in Nat /\ boot \in Nat /\ starts \in Nat
    /\ gone \in SUBSET Row

(* The rows that the writers have appended and not yet applied. *)
Held == UNION {hand[w] : w \in Writer}

(* Rows are told apart by number and by event, and a held row is in the log, in
   one hand, and newer than the start.                                       *)
RowsInv ==
    /\ Counted(log) /\ boot <= log.counter
    /\ \A r, q \in log.rows : r.seq = q.seq \/ r.id = q.id => r = q
    /\ Held \subseteq log.rows
    /\ \A r \in Held : r.seq > boot
    /\ \A w, v \in Writer : \A r \in hand[w] : \A q \in hand[v] : (w = v <=> r = q)

(* What has been applied is logged, and stays below the peak. *)
AppliedInv ==
    /\ LoggedIsApplied
    /\ \A r \in log.rows \ Held : r.seq > boot => r.seq <= peak
    /\ jumbled <= peak

(* A number is no lower than that of any row a state has. *)
Covers(has, seq) == \A r \in log.rows : r.id \in has \ {q.id : q \in gone} => r.seq <= seq

SnapshotInv ==
    /\ \A s \in stored : s.has \subseteq {r.id : r \in log.rows \cup gone} /\ Covers(s.has, s.seq)
    /\ \A g \in Snapper : snap[g].has \subseteq {r.id : r \in log.rows \cup gone}
    /\ \A g \in Snapper : snap[g].phase = "numbered" => Covers(snap[g].has, snap[g].seq)

(* The states replay may begin from: that of the start, and those of the exact
   snapshots of this start, stored or about to be.                           *)
Begins(b) ==
    \/ b.state = NewState /\ b.seq = boot
    \/ \E s \in stored : s.exact /\ s.start = starts /\ b.state = s.state /\ b.seq = s.seq
    \/ \E g \in Snapper : /\ snap[g].phase = "numbered" /\ snap[g].exact
                          /\ b.state = snap[g].state /\ b.seq = snap[g].seq

(* The rows after a number that have been applied. *)
Done(n) == {r \in log.rows \ Held : r.seq > n}

(* The live kernel is the fold of what was applied since, when all of it was
   applied in order and is still logged.                                     *)
FoldInv ==
    /\ \A s \in stored : s.start <= starts
    /\ \A g \in Snapper : snap[g].phase = "copied" /\ snap[g].exact =>
           Held = {} /\ snap[g].state = kernel
    /\ \A b \in [state : KernelState, seq : Nat] : Begins(b) =>
           /\ boot <= b.seq /\ b.seq <= log.counter
           /\ \A r \in Held : r.seq > b.seq
           /\ jumbled <= b.seq /\ (\A r \in gone : r.seq <= b.seq) =>
                 kernel = ApplyBatch(b.state, Done(b.seq))

BridgeInv == BridgeTypes /\ RowsInv /\ AppliedInv /\ SnapshotInv /\ FoldInv

------------------------------------------------------------------------------
(* What each kind of step does. *)

Still == UNCHANGED <<log, kernel, hand, snap, stored, applied, peak, jumbled, boot, starts, gone>>
Adds(w, e) == /\ Appends(w, e) /\ hand[w] = {}
              /\ UNCHANGED <<kernel, stored, applied, peak, jumbled, boot, starts, gone>>
Burns == /\ log' = Burnt(log)
         /\ UNCHANGED <<kernel, hand, snap, stored, applied, peak, jumbled, boot, starts, gone>>
Begun(g, prunes) == snap[g].phase = "idle" /\ snap' = [snap EXCEPT ![g].phase = "started",
                                                                   ![g].prunes = prunes]
AppliesRow(w, r) == /\ r \in hand[w] /\ Applies(w, r)
                    /\ UNCHANGED <<log, stored, boot, starts, gone>>
                    /\ UNCHANGED snap \/ \E g \in Snapper : Begun(g, TRUE)

LEMMA StepKinds ==
    ASSUME BridgeNext, BridgeTypes
    PROVE  \/ Still \/ Burns \/ Compact \/ BridgeRestart
           \/ \E w \in Writer, e \in Event : Adds(w, e)
           \/ \E w \in Writer, r \in Row : AppliesRow(w, r)
           \/ \E g \in Snapper : SnapshotCreate(g) \/ TakeSnapshot(g) \/ Create(g) \/ Prune(g)
<1> USE DEF disk, soFar, past
<1>0. Own \subseteq Event /\ Adapter \in Writer /\ Puller \subseteq Writer
  BY BridgeAssumption DEF Writer
<1>1. ASSUME NEW w \in Writer, NEW e \in Event, Takes(w, e), Appends(w, e) \/ FailsToAppend
      PROVE  Adds(w, e) \/ Burns
  BY <1>1 DEF Takes, FailsToAppend, Adds, Burns
<1>2. ASSUME NEW e \in Event, Ingest(e)
      PROVE  Adds(Adapter, e) \/ Burns
  BY <1>0, <1>1, <1>2 DEF Ingest
<1>3. ASSUME NEW e \in Event, NEW w \in Puller, IngestSynced(w, e) \/ IngestAgain(w, e)
      PROVE  Adds(w, e) \/ Burns
  BY <1>0, <1>1, <1>3 DEF IngestSynced, IngestAgain
<1>4. ASSUME NEW e \in Event, Refuse(e)
      PROVE  Still
  BY <1>4 DEF Refuse, Still
<1>5. ASSUME NEW w \in Writer, ApplyInHand(w), UNCHANGED <<disk, past>>,
             UNCHANGED snap \/ \E g \in Snapper : Begun(g, TRUE)
      PROVE  \E r \in Row : AppliesRow(w, r)
  <2>1. PICK r \in hand[w] : Applies(w, r)
    BY <1>5 DEF ApplyInHand
  <2>2. r \in Row
    BY DEF BridgeTypes
  <2> QED  BY <1>5, <2>1, <2>2 DEF AppliesRow
<1>6. ASSUME NEW w \in Puller, ApplySynced(w)
      PROVE  \E r \in Row : AppliesRow(w, r)
  BY <1>0, <1>5, <1>6 DEF ApplySynced
<1>7. ASSUME ApplyIngested
      PROVE  \E r \in Row : AppliesRow(Adapter, r)
  <2>1. UNCHANGED snap \/ \E g \in Snapper : Begun(g, TRUE)
    BY <1>7 DEF ApplyIngested, Begun
  <2> QED  BY <1>0, <1>5, <1>7, <2>1 DEF ApplyIngested
<1> QED  BY <1>0, <1>2, <1>3, <1>4, <1>6, <1>7 DEF BridgeNext

(* An append puts the new row into the hand of its writer. *)
LEMMA HeldAfterAdd ==
    ASSUME BridgeTypes, NEW w \in Writer, NEW e \in Event, Adds(w, e)
    PROVE  /\ Held' = Held \cup {NextRow(log, e)}
           /\ log' = Stored(log, e) /\ log'.rows = log.rows \cup {NextRow(log, e)}
           /\ log'.counter = log.counter + 1
           /\ NextRow(log, e) \in Row /\ NextRow(log, e).seq = log.counter + 1
           /\ NextRow(log, e).id = e
<1>1. hand' = [hand EXCEPT ![w] = {NextRow(log, e)}] /\ hand[w] = {}
  BY DEF Adds, Appends
<1>2. Held' = Held \cup {NextRow(log, e)}
  <2>1. \A v \in Writer : hand'[v] = IF v = w THEN {NextRow(log, e)} ELSE hand[v]
    BY <1>1 DEF BridgeTypes
  <2> QED  BY <1>1, <2>1 DEF Held
<1> QED  BY <1>2 DEF Adds, Appends, Stored, NextRow, BridgeTypes, Log, Row

(* A row applied leaves the hand it was in. *)
LEMMA HeldAfterApply ==
    ASSUME BridgeTypes, RowsInv, NEW w \in Writer, NEW r \in Row, AppliesRow(w, r)
    PROVE  /\ r \in Held /\ Held' = Held \ {r}
           /\ \A v \in Writer : hand'[v] = IF v = w THEN {} ELSE hand[v]
<1>1. r \in hand[w] /\ hand' = [hand EXCEPT ![w] = {}]
  BY DEF AppliesRow, Applies
<1>2. \A v \in Writer : hand'[v] = IF v = w THEN {} ELSE hand[v]
  BY <1>1 DEF BridgeTypes
<1>3. \A v \in Writer : \A q \in hand[v] : (v = w <=> q = r)
  BY <1>1 DEF RowsInv
<1> QED  BY <1>1, <1>2, <1>3 DEF Held

(* Of no hand there is, none is left. *)
LEMMA HeldIds == InHand = {r.id : r \in Held} /\ (InHand = {} <=> Held = {})
  BY DEF InHand, Held

------------------------------------------------------------------------------
(* Each part of the invariant is kept. *)

LEMMA TypesKept ==
    ASSUME BridgeTypes, Counted(log), RowsInv, BridgeNext
    PROVE  BridgeTypes'
<1> USE DEF disk, soFar, past, Writer
<1>0. /\ MaxBridgeFaults \in Nat /\ Own \subseteq Event /\ Interval \in Nat \ {0}
      /\ bridgeFaults \in Nat
  BY BridgeAssumption DEF BridgeTypes
<1>1. BridgeFault \/ UNCHANGED bridgeFaults => bridgeFaults' \in 0..MaxBridgeFaults
  BY <1>0 DEF BridgeTypes, BridgeFault
<1>2. Resting \in Snapping /\ [Resting EXCEPT !.phase = "stored"] \in Snapping
  BY NewStateTypes DEF Resting, Snapping, Phase
<1>3. Overtaken \in [Snapper -> Snapping]
  BY DEF Overtaken, BridgeTypes, Snapping
<1>4. ASSUME NEW w \in Writer, NEW e \in Event, Takes(w, e), Appends(w, e) \/ FailsToAppend,
             BridgeFault \/ UNCHANGED bridgeFaults
      PROVE  BridgeTypes'
  <2>1. came' \in SUBSET Event
    BY <1>4 DEF Takes, BridgeTypes
  <2>2. CASE Appends(w, e)
    <3>1. log' \in Log
      BY <2>2, StoredTypes DEF Appends, BridgeTypes
    <3>2. NextRow(log, e) \in Row
      BY DEF NextRow, Row, BridgeTypes, Log
    <3>3. hand' \in [Writer -> SUBSET Row] /\ snap' \in [Snapper -> Snapping]
      BY <1>3, <2>2, <3>2 DEF Appends, BridgeTypes
    <3> QED  BY <1>1, <1>4, <2>1, <3>1, <3>3 DEF Takes, BridgeTypes
  <2>3. CASE FailsToAppend
    <3>1. log' \in Log
      BY <2>3, BurntTypes DEF FailsToAppend, BridgeTypes
    <3> QED  BY <1>1, <1>4, <2>1, <2>3, <3>1 DEF Takes, FailsToAppend, BridgeTypes
  <2> QED  BY <1>4, <2>2, <2>3
<1>5. ASSUME NEW e \in Event, Ingest(e)
      PROVE  BridgeTypes'
  BY <1>4, <1>5 DEF Ingest, FailsToAppend
<1>6. ASSUME NEW e \in Event, NEW w \in Puller, IngestSynced(w, e) \/ IngestAgain(w, e)
      PROVE  BridgeTypes'
  BY <1>4, <1>6 DEF IngestSynced, IngestAgain
<1>7. ASSUME NEW e \in Event, Refuse(e)
      PROVE  BridgeTypes'
  BY <1>1, <1>7 DEF Refuse, BridgeTypes
<1>8. ASSUME NEW w \in Writer, NEW r \in hand[w], Applies(w, r)
      PROVE  /\ kernel' \in KernelState /\ applied' \in SUBSET Event /\ peak' \in Nat
             /\ jumbled' \in Nat /\ hand' \in [Writer -> SUBSET Row]
  <2>1. r \in Row /\ r.id \in Event /\ r.seq \in Nat
    BY DEF BridgeTypes, Row
  <2>2. kernel' \in KernelState
    BY <1>8, <2>1, ApplyTypes DEF Applies, BridgeTypes
  <2>3. Highest({peak, r.seq}) \in Nat
    <3>1. {peak, r.seq} \subseteq 0..(peak + r.seq)
      BY <2>1 DEF BridgeTypes
    <3>2. Highest({peak, r.seq}) \in {peak, r.seq}
      BY <2>1, <3>1, HighestOf DEF BridgeTypes
    <3> QED  BY <2>1, <3>2 DEF BridgeTypes
  <2> QED  BY <1>8, <2>1, <2>2, <2>3 DEF Applies, BridgeTypes
<1>9. ASSUME NEW w \in Puller, ApplySynced(w)
      PROVE  BridgeTypes'
  <2>1. PICK r \in hand[w] : Applies(w, r)
    BY <1>9 DEF ApplySynced, ApplyInHand
  <2> QED  BY <1>8, <1>9, <2>1 DEF ApplySynced, BridgeTypes
<1>10. ASSUME ApplyIngested
       PROVE  BridgeTypes'
  <2>1. PICK r \in hand[Adapter] : Applies(Adapter, r)
    BY <1>10 DEF ApplyIngested, ApplyInHand
  <2>2. since' \in 0..(Interval - 1) /\ snap' \in [Snapper -> Snapping]
    <3>1. CASE since + 1 < Interval
      BY <1>0, <1>10, <3>1 DEF ApplyIngested, BridgeTypes
    <3>2. CASE ~(since + 1 < Interval)
      <4>1. PICK g \in Snapper :
               snap' = [snap EXCEPT ![g].phase = "started", ![g].prunes = TRUE]
        BY <1>10, <3>2 DEF ApplyIngested
      <4>2. snap' \in [Snapper -> Snapping]
        BY ZenonT(60), <4>1 DEF BridgeTypes, Snapping, Phase
      <4> QED  BY <1>0, <1>10, <3>2, <4>2 DEF ApplyIngested
    <3> QED  BY <3>1, <3>2
  <2> QED  BY <1>8, <1>10, <2>1, <2>2 DEF ApplyIngested, BridgeTypes
<1>11. ASSUME NEW g \in Snapper, SnapshotCreate(g)
       PROVE  BridgeTypes'
  <2>1. snap' \in [Snapper -> Snapping]
    BY <1>11 DEF SnapshotCreate, BridgeTypes, Snapping, Phase
  <2> QED  BY <1>11, <2>1 DEF SnapshotCreate, BridgeTypes
<1>12. ASSUME NEW g \in Snapper, TakeSnapshot(g)
       PROVE  BridgeTypes'
  <2>0. log.counter \in Nat
    BY DEF BridgeTypes, Log
  <2>1. snap' \in [Snapper -> Snapping]
    BY <1>12, <2>0 DEF TakeSnapshot, ReadStateAndNumber, BridgeTypes, Snapping, Phase
  <2> QED  BY <1>12, <2>1 DEF TakeSnapshot, BridgeTypes
<1>13. ASSUME NEW g \in Snapper, Create(g)
       PROVE  BridgeTypes'
  <2> DEFINE new == [state |-> snap[g].state, seq |-> snap[g].seq, has |-> snap[g].has,
                     exact |-> snap[g].exact, start |-> starts]
  <2>1. new \in Snapshot
    BY DEF BridgeTypes, Snapping, Snapshot
  <2>2. stored' \in SUBSET Snapshot
    BY <1>13, <2>1 DEF Create, BridgeTypes
  <2>3. snap' \in [Snapper -> Snapping]
    BY <1>2, <1>13 DEF Create, BridgeTypes
  <2>4. bridgeFaults' \in 0..MaxBridgeFaults
    BY <1>1, <1>13 DEF Create
  <2> QED  BY <1>13, <2>2, <2>3, <2>4 DEF Create, BridgeTypes
<1>14. ASSUME NEW g \in Snapper, Prune(g)
       PROVE  BridgeTypes'
  <2>1. stored' \in SUBSET Snapshot
    BY <1>14 DEF Prune, BridgeTypes
  <2>2. snap' \in [Snapper -> Snapping]
    BY <1>2, <1>14 DEF Prune, BridgeTypes
  <2>4. bridgeFaults' \in 0..MaxBridgeFaults
    BY <1>1, <1>14 DEF Prune
  <2> QED  BY <1>14, <2>1, <2>2, <2>4 DEF Prune, BridgeTypes
<1>15. ASSUME Compact
       PROVE  BridgeTypes'
  <2>1. log' \in Log
    BY <1>15, CompactedTypes DEF Compact, BridgeTypes
  <2>2. gone' \in SUBSET Row
    BY <1>15 DEF Compact, BridgeTypes, Log
  <2> QED  BY <1>15, <2>1, <2>2 DEF Compact, BridgeTypes
<1>16. ASSUME BridgeRestart
       PROVE  BridgeTypes'
  <2>1. log' \in Log /\ log'.counter \in Nat
    <3>1. log' \in Log
      BY <1>16, ReopenedTypes DEF BridgeRestart, BridgeTypes
    <3> QED  BY <3>1 DEF Log
  <2>2. kernel' \in KernelState
    BY <1>16, NewStateTypes DEF BridgeRestart
  <2>3. snap' \in [Snapper -> Snapping]
    BY <1>2, <1>16 DEF BridgeRestart
  <2> QED  BY <1>0, <1>1, <1>16, <2>1, <2>2, <2>3 DEF BridgeRestart, BridgeTypes
<1> QED
  BY <1>5, <1>6, <1>7, <1>9, <1>10, <1>11, <1>12, <1>13, <1>14, <1>15, <1>16 DEF BridgeNext

(* What the steps that are not of the log leave alone. *)
LEMMA SnapperSteps ==
    ASSUME NEW g \in Snapper, SnapshotCreate(g) \/ TakeSnapshot(g) \/ Create(g) \/ Prune(g)
    PROVE  /\ UNCHANGED <<log, kernel, hand, applied, peak, jumbled, boot, starts, gone>>
           /\ Held' = Held
<1>1. UNCHANGED <<log, kernel, hand, applied, peak, jumbled, boot, starts, gone>>
  BY DEF SnapshotCreate, TakeSnapshot, Create, Prune, disk, soFar, past
<1> QED  BY <1>1 DEF Held

LEMMA RowsKept ==
    ASSUME BridgeTypes, RowsInv, BridgeNext
    PROVE  RowsInv'
<1>0. log \in Log /\ log.counter \in Nat /\ log.rows \in SUBSET Row /\ Counted(log)
  BY DEF BridgeTypes, Log, RowsInv
<1>1. CASE Still
  BY <1>1 DEF Still, RowsInv, Held
<1>2. CASE Burns
  <2>1. log'.rows = log.rows /\ log'.counter = log.counter + 1 /\ Counted(log')
    BY <1>0, <1>2, BurntTypes DEF Burns, Burnt, Log
  <2> QED  BY <1>0, <1>2, <2>1 DEF Burns, RowsInv, Held, BridgeTypes
<1>3. ASSUME NEW w \in Writer, NEW e \in Event, Adds(w, e)
      PROVE  RowsInv'
  <2> DEFINE new == NextRow(log, e)
  <2>1. /\ Held' = Held \cup {new} /\ log'.rows = log.rows \cup {new}
        /\ log' = Stored(log, e) /\ log'.counter = log.counter + 1
        /\ new \in Row /\ new.seq = log.counter + 1 /\ new.id = e
    BY <1>3, HeldAfterAdd
  <2>2. e \notin Ids(log) /\ boot' = boot /\ hand' = [hand EXCEPT ![w] = {new}] /\ hand[w] = {}
    BY <1>3 DEF Adds, Appends, Refuses
  <2>3. Counted(log')
    BY <1>0, <2>1, StoredTypes
  <2> HIDE DEF new
  <2>4. \A r \in log.rows : r.seq < new.seq /\ r.id # new.id
    BY <1>0, <2>1, <2>2 DEF Counted, Ids, Row
  <2>5. \A r, q \in log'.rows : r.seq = q.seq \/ r.id = q.id => r = q
    BY <2>1, <2>4, <1>0 DEF RowsInv, Row
  <2>6. \A v \in Writer : hand'[v] = IF v = w THEN {new} ELSE hand[v]
    BY <2>2 DEF BridgeTypes
  <2>7. \A v \in Writer : new \notin hand[v]
    <3>1. new \notin log.rows
      BY <2>4, <1>0 DEF Row
    <3> QED  BY <3>1 DEF RowsInv, Held
  <2>8. \A v, u \in Writer : \A r \in hand'[v] : \A q \in hand'[u] : (v = u <=> r = q)
    BY <2>6, <2>7 DEF RowsInv
  <2>9. boot' <= log'.counter /\ \A r \in Held' : r.seq > boot'
    BY <1>0, <2>1, <2>2 DEF RowsInv, BridgeTypes
  <2>10. Held' \subseteq log'.rows
    BY <2>1 DEF RowsInv
  <2> QED  BY <2>3, <2>5, <2>8, <2>9, <2>10 DEF RowsInv
<1>4. ASSUME NEW w \in Writer, NEW r \in Row, AppliesRow(w, r)
      PROVE  RowsInv'
  <2>1. /\ Held' \subseteq Held /\ log' = log /\ boot' = boot
        /\ \A v \in Writer : hand'[v] = IF v = w THEN {} ELSE hand[v]
    BY <1>4, HeldAfterApply DEF AppliesRow
  <2> QED  BY <2>1 DEF RowsInv
<1>5. ASSUME NEW g \in Snapper, SnapshotCreate(g) \/ TakeSnapshot(g) \/ Create(g) \/ Prune(g)
      PROVE  RowsInv'
  BY <1>5, SnapperSteps DEF RowsInv
<1>6. CASE Compact
  <2>1. PICK old \in SUBSET (Ids(log) \ InHand) : log' = Compacted(log, old)
    BY <1>6 DEF Compact
  <2>2. Counted(log') /\ log'.rows \subseteq log.rows /\ log'.counter = log.counter
    BY <1>0, <2>1, CompactedTypes
  <2>3. \A r \in Held : r \in log'.rows
    BY <1>0, <2>1, HeldIds DEF Compacted, RowsInv, Log
  <2>4. hand' = hand /\ boot' = boot /\ Held' = Held
    BY <1>6 DEF Compact, Held
  <2> QED  BY <2>2, <2>3, <2>4 DEF RowsInv
<1>7. CASE BridgeRestart
  <2>1. Counted(log') /\ log'.rows = log.rows /\ boot' = log'.counter /\ log' \in Log
    BY <1>0, <1>7, ReopenedTypes DEF BridgeRestart
  <2>2. Held' = {} /\ \A w \in Writer : hand'[w] = {}
    BY <1>7 DEF BridgeRestart, Held
  <2>3. boot' <= log'.counter
    BY <2>1 DEF Log
  <2> QED  BY <2>1, <2>2, <2>3 DEF RowsInv
<1> QED  BY <1>1, <1>2, <1>3, <1>4, <1>5, <1>6, <1>7, StepKinds

(* The ids of the rows that the log has or had. *)
Seen == {r.id : r \in log.rows \cup gone}

(* The log and what was compacted away together lose no row. *)
LEMMA SeenGrows ==
    ASSUME BridgeTypes, RowsInv, BridgeNext
    PROVE  /\ Seen \subseteq Seen' /\ gone \subseteq gone'
           /\ \A r \in log'.rows : r \in log.rows \/ r.seq = log.counter + 1
<1>0. log \in Log /\ Counted(log)
  BY DEF BridgeTypes, RowsInv
<1>1. CASE Still
  BY <1>1 DEF Still, Seen
<1>2. CASE Burns
  <2>1. log'.rows = log.rows
    BY <1>0, <1>2 DEF Burns, Burnt, Log
  <2> QED  BY <1>2, <2>1 DEF Burns, Seen
<1>3. ASSUME NEW w \in Writer, NEW e \in Event, Adds(w, e)
      PROVE  /\ Seen \subseteq Seen' /\ gone \subseteq gone'
             /\ \A r \in log'.rows : r \in log.rows \/ r.seq = log.counter + 1
  <2>1. log'.rows = log.rows \cup {NextRow(log, e)} /\ NextRow(log, e).seq = log.counter + 1
    BY <1>3, HeldAfterAdd
  <2> QED  BY <1>3, <2>1 DEF Adds, Seen
<1>4. ASSUME NEW w \in Writer, NEW r \in Row, AppliesRow(w, r)
      PROVE  UNCHANGED <<log, gone>>
  BY <1>4 DEF AppliesRow
<1>5. ASSUME NEW g \in Snapper, SnapshotCreate(g) \/ TakeSnapshot(g) \/ Create(g) \/ Prune(g)
      PROVE  UNCHANGED <<log, gone>>
  BY <1>5, SnapperSteps
<1>6. CASE Compact
  <2>1. log'.rows \subseteq log.rows
    BY <1>0, <1>6, CompactedTypes DEF Compact
  <2> QED  BY <1>6, <2>1 DEF Compact, Seen
<1>7. CASE BridgeRestart
  <2>1. log'.rows = log.rows
    BY <1>0, <1>7, ReopenedTypes DEF BridgeRestart
  <2> QED  BY <1>7, <2>1 DEF BridgeRestart, Seen
<1>8. CASE UNCHANGED <<log, gone>>
  BY <1>8 DEF Seen
<1> QED  BY <1>1, <1>2, <1>3, <1>4, <1>5, <1>6, <1>7, <1>8, StepKinds

LEMMA AppliedKept ==
    ASSUME BridgeTypes, RowsInv, AppliedInv, BridgeNext
    PROVE  AppliedInv'
<1>0. /\ log \in Log /\ Counted(log) /\ applied \subseteq Seen /\ log.rows \in SUBSET Row
      /\ \A r \in log.rows : r.seq > boot => r.id \in applied \cup {q.id : q \in Held}
  BY HeldIds DEF BridgeTypes, RowsInv, AppliedInv, LoggedIsApplied, Seen, Log
<1>1. CASE Still
  <2>1. Held' = Held
    BY <1>1 DEF Still, Held
  <2> QED  BY <1>1, <2>1 DEF Still, AppliedInv, LoggedIsApplied, InHand
<1> SUFFICES ASSUME ~Still
             PROVE  AppliedInv'
  BY <1>1
<1> DEFINE P == \A r \in log'.rows : r.seq > boot' => r.id \in applied' \cup {q.id : q \in Held'}
           Q == \A r \in log'.rows \ Held' : r.seq > boot' => r.seq <= peak'
<1>2. ASSUME P, applied' \subseteq Seen \/ applied' = {}, Q, jumbled' <= peak'
      PROVE  AppliedInv'
  <2>1. applied' \subseteq Seen'
    BY <1>2, SeenGrows
  <2>2. InHand' = {r.id : r \in Held'}
    BY DEF InHand, Held
  <2> QED  BY <1>2, <2>1, <2>2 DEF AppliedInv, LoggedIsApplied, Seen
<1>3. ASSUME UNCHANGED <<hand, applied, peak, jumbled, boot>>, log'.rows \subseteq log.rows
      PROVE  AppliedInv'
  <2>1. Held' = Held
    BY <1>3 DEF Held
  <2> QED  BY <1>0, <1>2, <1>3, <2>1 DEF AppliedInv
<1>4. CASE Burns
  <2>1. log'.rows = log.rows
    BY <1>0, <1>4 DEF Burns, Burnt, Log
  <2> QED  BY <1>3, <1>4, <2>1 DEF Burns
<1>5. CASE Compact
  <2>1. log'.rows \subseteq log.rows
    BY <1>0, <1>5, CompactedTypes DEF Compact
  <2> QED  BY <1>3, <1>5, <2>1 DEF Compact, soFar
<1>6. ASSUME NEW g \in Snapper, SnapshotCreate(g) \/ TakeSnapshot(g) \/ Create(g) \/ Prune(g)
      PROVE  AppliedInv'
  BY <1>3, <1>6, SnapperSteps
<1>7. CASE BridgeRestart
  <2>1. /\ log'.rows = log.rows /\ Counted(log') /\ boot' = log'.counter /\ log' \in Log
        /\ applied' = {} /\ jumbled' = 0 /\ peak' = 0
    BY <1>0, <1>7, ReopenedTypes DEF BridgeRestart
  <2>2. \A r \in log'.rows : ~(r.seq > boot')
    BY <2>1 DEF Counted, Log, Row
  <2> QED  BY <1>2, <2>1, <2>2
<1>8. ASSUME NEW w \in Writer, NEW e \in Event, Adds(w, e)
      PROVE  AppliedInv'
  <2>1. /\ Held' = Held \cup {NextRow(log, e)} /\ log'.rows = log.rows \cup {NextRow(log, e)}
        /\ UNCHANGED <<applied, peak, jumbled, boot>>
    BY <1>8, HeldAfterAdd DEF Adds
  <2>2. P
    BY <1>0, <2>1
  <2>3. Q
    BY <2>1 DEF AppliedInv
  <2> QED  BY <1>0, <1>2, <2>1, <2>2, <2>3 DEF AppliedInv
<1>9. ASSUME NEW w \in Writer, NEW r \in Row, AppliesRow(w, r)
      PROVE  AppliedInv'
  <2>1. /\ r \in Held /\ Held' = Held \ {r} /\ r \in log.rows
        /\ log' = log /\ boot' = boot
    BY <1>9, HeldAfterApply DEF AppliesRow, RowsInv
  <2>2. /\ applied' = applied \cup {r.id} /\ peak' = Highest({peak, r.seq})
        /\ jumbled' = IF r.seq < peak THEN peak ELSE jumbled
    BY <1>9 DEF AppliesRow, Applies
  <2>3. peak' \in Nat /\ peak <= peak' /\ r.seq <= peak'
    <3>1. {peak, r.seq} \subseteq 0..(peak + r.seq)
      BY DEF BridgeTypes, Row
    <3>2. /\ Highest({peak, r.seq}) \in {peak, r.seq}
          /\ \A k \in {peak, r.seq} : k <= Highest({peak, r.seq})
      BY <3>1, HighestOf DEF BridgeTypes, Row
    <3> QED  BY <2>2, <3>2 DEF BridgeTypes, Row
  <2>4. P
    BY <1>0, <2>1, <2>2
  <2>5. Q
    <3> SUFFICES ASSUME NEW q \in log'.rows \ Held', q.seq > boot'
                 PROVE  q.seq <= peak'
      OBVIOUS
    <3>1. CASE q = r
      BY <2>3, <3>1
    <3>2. CASE q # r
      <4>1. q.seq <= peak /\ q.seq \in Nat
        BY <1>0, <2>1, <3>2 DEF AppliedInv, Row
      <4> QED  BY <2>3, <4>1 DEF BridgeTypes
    <3> QED  BY <3>1, <3>2
  <2>6. applied' \subseteq Seen
    BY <1>0, <2>1, <2>2 DEF Seen
  <2>7. jumbled' <= peak'
    BY <2>2, <2>3 DEF AppliedInv, BridgeTypes
  <2> QED  BY <1>2, <2>4, <2>5, <2>6, <2>7
<1> QED  BY <1>4, <1>5, <1>6, <1>7, <1>8, <1>9, StepKinds

LEMMA SnapshotsKept ==
    ASSUME BridgeTypes, RowsInv, AppliedInv, SnapshotInv, BridgeNext
    PROVE  SnapshotInv'
<1>0. log \in Log /\ log.rows \in SUBSET Row /\ log.counter \in Nat /\ Counted(log)
  BY DEF BridgeTypes, Log, RowsInv
(* A step adds rows of events that were compacted away, or of none that a state has. *)
<1>1. ASSUME NEW has, NEW seq, has \subseteq Seen, Covers(has, seq)
      PROVE  has \subseteq Seen' /\ Covers(has, seq)'
  <2>1. has \subseteq Seen' /\ gone \subseteq gone'
    BY <1>1, SeenGrows
  <2>2. ASSUME NEW r \in log'.rows, r.id \in has, r.id \notin {q.id : q \in gone'}
        PROVE  r.seq <= seq
    <3>1. r.id \notin {q.id : q \in gone}
      BY <2>1, <2>2
    <3>2. CASE r \in log.rows
      BY <1>1, <2>2, <3>1, <3>2 DEF Covers
    <3>3. CASE r \notin log.rows
      <4>1. PICK w \in Writer, e \in Event : Adds(w, e)
        <5>1. ~Still /\ ~Burns
          BY <1>0, <2>2, <3>3 DEF Still, Burns, Burnt, Log
        <5>2. ~Compact /\ ~BridgeRestart
          BY <1>0, <2>2, <3>3, CompactedTypes, ReopenedTypes DEF Compact, BridgeRestart
        <5>3. ~\E w \in Writer, q \in Row : AppliesRow(w, q)
          BY <2>2, <3>3 DEF AppliesRow
        <5>4. ~\E g \in Snapper : SnapshotCreate(g) \/ TakeSnapshot(g) \/ Create(g) \/ Prune(g)
          BY <2>2, <3>3, SnapperSteps
        <5> QED  BY <5>1, <5>2, <5>3, <5>4, StepKinds
      <4>2. r.id = e /\ e \notin Ids(log)
        <5>1. log'.rows = log.rows \cup {NextRow(log, e)} /\ NextRow(log, e).id = e
          BY <4>1, HeldAfterAdd
        <5>2. r = NextRow(log, e)
          BY <2>2, <3>3, <5>1
        <5> QED  BY <4>1, <5>1, <5>2 DEF Adds, Appends, Refuses
      <4>3. e \in Seen
        BY <1>1, <2>2, <4>2
      <4> QED  BY <3>1, <4>2, <4>3 DEF Seen, Ids
    <3> QED  BY <3>2, <3>3
  <2> QED  BY <2>1, <2>2 DEF Covers
<1>2. \A s \in stored : s.has \subseteq Seen /\ Covers(s.has, s.seq)
  BY DEF SnapshotInv, Seen
<1>3. \A g \in Snapper : /\ snap[g].has \subseteq Seen
                         /\ snap[g].phase = "numbered" => Covers(snap[g].has, snap[g].seq)
  BY DEF SnapshotInv, Seen
<1>4. \A has : Covers(has, log.counter)
  BY <1>0 DEF Covers, Counted
<1>5. applied \subseteq Seen
  BY DEF AppliedInv, LoggedIsApplied, Seen
(* What is stored or under way afterwards was so before, or is covered now. *)
<1>6. ASSUME NEW s \in stored'
      PROVE  s.has \subseteq Seen /\ Covers(s.has, s.seq)
  <2>1. CASE s \in stored
    BY <1>2, <2>1
  <2>2. CASE s \notin stored
    <3>1. PICK g \in Snapper : SnapshotCreate(g) \/ TakeSnapshot(g) \/ Create(g) \/ Prune(g)
      BY <1>6, <2>2, StepKinds DEF Still, Burns, Compact, BridgeRestart, Adds, AppliesRow
    <3>2. Create(g)
      BY <1>6, <2>2, <3>1 DEF SnapshotCreate, TakeSnapshot, Prune, disk
    <3>3. s.has = snap[g].has /\ s.seq = snap[g].seq /\ snap[g].phase = "numbered"
      BY <1>6, <2>2, <3>2 DEF Create
    <3> QED  BY <1>3, <3>3
  <2> QED  BY <2>1, <2>2
<1>7. ASSUME NEW g \in Snapper
      PROVE  /\ snap'[g].has \subseteq Seen
             /\ snap'[g].phase = "numbered" => Covers(snap'[g].has, snap'[g].seq)
  <2> DEFINE Same(h) == snap'[h].has = snap[h].has /\ snap'[h].seq = snap[h].seq
                        /\ (snap'[h].phase = "numbered" => snap[h].phase = "numbered")
  <2>0. snap \in [Snapper -> Snapping]
    BY DEF BridgeTypes
  <2>1. CASE Same(g)
    BY <1>3, <2>1
  <2>2. Resting.has = {} /\ Resting.phase # "numbered"
    BY DEF Resting
  <2>3. CASE Still \/ Burns \/ Compact
    BY <2>1, <2>3 DEF Still, Burns, Compact
  <2>4. CASE BridgeRestart
    BY <2>2, <2>4 DEF BridgeRestart
  <2>5. ASSUME NEW w \in Writer, NEW e \in Event, Adds(w, e)
        PROVE  Same(g)
    BY <2>0, <2>5 DEF Adds, Appends, Overtaken, Snapping
  <2>6. ASSUME NEW w \in Writer, NEW r \in Row, AppliesRow(w, r)
        PROVE  Same(g)
    <3>1. CASE UNCHANGED snap
      BY <3>1
    <3>2. ASSUME NEW h \in Snapper, Begun(h, TRUE)
          PROVE  Same(g)
      BY <2>0, <3>2 DEF Begun, Snapping
    <3>3. UNCHANGED snap \/ \E h \in Snapper : Begun(h, TRUE)
      BY <2>6 DEF AppliesRow
    <3> QED  BY <3>1, <3>2, <3>3
  <2>7. ASSUME NEW h \in Snapper, SnapshotCreate(h)
        PROVE  Same(g)
    BY <2>0, <2>7 DEF SnapshotCreate, Snapping
  <2>8. ASSUME NEW h \in Snapper, TakeSnapshot(h)
        PROVE  \/ Same(g)
               \/ snap'[g].has = applied /\ snap'[g].phase = "copied"
               \/ snap'[g].has = snap[g].has /\ snap'[g].seq = log.counter
    BY <2>0, <2>8 DEF TakeSnapshot, ReadStateAndNumber, Snapping
  <2>9. ASSUME NEW h \in Snapper, Create(h) \/ Prune(h)
        PROVE  Same(g) \/ (snap'[g].has = {} /\ snap'[g].phase # "numbered")
    <3>1. /\ [Resting EXCEPT !.phase = "stored"].has = {}
          /\ [Resting EXCEPT !.phase = "stored"].phase = "stored"
      BY DEF Resting
    <3> QED  BY <2>0, <2>2, <2>9, <3>1 DEF Create, Prune
  <2> QED  BY <1>3, <1>4, <1>5, <2>1, <2>3, <2>4, <2>5, <2>6, <2>7, <2>8, <2>9, StepKinds
<1>8. \A s \in stored' : s.has \subseteq Seen' /\ Covers(s.has, s.seq)'
  BY <1>1, <1>6
<1>9. ASSUME NEW g \in Snapper
      PROVE  \E has, seq : /\ has = snap'[g].has /\ seq = snap'[g].seq /\ has \subseteq Seen'
                           /\ snap'[g].phase = "numbered" => Covers(has, seq)'
  <2>1. PICK has, seq : has = snap'[g].has /\ seq = snap'[g].seq
    OBVIOUS
  <2>2. has \subseteq Seen /\ (snap'[g].phase = "numbered" => Covers(has, seq))
    BY <1>7, <2>1
  <2>3. has \subseteq Seen'
    BY <2>2, SeenGrows
  <2> QED  BY <1>1, <2>1, <2>2, <2>3
<1>10. ASSUME NEW g \in Snapper
       PROVE  /\ snap'[g].has \subseteq Seen'
              /\ snap'[g].phase = "numbered" => Covers(snap[g].has, snap[g].seq)'
  <2>1. PICK has, seq : /\ has = snap'[g].has /\ seq = snap'[g].seq /\ has \subseteq Seen'
                        /\ snap'[g].phase = "numbered" => Covers(has, seq)'
    BY <1>9
  <2> QED  BY <2>1 DEF Covers
<1> QED  BY <1>8, <1>10 DEF SnapshotInv, Seen

(* The live kernel is what replay makes of a base. *)
Meets(b) ==
    /\ boot <= b.seq /\ b.seq <= log.counter
    /\ \A r \in Held : r.seq > b.seq
    /\ jumbled <= b.seq /\ (\A r \in gone : r.seq <= b.seq) =>
          kernel = ApplyBatch(b.state, Done(b.seq))

(* A base with nothing logged after it, and the kernel's state. *)
AtHand(b) ==
    /\ b.state = kernel /\ Held = {}
    /\ boot <= b.seq /\ b.seq <= log.counter /\ \A r \in log.rows : r.seq <= b.seq

LEMMA AtHandMeets ==
    ASSUME BridgeTypes', NEW b \in [state : KernelState, seq : Nat], AtHand(b)'
    PROVE  Meets(b)'
<1>1. Done(b.seq)' = {}
  BY DEF AtHand, Done, BridgeTypes, Log, Row
<1> QED  BY <1>1, BatchEmpty DEF AtHand, Meets

(* A base is an older one, or at hand. *)
LEMMA BasesKept ==
    ASSUME BridgeTypes, RowsInv, FoldInv, BridgeNext, BridgeTypes', RowsInv',
           NEW b \in [state : KernelState, seq : Nat], Begins(b)'
    PROVE  AtHand(b)' \/ (~BridgeRestart /\ Begins(b))
<1>0. /\ log \in Log /\ Counted(log) /\ log.counter \in Nat /\ log.rows \in SUBSET Row
      /\ snap \in [Snapper -> Snapping] /\ boot <= log.counter
  BY DEF BridgeTypes, RowsInv, Log
<1>1. ASSUME stored' \subseteq stored, starts' = starts, boot' = boot, ~BridgeRestart,
             \A g \in Snapper : snap'[g].phase = "numbered" =>
                /\ snap[g].phase = "numbered"
                /\ snap'[g].exact => snap[g].exact
                /\ snap'[g].state = snap[g].state /\ snap'[g].seq = snap[g].seq
      PROVE  ~BridgeRestart /\ Begins(b)
  BY <1>1 DEF Begins
<1>2. CASE BridgeRestart
  <2>1. ~\E s \in stored' : s.start = starts'
    BY <1>2 DEF BridgeRestart, FoldInv, BridgeTypes, Snapshot
  <2>2. \A g \in Snapper : snap'[g].phase = "idle"
    BY <1>2 DEF BridgeRestart, Resting
  <2>3. b.state = NewState /\ b.seq = boot'
    BY <2>1, <2>2 DEF Begins
  <2>4. kernel' = NewState /\ Held' = {} /\ boot' = log'.counter
    BY <1>2 DEF BridgeRestart, Held
  <2>5. boot' \in Nat /\ \A r \in log'.rows : r.seq <= boot'
    BY <2>4 DEF BridgeTypes, RowsInv, Counted
  <2> QED  BY <2>3, <2>4, <2>5 DEF AtHand
<1> SUFFICES ASSUME ~BridgeRestart
             PROVE  AtHand(b)' \/ Begins(b)
  BY <1>2
<1>3. CASE Still \/ Burns \/ Compact
  BY <1>1, <1>3 DEF Still, Burns, Compact
<1>4. ASSUME NEW w \in Writer, NEW e \in Event, Adds(w, e)
      PROVE  Begins(b)
  <2>1. snap' = Overtaken /\ stored' = stored /\ starts' = starts /\ boot' = boot
    BY <1>4 DEF Adds, Appends
  <2>2. \A g \in Snapper : snap[g].phase # "copied" => snap'[g] = snap[g]
    BY <2>1 DEF Overtaken
  <2>3. \A g \in Snapper : snap[g].phase = "copied" => snap'[g].phase = "copied"
    BY <1>0, <2>1 DEF Overtaken, Snapping
  <2> QED  BY <1>1, <2>1, <2>2, <2>3
<1>5. ASSUME NEW w \in Writer, NEW r \in Row, AppliesRow(w, r)
      PROVE  Begins(b)
  <2>1. CASE UNCHANGED snap
    BY <1>1, <1>5, <2>1 DEF AppliesRow
  <2>2. ASSUME NEW g \in Snapper, Begun(g, TRUE)
        PROVE  Begins(b)
    <3>1. \A h \in Snapper : snap'[h].phase = "numbered" => snap'[h] = snap[h]
      BY <1>0, <2>2 DEF Begun, Snapping
    <3> QED  BY <1>1, <1>5, <3>1 DEF AppliesRow
  <2>3. UNCHANGED snap \/ \E g \in Snapper : Begun(g, TRUE)
    BY <1>5 DEF AppliesRow
  <2> QED  BY <2>1, <2>2, <2>3
<1>6. ASSUME NEW g \in Snapper, SnapshotCreate(g)
      PROVE  Begins(b)
  <2>1. \A h \in Snapper : snap'[h].phase = "numbered" => snap'[h] = snap[h]
    BY <1>0, <1>6 DEF SnapshotCreate, Snapping
  <2> QED  BY <1>1, <1>6, <2>1 DEF SnapshotCreate, disk, past
<1>7. ASSUME NEW g \in Snapper, Prune(g)
      PROVE  Begins(b)
  <2>1. \A h \in Snapper : snap'[h].phase = "numbered" => snap'[h] = snap[h]
    BY <1>0, <1>7 DEF Prune, Resting
  <2> QED  BY <1>1, <1>7, <2>1 DEF Prune, past
<1>8. ASSUME NEW g \in Snapper, Create(g)
      PROVE  Begins(b)
  <2>1. \A h \in Snapper : snap'[h].phase = "numbered" => snap'[h] = snap[h]
    <3>1. [Resting EXCEPT !.phase = "stored"].phase # "numbered" /\ Resting.phase # "numbered"
      BY DEF Resting
    <3> QED  BY <1>0, <1>8, <3>1 DEF Create
  <2>2. \A s \in stored' : \/ s \in stored
                           \/ /\ snap[g].phase = "numbered" /\ s.exact = snap[g].exact
                              /\ s.state = snap[g].state /\ s.seq = snap[g].seq
    BY <1>8 DEF Create
  <2>3. starts' = starts /\ boot' = boot
    BY <1>8 DEF Create, past
  <2> QED  BY <2>1, <2>2, <2>3 DEF Begins
<1>9. ASSUME NEW g \in Snapper, TakeSnapshot(g)
      PROVE  AtHand(b)' \/ Begins(b)
  <2>1. \A h \in Snapper \ {g} : snap'[h] = snap[h]
    BY <1>0, <1>9 DEF TakeSnapshot, ReadStateAndNumber
  <2>2. stored' = stored /\ starts' = starts /\ boot' = boot /\ log' = log /\ kernel' = kernel
        /\ Held' = Held
    BY <1>9, SnapperSteps DEF TakeSnapshot, disk, past
  <2>3. CASE /\ snap'[g].phase = "numbered" /\ snap'[g].exact
             /\ b.state = snap'[g].state /\ b.seq = snap'[g].seq
    <3>1. /\ snap[g].phase = "copied" /\ snap[g].exact /\ b.state = snap[g].state
          /\ b.seq = log.counter
      BY <1>0, <1>9, <2>3 DEF TakeSnapshot, ReadStateAndNumber, Snapping
    <3>2. Held = {} /\ b.state = kernel
      BY <3>1 DEF FoldInv
    <3>3. log.counter <= log.counter /\ \A r \in log.rows : r.seq <= log.counter
      BY <1>0 DEF Counted
    <3> QED  BY <1>0, <2>2, <3>1, <3>2, <3>3 DEF AtHand
  <2> QED  BY <2>1, <2>2, <2>3 DEF Begins
<1> QED  BY <1>3, <1>4, <1>5, <1>6, <1>7, <1>8, <1>9, StepKinds

(* A base that the live kernel meets, it goes on meeting until the restart. *)
LEMMA MeetsKept ==
    ASSUME BridgeTypes, RowsInv, AppliedInv, BridgeNext, ~BridgeRestart, BridgeTypes', RowsInv',
           NEW b \in [state : KernelState, seq : Nat], Meets(b)
    PROVE  Meets(b)'
<1>0. /\ log \in Log /\ Counted(log) /\ log.counter \in Nat /\ log.rows \in SUBSET Row
      /\ b.seq \in Nat /\ jumbled \in Nat /\ peak \in Nat /\ boot \in Nat
  BY DEF BridgeTypes, RowsInv, Log
<1> DEFINE InOrder == jumbled <= b.seq /\ \A r \in gone : r.seq <= b.seq
<1>1. ASSUME UNCHANGED <<kernel, jumbled, boot>>, gone \subseteq gone', b.seq <= log'.counter,
             \A r \in Held' : r.seq > b.seq, InOrder' => Done(b.seq)' = Done(b.seq)
      PROVE  Meets(b)'
  <2>1. InOrder' => kernel = ApplyBatch(b.state, Done(b.seq))
    BY <1>1 DEF Meets
  <2>2. InOrder' => kernel' = ApplyBatch(b.state, Done(b.seq)')
    BY <1>1, <2>1
  <2> QED  BY <1>1, <2>2 DEF Meets
<1>2. CASE Still
  <2>1. Held' = Held
    BY <1>2 DEF Still, Held
  <2> QED  BY <1>1, <1>2, <2>1 DEF Still, Meets, Done
<1>3. CASE Burns
  <2>1. Held' = Held /\ log'.rows = log.rows /\ log'.counter = log.counter + 1
    BY <1>0, <1>3 DEF Burns, Burnt, Log, Held
  <2>2. Done(b.seq)' = Done(b.seq)
    BY <2>1 DEF Done
  <2> QED  BY <1>0, <1>1, <1>3, <2>1, <2>2 DEF Burns, Meets
<1>4. ASSUME NEW g \in Snapper, SnapshotCreate(g) \/ TakeSnapshot(g) \/ Create(g) \/ Prune(g)
      PROVE  Meets(b)'
  <2>1. UNCHANGED <<log, kernel, jumbled, boot, gone>> /\ Held' = Held
    BY <1>4, SnapperSteps
  <2> QED  BY <1>1, <2>1 DEF Meets, Done
<1>5. ASSUME NEW w \in Writer, NEW e \in Event, Adds(w, e)
      PROVE  Meets(b)'
  <2> DEFINE new == NextRow(log, e)
  <2>1. /\ Held' = Held \cup {new} /\ log'.rows = log.rows \cup {new}
        /\ log'.counter = log.counter + 1 /\ new.seq = log.counter + 1
        /\ UNCHANGED <<kernel, jumbled, boot, gone>>
    BY <1>5, HeldAfterAdd DEF Adds
  <2> HIDE DEF new
  <2>2. new \notin log.rows
    BY <1>0, <2>1 DEF Counted, Row
  <2>3. Done(b.seq)' = Done(b.seq)
    BY <2>1, <2>2 DEF Done
  <2> QED  BY <1>0, <1>1, <2>1, <2>3 DEF Meets
<1>6. CASE Compact
  <2>1. /\ log'.rows \subseteq log.rows /\ log'.counter = log.counter
        /\ gone' = gone \cup (log.rows \ log'.rows)
    BY <1>0, <1>6, CompactedTypes DEF Compact
  <2>2. Held' = Held /\ UNCHANGED <<kernel, jumbled, boot>>
    BY <1>6 DEF Compact, Held, soFar
  <2>3. InOrder' => Done(b.seq)' = Done(b.seq)
    <3> SUFFICES ASSUME \A r \in gone' : r.seq <= b.seq
                 PROVE  Done(b.seq)' = Done(b.seq)
      OBVIOUS
    <3>1. \A r \in log.rows : r.seq > b.seq => r \in log'.rows
      BY <1>0, <2>1 DEF Row
    <3> QED  BY <2>1, <2>2, <3>1 DEF Done
  <2> QED  BY <1>1, <2>1, <2>2, <2>3 DEF Meets
<1>7. ASSUME NEW w \in Writer, NEW r \in Row, AppliesRow(w, r)
      PROVE  Meets(b)'
  <2>1. /\ r \in Held /\ Held' = Held \ {r} /\ r \in log.rows /\ r.seq > b.seq
        /\ UNCHANGED <<log, boot, gone>>
    BY <1>7, HeldAfterApply DEF AppliesRow, RowsInv, Meets
  <2>2. /\ kernel' = Apply(kernel, r.seq, Data[r.id])
        /\ jumbled' = IF r.seq < peak THEN peak ELSE jumbled
    BY <1>7 DEF AppliesRow, Applies
  <2>3. ASSUME InOrder'
        PROVE  kernel' = ApplyBatch(b.state, Done(b.seq)')
    <3>1. r.seq >= peak /\ jumbled' = jumbled
      BY <1>0, <2>1, <2>2, <2>3 DEF Row
    <3>2. kernel = ApplyBatch(b.state, Done(b.seq))
      BY <2>1, <2>3, <3>1 DEF Meets
    <3>3. Done(b.seq)' = Done(b.seq) \cup {r}
      BY <2>1 DEF Done
    <3>4. Done(b.seq) \in SUBSET Row /\ IsFiniteSet(Done(b.seq))
      <4>1. Done(b.seq) \subseteq log.rows
        BY DEF Done
      <4> QED  BY <1>0, <4>1, FS_Subset DEF Counted
    <3>5. \A q \in Done(b.seq) : q.seq < r.seq
      <4> SUFFICES ASSUME NEW q \in Done(b.seq)
                   PROVE  q.seq < r.seq
        OBVIOUS
      <4>1. q \in log.rows \ Held /\ q.seq > b.seq /\ q.seq \in Nat /\ r.seq \in Nat
        BY <1>0 DEF Done, Row
      <4>2. q.seq <= peak
        BY <1>0, <4>1 DEF AppliedInv, Meets
      <4>3. q.seq # r.seq
        BY <2>1, <4>1 DEF RowsInv
      <4> QED  BY <1>0, <3>1, <4>1, <4>2, <4>3
    <3> QED  BY <2>2, <3>2, <3>3, <3>4, <3>5, BatchAdd
  <2> QED  BY <2>1, <2>3 DEF Meets
<1> QED  BY <1>2, <1>3, <1>4, <1>5, <1>6, <1>7, StepKinds

LEMMA FoldKept ==
    ASSUME BridgeTypes, RowsInv, AppliedInv, FoldInv, BridgeNext, BridgeTypes', RowsInv'
    PROVE  FoldInv'
<1>0. snap \in [Snapper -> Snapping] /\ starts \in Nat
  BY DEF BridgeTypes
<1>1. \A s \in stored' : s.start <= starts'
  <2>1. CASE stored' \subseteq stored /\ starts' = starts
    BY <2>1 DEF FoldInv
  <2>2. CASE BridgeRestart
    BY <1>0, <2>2 DEF BridgeRestart, FoldInv, BridgeTypes, Snapshot
  <2>3. ASSUME NEW g \in Snapper, Create(g)
        PROVE  \A s \in stored' : s.start <= starts'
    BY <1>0, <2>3 DEF Create, FoldInv, past
  <2>4. ASSUME NEW g \in Snapper, SnapshotCreate(g) \/ TakeSnapshot(g) \/ Prune(g)
        PROVE  stored' \subseteq stored /\ starts' = starts
    BY <2>4 DEF SnapshotCreate, TakeSnapshot, Prune, disk, past
  <2> QED  BY <2>1, <2>2, <2>3, <2>4, StepKinds DEF Still, Burns, Compact, Adds, AppliesRow
<1>2. ASSUME NEW g \in Snapper, snap'[g].phase = "copied", snap'[g].exact
      PROVE  Held' = {} /\ snap'[g].state = kernel'
  <2>1. CASE /\ snap[g].phase = "copied" /\ snap[g].exact /\ snap'[g].state = snap[g].state
             /\ Held' = Held /\ kernel' = kernel
    BY <2>1 DEF FoldInv
  <2>2. CASE Still \/ Burns \/ Compact
    <3>1. snap' = snap /\ kernel' = kernel /\ Held' = Held
      BY <2>2 DEF Still, Burns, Compact, Held
    <3> QED  BY <1>2, <2>1, <3>1
  <2>3. CASE BridgeRestart
    BY <1>2, <2>3 DEF BridgeRestart, Resting
  <2>4. ASSUME NEW w \in Writer, NEW e \in Event, Adds(w, e)
        PROVE  FALSE
    BY <1>0, <1>2, <2>4 DEF Adds, Appends, Overtaken, Snapping
  <2>5. ASSUME NEW w \in Writer, NEW r \in Row, AppliesRow(w, r)
        PROVE  FALSE
    <3>1. snap[g].phase = "copied" /\ snap[g].exact
      <4>1. CASE UNCHANGED snap
        BY <1>2, <4>1
      <4>2. ASSUME NEW h \in Snapper, Begun(h, TRUE)
            PROVE  snap[g].phase = "copied" /\ snap[g].exact
        BY <1>0, <1>2, <4>2 DEF Begun, Snapping
      <4> QED  BY <2>5, <4>1, <4>2 DEF AppliesRow
    <3>2. r \in Held
      BY <2>5, HeldAfterApply
    <3> QED  BY <3>1, <3>2 DEF FoldInv
  <2>6. ASSUME NEW h \in Snapper,
               SnapshotCreate(h) \/ TakeSnapshot(h) \/ Create(h) \/ Prune(h)
        PROVE  Held' = {} /\ snap'[g].state = kernel'
    <3>1. Held' = Held /\ kernel' = kernel
      BY <2>6, SnapperSteps
    <3>2. CASE g # h
      <4>1. snap'[g] = snap[g]
        BY <1>0, <2>6, <3>2 DEF SnapshotCreate, TakeSnapshot, ReadStateAndNumber, Create, Prune
      <4> QED  BY <1>2, <2>1, <3>1, <4>1
    <3>3. CASE g = h
      <4>1. [Resting EXCEPT !.phase = "stored"].phase = "stored" /\ Resting.phase = "idle"
        BY DEF Resting
      <4>2. TakeSnapshot(g) /\ snap'[g].exact = (InHand = {}) /\ snap'[g].state = kernel
        <5>1. ~SnapshotCreate(g)
          BY <1>0, <1>2 DEF SnapshotCreate, Snapping
        <5>2. ~Create(g) /\ ~Prune(g)
          BY <1>0, <1>2, <4>1 DEF Create, Prune
        <5>3. TakeSnapshot(g)
          BY <2>6, <3>3, <5>1, <5>2
        <5>4. snap' = [snap EXCEPT ![g].phase = "copied", ![g].state = kernel,
                                   ![g].has = applied, ![g].exact = (InHand = {})]
          BY <1>0, <1>2, <5>3 DEF TakeSnapshot, ReadStateAndNumber, Snapping
        <5>5. snap'[g].state = kernel
          BY <1>0, <5>4 DEF Snapping
        <5>6. snap'[g].exact = (InHand = {})
          BY <1>0, <5>4 DEF Snapping
        <5> QED  BY <5>3, <5>5, <5>6
      <4> QED  BY <1>2, <3>1, <4>2, HeldIds
    <3> QED  BY <3>2, <3>3
  <2> QED  BY <2>2, <2>3, <2>4, <2>5, <2>6, StepKinds
<1>3. ASSUME NEW b \in [state : KernelState, seq : Nat], Begins(b)'
      PROVE  Meets(b)'
  <2>1. CASE AtHand(b)'
    BY <2>1, AtHandMeets
  <2>2. CASE ~BridgeRestart /\ Begins(b)
    <3>1. Meets(b)
      BY <2>2 DEF FoldInv, Meets
    <3> QED  BY <2>2, <3>1, MeetsKept
  <2> QED  BY <1>3, <2>1, <2>2, BasesKept
<1> QED  BY <1>1, <1>2, <1>3 DEF FoldInv, Meets

------------------------------------------------------------------------------
LEMMA BridgeInvHolds == BridgeSpec => []BridgeInv
<1>1. BridgeInit => BridgeInv
  <2> SUFFICES ASSUME BridgeInit
               PROVE  BridgeInv
    OBVIOUS
  <2>0. /\ log = EmptyLog /\ log.rows = {} /\ log.counter = 0 /\ Held = {} /\ InHand = {}
        /\ boot = 0 /\ \A w \in Writer : hand[w] = {}
    BY DEF BridgeInit, EmptyLog, Held, InHand
  <2>1. Resting \in Snapping
    BY NewStateTypes DEF Resting, Snapping, Phase
  <2>2. BridgeTypes
    <3>1. snap \in [Snapper -> Snapping] /\ hand \in [Writer -> SUBSET Row]
      BY <2>1 DEF BridgeInit
    <3>2. since \in 0..(Interval - 1) /\ bridgeFaults \in 0..MaxBridgeFaults
      BY BridgeAssumption DEF BridgeInit
    <3> QED  BY <2>0, <3>1, <3>2, EmptyLogTypes, NewStateTypes DEF BridgeInit, BridgeTypes
  <2>3. RowsInv
    BY <2>0, EmptyLogTypes DEF RowsInv
  <2>4. AppliedInv
    BY <2>0 DEF BridgeInit, AppliedInv, LoggedIsApplied
  <2>5. SnapshotInv
    BY DEF BridgeInit, SnapshotInv, Resting
  <2>6. FoldInv
    <3>1. Done(0) = {}
      BY <2>0 DEF Done
    <3>2. \A g \in Snapper : snap[g].phase = "idle"
      BY DEF BridgeInit, Resting
    <3>3. \A b : Begins(b) => b.state = kernel /\ b.seq = 0
      BY <2>0, <3>2 DEF BridgeInit, Begins
    <3> QED  BY <2>0, <3>1, <3>2, <3>3, BatchEmpty DEF BridgeInit, FoldInv
  <2> QED  BY <2>2, <2>3, <2>4, <2>5, <2>6 DEF BridgeInv
<1>2. BridgeInv /\ [BridgeNext]_bridgeVars => BridgeInv'
  <2> SUFFICES ASSUME BridgeInv, [BridgeNext]_bridgeVars
               PROVE  BridgeInv'
    OBVIOUS
  <2>1. CASE BridgeNext
    <3>1. BridgeTypes'
      BY <2>1, TypesKept DEF BridgeInv, RowsInv
    <3>2. RowsInv'
      BY <2>1, RowsKept DEF BridgeInv
    <3>3. AppliedInv'
      BY <2>1, AppliedKept DEF BridgeInv
    <3>4. SnapshotInv'
      BY <2>1, SnapshotsKept DEF BridgeInv
    <3>5. FoldInv'
      BY <2>1, <3>1, <3>2, FoldKept DEF BridgeInv
    <3> QED  BY <3>1, <3>2, <3>3, <3>4, <3>5 DEF BridgeInv
  <2>2. CASE UNCHANGED bridgeVars
    <3> USE <2>2 DEF bridgeVars
    <3>1. BridgeTypes'
      BY DEF BridgeInv, BridgeTypes
    <3>2. Held' = Held /\ InHand' = InHand
      BY DEF Held, InHand
    <3>3. RowsInv'
      BY <3>2 DEF BridgeInv, RowsInv
    <3>4. AppliedInv'
      BY <3>2 DEF BridgeInv, AppliedInv, LoggedIsApplied
    <3>5. SnapshotInv'
      BY DEF BridgeInv, SnapshotInv, Covers
    <3>6. FoldInv'
      <4>1. \A b : Begins(b)' <=> Begins(b)
        BY DEF Begins
      <4>2. \A n : Done(n)' = Done(n)
        BY <3>2 DEF Done
      <4> QED  BY <3>2, <4>1, <4>2 DEF BridgeInv, FoldInv
    <3> QED  BY <3>1, <3>3, <3>4, <3>5, <3>6 DEF BridgeInv
  <2> QED  BY <2>1, <2>2
<1> QED  BY <1>1, <1>2, PTL DEF BridgeSpec

------------------------------------------------------------------------------
(* The node's kernel, log and snapshots are typed, whatever events it is given. *)
THEOREM BridgeIsTyped == BridgeSpec => []BridgeTypeOK
<1>1. BridgeInv => BridgeTypeOK
  <2> SUFFICES ASSUME BridgeInv
               PROVE  BridgeTypeOK
    OBVIOUS
  <2>1. BridgeTypes
    BY DEF BridgeInv
  <2>2. IsState(kernel)
    BY <2>1, KernelStateIsState DEF BridgeTypes
  <2>3. DOMAIN snap = Snapper /\ \A g \in Snapper : IsSnapping(snap[g])
    BY <2>1, KernelStateIsState DEF BridgeTypes, Snapping, IsSnapping
  <2>4. \A s \in stored : IsSnapshot(s)
    BY <2>1, KernelStateIsState DEF BridgeTypes, Snapshot, IsSnapshot
  <2> QED  BY <2>1, <2>2, <2>3, <2>4 DEF BridgeTypes, BridgeTypeOK
<1> QED  BY <1>1, BridgeInvHolds, PTL

(* No event the log has taken since the start is passed over by the kernel. *)
THEOREM NothingLoggedIsMissed == BridgeSpec => []LoggedIsApplied
<1>1. BridgeInv => LoggedIsApplied
  BY DEF BridgeInv, AppliedInv
<1> QED  BY <1>1, BridgeInvHolds, PTL

(* No snapshot has an event that the log numbers above it. *)
THEOREM NoSnapshotIsAhead == BridgeSpec => []SnapshotNotAhead
<1>1. BridgeInv => SnapshotNotAhead
  BY DEF BridgeInv, SnapshotInv, Covers, SnapshotNotAhead
<1> QED  BY <1>1, BridgeInvHolds, PTL

(* Replaying the log makes the state of the live kernel. *)
THEOREM ReplayIsTheKernel == BridgeSpec => []ReplayMeetsLive
<1>1. BridgeInv => ReplayMeetsLive
  <2> SUFFICES ASSUME BridgeInv, InHand = {}, NEW b \in Bases,
                      NEW delta, delta = {r \in log.rows : r.seq > b.seq},
                      jumbled <= b.seq, \A r \in gone : r.seq <= b.seq,
                      delta # {}, Cardinality(delta) <= PageSize
               PROVE  Execute(log, b.seq, PageSize, b.state, NewState) = kernel
    BY DEF ReplayMeetsLive
  <2>1. b \in [state : KernelState, seq : Nat] /\ Begins(b)
    <3>1. CASE b = [state |-> NewState, seq |-> boot]
      BY <3>1, NewStateTypes DEF Begins, BridgeInv, BridgeTypes
    <3>2. ASSUME NEW s \in stored, s.exact, s.start = starts,
                 b = [state |-> s.state, seq |-> s.seq]
          PROVE  b \in [state : KernelState, seq : Nat] /\ Begins(b)
      BY <3>2 DEF Begins, BridgeInv, BridgeTypes, Snapshot
    <3> QED  BY <3>1, <3>2 DEF Bases
  <2>2. Done(b.seq) = delta
    BY HeldIds DEF Done
  <2>3. kernel = ApplyBatch(b.state, delta)
    BY <2>1, <2>2 DEF BridgeInv, FoldInv
  <2>4. Query(log, b.seq, PageSize) = delta
    BY QueryTakesAll, BridgeAssumption DEF BridgeInv, RowsInv, Counted
  <2> QED  BY <2>3, <2>4 DEF Execute
<1> QED  BY <1>1, BridgeInvHolds, PTL
==============================================================================
