------------------------------- MODULE NodeProofs -------------------------------
(***************************************************************************)
(* What a node keeps true of its judgement of its peers, for every number  *)
(* of peers, every setting of the thresholds and every clock that is good  *)
(* enough for them; and what a transport keeps true whatever the network,  *)
(* the executor and the workers do to it, for every number of connections, *)
(* restarts and outages, every threshold and every width of a duration.    *)
(***************************************************************************)
EXTENDS MCNode, FiniteSetTheorems, WellFoundedInduction, TLAPS

------------------------------------------------------------------------------
(* A nonempty set of numbers has a least one. *)
LEMMA LeastNumber ==
    ASSUME NEW T, T \subseteq Nat, T # {}
    PROVE  \E n \in T : \A m \in T : n <= m
<1>1. PICK x \in T : \A y \in T : ~ (<<y, x>> \in OpToRel(<, Nat))
  BY WFMin, NatLessThanWellFounded, Zenon
<1>2. \A y \in T : ~ (y < x)
  BY <1>1 DEF OpToRel
<1> QED  BY <1>2

------------------------------------------------------------------------------
(* The peers. *)

(* How old LastSeen is and how long p has been silent differ by the error of
   p's clock and the way of the heartbeat, unless one of them is past Long.  *)
AgeInv ==
    \A p \in Peer :
        /\ seen[p] = Long \/ silence[p] - Skew[p] <= seen[p]
        /\ seen[p] = Long \/ silence[p] = Long \/ seen[p] <= silence[p] + Delay - Skew[p]
        /\ seen[p] <= Long

(* What the last check left of the partitioned and of those it let pass. *)
JudgedInv ==
    \A p \in Known :
        /\ state[p] = "partitioned" =>
              silence[p] + Delay - Skew[p] > PartitionAfter \/ seen[p] = Long
        /\ silence[p] - Skew[p] > PartitionAfter + checked => state[p] = "partitioned"

(* The actions counted are those let through, and the one that may be under way
   had leave for it.                                                         *)
AutonomyInv ==
    split => /\ RestrictAutopilot => /\ acted <= count
                                     /\ proposal = "allowed" => count < MaxAutonomous
             /\ RequireApproval => /\ acted <= 1
                                   /\ proposal = "allowed" => acted = 0

(* Without a fault the last heartbeat of p is on its way or was the last seen. *)
BeatInv ==
    faults = 0 =>
        /\ up = Peer /\ ~split
        /\ \A p \in Peer :
             /\ state[p] \in {"none", "unknown", "active"}
             /\ flight[p] = {} \/ flight[p] = {sent[p]}
             /\ state[p] = "active" =>
                   seen[p] + Skew[p] = sent[p] + (IF flight[p] = {} THEN 0 ELSE Beat)
             /\ state[p] = "unknown" =>
                   checked <= sent[p] + (IF flight[p] = {} THEN 0 ELSE Beat)

------------------------------------------------------------------------------
(* The clocks' errors are bounded above, so that one of them is the largest. *)
LEMMA LongIsLong ==
    /\ Long \in Int
    /\ Long > PartitionAfter + CheckEvery + Delay
    /\ \A p \in Peer : Long > PartitionAfter + CheckEvery + Delay + Skew[p]
<1> USE PeerAssumption, ClockAssumption
<1> DEFINE S == {0} \cup {Skew[p] : p \in Peer}
           D == {d \in Nat : PartitionAfter - d \in S}
<1>1. /\ S \subseteq Int /\ 0 \in S
      /\ \A s \in S : s <= PartitionAfter
  OBVIOUS
<1>2. PartitionAfter \in D
  OBVIOUS
<1>3. PICK x \in D : \A y \in D : x <= y
  <2> HIDE DEF D
  <2>1. D \subseteq Nat
    BY DEF D
  <2> QED  BY <1>2, <2>1, LeastNumber
<1>4. \A y \in D : ~ (y < x)
  BY <1>3
<1> HIDE DEF S
<1>5. \A s \in S : s <= PartitionAfter - x
  <2> TAKE s \in S
  <2>1. PartitionAfter - s \in D /\ s \in Int /\ x \in Nat
    BY <1>1
  <2>2. ~ (PartitionAfter - s < x)
    BY <2>1, <1>4
  <2> HIDE DEF D
  <2> QED  BY <2>1, <2>2
<1>6. \E m \in S : \A s \in S : s <= m
  <2>1. PartitionAfter - x \in S
    OBVIOUS
  <2> QED  BY <2>1, <1>5
<1>7. /\ Largest(S) \in Int
      /\ \A s \in S : s <= Largest(S)
  BY <1>1, <1>6 DEF Largest
<1>8. 0 <= Largest(S) /\ \A p \in Peer : Skew[p] <= Largest(S)
  BY <1>1, <1>7 DEF S
<1>9. Long = PartitionAfter + CheckEvery + Delay + Largest(S) + 1
  BY DEF Long, S
<1>10. CheckEvery \in Nat
  BY DEF CheckEvery
<1> HIDE DEF D
<1> QED  BY <1>7, <1>8, <1>9, <1>10

LEMMA OlderIsType ==
    ASSUME NEW t \in Int, t <= Long
    PROVE  /\ Older(t) \in Int /\ Older(t) <= Long /\ t <= Older(t) /\ Older(t) <= t + 1
           /\ t < Long => Older(t) = t + 1
           /\ t = Long => Older(t) = Long
BY LongIsLong DEF Older

(* Twice more than half of a number, rounded down, is more than the number. *)
LEMMA MajorityIsMore ==
    ASSUME NEW S, S \subseteq Known
    PROVE  /\ IsFiniteSet(Known) /\ Cardinality(Known) \in Nat
           /\ IsFiniteSet(S) /\ Cardinality(S) \in Nat
           /\ Majority(S) <=> 2 * Cardinality(S) > Cardinality(Known)
<1>1. Known \subseteq Peer
  BY DEF Known
<1>2. IsFiniteSet(Known) /\ IsFiniteSet(S)
  BY <1>1, PeerAssumption, FS_Subset
<1>3. Cardinality(Known) \in Nat /\ Cardinality(S) \in Nat
  BY <1>2, FS_CardinalityType
<1>4. Cardinality(S) <= Cardinality(Known)
  BY <1>2, FS_Subset
<1>5. Known # {} <=> Cardinality(Known) # 0
  BY <1>2, FS_EmptySet
<1>6. ASSUME NEW m \in Nat, NEW k \in Nat, m <= k
      PROVE  (k # 0 /\ m > k \div 2) <=> 2 * m > k
  BY <1>6
<1> QED  BY <1>2, <1>3, <1>4, <1>5, <1>6 DEF Majority

------------------------------------------------------------------------------
LEMMA TypeHolds == Spec => []TypeOK
<1> USE PeerAssumption
<1>1. Init => TypeOK
  <2> SUFFICES ASSUME Init PROVE TypeOK
    OBVIOUS
  <2>1. state \in [Peer -> PeerState] /\ seen \in [Peer -> Int]
    BY LongIsLong DEF Init, Configured, Never, PeerState
  <2>2. silence \in [Peer -> 0..Long] /\ checked \in 0..CheckEvery
    BY LongIsLong DEF Init, CheckEvery
  <2>3. flight \in [Peer -> SUBSET (0..Delay)]
    BY DEF Init
  <2>4. count \in 0..MaxAutonomous /\ acted \in 0..(MaxAutonomous + 1) /\ faults \in 0..MaxFaults
    BY DEF Init
  <2>5. /\ split \in BOOLEAN /\ proposal \in {"none", "allowed"} /\ up \in SUBSET Peer
        /\ sent \in [Peer -> 0..Beat]
    BY DEF Init
  <2> QED  BY <2>1, <2>2, <2>3, <2>4, <2>5 DEF TypeOK
<1>2. TypeOK /\ [Next]_vars => TypeOK'
  <2> SUFFICES ASSUME TypeOK, [Next]_vars PROVE TypeOK'
    OBVIOUS
  <2> USE DEF TypeOK
  <2>1. CASE Tick
    <3>1. /\ seen' \in [Peer -> Int]
          /\ silence' \in [Peer -> 0..Long]
      BY <2>1, LongIsLong DEF Tick, Older
    <3>2. flight' \in [Peer -> SUBSET (0..Delay)]
      <4> SUFFICES ASSUME NEW p \in Peer, NEW a \in flight[p] PROVE a + 1 \in 0..Delay
        BY <2>1 DEF Tick
      <4> QED  BY <2>1 DEF Tick
    <3>3. sent' \in [Peer -> 0..Beat] /\ checked' \in 0..CheckEvery
      BY <2>1 DEF Tick, CheckEvery
    <3> QED  BY <2>1, <3>1, <3>2, <3>3 DEF Tick, autonomy
  <2>2. CASE CheckPartitions
    <3>1. state' \in [Peer -> PeerState]
      BY <2>2 DEF CheckPartitions, Judged, PeerState
    <3>2. split' \in BOOLEAN /\ count' \in 0..MaxAutonomous /\ acted' \in 0..(MaxAutonomous + 1)
      <4> DEFINE lost == {p \in Peer : Judged(p) = "partitioned"}
      <4>1. Majority(lost) \in BOOLEAN
        BY DEF Majority
      <4>2. Detect(lost)
        BY <2>2 DEF CheckPartitions
      <4> HIDE DEF lost
      <4>3. CASE Majority(lost) /\ ~split
        BY <4>2, <4>3 DEF Detect
      <4>4. CASE ~(Majority(lost) /\ ~split)
        BY <4>1, <4>2, <4>4 DEF Detect
      <4> QED  BY <4>3, <4>4
    <3>3. checked' \in 0..CheckEvery
      BY <2>2 DEF CheckPartitions, CheckEvery
    <3> QED  BY <2>2, <3>1, <3>2, <3>3 DEF CheckPartitions, network
  <2>3. CASE Propose
    BY <2>3 DEF Propose, judged, network
  <2>4. CASE RecordAutonomousAction
    BY <2>4 DEF RecordAutonomousAction, judged, network
  <2>5. CASE Restart
    <3>1. state' \in [Peer -> PeerState] /\ seen' \in [Peer -> Int]
      BY <2>5, LongIsLong DEF Restart, Configured, PeerState, Never
    <3>2. silence' \in [Peer -> 0..Long] /\ flight' \in [Peer -> SUBSET (0..Delay)]
      BY <2>5, LongIsLong DEF Restart, CheckEvery
    <3>3. faults' \in 0..MaxFaults
      BY <2>5 DEF Restart, Fault
    <3>4. /\ count' \in 0..MaxAutonomous /\ acted' \in 0..(MaxAutonomous + 1)
          /\ checked' \in 0..CheckEvery
      BY <2>5 DEF Restart, CheckEvery
    <3>5. /\ split' \in BOOLEAN /\ proposal' \in {"none", "allowed"} /\ up' \in SUBSET Peer
          /\ sent' \in [Peer -> 0..Beat]
      BY <2>5 DEF Restart
    <3> QED  BY <3>1, <3>2, <3>3, <3>4, <3>5
  <2>6. ASSUME NEW p \in Peer, SendHeartbeat(p) PROVE TypeOK'
    BY <2>6 DEF SendHeartbeat, judged, autonomy
  <2>7. ASSUME NEW p \in Peer, ProcessHeartbeat(p) PROVE TypeOK'
    <3>1. state' \in [Peer -> PeerState] /\ seen' \in [Peer -> Int]
      BY <2>7 DEF ProcessHeartbeat, SeenAt, PeerState
    <3>2. silence' \in [Peer -> 0..Long] /\ flight' \in [Peer -> SUBSET (0..Delay)]
      BY <2>7, LongIsLong DEF ProcessHeartbeat, CheckEvery
    <3> QED  BY <2>7, <3>1, <3>2 DEF ProcessHeartbeat, autonomy
  <2>8. ASSUME NEW p \in Peer, HeartbeatLost(p) PROVE TypeOK'
    BY <2>8 DEF HeartbeatLost, Fault, judged, autonomy
  <2>9. ASSUME NEW p \in Peer, Disconnect(p) PROVE TypeOK'
    BY <2>9 DEF Disconnect, Fault, judged, autonomy
  <2>10. ASSUME NEW p \in Peer, Reconnect(p) PROVE TypeOK'
    BY <2>10 DEF Reconnect, judged, autonomy
  <2>11. CASE UNCHANGED vars
    BY <2>11 DEF vars
  <2> QED  BY <2>1, <2>2, <2>3, <2>4, <2>5, <2>6, <2>7, <2>8, <2>9, <2>10, <2>11
           DEF Next, Process
<1> QED  BY <1>1, <1>2, PTL DEF Spec

(* Of the actions most leave what is said of peers, of autonomy or of the beat as
   it was.                                                                      *)
LEMMA NoOthers ==
    ASSUME [Next]_vars
    PROVE  \/ Tick \/ CheckPartitions \/ Restart
           \/ \E p \in Peer : ProcessHeartbeat(p)
           \/ UNCHANGED <<judged, checked, silence>>
BY DEF Next, Process, vars, judged, Propose, RecordAutonomousAction, SendHeartbeat,
       HeartbeatLost, Disconnect, Reconnect

------------------------------------------------------------------------------
LEMMA AgeHolds == Spec => []AgeInv
<1> USE PeerAssumption, ClockAssumption
<1>1. Init => AgeInv
  BY LongIsLong DEF Init, AgeInv, Never
<1>2. TypeOK /\ AgeInv /\ [Next]_vars => AgeInv'
  <2> SUFFICES ASSUME TypeOK, AgeInv, [Next]_vars PROVE AgeInv'
    OBVIOUS
  <2>1. CASE Tick
    <3> SUFFICES ASSUME NEW p \in Peer
                 PROVE  /\ seen'[p] = Long \/ silence'[p] - Skew[p] <= seen'[p]
                        /\ \/ seen'[p] = Long \/ silence'[p] = Long
                           \/ seen'[p] <= silence'[p] + Delay - Skew[p]
                        /\ seen'[p] <= Long
      BY DEF AgeInv
    <3>1. /\ seen'[p] = Older(seen[p]) /\ silence'[p] = Older(silence[p])
          /\ seen[p] \in Int /\ silence[p] \in Int /\ silence[p] <= Long
          /\ Skew[p] \in Int
      BY <2>1, LongIsLong DEF Tick, TypeOK
    <3>2. /\ seen[p] = Long \/ silence[p] - Skew[p] <= seen[p]
          /\ seen[p] = Long \/ silence[p] = Long \/ seen[p] <= silence[p] + Delay - Skew[p]
          /\ seen[p] <= Long
      BY DEF AgeInv
    <3> QED  BY <3>1, <3>2, OlderIsType, LongIsLong
  <2>2. CASE CheckPartitions
    BY <2>2 DEF CheckPartitions, AgeInv
  <2>3. CASE Restart
    BY <2>3, LongIsLong DEF Restart, AgeInv, Never
  <2>4. ASSUME NEW p \in Peer, ProcessHeartbeat(p) PROVE AgeInv'
    <3>1. PICK a \in flight[p] : SeenAt(p, a)
      BY <2>4 DEF ProcessHeartbeat
    <3>2. a \in 0..Delay /\ Skew[p] \in Int
      BY DEF TypeOK
    <3>3. a - Skew[p] <= Long
      BY <3>2, LongIsLong DEF CheckEvery
    <3> QED  BY <2>4, <3>1, <3>2, <3>3 DEF ProcessHeartbeat, SeenAt, AgeInv, TypeOK
  <2>5. CASE UNCHANGED <<judged, checked, silence>>
    BY <2>5 DEF judged, AgeInv
  <2> QED  BY <2>1, <2>2, <2>3, <2>4, <2>5, NoOthers
<1> QED  BY <1>1, <1>2, TypeHolds, PTL DEF Spec

LEMMA JudgedHolds == Spec => []JudgedInv
<1> USE PeerAssumption, ClockAssumption
<1>1. Init => JudgedInv
  BY LongIsLong DEF Init, JudgedInv, Configured, Known, CheckEvery
<1>2. TypeOK /\ AgeInv /\ JudgedInv /\ [Next]_vars => JudgedInv'
  <2> SUFFICES ASSUME TypeOK, AgeInv, JudgedInv, [Next]_vars, NEW p \in Peer, state'[p] # "none"
               PROVE  /\ state'[p] = "partitioned" =>
                            silence'[p] + Delay - Skew[p] > PartitionAfter \/ seen'[p] = Long
                      /\ silence'[p] - Skew[p] > PartitionAfter + checked'
                            => state'[p] = "partitioned"
    BY DEF JudgedInv, Known
  <2>1. /\ Skew[p] \in Int /\ silence[p] \in 0..Long /\ seen[p] \in Int /\ checked \in Nat
        /\ Long \in Int /\ Long > PartitionAfter + CheckEvery + Delay
        /\ Long > PartitionAfter + CheckEvery + Delay + Skew[p] /\ CheckEvery \in Nat
    BY LongIsLong DEF TypeOK, CheckEvery
  <2>2. /\ seen[p] = Long \/ silence[p] - Skew[p] <= seen[p]
        /\ seen[p] = Long \/ silence[p] = Long \/ seen[p] <= silence[p] + Delay - Skew[p]
        /\ seen[p] <= Long
    BY DEF AgeInv
  <2>3. state[p] # "none" =>
          /\ state[p] = "partitioned" =>
                silence[p] + Delay - Skew[p] > PartitionAfter \/ seen[p] = Long
          /\ silence[p] - Skew[p] > PartitionAfter + checked => state[p] = "partitioned"
    BY DEF JudgedInv, Known
  <2>4. CASE Tick
    <3>1. /\ state' = state /\ checked' = checked + 1
          /\ seen'[p] = Older(seen[p]) /\ silence'[p] = Older(silence[p])
      BY <2>4 DEF Tick
    <3>2. /\ silence[p] <= Older(silence[p]) /\ Older(silence[p]) <= silence[p] + 1
          /\ Older(silence[p]) \in Int
          /\ seen[p] = Long => Older(seen[p]) = Long
      BY <2>1, <2>2, OlderIsType
    <3> QED  BY <2>1, <2>3, <3>1, <3>2
  <2>5. CASE CheckPartitions
    <3>1. /\ state'[p] = Judged(p) /\ checked' = 0
          /\ seen' = seen /\ silence' = silence /\ checked = CheckEvery
      BY <2>5 DEF CheckPartitions
    <3>2. state[p] # "none"
      BY <3>1 DEF Judged
    <3>3. state'[p] = "partitioned" => state[p] = "partitioned" \/ seen[p] > PartitionAfter
      BY <3>1, <3>2 DEF Judged
    <3>4. seen[p] > PartitionAfter => state'[p] = "partitioned"
      BY <3>1, <3>2 DEF Judged
    <3> QED  BY <2>1, <2>2, <2>3, <3>1, <3>2, <3>3, <3>4
  <2>6. CASE Restart
    <3>1. state'[p] = "unknown" /\ silence'[p] = 0 /\ checked' = 0
      BY <2>6 DEF Restart, Configured
    <3> QED  BY <2>1, <3>1
  <2>7. ASSUME NEW q \in Peer, ProcessHeartbeat(q)
        PROVE  /\ state'[p] = "partitioned" =>
                      silence'[p] + Delay - Skew[p] > PartitionAfter \/ seen'[p] = Long
               /\ silence'[p] - Skew[p] > PartitionAfter + checked' => state'[p] = "partitioned"
    <3>1. checked' = checked
      BY <2>7 DEF ProcessHeartbeat
    <3>2. CASE p = q
      <4>1. state'[p] = "active" /\ silence'[p] = 0
        BY <2>7, <3>2 DEF ProcessHeartbeat, SeenAt, TypeOK
      <4> QED  BY <2>1, <3>1, <4>1
    <3>3. CASE p # q
      <4>1. state'[p] = state[p] /\ silence'[p] = silence[p] /\ seen'[p] = seen[p]
        BY <2>7, <3>3 DEF ProcessHeartbeat, SeenAt, TypeOK
      <4> QED  BY <2>3, <3>1, <4>1
    <3> QED  BY <3>2, <3>3
  <2>8. CASE UNCHANGED <<judged, checked, silence>>
    BY <2>3, <2>8 DEF judged
  <2> QED  BY <2>4, <2>5, <2>6, <2>7, <2>8, NoOthers
<1> QED  BY <1>1, <1>2, TypeHolds, AgeHolds, PTL DEF Spec

------------------------------------------------------------------------------
LEMMA AutonomyHolds == Spec => []AutonomyInv
<1> USE PeerAssumption
<1>1. Init => AutonomyInv
  BY DEF Init, AutonomyInv
<1>2. TypeOK /\ AutonomyInv /\ [Next]_vars => AutonomyInv'
  <2> SUFFICES ASSUME TypeOK, AutonomyInv, [Next]_vars, split'
               PROVE  /\ RestrictAutopilot => /\ acted' <= count'
                                              /\ proposal' = "allowed" => count' < MaxAutonomous
                      /\ RequireApproval => /\ acted' <= 1
                                            /\ proposal' = "allowed" => acted' = 0
    BY DEF AutonomyInv
  <2>0. count \in 0..MaxAutonomous /\ acted \in Nat
    BY DEF TypeOK
  <2>1. CASE CheckPartitions
    <3> DEFINE lost == {p \in Peer : Judged(p) = "partitioned"}
    <3>1. Detect(lost) /\ proposal' = proposal
      BY <2>1 DEF CheckPartitions
    <3> HIDE DEF lost
    <3>2. CASE count' = 0 /\ acted' = 0
      BY <3>1, <3>2
    <3>3. CASE split /\ UNCHANGED <<count, acted>>
      BY <3>1, <3>3 DEF AutonomyInv
    <3> QED  BY <3>1, <3>2, <3>3 DEF Detect
  <2>2. CASE Propose
    <3>1. /\ split' = split /\ count' = count /\ acted' = acted /\ proposal' = "allowed"
          /\ ~RequireApproval /\ ~(RestrictAutopilot /\ count >= MaxAutonomous)
      BY <2>2 DEF Propose, judged, CanExecuteAutonomously
    <3> QED  BY <2>0, <3>1 DEF AutonomyInv
  <2>3. CASE RecordAutonomousAction
    <3>1. /\ split' = split /\ proposal = "allowed" /\ proposal' = "none"
          /\ count' = (IF count < MaxAutonomous THEN count + 1 ELSE count)
          /\ acted' \in {acted, acted + 1}
      BY <2>3 DEF RecordAutonomousAction, judged
    <3>2. split
      BY <3>1
    <3> QED  BY <2>0, <3>1, <3>2 DEF AutonomyInv
  <2>4. CASE Restart
    BY <2>4 DEF Restart
  <2>5. CASE UNCHANGED <<split, count, acted, proposal>>
    BY <2>5 DEF AutonomyInv
  <2>6. \/ CheckPartitions \/ Propose \/ RecordAutonomousAction \/ Restart
        \/ UNCHANGED <<split, count, acted, proposal>>
    BY DEF Next, Process, vars, judged, autonomy, Tick, SendHeartbeat, ProcessHeartbeat,
           HeartbeatLost, Disconnect, Reconnect
  <2> QED  BY <2>1, <2>2, <2>3, <2>4, <2>5, <2>6
<1> QED  BY <1>1, <1>2, TypeHolds, PTL DEF Spec

------------------------------------------------------------------------------
(* The peers that back split-brain: silent at the last check, or heard since. *)
Counted == Partitioned \cup {p \in Known : silence[p] <= checked}

LEMMA CountsAreNumbers ==
    /\ IsFiniteSet(Known) /\ Cardinality(Known) \in Nat
    /\ IsFiniteSet(Partitioned) /\ Cardinality(Partitioned) \in Nat
    /\ IsFiniteSet(Counted) /\ Cardinality(Counted) \in Nat
<1>1. Partitioned \subseteq Known /\ Counted \subseteq Known
  BY DEF Partitioned, Counted, Known
<1> QED  BY <1>1, MajorityIsMore

LEMMA SplitStep ==
    ASSUME TypeOK, SplitIsMajority, [Next]_vars
    PROVE  SplitIsMajority'
<1> USE PeerAssumption
<1>1. /\ IsFiniteSet(Known) /\ Cardinality(Known) \in Nat
      /\ IsFiniteSet(Partitioned) /\ Cardinality(Partitioned) \in Nat
      /\ IsFiniteSet(Counted) /\ Cardinality(Counted) \in Nat
  BY CountsAreNumbers
<1>2. /\ IsFiniteSet(Known') /\ Cardinality(Known') \in Nat
      /\ IsFiniteSet(Partitioned') /\ Cardinality(Partitioned') \in Nat
      /\ IsFiniteSet(Counted') /\ Cardinality(Counted') \in Nat
  <2>1. /\ Known' \subseteq Peer /\ Partitioned' \subseteq Peer /\ Counted' \subseteq Peer
    BY DEF Known, Partitioned, Counted
  <2> QED  BY <2>1, FS_Subset, FS_CardinalityType
<1>3. IF split THEN 2 * Cardinality(Counted) > Cardinality(Known)
               ELSE 2 * Cardinality(Partitioned) <= Cardinality(Known)
  BY DEF SplitIsMajority, Counted
<1>4. SUFFICES IF split' THEN 2 * Cardinality(Counted') > Cardinality(Known')
               ELSE 2 * Cardinality(Partitioned') <= Cardinality(Known')
  BY DEF SplitIsMajority, Counted
<1>5. CASE Tick
  <2>1. state' = state /\ split' = split /\ checked' = checked + 1
        /\ silence' = [p \in Peer |-> Older(silence[p])]
    BY <1>5 DEF Tick
  <2>2. Known' = Known /\ Partitioned' = Partitioned
    BY <2>1 DEF Known, Partitioned
  <2>3. \A p \in Peer : silence[p] <= checked => silence'[p] <= checked'
    BY <2>1, OlderIsType, LongIsLong DEF TypeOK
  <2>4. Counted \subseteq Counted'
    BY <2>2, <2>3 DEF Counted, Known
  <2>5. Cardinality(Counted) <= Cardinality(Counted')
    BY <2>4, <1>2, FS_Subset
  <2> QED  BY <1>1, <1>2, <1>3, <2>1, <2>2, <2>5
<1>6. CASE CheckPartitions
  <2> DEFINE lost == {p \in Peer : Judged(p) = "partitioned"}
  <2>1. /\ state' = [p \in Peer |-> Judged(p)] /\ Detect(lost)
    BY <1>6 DEF CheckPartitions
  <2>2. /\ \A p \in Peer : Judged(p) = "none" <=> state[p] = "none"
        /\ lost \subseteq Known
    BY DEF Judged, Known
  <2>3. Known' = Known /\ Partitioned' = lost
    BY <2>1, <2>2 DEF Known, Partitioned
  <2> HIDE DEF lost
  <2>4. split' <=> 2 * Cardinality(lost) > Cardinality(Known)
    <3>1. split' <=> Majority(lost)
      BY <2>1 DEF Detect
    <3> QED  BY <3>1, <2>2, MajorityIsMore
  <2>5. Partitioned' \subseteq Counted'
    BY DEF Counted
  <2>6. Cardinality(Partitioned') <= Cardinality(Counted')
    BY <2>5, <1>2, FS_Subset
  <2> QED  BY <1>1, <1>2, <2>3, <2>4, <2>6
<1>7. CASE Restart
  <2>1. ~split' /\ Partitioned' = {}
    BY <1>7 DEF Restart, Configured, Partitioned
  <2>2. Cardinality(Partitioned') = 0
    BY <2>1, FS_EmptySet
  <2> QED  BY <1>2, <2>1, <2>2
<1>8. ASSUME NEW p \in Peer, ProcessHeartbeat(p)
      PROVE IF split' THEN 2 * Cardinality(Counted') > Cardinality(Known')
            ELSE 2 * Cardinality(Partitioned') <= Cardinality(Known')
  <2>1. /\ state' = [state EXCEPT ![p] = "active"] /\ split' = split /\ checked' = checked
        /\ silence' = [silence EXCEPT ![p] = 0]
    BY <1>8 DEF ProcessHeartbeat, SeenAt
  <2>2. Known' = Known \cup {p} /\ Partitioned' = Partitioned \ {p}
    BY <2>1 DEF Known, Partitioned, TypeOK
  <2>3. Counted' = Counted \cup {p}
    <3>1. checked \in Nat
      BY DEF TypeOK, CheckEvery
    <3>2. p \in Counted'
      BY <2>1, <2>2, <3>1 DEF Counted, TypeOK
    <3>3. \A q \in Peer \ {p} : q \in Counted' <=> q \in Counted
      BY <2>1, <2>2 DEF Counted, TypeOK, Known
    <3>4. Counted \subseteq Peer /\ Counted' \subseteq Peer
      BY DEF Counted, Known, Partitioned
    <3> QED  BY <3>2, <3>3, <3>4
  <2>4. p \notin Known => p \notin Counted
    BY DEF Counted, Known, Partitioned
  <2>5. Cardinality(Known') = (IF p \in Known THEN Cardinality(Known) ELSE Cardinality(Known) + 1)
    BY <1>1, <2>2, FS_AddElement
  <2>6. Cardinality(Counted') =
           (IF p \in Counted THEN Cardinality(Counted) ELSE Cardinality(Counted) + 1)
    BY <1>1, <2>3, FS_AddElement
  <2>7. Cardinality(Partitioned') <= Cardinality(Partitioned)
    BY <1>1, <2>2, FS_Subset
  <2> QED  BY <1>1, <1>2, <1>3, <2>1, <2>4, <2>5, <2>6, <2>7
<1>9. CASE UNCHANGED <<judged, checked, silence>>
  BY <1>3, <1>9 DEF judged, Known, Partitioned, Counted
<1> QED  BY <1>5, <1>6, <1>7, <1>8, <1>9, NoOthers

------------------------------------------------------------------------------
(* What BeatInv says of one peer. *)
OnBeat(p) ==
    /\ state[p] \in {"none", "unknown", "active"}
    /\ flight[p] = {} \/ flight[p] = {sent[p]}
    /\ state[p] = "active" => seen[p] + Skew[p] = sent[p] + (IF flight[p] = {} THEN 0 ELSE Beat)
    /\ state[p] = "unknown" => checked <= sent[p] + (IF flight[p] = {} THEN 0 ELSE Beat)

(* What p has sent last is not older than a beat, and on its way for Delay at most. *)
LEMMA OnBeatIsRecent ==
    ASSUME TypeOK, NEW p \in Peer, OnBeat(p)
    PROVE  /\ state[p] = "active" => seen[p] <= SuspectAfter
           /\ state[p] = "unknown" => checked < CheckEvery
<1> USE PeerAssumption, ClockAssumption
<1>1. /\ sent[p] \in 0..Beat /\ seen[p] \in Int /\ Skew[p] \in Int /\ checked \in Nat
      /\ flight[p] # {} => sent[p] \in 0..Delay
  BY DEF TypeOK, OnBeat, CheckEvery
<1>2. sent[p] + (IF flight[p] = {} THEN 0 ELSE Beat) <= Beat + Delay
  BY <1>1
<1> QED  BY <1>1, <1>2 DEF OnBeat, CheckEvery

LEMMA BeatHolds == Spec => []BeatInv
<1> USE PeerAssumption, ClockAssumption
<1>1. Init => BeatInv
  <2> SUFFICES ASSUME Init, NEW p \in Peer PROVE OnBeat(p)
    BY DEF Init, BeatInv, OnBeat
  <2>1. state[p] \in {"none", "unknown"} /\ flight[p] = {} /\ checked = 0 /\ sent[p] \in Nat
    BY DEF Init, Configured
  <2> QED  BY <2>1 DEF OnBeat
<1>2. TypeOK /\ BeatInv /\ [Next]_vars => BeatInv'
  <2> SUFFICES ASSUME TypeOK, BeatInv, [Next]_vars, faults' = 0 PROVE BeatInv'
    BY DEF BeatInv
  <2>0. faults = 0
    BY DEF Next, Process, vars, Tick, CheckPartitions, Propose, RecordAutonomousAction, Restart,
           SendHeartbeat, ProcessHeartbeat, HeartbeatLost, Disconnect, Reconnect, Fault, TypeOK
  <2>1. up = Peer /\ ~split /\ \A p \in Peer : OnBeat(p)
    BY <2>0 DEF BeatInv, OnBeat
  <2>2. SUFFICES up' = Peer /\ ~split' /\ \A p \in Peer : OnBeat(p)'
    BY DEF BeatInv, OnBeat
  <2>3. CASE Tick
    <3> SUFFICES ASSUME NEW p \in Peer PROVE OnBeat(p)'
      BY <2>1, <2>3 DEF Tick, autonomy
    <3>1. /\ state' = state /\ checked' = checked + 1 /\ seen'[p] = Older(seen[p])
          /\ sent[p] < Beat /\ sent'[p] = sent[p] + 1
          /\ flight'[p] = {a + 1 : a \in flight[p]}
          /\ sent[p] \in Nat /\ seen[p] \in Int /\ checked \in Nat /\ Skew[p] \in Int
      BY <2>1, <2>3 DEF Tick, TypeOK, CheckEvery
    <3>2. state[p] = "active" => Older(seen[p]) = seen[p] + 1
      <4>1. state[p] = "active" => seen[p] < Long
        BY <2>1, <3>1, OnBeatIsRecent, LongIsLong DEF CheckEvery
      <4> QED  BY <3>1, <4>1, LongIsLong DEF Older
    <3>3. /\ flight[p] = {} => flight'[p] = {}
          /\ flight[p] = {sent[p]} => flight'[p] = {sent'[p]}
      BY <3>1
    <3>4. flight[p] = {} \/ flight[p] = {sent[p]}
      BY <2>1 DEF OnBeat
    <3>5. flight'[p] = {} <=> flight[p] = {}
      BY <3>3, <3>4
    <3>6. OnBeat(p)
      BY <2>1
    <3>7. /\ state'[p] \in {"none", "unknown", "active"}
          /\ flight'[p] = {} \/ flight'[p] = {sent'[p]}
      BY <3>1, <3>3, <3>4, <3>6 DEF OnBeat
    <3>8. state'[p] = "active" =>
            seen'[p] + Skew[p] = sent'[p] + (IF flight'[p] = {} THEN 0 ELSE Beat)
      <4> SUFFICES ASSUME state'[p] = "active"
                   PROVE  seen'[p] + Skew[p] = sent'[p] + (IF flight'[p] = {} THEN 0 ELSE Beat)
        OBVIOUS
      <4>1. state[p] = "active"
        BY <3>1
      <4>2. seen[p] + Skew[p] = sent[p] + (IF flight[p] = {} THEN 0 ELSE Beat)
        BY <3>6, <4>1 DEF OnBeat
      <4>3. seen'[p] = seen[p] + 1
        BY <3>1, <3>2, <4>1
      <4>4. seen'[p] + Skew[p] = (seen[p] + Skew[p]) + 1
        BY <3>1, <4>3
      <4> QED  BY <3>1, <3>5, <4>2, <4>4
    <3>9. state'[p] = "unknown" =>
            checked' <= sent'[p] + (IF flight'[p] = {} THEN 0 ELSE Beat)
      BY <3>1, <3>5, <3>6 DEF OnBeat
    <3> QED  BY <3>7, <3>8, <3>9 DEF OnBeat
  <2>4. CASE CheckPartitions
    <3>1. \A p \in Peer : Judged(p) = state[p] /\ state[p] # "unknown"
      <4> SUFFICES ASSUME NEW p \in Peer PROVE Judged(p) = state[p] /\ state[p] # "unknown"
        OBVIOUS
      <4>1. OnBeat(p) /\ checked = CheckEvery /\ seen[p] \in Int /\ checked \in Int
        BY <2>1, <2>4 DEF CheckPartitions, TypeOK, CheckEvery
      <4>2. state[p] # "unknown" /\ (state[p] = "active" => seen[p] <= SuspectAfter)
        BY <4>1, OnBeatIsRecent DEF CheckEvery
      <4>3. state[p] \in {"none", "active"}
        BY <4>1, <4>2 DEF OnBeat
      <4> QED  BY <4>1, <4>2, <4>3 DEF Judged
    <3>2. {p \in Peer : Judged(p) = "partitioned"} = {}
      BY <2>1, <3>1 DEF OnBeat
    <3>3. ~ Majority({})
      BY MajorityIsMore, FS_EmptySet
    <3>4. ~ split'
      <4>1. Detect({})
        BY <2>4, <3>2 DEF CheckPartitions
      <4> QED  BY <4>1, <3>3 DEF Detect
    <3>5. state' = state
      BY <2>4, <3>1 DEF CheckPartitions, TypeOK
    <3> QED  BY <2>1, <2>4, <3>1, <3>4, <3>5 DEF CheckPartitions, network, OnBeat
  <2>5. ASSUME NEW q \in Peer, SendHeartbeat(q)
        PROVE  up' = Peer /\ ~split' /\ \A p \in Peer : OnBeat(p)'
    <3>1. /\ state' = state /\ seen' = seen /\ split' = split /\ up' = up /\ checked' = checked
          /\ sent[q] = Beat
          /\ sent' = [sent EXCEPT ![q] = 0] /\ flight' = [flight EXCEPT ![q] = @ \cup {0}]
      BY <2>5 DEF SendHeartbeat, judged
    <3>2. flight[q] = {}
      BY <2>1, <3>1 DEF OnBeat, TypeOK
    <3>3. OnBeat(q)'
      <4>1. sent'[q] = 0 /\ flight'[q] = {0} /\ OnBeat(q)
        BY <2>1, <3>1, <3>2 DEF TypeOK
      <4>2. /\ state[q] = "active" => seen[q] + Skew[q] = Beat
            /\ state[q] = "unknown" => checked <= Beat
        BY <3>1, <3>2, <4>1 DEF OnBeat
      <4>3. (IF flight'[q] = {} THEN 0 ELSE Beat) = Beat /\ sent'[q] + Beat = Beat
        BY <4>1
      <4>4. flight'[q] = {sent'[q]}
        BY <4>1
      <4>5. state'[q] \in {"none", "unknown", "active"}
        BY <3>1, <4>1 DEF OnBeat
      <4> QED  BY <3>1, <4>2, <4>3, <4>4, <4>5 DEF OnBeat
    <3>4. ASSUME NEW p \in Peer, p # q PROVE OnBeat(p)'
      <4>1. sent'[p] = sent[p] /\ flight'[p] = flight[p] /\ OnBeat(p)
        BY <2>1, <3>1, <3>4 DEF TypeOK
      <4> QED  BY <3>1, <4>1 DEF OnBeat
    <3> QED  BY <2>1, <3>1, <3>3, <3>4
  <2>6. ASSUME NEW q \in Peer, ProcessHeartbeat(q)
        PROVE  up' = Peer /\ ~split' /\ \A p \in Peer : OnBeat(p)'
    <3>1. PICK a \in flight[q] : flight' = [flight EXCEPT ![q] = @ \ {a}] /\ SeenAt(q, a)
      BY <2>6 DEF ProcessHeartbeat
    <3>2. /\ state' = [state EXCEPT ![q] = "active"] /\ seen' = [seen EXCEPT ![q] = a - Skew[q]]
          /\ split' = split /\ up' = up /\ checked' = checked /\ sent' = sent
      BY <2>6, <3>1 DEF ProcessHeartbeat, SeenAt
    <3>3. OnBeat(q)'
      <4>1. flight[q] = {sent[q]} /\ a = sent[q] /\ sent[q] \in Nat /\ Skew[q] \in Int
        BY <2>1, <3>1 DEF OnBeat, TypeOK
      <4>2. /\ flight'[q] = {} /\ state'[q] = "active" /\ seen'[q] = sent[q] - Skew[q]
        BY <3>1, <3>2, <4>1 DEF TypeOK
      <4> QED  BY <3>2, <4>1, <4>2 DEF OnBeat
    <3>4. ASSUME NEW p \in Peer, p # q PROVE OnBeat(p)'
      <4>1. /\ state'[p] = state[p] /\ seen'[p] = seen[p] /\ flight'[p] = flight[p]
            /\ OnBeat(p)
        BY <2>1, <3>1, <3>2, <3>4 DEF TypeOK
      <4> QED  BY <3>2, <4>1 DEF OnBeat
    <3> QED  BY <2>1, <3>2, <3>3, <3>4
  <2>7. CASE UNCHANGED <<judged, checked, up, sent, flight>>
    BY <2>1, <2>7 DEF judged, OnBeat
  <2>8. ASSUME NEW q \in Peer, Reconnect(q) PROVE FALSE
    BY <2>1, <2>8 DEF Reconnect
  <2>9. \/ Tick \/ CheckPartitions
        \/ \E q \in Peer : SendHeartbeat(q) \/ ProcessHeartbeat(q) \/ Reconnect(q)
        \/ UNCHANGED <<judged, checked, up, sent, flight>>
    BY <2>0 DEF Next, Process, vars, judged, network, Propose, RecordAutonomousAction, Restart,
           HeartbeatLost, Disconnect, Fault
  <2> QED  BY <2>3, <2>4, <2>5, <2>6, <2>7, <2>8, <2>9
<1> QED  BY <1>1, <1>2, TypeHolds, PTL DEF Spec

------------------------------------------------------------------------------
(* Every variable of the judgement keeps its type: ageing, checks, heartbeats of
   configured and unknown peers and restarts.                                *)
THEOREM PeerTypes == Spec => []TypeOK
BY TypeHolds

(* Without a fault no peer is suspected and no split-brain detected, however the
   node starts in between its peers' heartbeats and whatever its peers' clocks
   are off within ClockAssumption.                                           *)
THEOREM HealthyTrusted == Spec => []HealthyIsTrusted
<1>1. BeatInv => HealthyIsTrusted
  BY DEF BeatInv, HealthyIsTrusted
<1> QED  BY <1>1, BeatHolds, PTL

(* The verdict on a peer goes with its silence, both ways. *)
THEOREM PartitionedSilent == Spec => []PartitionedIsSilent
<1>1. TypeOK /\ JudgedInv => PartitionedIsSilent
  <2> SUFFICES ASSUME TypeOK, JudgedInv, NEW p \in Known
               PROVE  /\ state[p] = "partitioned" =>
                            silence[p] + Delay - Skew[p] > PartitionAfter \/ seen[p] = Long
                      /\ silence[p] - Skew[p] > PartitionAfter + CheckEvery
                            => state[p] = "partitioned"
    BY DEF PartitionedIsSilent
  <2>1. /\ checked \in 0..CheckEvery /\ CheckEvery \in Nat /\ PartitionAfter \in Nat
        /\ silence[p] \in 0..Long /\ Skew[p] \in Int
    BY PeerAssumption DEF TypeOK, CheckEvery, Known
  <2> QED  BY <2>1, LongIsLong DEF JudgedInv
<1> QED  BY <1>1, TypeHolds, JudgedHolds, PTL

(* Split-brain is declared and ended with the majority of the peers. *)
THEOREM SplitMajority == Spec => []SplitIsMajority
<1>1. Init => SplitIsMajority
  <2> SUFFICES ASSUME Init PROVE SplitIsMajority
    OBVIOUS
  <2>1. ~split /\ Partitioned = {}
    BY DEF Init, Configured, Partitioned
  <2>2. Cardinality(Partitioned) = 0 /\ Cardinality(Known) \in Nat
    BY <2>1, FS_EmptySet, CountsAreNumbers
  <2> QED  BY <2>1, <2>2 DEF SplitIsMajority
<1>2. TypeOK /\ SplitIsMajority /\ [Next]_vars => SplitIsMajority'
  BY SplitStep
<1> QED  BY <1>1, <1>2, TypeHolds, PTL DEF Spec

(* During split-brain a node acts by itself no more than its policy grants. *)
THEOREM AutonomyBounded == Spec => []AutonomyIsBounded
<1>1. TypeOK /\ AutonomyInv => AutonomyIsBounded
  BY PeerAssumption DEF TypeOK, AutonomyInv, AutonomyIsBounded
<1> QED  BY <1>1, TypeHolds, AutonomyHolds, PTL

------------------------------------------------------------------------------
(* The transport. *)

HealthRecord == [state : HealthState, failing : BOOLEAN, got : BOOLEAN]
PingRecord == [on : BOOLEAN, sent : BOOLEAN]

Flags ==
    recorded \in BOOLEAN /\ interrupt \in BOOLEAN /\ broker \in BOOLEAN /\ panicked \in BOOLEAN

LinkTypes ==
    /\ pc \in Pc /\ failures \in 0..MaxFailures
    /\ conn \in Socket \cup {NoSocket} /\ mine \in Socket \cup {NoSocket}
    /\ held \in Socket \cup {NoSocket} /\ open \in SUBSET Socket
    /\ health \in HealthRecord /\ ping \in PingRecord
    /\ multiplier \in {1, 2} /\ raise \in {"none", "running", "past"}
    /\ exec \in {"idle", "closing", "reported", "signal"}
    /\ queue \in 0..QueueCap
    /\ linkFaults \in 0..MaxLinkFaults /\ restarts \in 0..MaxRestarts
    /\ Flags

(* Who holds which connection: outside of Connect only the transport and the
   executor do, and between two subscriptions the transport's one is closed. *)
HolderInv ==
    /\ NoLeak
    /\ pc \in {"top", "dialling", "refused", "backoff", "sleeping"} => conn \notin open
    /\ pc = "handshake" => conn \in {mine, NoSocket}
    /\ pc # "handshake" => mine = NoSocket
    /\ exec \notin {"closing", "reported"} => held = NoSocket

(* The threshold has been passed since the last connection exactly if it was told. *)
ToldInv ==
    /\ ThresholdIsTold
    /\ recorded => failures >= RetryThreshold
    /\ failures >= RetryThreshold => recorded

(* The number of interrupts that have ended a wait or may yet. *)
CutInv == cut \in Nat /\ InterruptsEndOneWait

------------------------------------------------------------------------------
(* Every record that a goroutine writes is one. *)
LEMMA RecordsAreRecords ==
    /\ Fresh \in HealthRecord /\ Silent \in PingRecord
    /\ health \in HealthRecord =>
         /\ \A s \in HealthState : Reporting(s) \in HealthRecord /\ Failing(s) \in HealthRecord
         /\ [state |-> "idle", failing |-> FALSE, got |-> health.got] \in HealthRecord
         /\ [state |-> "live", failing |-> FALSE, got |-> TRUE] \in HealthRecord
    /\ ping \in PingRecord =>
         /\ [on |-> TRUE, sent |-> ping.sent] \in PingRecord
         /\ [on |-> FALSE, sent |-> ping.sent] \in PingRecord
         /\ [on |-> ping.on, sent |-> TRUE] \in PingRecord
         /\ [on |-> ping.on, sent |-> FALSE] \in PingRecord
    /\ LiveOrIdle \in HealthState
    /\ \A s \in {"idle", "connecting", "retrying", "failed"} : s \in HealthState
<1>1. Fresh \in HealthRecord /\ Silent \in PingRecord
  BY Zenon DEF Fresh, Silent, HealthRecord, PingRecord, HealthState
<1>2. LiveOrIdle \in HealthState /\ \A s \in {"idle", "connecting", "retrying", "failed"} : s \in HealthState
  BY DEF LiveOrIdle, HealthState
<1>3. ASSUME health \in HealthRecord
      PROVE  /\ \A s \in HealthState : Reporting(s) \in HealthRecord /\ Failing(s) \in HealthRecord
             /\ [state |-> "idle", failing |-> FALSE, got |-> health.got] \in HealthRecord
  <2>1. health.failing \in BOOLEAN /\ health.got \in BOOLEAN
    BY <1>3 DEF HealthRecord
  <2> QED  BY <1>2, <2>1, Zenon DEF HealthRecord, Reporting, Failing
<1>4. [state |-> "live", failing |-> FALSE, got |-> TRUE] \in HealthRecord
  BY Zenon DEF HealthRecord, HealthState
<1>5. ASSUME ping \in PingRecord, NEW b \in BOOLEAN
      PROVE  /\ [on |-> b, sent |-> ping.sent] \in PingRecord
             /\ [on |-> ping.on, sent |-> b] \in PingRecord
  <2>1. ping.on \in BOOLEAN /\ ping.sent \in BOOLEAN
    BY <1>5 DEF PingRecord
  <2> QED  BY <2>1, Zenon DEF PingRecord
<1> QED  BY <1>1, <1>2, <1>3, <1>4, <1>5, Zenon

LEMMA LinkTypesHold == LinkSpec => []LinkTypes
<1> USE LinkAssumption
<1>1. LinkInit => LinkTypes
  <2>1. LinkInit => Flags
    BY Zenon DEF LinkInit, Flags
  <2> QED  BY <2>1, RecordsAreRecords DEF LinkInit, LinkTypes, Pc
<1>2. Flags /\ [LinkNext]_linkVars => Flags'
  <2> SUFFICES ASSUME Flags, [LinkNext]_linkVars PROVE Flags'
    OBVIOUS
  <2> USE DEF Flags, loop, sockets, control, executor
  <2>1. ASSUME BeginConnect PROVE Flags'
    BY <2>1 DEF BeginConnect
  <2>2. ASSUME Dial PROVE Flags'
    BY <2>2 DEF Dial
  <2>3. ASSUME Handshake PROVE Flags'
    BY <2>3 DEF Handshake
  <2>4. ASSUME ConnectFailed PROVE Flags'
    BY <2>4 DEF ConnectFailed, CountFailure
  <2>5. ASSUME Subscribe \/ ExpectSubAck PROVE Flags'
    BY <2>5 DEF Subscribe, ExpectSubAck
  <2>6. ASSUME ReadHeader PROVE Flags'
    BY <2>6 DEF ReadHeader
  <2>7. ASSUME ReadPacket PROVE Flags'
    BY <2>7 DEF ReadPacket
  <2>8. ASSUME StopReading PROVE Flags'
    BY <2>8 DEF StopReading
  <2>9. ASSUME Panic PROVE Flags'
    BY <2>9 DEF Panic
  <2>10. ASSUME SubscribeFailed PROVE Flags'
    BY <2>10 DEF SubscribeFailed, CountFailure
  <2>11. ASSUME Close PROVE Flags'
    BY <2>11 DEF Close
  <2>12. ASSUME Backoff PROVE Flags'
    BY <2>12 DEF Backoff
  <2>13. ASSUME EndSleep PROVE Flags'
    BY <2>13 DEF EndSleep, Wake
  <2>14. ASSUME Stall PROVE Flags'
    BY <2>14 DEF Stall
  <2>15. ASSUME Ping PROVE Flags'
    BY <2>15 DEF Ping
  <2>16. ASSUME PingSent PROVE Flags'
    BY <2>16 DEF PingSent
  <2>17. ASSUME PingFails PROVE Flags'
    BY <2>17 DEF PingFails
  <2>18. ASSUME PingEnds PROVE Flags'
    BY <2>18 DEF PingEnds
  <2>19. ASSUME TakeConnection PROVE Flags'
    BY <2>19 DEF TakeConnection
  <2>20. ASSUME ReportTaken \/ CloseTaken PROVE Flags'
    BY <2>20 DEF ReportTaken, CloseTaken
  <2>21. ASSUME Interrupt PROVE Flags'
    BY <2>21 DEF Interrupt
  <2>22. ASSUME SetBackoff PROVE Flags'
    BY <2>22 DEF SetBackoff
  <2>23. ASSUME ClearBackoff PROVE Flags'
    BY <2>23 DEF ClearBackoff
  <2>24. ASSUME BackoffExpires PROVE Flags'
    BY <2>24 DEF BackoffExpires
  <2>25. ASSUME EndIngest PROVE Flags'
    BY <2>25 DEF EndIngest
  <2>26. ASSUME BrokerFails PROVE Flags'
    BY <2>26 DEF BrokerFails
  <2>27. ASSUME BrokerReturns PROVE Flags'
    BY <2>27 DEF BrokerReturns
  <2>28. CASE UNCHANGED linkVars
    BY <2>28 DEF linkVars
  <2> QED
    BY <2>1, <2>2, <2>3, <2>4, <2>5, <2>6, <2>7, <2>8, <2>9, <2>10, <2>11, <2>12, <2>13,
           <2>14, <2>15, <2>16, <2>17, <2>18, <2>19, <2>20, <2>21, <2>22, <2>23, <2>24, <2>25,
           <2>26, <2>27, <2>28 DEF LinkNext, LoopStep
<1>3. LinkTypes /\ [LinkNext]_linkVars => LinkTypes'
  <2> SUFFICES ASSUME LinkTypes, Flags', [LinkNext]_linkVars PROVE LinkTypes'
    BY <1>2 DEF LinkTypes
  <2> USE DEF LinkTypes, loop, sockets, control, executor
  <2>3. Trouble \/ Broken => linkFaults' \in 0..MaxLinkFaults
    BY DEF Trouble, Broken, LinkFault
  <2>4. CountFailure => failures' \in 0..MaxFailures /\ health' \in HealthRecord
    <3> SUFFICES ASSUME CountFailure
                 PROVE  failures' \in 0..MaxFailures /\ health' \in HealthRecord
      OBVIOUS
    <3>1. failures' \in 0..MaxFailures
      BY DEF CountFailure
    <3>2. health' \in HealthRecord
      <4>1. health' = Failing("failed") \/ health' = Failing("retrying")
        BY Zenon DEF CountFailure
      <4> QED  BY <4>1, RecordsAreRecords
    <3> QED  BY <3>1, <3>2
  <2>5. ASSUME BeginConnect PROVE LinkTypes'
    BY RecordsAreRecords, <2>5 DEF BeginConnect, Pc, Working
  <2>6. ASSUME Dial PROVE LinkTypes'
    BY RecordsAreRecords, <2>3, <2>6 DEF Dial, Pc, Working
  <2>7. ASSUME Handshake PROVE LinkTypes'
    <3>1. health' \in HealthRecord
      BY RecordsAreRecords, <2>7 DEF Handshake
    <3>2. pc' \in Pc /\ failures' \in 0..MaxFailures /\ open' \in SUBSET Socket
      BY <2>7 DEF Handshake, AfterRefusal, Pc, Working
    <3>3. linkFaults' \in 0..MaxLinkFaults
      BY <2>3, <2>7 DEF Handshake
    <3> QED  BY <2>7, <3>1, <3>2, <3>3 DEF Handshake
  <2>8. ASSUME ConnectFailed PROVE LinkTypes'
    BY <2>4, <2>8 DEF ConnectFailed, Pc, Working
  <2>9. ASSUME Subscribe \/ ExpectSubAck PROVE LinkTypes'
    <3>1. CASE Subscribe
      BY ZenonT(60), RecordsAreRecords, <2>3, <3>1 DEF Subscribe, Pc, Working
    <3>2. CASE ExpectSubAck
      BY ZenonT(60), RecordsAreRecords, <2>3, <3>2 DEF ExpectSubAck, Pc, Working
    <3> QED  BY <2>9, <3>1, <3>2
  <2>10. ASSUME ReadHeader PROVE LinkTypes'
    BY <2>10 DEF ReadHeader, Pc, Working
  <2>11. ASSUME ReadPacket PROVE LinkTypes'
    BY RecordsAreRecords, <2>11 DEF ReadPacket, Pc, Working
  <2>12. ASSUME StopReading PROVE LinkTypes'
    BY RecordsAreRecords, <2>3, <2>12 DEF StopReading, Pc, Working
  <2>13. ASSUME Panic PROVE LinkTypes'
    BY RecordsAreRecords, <2>13 DEF Panic, Pc, Working
  <2>14. ASSUME SubscribeFailed PROVE LinkTypes'
    BY <2>4, <2>14 DEF SubscribeFailed, Pc, Working
  <2>15. ASSUME Close PROVE LinkTypes'
    BY RecordsAreRecords, <2>15 DEF Close, Pc, Working
  <2>16. ASSUME Backoff PROVE LinkTypes'
    BY <2>16 DEF Backoff, CurrentMultiplier, Pc, Working
  <2>17. ASSUME EndSleep PROVE LinkTypes'
    BY <2>17 DEF EndSleep, Wake, Pc, Working
  <2>18. ASSUME Stall PROVE LinkTypes'
    BY RecordsAreRecords, <2>3, <2>18 DEF Stall, Pc, Working
  <2>19. ASSUME Ping \/ PingSent \/ PingEnds \/ EndIngest PROVE LinkTypes'
    <3>1. CASE Ping
      BY RecordsAreRecords, <3>1 DEF Ping
    <3>2. CASE PingSent
      BY RecordsAreRecords, <3>2 DEF PingSent
    <3>3. CASE PingEnds
      BY RecordsAreRecords, <3>3 DEF PingEnds
    <3>4. CASE EndIngest
      <4>1. health' \in HealthRecord
        BY RecordsAreRecords, <3>4 DEF EndIngest
      <4>2. queue' \in 0..QueueCap
        BY <3>4 DEF EndIngest
      <4> QED  BY <3>4, <4>1, <4>2 DEF EndIngest
    <3> QED  BY <2>19, <3>1, <3>2, <3>3, <3>4
  <2>20. ASSUME PingFails PROVE LinkTypes'
    BY RecordsAreRecords, <2>3, <2>20 DEF PingFails
  <2>21. ASSUME TakeConnection PROVE LinkTypes'
    BY <2>21 DEF TakeConnection
  <2>22. ASSUME ReportTaken \/ CloseTaken PROVE LinkTypes'
    BY RecordsAreRecords, <2>22 DEF ReportTaken, CloseTaken
  <2>23. ASSUME Interrupt \/ SetBackoff \/ ClearBackoff \/ BackoffExpires PROVE LinkTypes'
    BY <2>23 DEF Interrupt, SetBackoff, ClearBackoff, BackoffExpires
  <2>24. ASSUME BrokerFails \/ BrokerReturns PROVE LinkTypes'
    BY <2>24 DEF BrokerFails, BrokerReturns, LinkFault
  <2>25. CASE UNCHANGED linkVars
    BY <2>25 DEF linkVars
  <2> QED
    BY <2>5, <2>6, <2>7, <2>8, <2>9, <2>10, <2>11, <2>12, <2>13, <2>14, <2>15, <2>16, <2>17,
       <2>18, <2>19, <2>20, <2>21, <2>22, <2>23, <2>24, <2>25 DEF LinkNext, LoopStep
<1> QED  BY <1>1, <1>3, PTL DEF LinkSpec
------------------------------------------------------------------------------
(* Whichever of the loop and the executor takes a connection out of the transport
   closes it.                                                                 *)
THEOREM ConnectionsAreClosed == LinkSpec => []NoLeak
<1> USE LinkAssumption
<1>1. LinkInit => HolderInv
  BY DEF LinkInit, HolderInv, NoLeak
<1>2. LinkTypes /\ HolderInv /\ [LinkNext]_linkVars => HolderInv'
  <2> SUFFICES ASSUME LinkTypes, HolderInv, [LinkNext]_linkVars PROVE HolderInv'
    OBVIOUS
  <2> USE DEF LinkTypes, HolderInv, NoLeak, loop, sockets, control, executor
  <2>1. CASE Dial
    BY <2>1 DEF Dial
  <2>2. CASE Handshake
    BY <2>2 DEF Handshake, AfterRefusal, Broken, Connected
  <2>3. CASE Panic
    BY <2>3 DEF Panic
  <2>4. CASE Close
    BY <2>4 DEF Close
  <2>5. CASE TakeConnection
    BY <2>5 DEF TakeConnection
  <2>6. CASE CloseTaken
    BY <2>6 DEF CloseTaken
  <2>7. CASE StopReading
    BY <2>7 DEF StopReading
  <2>8. CASE ConnectFailed
    BY <2>8 DEF ConnectFailed
  <2>9. CASE SubscribeFailed
    BY <2>9 DEF SubscribeFailed
  <2>10. CASE BeginConnect \/ Subscribe \/ ExpectSubAck \/ ReadHeader \/ ReadPacket \/ Backoff \/ EndSleep
            \/ ReportTaken \/ Stall \/ Ping \/ PingSent \/ PingFails \/ PingEnds \/ Interrupt
            \/ SetBackoff \/ ClearBackoff \/ BackoffExpires \/ EndIngest \/ BrokerFails \/ BrokerReturns
    BY <2>10 DEF BeginConnect, Subscribe, ExpectSubAck, ReadHeader, ReadPacket, Backoff, EndSleep,
           ReportTaken, Stall,
           Ping, PingSent, PingFails, PingEnds, Interrupt, SetBackoff, ClearBackoff,
           BackoffExpires, EndIngest, BrokerFails, BrokerReturns
  <2>11. CASE UNCHANGED linkVars
    BY <2>11 DEF linkVars
  <2> QED
    BY <2>1, <2>2, <2>3, <2>4, <2>5, <2>6, <2>7, <2>8, <2>9, <2>10, <2>11 DEF LinkNext, LoopStep
<1>3. HolderInv => NoLeak
  BY DEF HolderInv
<1> QED  BY <1>1, <1>2, <1>3, LinkTypesHold, PTL DEF LinkSpec

LEMMA CutInvHolds == LinkSpec => []CutInv
<1> USE LinkAssumption
<1>1. LinkInit => CutInv
  BY DEF LinkInit, CutInv, InterruptsEndOneWait
<1>2. LinkTypes /\ CutInv /\ [LinkNext]_linkVars => CutInv'
  <2> SUFFICES ASSUME LinkTypes, CutInv, [LinkNext]_linkVars PROVE CutInv'
    OBVIOUS
  <2> USE DEF LinkTypes, CutInv, InterruptsEndOneWait, loop, sockets, control, executor
  <2>1. CASE EndSleep
    BY <2>1 DEF EndSleep, Wake
  <2>2. CASE Panic
    BY <2>2 DEF Panic
  <2>3. CASE TakeConnection
    BY <2>3 DEF TakeConnection
  <2>4. CASE ReportTaken \/ CloseTaken
    BY <2>4 DEF ReportTaken, CloseTaken
  <2>5. CASE Interrupt
    BY <2>5 DEF Interrupt
  <2>6. CASE BeginConnect \/ Dial \/ Handshake \/ ConnectFailed \/ Subscribe \/ ReadHeader
            \/ ExpectSubAck \/ ReadPacket \/ StopReading \/ SubscribeFailed \/ Close \/ Backoff \/ Stall
            \/ Ping \/ PingSent \/ PingFails \/ PingEnds \/ SetBackoff \/ ClearBackoff
            \/ BackoffExpires \/ EndIngest \/ BrokerFails \/ BrokerReturns
    BY <2>6 DEF BeginConnect, Dial, Handshake, ConnectFailed, Subscribe, ReadHeader, ExpectSubAck,
           ReadPacket, StopReading, SubscribeFailed, Close, Backoff, Stall, Ping, PingSent,
           PingFails, PingEnds, SetBackoff, ClearBackoff, BackoffExpires, EndIngest,
           BrokerFails, BrokerReturns
  <2>7. CASE UNCHANGED linkVars
    BY <2>7 DEF linkVars
  <2> QED
    BY <2>1, <2>2, <2>3, <2>4, <2>5, <2>6, <2>7 DEF LinkNext, LoopStep
<1> QED  BY <1>1, <1>2, LinkTypesHold, PTL DEF LinkSpec

(* A restart ends at most one wait, whenever its interrupt comes. *)
THEOREM WaitsEndOnce == LinkSpec => []InterruptsEndOneWait
<1>1. CutInv => InterruptsEndOneWait
  BY DEF CutInv
<1> QED  BY <1>1, CutInvHolds, PTL

(* An outage is told of once, at the threshold, whatever the threshold is. *)
THEOREM OutageIsToldOnce == LinkSpec => []ThresholdIsTold
<1> USE LinkAssumption
<1>1. LinkInit => ToldInv
  BY DEF LinkInit, ToldInv, ThresholdIsTold
<1>2. LinkTypes /\ ToldInv /\ [LinkNext]_linkVars => ToldInv'
  <2> SUFFICES ASSUME LinkTypes, ToldInv, [LinkNext]_linkVars PROVE ToldInv'
    OBVIOUS
  <2> USE DEF LinkTypes, ToldInv, ThresholdIsTold, loop, sockets, control, executor
  <2>1. CASE Handshake
    BY <2>1 DEF Handshake
  <2>2. CASE ConnectFailed \/ SubscribeFailed
    <3>1. CountFailure
      BY <2>2 DEF ConnectFailed, SubscribeFailed
    <3>2. /\ failures \in Nat /\ failures' \in Nat /\ failures' >= failures
          /\ told = IF failures >= RetryThreshold THEN 1 ELSE 0
      BY <3>1 DEF CountFailure
    <3>3. recorded' <=> failures' >= RetryThreshold
      <4>1. recorded' <=> recorded \/ failures' >= RetryThreshold
        BY <3>1 DEF CountFailure
      <4>2. recorded => failures' >= RetryThreshold
        BY <3>2
      <4> QED  BY <4>1, <4>2
    <3>4. told' = IF recorded' /\ ~recorded THEN told + 1 ELSE told
      BY <3>1 DEF CountFailure
    <3>5. told' = IF failures' >= RetryThreshold THEN 1 ELSE 0
      <4>1. CASE recorded
        <5>1. failures >= RetryThreshold
          BY <4>1
        <5>2. failures' >= RetryThreshold
          BY <3>2, <5>1
        <5> QED  BY <3>2, <3>4, <4>1, <5>1, <5>2
      <4>2. CASE ~recorded
        <5>1. told = 0
          BY <3>2, <4>2
        <5> QED  BY <3>3, <3>4, <4>2, <5>1
      <4> QED  BY <4>1, <4>2
    <3> QED  BY <3>3, <3>5
  <2>3. CASE Panic
    BY <2>3 DEF Panic
  <2>4. CASE BeginConnect \/ Dial \/ Subscribe \/ ExpectSubAck \/ ReadHeader \/ ReadPacket \/ StopReading
            \/ Close \/ Backoff \/ EndSleep \/ Stall \/ Ping \/ PingSent
            \/ PingFails \/ PingEnds \/ TakeConnection \/ ReportTaken \/ CloseTaken \/ Interrupt
            \/ SetBackoff \/ ClearBackoff \/ BackoffExpires \/ EndIngest \/ BrokerFails \/ BrokerReturns
    BY <2>4 DEF BeginConnect, Dial, Subscribe, ExpectSubAck, ReadHeader, ReadPacket, StopReading, Close,
           Backoff, EndSleep, Stall, Ping, PingSent, PingFails, PingEnds, TakeConnection,
           ReportTaken, CloseTaken, Interrupt, SetBackoff, ClearBackoff, BackoffExpires, EndIngest,
           BrokerFails, BrokerReturns
  <2>5. CASE UNCHANGED linkVars
    BY <2>5 DEF linkVars
  <2> QED
    BY <2>1, <2>2, <2>3, <2>4, <2>5 DEF LinkNext, LoopStep
<1>3. ToldInv => ThresholdIsTold
  BY DEF ToldInv
<1> QED  BY <1>1, <1>2, <1>3, LinkTypesHold, PTL DEF LinkSpec

(* The reader loses its connection to a restart only. *)
THEOREM ReaderDiesOfRestarts == LinkSpec => []OnlyRestartsKill
<1> USE LinkAssumption
<1>1. LinkInit => OnlyRestartsKill
  BY DEF LinkInit, OnlyRestartsKill
<1>2. LinkTypes /\ OnlyRestartsKill /\ [LinkNext]_linkVars => OnlyRestartsKill'
  <2> SUFFICES ASSUME LinkTypes, OnlyRestartsKill, [LinkNext]_linkVars PROVE OnlyRestartsKill'
    OBVIOUS
  <2> USE DEF LinkTypes, OnlyRestartsKill, loop, sockets, control, executor
  <2>1. CASE Dial
    BY <2>1 DEF Dial
  <2>2. CASE Subscribe \/ ReadHeader
    BY <2>2 DEF Subscribe, ReadHeader, Connected
  <2>3. CASE Panic
    BY <2>3 DEF Panic
  <2>4. CASE TakeConnection
    BY <2>4 DEF TakeConnection
  <2>5. CASE Close
    BY <2>5 DEF Close
  <2>6. CASE Handshake
    BY <2>6 DEF Handshake
  <2>7. CASE BeginConnect \/ ConnectFailed \/ ExpectSubAck \/ ReadPacket \/ StopReading \/ SubscribeFailed
            \/ ReportTaken \/ Backoff \/ EndSleep \/ Stall \/ Ping \/ PingSent \/ PingFails
            \/ PingEnds \/ CloseTaken \/ Interrupt \/ SetBackoff \/ ClearBackoff \/ BackoffExpires
            \/ EndIngest \/ BrokerFails \/ BrokerReturns
    BY <2>7 DEF BeginConnect, ConnectFailed, ExpectSubAck, ReadPacket, StopReading,
           SubscribeFailed, Backoff, EndSleep, Stall, Ping, PingSent, PingFails, PingEnds,
           ReportTaken, CloseTaken, Interrupt, SetBackoff, ClearBackoff, BackoffExpires, EndIngest,
           BrokerFails, BrokerReturns
  <2>8. CASE UNCHANGED linkVars
    BY <2>8 DEF linkVars
  <2> QED
    BY <2>1, <2>2, <2>3, <2>4, <2>5, <2>6, <2>7, <2>8 DEF LinkNext, LoopStep
<1> QED  BY <1>1, <1>2, LinkTypesHold, PTL DEF LinkSpec

------------------------------------------------------------------------------
(* How long the transport waits. *)

(* What a wait is and how many failures are behind it. *)
FailedInv == pc \in {"closing", "backoff", "sleeping"} => failures >= 1
WaitInv == wait \in -Half..(Cap + 999) /\ FailedInv /\ WaitIsBounded

Bounded == -Half..(Half - 1)

LEMMA WrapTypes ==
    ASSUME NEW n \in Int
    PROVE  Wrap(n) \in Bounded /\ (n \in 0..(Half - 1) => Wrap(n) = n)
<1> USE LinkAssumption
<1>1. (n + Half) % (2 * Half) \in 0..(2 * Half - 1)
  OBVIOUS
<1>2. ASSUME n \in 0..(Half - 1)
      PROVE  (n + Half) % (2 * Half) = n + Half
  <2>1. n + Half \in 0..(2 * Half - 1)
    BY <1>2
  <2> QED BY <2>1
<1> QED  BY <1>1, <1>2 DEF Wrap, Bounded

(* From a first value, a step makes one sequence of values, however long. *)
Steps(step, base, k, f) ==
    /\ f \in [0..k -> Int] /\ f[0] = base
    /\ \A i \in 1..k : f[i] = step[f[i - 1]]

LEMMA StepsExist ==
    ASSUME NEW step \in [Int -> Int], NEW base \in Int, NEW k \in Nat
    PROVE  \E f : Steps(step, base, k, f)
<1> DEFINE None == {n \in Nat : ~ \E f : Steps(step, base, n, f)}
<1>1. ASSUME None # {}
      PROVE  FALSE
  <2>1. PICK n \in None : \A m \in None : n <= m
    <3> HIDE DEF None
    <3>1. None \subseteq Nat
      BY DEF None
    <3> QED  BY <1>1, <3>1, LeastNumber
  <2>2. CASE n = 0
    <3>1. Steps(step, base, 0, [i \in 0..0 |-> base])
      BY DEF Steps
    <3> QED  BY <2>1, <2>2, <3>1
  <2>3. CASE n # 0
    <3>1. n \in Nat /\ n - 1 \in Nat
      BY <2>1, <2>3
    <3>2. n - 1 \notin None
      BY <2>1, <3>1
    <3>3. PICK f : Steps(step, base, n - 1, f)
      BY <3>1, <3>2
    <3> DEFINE g == [i \in 0..n |-> IF i = n THEN step[f[n - 1]] ELSE f[i]]
    <3>4. n - 1 \in 0..(n - 1) /\ f[n - 1] \in Int
      BY <3>1, <3>3 DEF Steps
    <3>5. g \in [0..n -> Int] /\ g[0] = base
      <4>1. ASSUME NEW i \in 0..n, i # n
            PROVE  i \in 0..(n - 1)
        BY <3>1, <4>1
      <4>2. step[f[n - 1]] \in Int /\ \A i \in 0..(n - 1) : f[i] \in Int
        BY <3>3, <3>4 DEF Steps
      <4>3. g \in [0..n -> Int]
        BY <4>1, <4>2
      <4>4. 0 \in 0..n /\ f[0] = base
        BY <3>1, <3>3 DEF Steps
      <4> QED  BY <2>3, <4>3, <4>4
    <3>6. ASSUME NEW i \in 1..n
          PROVE  g[i] = step[g[i - 1]]
      <4>1. i \in 0..n /\ i - 1 \in 0..n /\ i - 1 # n
        BY <3>1
      <4>2. g[i - 1] = f[i - 1]
        BY <4>1
      <4>3. CASE i = n
        BY <4>1, <4>2, <4>3
      <4>4. CASE i # n
        <5>1. i \in 1..(n - 1)
          BY <3>1, <4>4
        <5>2. f[i] = step[f[i - 1]]
          BY <3>3, <5>1 DEF Steps
        <5>3. g[i] = f[i]
          BY <4>1, <4>4
        <5> QED  BY <4>2, <5>2, <5>3
      <4> QED  BY <4>3, <4>4
    <3> HIDE DEF g
    <3>7. Steps(step, base, n, g)
      BY <3>5, <3>6 DEF Steps
    <3> QED  BY <2>1, <3>7
  <2> QED  BY <2>2, <2>3
<1> QED  BY <1>1

Shifting(base, k) == CHOOSE f : f = [i \in 0..k |-> IF i = 0 THEN base ELSE Wrap(2 * f[i - 1])]
Doubling(base, k) == CHOOSE f : f = [i \in 0..k |-> IF i = 0 THEN base ELSE 2 * f[i - 1]]

LEMMA ShiftSteps ==
    ASSUME NEW base \in Int, NEW k \in Nat
    PROVE  /\ Shift(base, k) = Shifting(base, k)[k]
           /\ Shifting(base, k)[0] = base
           /\ \A i \in 1..k : Shifting(base, k)[i] = Wrap(2 * Shifting(base, k)[i - 1])
<1> DEFINE step == [n \in Int |-> Wrap(2 * n)]
<1>1. step \in [Int -> Int]
  BY WrapTypes DEF Bounded
<1>2. PICK f : Steps(step, base, k, f)
  BY <1>1, StepsExist
<1>3. \A i \in 1..k : f[i - 1] \in Int /\ i \in 0..k /\ i # 0
  BY <1>2 DEF Steps
<1>4. f = [i \in 0..k |-> IF i = 0 THEN base ELSE Wrap(2 * f[i - 1])]
  <2>1. f = [i \in 0..k |-> f[i]]
    BY <1>2 DEF Steps
  <2>2. ASSUME NEW i \in 0..k
        PROVE  f[i] = IF i = 0 THEN base ELSE Wrap(2 * f[i - 1])
    <3>1. CASE i = 0
      BY <1>2, <3>1 DEF Steps
    <3>2. CASE i # 0
      <4>1. i \in 1..k
        BY <3>2
      <4>2. f[i] = step[f[i - 1]]
        BY <1>2, <4>1 DEF Steps
      <4> QED  BY <1>3, <3>2, <4>1, <4>2
    <3> QED  BY <3>1, <3>2
  <2> HIDE DEF step
  <2> QED  BY <2>1, <2>2, Zenon
<1>5. Shifting(base, k) = [i \in 0..k |-> IF i = 0 THEN base ELSE Wrap(2 * Shifting(base, k)[i - 1])]
  BY <1>4 DEF Shifting
<1>6. Shift(base, k) = Shifting(base, k)[k]
  BY DEF Shift, Shifting
<1> QED  BY <1>5, <1>6

LEMMA DoubledSteps ==
    ASSUME NEW base \in Int, NEW k \in Nat
    PROVE  /\ Doubled(base, k) = Doubling(base, k)[k]
           /\ Doubling(base, k)[0] = base
           /\ \A i \in 1..k : Doubling(base, k)[i] = 2 * Doubling(base, k)[i - 1]
<1> DEFINE step == [n \in Int |-> 2 * n]
<1>1. step \in [Int -> Int]
  OBVIOUS
<1>2. PICK f : Steps(step, base, k, f)
  BY <1>1, StepsExist
<1>3. \A i \in 1..k : f[i - 1] \in Int /\ i \in 0..k /\ i # 0
  BY <1>2 DEF Steps
<1>4. f = [i \in 0..k |-> IF i = 0 THEN base ELSE 2 * f[i - 1]]
  <2>1. f = [i \in 0..k |-> f[i]]
    BY <1>2 DEF Steps
  <2>2. ASSUME NEW i \in 0..k
        PROVE  f[i] = IF i = 0 THEN base ELSE 2 * f[i - 1]
    <3>1. CASE i = 0
      BY <1>2, <3>1 DEF Steps
    <3>2. CASE i # 0
      <4>1. i \in 1..k
        BY <3>2
      <4>2. f[i] = step[f[i - 1]]
        BY <1>2, <4>1 DEF Steps
      <4> QED  BY <1>3, <3>2, <4>1, <4>2
    <3> QED  BY <3>1, <3>2
  <2> HIDE DEF step
  <2> QED  BY <2>1, <2>2, Zenon
<1>5. Doubling(base, k) = [i \in 0..k |-> IF i = 0 THEN base ELSE 2 * Doubling(base, k)[i - 1]]
  BY <1>4 DEF Doubling
<1>6. Doubled(base, k) = Doubling(base, k)[k]
  BY DEF Doubled, Doubling
<1> QED  BY <1>5, <1>6

(* A shift stays in the width of a duration, ... *)
LEMMA ShiftInWidth ==
    ASSUME NEW base \in Bounded, NEW k \in Nat
    PROVE  Shift(base, k) \in Bounded
<1> DEFINE f == Shifting(base, k)
           Out == {i \in 0..k : f[i] \notin Bounded}
<1>1. base \in Int
  BY DEF Bounded
<1>2. /\ Shift(base, k) = f[k] /\ f[0] = base
      /\ \A i \in 1..k : f[i] = Wrap(2 * f[i - 1])
  BY <1>1, ShiftSteps
<1> HIDE DEF f
<1>3. ASSUME Out # {}
      PROVE  FALSE
  <2>1. PICK i \in Out : \A j \in Out : i <= j
    <3>1. Out \subseteq Nat
      OBVIOUS
    <3> HIDE DEF Out
    <3> QED  BY <1>3, <3>1, LeastNumber
  <2>2. i # 0
    BY <1>2, <2>1
  <2>3. i \in 1..k /\ i - 1 \in 0..k /\ i - 1 \notin Out
    BY <2>1, <2>2
  <2>4. f[i - 1] \in Int /\ f[i] = Wrap(2 * f[i - 1])
    BY <1>2, <2>3 DEF Bounded
  <2>5. 2 * f[i - 1] \in Int
    BY <2>4
  <2> QED  BY <2>1, <2>4, <2>5, WrapTypes
<1> QED  BY <1>2, <1>3

(* ... and as long as a doubled value fits that width, one that starts no higher
   is not below where it starts.                                              *)
LEMMA ShiftFits ==
    ASSUME NEW base \in Nat, NEW top \in Nat, base <= top, NEW k \in Nat,
           Doubled(top, k) < Half
    PROVE  Shift(base, k) >= base
<1> USE LinkAssumption
<1> DEFINE f == Shifting(base, k)
           g == Doubling(top, k)
           Fits(i) == /\ g[i] \in Nat
                      /\ g[i] >= Half \/ (f[i] \in Nat /\ base <= f[i] /\ f[i] <= g[i])
           Off == {i \in 0..k : ~ Fits(i)}
<1>1. /\ Shift(base, k) = f[k] /\ f[0] = base
      /\ \A i \in 1..k : f[i] = Wrap(2 * f[i - 1])
  BY ShiftSteps
<1>2. /\ Doubled(top, k) = g[k] /\ g[0] = top
      /\ \A i \in 1..k : g[i] = 2 * g[i - 1]
  BY DoubledSteps
<1> HIDE DEF f, g
<1>3. ASSUME Off # {}
      PROVE  FALSE
  <2>1. PICK i \in Off : \A j \in Off : i <= j
    <3>1. Off \subseteq Nat
      OBVIOUS
    <3> HIDE DEF Off
    <3> QED  BY <1>3, <3>1, LeastNumber
  <2>2. i # 0
    BY <1>1, <1>2, <2>1
  <2>3. i \in 1..k /\ i - 1 \in 0..k /\ i - 1 \notin Off
    BY <2>1, <2>2
  <2>4. Fits(i - 1) /\ f[i] = Wrap(2 * f[i - 1]) /\ g[i] = 2 * g[i - 1]
    BY <1>1, <1>2, <2>3
  <2>5. CASE g[i] >= Half
    BY <2>1, <2>4, <2>5
  <2>6. CASE ~ (g[i] >= Half)
    <3>1. f[i - 1] \in Nat /\ base <= f[i - 1] /\ f[i - 1] <= g[i - 1]
      BY <2>4, <2>6
    <3>2. 2 * f[i - 1] \in 0..(Half - 1) /\ 2 * f[i - 1] \in Int
      BY <2>4, <2>6, <3>1
    <3>3. f[i] = 2 * f[i - 1]
      BY <2>4, <3>2, WrapTypes
    <3> QED  BY <2>1, <2>4, <3>1, <3>3
  <2> QED  BY <2>5, <2>6
<1>4. Fits(k)
  BY <1>3
<1> QED  BY <1>1, <1>2, <1>4

(* What jitterBackoff makes of the base and of twice the base. *)
LEMMA JitterIsBounded ==
    ASSUME NEW base \in {Base, 2 * Base}, NEW attempt \in Nat, attempt >= 1
    PROVE  /\ JitterBackoff(base, attempt) \in -Half..(Cap + 999)
           /\ Doubled(2 * Base, attempt - 1) < Half =>
                 JitterBackoff(base, attempt) >= IF Base < Cap THEN Base ELSE Cap
<1> USE LinkAssumption
<1>1. base \in Bounded /\ base \in Nat /\ Base <= base /\ base <= 2 * Base
  BY DEF Bounded
<1>2. attempt - 1 \in Nat
  OBVIOUS
<1>3. Shift(base, attempt - 1) \in Bounded
  BY <1>1, <1>2, ShiftInWidth
<1>4. Jitter(attempt) \in 0..999
  <2>1. attempt * 137 \in Nat
    OBVIOUS
  <2> QED  BY <2>1 DEF Jitter
<1>5. JitterBackoff(base, attempt) \in -Half..(Cap + 999)
  <2> DEFINE max == Shift(base, attempt - 1)
             kept == IF max > Cap THEN Cap ELSE max
  <2>1. JitterBackoff(base, attempt) = kept + Jitter(attempt)
    BY DEF JitterBackoff
  <2>2. max \in Int /\ -Half <= max
    BY <1>3 DEF Bounded
  <2> HIDE DEF max
  <2>3. kept \in Int /\ -Half <= kept /\ kept <= Cap
    BY <2>2
  <2> HIDE DEF kept
  <2>4. /\ kept + Jitter(attempt) \in Int
        /\ -Half <= kept + Jitter(attempt) /\ kept + Jitter(attempt) <= Cap + 999
    BY <1>4, <2>3
  <2> QED  BY <2>1, <2>4
<1>6. ASSUME Doubled(2 * Base, attempt - 1) < Half
      PROVE  JitterBackoff(base, attempt) >= IF Base < Cap THEN Base ELSE Cap
  <2>1. 2 * Base \in Nat
    OBVIOUS
  <2>2. Shift(base, attempt - 1) >= base
    BY <1>1, <1>2, <1>6, <2>1, ShiftFits
  <2>3. Shift(base, attempt - 1) \in Int
    BY <1>3 DEF Bounded
  <2> QED  BY <1>1, <1>4, <2>2, <2>3 DEF JitterBackoff
<1> QED  BY <1>5, <1>6

LEMMA WaitInvHolds == LinkSpec => []WaitInv
<1> USE LinkAssumption
<1>1. LinkInit => WaitInv
  BY DEF LinkInit, WaitInv, FailedInv, WaitIsBounded
<1>2. LinkTypes /\ WaitInv /\ [LinkNext]_linkVars => WaitInv'
  <2> SUFFICES ASSUME LinkTypes, WaitInv, [LinkNext]_linkVars PROVE WaitInv'
    OBVIOUS
  <2> USE DEF LinkTypes, loop, sockets, control, executor
  <2>1. ASSUME pc' # "sleeping",
               pc' \in {"closing", "backoff"} => failures' >= 1,
               wait' \in {wait, 0}
        PROVE  WaitInv'
    BY <2>1 DEF WaitInv, FailedInv, WaitIsBounded
  <2>2. ASSUME UNCHANGED loop PROVE WaitInv'
    BY <2>2 DEF WaitInv, FailedInv, WaitIsBounded
  <2> USE DEF FailedInv
  <2>3. CASE BeginConnect
    BY <2>1, <2>3 DEF BeginConnect
  <2>4. CASE Dial
    BY <2>1, <2>4 DEF Dial
  <2>5. CASE Handshake
    BY <2>1, <2>5 DEF Handshake
  <2>6. CASE ConnectFailed \/ SubscribeFailed
    <3>1. failures' >= 1
      BY <2>6 DEF ConnectFailed, SubscribeFailed, CountFailure
    <3> QED  BY <2>1, <2>6, <3>1 DEF ConnectFailed, SubscribeFailed
  <2>7. CASE Subscribe \/ ExpectSubAck \/ ReadHeader \/ ReadPacket \/ StopReading \/ Stall
    <3>1. pc' \in {"suback", "reading", "unsubscribed", "header"} /\ wait' = wait
      BY <2>7 DEF Subscribe, ExpectSubAck, ReadHeader, ReadPacket, StopReading, Stall
    <3> QED  BY <2>1, <3>1
  <2>8. CASE Panic
    BY <2>1, <2>8 DEF Panic
  <2>9. CASE Close
    BY <2>1, <2>9 DEF Close, WaitInv
  <2>10. CASE EndSleep
    BY <2>1, <2>10 DEF EndSleep
  <2>11. CASE Backoff
    <3>1. failures \in Nat /\ failures >= 1 /\ failures' = failures
      BY <2>11 DEF Backoff, WaitInv
    <3>2. CurrentMultiplier * Base \in {Base, 2 * Base}
      BY DEF CurrentMultiplier
    <3>3. wait' = JitterBackoff(CurrentMultiplier * Base, failures)
      BY <2>11, <3>1 DEF Backoff
    <3>4. /\ wait' \in -Half..(Cap + 999)
          /\ Doubled(2 * Base, failures - 1) < Half => wait' >= IF Base < Cap THEN Base ELSE Cap
      BY <3>1, <3>2, <3>3, JitterIsBounded
    <3> QED  BY <3>1, <3>4 DEF WaitInv, WaitIsBounded
  <2>12. CASE Ping \/ PingSent \/ PingFails \/ PingEnds \/ TakeConnection \/ ReportTaken \/ CloseTaken
              \/ Interrupt \/ SetBackoff \/ ClearBackoff \/ BackoffExpires \/ EndIngest
              \/ BrokerFails \/ BrokerReturns
    BY <2>2, <2>12 DEF Ping, PingSent, PingFails, PingEnds, TakeConnection, ReportTaken, CloseTaken,
           Interrupt, SetBackoff, ClearBackoff, BackoffExpires, EndIngest, BrokerFails,
           BrokerReturns
  <2>13. CASE UNCHANGED linkVars
    BY <2>2, <2>13 DEF linkVars
  <2> QED
    BY <2>3, <2>4, <2>5, <2>6, <2>7, <2>8, <2>9, <2>10, <2>11, <2>12, <2>13
       DEF LinkNext, LoopStep
<1> QED  BY <1>1, <1>2, LinkTypesHold, PTL DEF LinkSpec

(* Whatever the base, the cap and the width, a transport never waits for longer than
   the cap and its jitter, and for no less than the base or the cap as long as the
   doubled backoff fits the width.                                               *)
THEOREM WaitsAreBounded == LinkSpec => []WaitIsBounded
<1>1. WaitInv => WaitIsBounded
  BY DEF WaitInv
<1> QED  BY <1>1, WaitInvHolds, PTL

(* The type invariant of a transport, with the values that WaitInv, CutInv and
   ThresholdIsTold bound.                                                     *)
LEMMA LinkIsTyped == LinkSpec => []LinkTypeOK
<1>1. LinkTypes /\ WaitInv /\ CutInv /\ ThresholdIsTold => LinkTypeOK
  <2> SUFFICES ASSUME LinkTypes, WaitInv, CutInv, ThresholdIsTold
               PROVE  LinkTypeOK
    OBVIOUS
  <2> USE LinkAssumption
  <2>1. cut \in 0..MaxRestarts
    BY DEF CutInv, InterruptsEndOneWait, LinkTypes
  <2>2. told \in 0..2
    BY DEF ThresholdIsTold
  <2>3. wait \in -Half..(Cap + 999)
    BY DEF WaitInv
  <2>4. recorded \in BOOLEAN /\ interrupt \in BOOLEAN /\ broker \in BOOLEAN /\ panicked \in BOOLEAN
    BY Zenon DEF LinkTypes, Flags
  <2> QED  BY <2>1, <2>2, <2>3, <2>4, ZenonT(60) DEF LinkTypes, LinkTypeOK, HealthRecord, PingRecord
<1>2. LinkSpec => []CutInv
  BY CutInvHolds
<1> QED  BY <1>1, <1>2, LinkTypesHold, WaitInvHolds, OutageIsToldOnce, PTL

------------------------------------------------------------------------------
(* A node keeps the types of both of its parts, whichever of them moves. *)
THEOREM NodeIsTyped == NodeSpec => []NodeTypeOK
<1>1. NodeInit => Init /\ LinkInit
  BY DEF NodeInit
<1>2. [NodeNext]_nodeVars => [Next]_vars /\ [LinkNext]_linkVars
  BY Zenon DEF NodeNext, PeersMove, LinkMoves, nodeVars
<1>3. NodeSpec => Spec /\ LinkSpec
  BY <1>1, <1>2, PTL DEF NodeSpec, Spec, LinkSpec
<1>4. TypeOK /\ LinkTypeOK => NodeTypeOK
  BY DEF NodeTypeOK
<1> QED  BY <1>3, <1>4, TypeHolds, LinkIsTyped, PTL
==============================================================================
