----------------------------- MODULE PeerLiveness -----------------------------
(***************************************************************************)
(* How a node judges its peers: heartbeats, the periodic partition check,  *)
(* split-brain, and the limit on what the node may do by itself meanwhile. *)
(*                                                                         *)
(* Time is in ticks, and every timer is kept as the time since it was set. *)
(* Tickers fire on time: time does not pass over a heartbeat that is due,  *)
(* a check that is due or a message that has been on its way for Delay.    *)
(* A peer's LastSeen is the time stamp in its heartbeat, made by its own   *)
(* clock, which is Skew ahead of the node's.                               *)
(***************************************************************************)
EXTENDS Integers, FiniteSets

CONSTANTS Peer,
          Beat,              \* HeartbeatIntervalSeconds
          SuspectAfter,      \* SuspectAfterMissed heartbeat intervals
          PartitionAfter,    \* PartitionAfterMissed of them
          Delay,             \* bound: how long a heartbeat is on its way
          Skew,              \* [Peer -> Int]
          RequireApproval, RestrictAutopilot, MaxAutonomous,   \* SplitBrainPolicy
          MaxFaults          \* bound: lost heartbeats, lost connections and restarts

(* Mutant: the check runs as often as heartbeats are sent. *)
CheckEveryBeat == Beat

(* The check runs at every second heartbeat interval. *)
CheckEvery == 2 * Beat
Largest(S) == CHOOSE m \in S : \A k \in S : k <= m

ASSUME PeerAssumption ==
          /\ IsFiniteSet(Peer)
          /\ Beat \in Nat \ {0} /\ Delay \in Nat
          /\ SuspectAfter \in Nat \ {0} /\ PartitionAfter \in Nat /\ PartitionAfter > SuspectAfter
          /\ Skew \in [Peer -> Int]
          /\ RequireApproval \in BOOLEAN /\ RestrictAutopilot \in BOOLEAN
          /\ MaxAutonomous \in Nat \ {0}
          /\ MaxFaults \in Nat

(* Clocks and network are good enough for the thresholds. *)
ASSUME ClockAssumption == \A p \in Peer : /\ Beat + Delay - Skew[p] <= SuspectAfter
                                          /\ Skew[p] <= PartitionAfter
                                          /\ Delay < Beat

VARIABLES
    state,      \* [Peer -> Peer.State]; "none" is a peer not in m.peers
    seen,       \* [Peer -> Int]: the time since Peer.LastSeen, never past Long
    split,      \* splitBrainDetected
    count,      \* autonomousActionCount, never past MaxAutonomous
    proposal,   \* where handleProposeAction is
    checked,    \* the time since partitionCheckLoop's ticker fired
    up,         \* the peers whose heartbeats reach the node's network
    sent,       \* [Peer -> Nat]: the time since its heartbeatLoop's ticker fired
    flight,     \* [Peer -> SUBSET Nat]: ages of heartbeats on their way
    silence,    \* history: [Peer -> Nat]: the time since one arrived, or since the start
    acted,      \* history: actions let through since split-brain was detected
    faults

network == <<up, sent, flight>>
judged == <<state, seen, split>>
autonomy == <<count, proposal, acted>>
vars == <<state, seen, split, count, proposal, checked, up, sent, flight, silence, acted, faults>>

PeerState == {"none", "unknown", "active", "suspected", "partitioned"}
Known == {p \in Peer : state[p] # "none"}
Partitioned == {p \in Peer : state[p] = "partitioned"}

(* Past Long ticks no comparison tells times apart. *)
Long == PartitionAfter + CheckEvery + Delay + Largest({0} \cup {Skew[p] : p \in Peer}) + 1
Older(t) == IF t < Long THEN t + 1 ELSE t

Configured(S) == [p \in Peer |-> IF p \in S THEN "unknown" ELSE "none"]
Never == [p \in Peer |-> Long]

(* Peers come from the configuration; no heartbeat has been seen of them. *)
Init ==
    /\ state \in {Configured(S) : S \in SUBSET Peer}
    /\ seen = Never
    /\ split = FALSE
    /\ count = 0
    /\ proposal = "none"
    /\ checked = 0
    /\ up = Peer
    /\ sent \in [Peer -> 0..Beat]
    /\ flight = [p \in Peer |-> {}]
    /\ silence = [p \in Peer |-> 0]
    /\ acted = 0
    /\ faults = 0

Fault == faults < MaxFaults /\ faults' = faults + 1

------------------------------------------------------------------------------
(* Time and the network. *)

Tick ==
    /\ \A p \in Peer : (p \in up => sent[p] < Beat) /\ Delay \notin flight[p]
    /\ checked < CheckEvery
    /\ seen' = [p \in Peer |-> Older(seen[p])]
    /\ silence' = [p \in Peer |-> Older(silence[p])]
    /\ checked' = checked + 1
    /\ sent' = [p \in Peer |-> IF sent[p] < Beat THEN sent[p] + 1 ELSE Beat]
    /\ flight' = [p \in Peer |-> {a + 1 : a \in flight[p]}]
    /\ UNCHANGED <<state, split, autonomy, up, faults>>

SendHeartbeat(p) ==
    /\ p \in up /\ sent[p] = Beat
    /\ sent' = [sent EXCEPT ![p] = 0]
    /\ flight' = [flight EXCEPT ![p] = @ \cup {0}]
    /\ UNCHANGED <<judged, autonomy, checked, up, silence, faults>>

HeartbeatLost(p) ==
    /\ Fault
    /\ \E a \in flight[p] : flight' = [flight EXCEPT ![p] = @ \ {a}]
    /\ UNCHANGED <<judged, autonomy, checked, up, sent, silence>>

Disconnect(p) ==
    /\ Fault
    /\ p \in up /\ up' = up \ {p}
    /\ UNCHANGED <<judged, autonomy, checked, sent, flight, silence>>

Reconnect(p) ==
    /\ p \notin up /\ up' = up \cup {p}
    /\ UNCHANGED <<judged, autonomy, checked, sent, flight, silence, faults>>

------------------------------------------------------------------------------
(* The node. *)

(* Mutant: a heartbeat does not bring back a peer that counts as partitioned. *)
SeenUnlessPartitioned(p, a) ==
    /\ seen' = [seen EXCEPT ![p] = a - Skew[p]]
    /\ state' = [state EXCEPT ![p] = IF @ = "partitioned" THEN @ ELSE "active"]

(* LastSeen is the time stamp of the heartbeat. *)
SeenAt(p, a) ==
    /\ seen' = [seen EXCEPT ![p] = a - Skew[p]]
    /\ state' = [state EXCEPT ![p] = "active"]

(* A peer nobody configured joins by its first heartbeat. *)
ProcessHeartbeat(p) ==
    /\ \E a \in flight[p] : /\ flight' = [flight EXCEPT ![p] = @ \ {a}]
                            /\ SeenAt(p, a)
    /\ silence' = [silence EXCEPT ![p] = 0]
    /\ UNCHANGED <<split, autonomy, checked, up, sent, faults>>

Judged(p) ==
    CASE state[p] = "none"                                            -> "none"
      [] state[p] # "none" /\ seen[p] > PartitionAfter                -> "partitioned"
      [] state[p] = "active" /\ seen[p] \in (SuspectAfter + 1)..PartitionAfter -> "suspected"
      [] OTHER                                                        -> state[p]

(* Mutant: half of the peers are a majority. *)
MajorityWithHalf(S) == Known # {} /\ 2 * Cardinality(S) >= Cardinality(Known)

Majority(S) == Known # {} /\ Cardinality(S) > Cardinality(Known) \div 2

(* Mutant: split-brain ends only when no peer is partitioned. *)
DetectForever(lost) ==
    IF Majority(lost) /\ ~split
    THEN split' = TRUE /\ count' = 0 /\ acted' = 0
    ELSE UNCHANGED <<split, count, acted>>

(* Mutant: the actions are counted anew at every check. *)
DetectAnew(lost) ==
    IF Majority(lost)
    THEN split' = TRUE /\ count' = 0 /\ acted' = IF split THEN acted ELSE 0
    ELSE split' = FALSE /\ UNCHANGED <<count, acted>>

(* The counter begins anew when split-brain is detected, not when it ends. *)
Detect(lost) ==
    IF Majority(lost) /\ ~split
    THEN split' = TRUE /\ count' = 0 /\ acted' = 0
    ELSE split' = Majority(lost) /\ UNCHANGED <<count, acted>>

CheckPartitions ==
    /\ checked = CheckEvery
    /\ checked' = 0
    /\ state' = [p \in Peer |-> Judged(p)]
    /\ Detect({p \in Peer : Judged(p) = "partitioned"})
    /\ UNCHANGED <<seen, proposal, network, silence, faults>>

(* handleProposeAction asks and later counts, under one lock each. *)
CanExecuteAutonomously ==
    ~split \/ (~RequireApproval /\ ~(RestrictAutopilot /\ count >= MaxAutonomous))

Propose ==
    /\ proposal = "none" /\ CanExecuteAutonomously
    /\ proposal' = "allowed"
    /\ UNCHANGED <<judged, count, acted, checked, network, silence, faults>>

RecordAutonomousAction ==
    /\ proposal = "allowed"
    /\ proposal' = "none"
    /\ count' = IF count < MaxAutonomous THEN count + 1 ELSE count
    /\ acted' = IF split /\ acted <= MaxAutonomous THEN acted + 1 ELSE acted
    /\ UNCHANGED <<judged, checked, network, silence, faults>>

(* The process dies and starts again, perhaps with fewer peers configured;
   nothing it knew of its peers is kept.                                     *)
Restart ==
    /\ Fault
    /\ state' \in {Configured(S) : S \in SUBSET Known}
    /\ seen' = Never
    /\ split' = FALSE
    /\ count' = 0
    /\ proposal' = "none"
    /\ checked' = 0
    /\ flight' = [p \in Peer |-> {}]
    /\ silence' = [p \in Peer |-> 0]
    /\ acted' = 0
    /\ UNCHANGED <<up, sent>>

Process(p) == SendHeartbeat(p) \/ ProcessHeartbeat(p)

Next ==
    \/ Tick \/ CheckPartitions \/ Propose \/ RecordAutonomousAction \/ Restart
    \/ \E p \in Peer : Process(p) \/ HeartbeatLost(p) \/ Disconnect(p) \/ Reconnect(p)

Spec == Init /\ [][Next]_vars

(* Time passes, tickers fire and messages arrive. *)
FairSpec == /\ Spec
            /\ WF_vars(Tick) /\ WF_vars(CheckPartitions)
            /\ \A p \in Peer : WF_vars(Process(p))

------------------------------------------------------------------------------
TypeOK ==
    /\ state \in [Peer -> PeerState]
    /\ seen \in [Peer -> Int]
    /\ split \in BOOLEAN
    /\ count \in 0..MaxAutonomous
    /\ proposal \in {"none", "allowed"}
    /\ checked \in 0..CheckEvery
    /\ up \in SUBSET Peer
    /\ sent \in [Peer -> 0..Beat]
    /\ flight \in [Peer -> SUBSET (0..Delay)]
    /\ silence \in [Peer -> 0..Long]
    /\ acted \in 0..(MaxAutonomous + 1)
    /\ faults \in 0..MaxFaults

(* As long as nothing goes wrong no peer is suspected and there is no split-brain:
   not while the node starts and has heard of nobody, nor when a heartbeat takes
   its time or its sender's clock is off.                                    *)
HealthyIsTrusted ==
    faults = 0 => ~split /\ \A p \in Peer : state[p] \notin {"suspected", "partitioned"}

(* A partitioned peer has been silent for the threshold, up to the error of its
   clock and the way of its last heartbeat; and a known peer that has been
   silent for longer than the threshold and one interval of the check is
   partitioned, whatever order checks, heartbeats and restarts come in.      *)
PartitionedIsSilent ==
    \A p \in Known :
        /\ state[p] = "partitioned" =>
              silence[p] + Delay - Skew[p] > PartitionAfter \/ seen[p] = Long
        /\ silence[p] - Skew[p] > PartitionAfter + CheckEvery => state[p] = "partitioned"

(* Split-brain goes with a majority of partitioned peers, as of the last check:
   those still silent and those that have been heard since are more than half,
   and without split-brain the partitioned are at most half.                 *)
SplitIsMajority ==
    IF split THEN 2 * Cardinality(Partitioned \cup {p \in Known : silence[p] <= checked})
                  > Cardinality(Known)
             ELSE 2 * Cardinality(Partitioned) <= Cardinality(Known)

(* From the detection of split-brain to its end a node lets through no more
   actions than the policy grants, and under RequireApproval only the one that
   had been allowed before; though asking and counting are two critical
   sections and the detection may come between them.                         *)
AutonomyIsBounded ==
    split => /\ RestrictAutopilot => acted <= MaxAutonomous
             /\ RequireApproval => acted <= 1

(* When all peers stay connected, split-brain ends. *)
SplitEnds == <>[](up = Peer) => <>[]~split
==============================================================================
