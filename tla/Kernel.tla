-------------------------------- MODULE Kernel --------------------------------
(***************************************************************************)
(* The kernel of one node: a state, and the function that takes it from    *)
(* event to event.  A score is a whole number of thousandths, rounded      *)
(* down; of a record only what a later event or the replay's comparison    *)
(* reads is kept, so that times, names and texts are left out.  The scores *)
(* an event carries are any numbers: the JSON of a peer is not validated.  *)
(***************************************************************************)
EXTENDS Integers

CONSTANTS Subject,    \* the transports, actions, freezes, windows and regions events are about
          MeshNode,
          Version     \* policy versions

Full == 1000
Level == 0..Full
NoNode == "no node"
NoVersion == ""

EventType ==
    {"observation", "anomaly", "topology_update", "transport_health", "node_state",
     "action_proposed", "action_executed", "action_completed", "approval", "rejection",
     "freeze_created", "freeze_cleared", "maintenance_start", "maintenance_end",
     "policy_change", "operator_action", "peer_joined", "peer_left", "region_health",
     "adapter_state", "sync_received", "snapshot_created"}

Payload == [type : EventType, about : Subject, node : MeshNode \cup {NoNode},
            detail : STRING, level : Int, version : Version, clock : Nat]

Life == {"proposed", "running", "completed", "approved", "rejected"}
Score == [health : Level, trust : Level, activity : Level, anomaly : Level]

(* f is a function from some of S to T. *)
IsPartial(f, S, T) == DOMAIN f \subseteq S /\ f \in [DOMAIN f -> T]

(* A node's scores are levels; the health of a transport or a region may be any
   number, as transport_health and region_health store what the event says.   *)
IsState(s) ==
    /\ s.clock \in Nat /\ s.last \in Nat /\ s.policy \in Version \cup {NoVersion}
    /\ IsPartial(s.transports, Subject, Int)
    /\ IsPartial(s.scores, MeshNode, Score)
    /\ s.registry \subseteq MeshNode \cup {NoNode}
    /\ IsPartial(s.actions, Subject, Life)
    /\ s.freezes \subseteq Subject /\ s.windows \subseteq Subject
    /\ IsPartial(s.regions, Subject, Int)

Nothing == [x \in {} |-> 0]

NewState ==
    [clock |-> 0, last |-> 0, policy |-> NoVersion, transports |-> Nothing, scores |-> Nothing,
     registry |-> {}, actions |-> Nothing, freezes |-> {}, windows |-> {}, regions |-> Nothing]

Put(f, x, v) == [y \in DOMAIN f \cup {x} |-> IF y = x THEN v ELSE f[y]]
At(f, x, default) == IF x \in DOMAIN f THEN f[x] ELSE default
Without(f, x) == [y \in DOMAIN f \ {x} |-> f[y]]

(* k parts in a hundred of x, the rest of y. *)
Blend(k, x, y) == (k * x + (100 - k) * y) \div 100

(* Mutant: nothing is clamped from below. *)
ClampAbove(x) == IF x > Full THEN Full ELSE x

Clamp(x) == IF x < 0 THEN 0 ELSE IF x > Full THEN Full ELSE x

------------------------------------------------------------------------------
(* One handler per kind of event. *)

HandleObservation(s, e) ==
    LET fresh == [health |-> Full, trust |-> 500, activity |-> 0, anomaly |-> 0]
        seen == At(s.scores, e.node, fresh)
        noted == IF e.node = NoNode THEN s
                 ELSE [s EXCEPT !.registry = @ \cup {e.node},
                                !.scores = Put(@, e.node,
                                    [seen EXCEPT !.health = Clamp(Blend(99, @, Full)),
                                                 !.activity = Clamp(Blend(95, @, Full))])]
    IN  [noted EXCEPT !.transports =
            Put(@, e.about, Clamp(Blend(99, At(@, e.about, Full), Full)))]

HandleAnomaly(s, e) ==
    LET unseen == [health |-> 0, trust |-> 0, activity |-> 0, anomaly |-> 0]
        bad == At(s.scores, e.node, unseen)
        noted == IF e.node = NoNode THEN s
                 ELSE [s EXCEPT !.scores = Put(@, e.node,
                          [bad EXCEPT !.health = Clamp(@ - e.level \div 40),
                                      !.anomaly = Clamp(Blend(80, @, e.level))])]
    IN  [noted EXCEPT !.transports =
            Put(@, e.about, Clamp(At(@, e.about, 800) - e.level \div 20))]

HandleTopologyUpdate(s, e) ==
    IF e.detail = "left"
    THEN [s EXCEPT !.registry = @ \ {e.node}, !.scores = Without(@, e.node)]
    ELSE [s EXCEPT !.registry = @ \cup {e.node}]

HandleTransportHealth(s, e) == [s EXCEPT !.transports = Put(@, e.about, e.level)]

HandleNodeState(s, e) == [s EXCEPT !.registry = @ \cup {e.node}]

HandleAdapterState(s, e) ==
    LET was == At(s.transports, e.about, 0)
    IN  [s EXCEPT !.transports = Put(@, e.about,
            CASE e.detail = "connected"    -> Clamp(Blend(90, was, Full))
              [] e.detail = "disconnected" -> Clamp(was \div 2)
              [] e.detail = "degraded"     -> Clamp(Blend(70, was, 0))
              [] OTHER                     -> was)]

HandleActionProposed(s, e) == [s EXCEPT !.actions = Put(@, e.about, "proposed")]

(* Whatever an action's state was, the event decides it; an action nobody
   proposed here is left out.                                              *)
Moves(s, a, life) ==
    IF a \in DOMAIN s.actions THEN [s EXCEPT !.actions[a] = life] ELSE s

Handle(s, e) ==
    CASE e.type = "observation"       -> HandleObservation(s, e)
      [] e.type = "anomaly"           -> HandleAnomaly(s, e)
      [] e.type = "topology_update"   -> HandleTopologyUpdate(s, e)
      [] e.type = "transport_health"  -> HandleTransportHealth(s, e)
      [] e.type = "node_state"        -> HandleNodeState(s, e)
      [] e.type = "adapter_state"     -> HandleAdapterState(s, e)
      [] e.type = "action_proposed"   -> HandleActionProposed(s, e)
      [] e.type = "action_executed"   -> Moves(s, e.about, "running")
      [] e.type = "action_completed"  -> Moves(s, e.about, "completed")
      [] e.type = "approval"          -> Moves(s, e.about, "approved")
      [] e.type = "rejection"         -> Moves(s, e.about, "rejected")
      [] e.type = "freeze_created"    -> [s EXCEPT !.freezes = @ \cup {e.about}]
      [] e.type = "freeze_cleared"    -> [s EXCEPT !.freezes = @ \ {e.about}]
      [] e.type = "maintenance_start" -> [s EXCEPT !.windows = @ \cup {e.about}]
      [] e.type = "maintenance_end"   -> [s EXCEPT !.windows = @ \ {e.about}]
      [] e.type = "policy_change"     -> [s EXCEPT !.policy = e.version]
      [] e.type = "region_health"     -> [s EXCEPT !.regions = Put(@, e.about, e.level)]
      [] OTHER                        -> s

(* Apply: the Lamport clock and the last number, then the handler. *)
Apply(s, seq, e) ==
    Handle([s EXCEPT !.clock = (IF e.clock > @ THEN e.clock ELSE @) + 1,
                     !.last = seq], e)
==============================================================================
