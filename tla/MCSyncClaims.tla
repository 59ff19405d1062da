----------------------------- MODULE MCSyncClaims -----------------------------
(* Two connected nodes, no fault, and a sync scope that leaves out the first
   of the peer's events, which fills an answer of one event.               *)
EXTENDS FederationSync, TLC

CONSTANTS a, b

MCConfigured == a :> {b} @@ b :> {a}
MCTickers == a :> {} @@ b :> {"tick"}
MCScope == [n \in Node |-> [p \in Node |-> IF n = b THEN {2} ELSE {}]]

(* src/mesh-edge/docs/ops/distributed-operations.md:102, of a peer that was
   unreachable: "On reconnection, missed events are synced".               *)
MissedEventsAreSynced ==
    \A n \in Node : \A p \in Configured[n] : \A e \in Scope[n][p] :
        (e \in Ids(log[p])) ~> (e \in held[n])
==============================================================================
