-------------------------------- MODULE MCSync --------------------------------
EXTENDS FederationSync, TLC

CONSTANTS a, b

MCConfigured == a :> {b} @@ b :> {a}
MCTickers == a :> {} @@ b :> {"tick"}
MCOneWay == [n \in Node |-> [p \in Node |-> IF n = b THEN Event ELSE {}]]
==============================================================================
