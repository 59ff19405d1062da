---------------------------- MODULE MCGuardClaims ----------------------------
(* Both links of a node have given up at the same time, and say so for long
   enough; restarts are allowed, two of them in the window.                 *)
EXTENDS GuardedControl

Lost(t) == [transport |-> t, reason |-> "retry_threshold_exceeded", severity |-> "critical"]
Told(bucket) == [bucket |-> bucket, reason |-> "retry_threshold_exceeded", count |-> 1, drops |-> 0]

MCTopicOf == [t \in Transport |-> "msh"]
MCViews == {[clusters |-> {Lost(t) : t \in Transport},
             alerts |-> {Lost(t) : t \in Transport},
             health |-> [t \in Transport |-> "failed"],
             noisy |-> {},
             anomalies |-> [t \in Transport |-> {Told(1), Told(2)}],
             senders |-> [t \in Transport |-> <<>>],
             connected |-> {},
             failing |-> Transport]}

(* src/mesh-edge/docs/ops/control-plane.md:72, of max_actions_per_window: "Maximum
   actions across all targets per time window".                              *)
BudgetHolds == Cardinality(ExecutedInWindow) <= MaxActionsPerWindow
==============================================================================
