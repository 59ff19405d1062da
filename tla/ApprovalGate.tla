----------------------------- MODULE ApprovalGate -----------------------------
(***************************************************************************)
(* What the control plane promises about actions under an approval policy: *)
(* an action is held until it is opened or shut, each for good, and its    *)
(* actuator runs only while its gate is open.                              *)
(***************************************************************************)
CONSTANT Gated

VARIABLES gate,   \* [Gated -> {"absent", "held", "open", "shut"}]
          acted   \* [Gated -> BOOLEAN]: has its actuator run

Init == /\ gate = [id \in Gated |-> "absent"]
        /\ acted = [id \in Gated |-> FALSE]

(* A proposal enters held; one refused by policy, a freeze or a window enters shut. *)
Enter(id) == /\ gate[id] = "absent"
             /\ \E g \in {"held", "shut"} : gate' = [gate EXCEPT ![id] = g]
             /\ UNCHANGED acted

Open(id) == /\ gate[id] = "held"
            /\ gate' = [gate EXCEPT ![id] = "open"]
            /\ UNCHANGED acted

(* A rejection shuts one; one pass of the expiry worker shuts several. *)
Shut(S) == /\ \A id \in S : gate[id] = "held"
           /\ gate' = [id \in Gated |-> IF id \in S THEN "shut" ELSE gate[id]]
           /\ UNCHANGED acted

Act(id) == /\ gate[id] = "open"
           /\ acted' = [acted EXCEPT ![id] = TRUE]
           /\ UNCHANGED gate

Next == \/ \E id \in Gated : Enter(id) \/ Open(id) \/ Act(id)
        \/ \E S \in SUBSET Gated : Shut(S)

Spec == Init /\ [][Next]_<<gate, acted>>
==============================================================================
