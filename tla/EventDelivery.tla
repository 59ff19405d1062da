----------------------------- MODULE EventDelivery -----------------------------
(***************************************************************************)
(* What federation promises about events.  Each is created once, by one    *)
(* node, or is wasted at its creation.  A node comes to know an event of   *)
(* another when a peer that knows it offers it, one event at a time; what  *)
(* it has known stays known.                                               *)
(***************************************************************************)
EXTENDS Naturals

CONSTANTS Node, Event,
          Offered   \* [Node -> [Node -> SUBSET Event]]: what n may get from p

VARIABLES known,   \* [Node -> SUBSET Event]
          made     \* events created so far

Init == /\ known = [n \in Node |-> {}]
        /\ made = 0

Create(n) == /\ made' = made + 1
             /\ known' = [known EXCEPT ![n] = @ \cup {made'}]

Waste == made' = made + 1 /\ UNCHANGED known

Pass(p, n, e) == /\ e \in (known[p] \cap Offered[n][p]) \ known[n]
                 /\ known' = [known EXCEPT ![n] = @ \cup {e}]
                 /\ UNCHANGED made

Next == \/ Waste
        \/ \E n \in Node : Create(n)
        \/ \E p, n \in Node, e \in Event : Pass(p, n, e)

Spec == Init /\ [][Next]_<<known, made>>
==============================================================================
