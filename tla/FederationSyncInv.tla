--------------------------- MODULE FederationSyncInv ---------------------------
(***************************************************************************)
(* The inductive invariant behind CursorCovers and RefinesDelivery.        *)
(***************************************************************************)
EXTENDS FederationSync

(* Every stored row is counted, below the top and remembered, and a node's
   counter falls below its top only by numbering anew.                     *)
LogInv ==
    \A n \in Node :
       /\ Counted(log[n])
       /\ \A r \in log[n].rows : r.seq <= top[n] /\ r.id \in held[n]
       /\ n \notin renumbered => top[n] <= log[n].counter

(* A pull knows of its peer only what the peer has stored. *)
PullOK(n, me) ==
    /\ me.phase # "idle" => me.peer \in Configured[n]
    /\ me.phase # "ingest" => me.todo = {} /\ me.hand = {}
    /\ \A q, r \in me.hand : q = r
    /\ me.after <= top[me.peer] /\ me.last <= top[me.peer]
    /\ \A r \in me.todo \cup me.hand : r.id \in held[me.peer] /\ r.id \in Scope[n][me.peer]

PullInv ==
    \A n \in Node : /\ \A p \in Node : cursor[n][p] <= top[p]
                    /\ \A w \in Slot : PullOK(n, pull[n][w])

(* n has handled p's events up to number k, those of the rows S aside. *)
Passed(n, p, k, S) ==
    \A r \in log[p].rows :
       r.seq <= k /\ r.id \in Scope[n][p] =>
          r.id \in Handled(n) \/ \E q \in S : q.id = r.id

PullCovers(n, me) ==
    me.peer \notin renumbered =>
       /\ me.phase = "asked" => Passed(n, me.peer, me.after, {})
       /\ me.phase = "ingest" => Passed(n, me.peer, me.last, me.todo)

CoverInv ==
    \A n \in Node :
       /\ Seen(n) \subseteq Handled(n)
       /\ \A p \in Configured[n] \ renumbered : Passed(n, p, cursor[n][p], {})
       /\ \A w \in Slot : PullCovers(n, pull[n][w])

SyncInv == LogInv /\ PullInv /\ CoverInv
==============================================================================
