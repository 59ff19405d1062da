------------------------------- MODULE EventLog -------------------------------
(***************************************************************************)
(* The durable event log of one node: a table of rows keyed by event id    *)
(* with a UNIQUE sequence number, and the in-memory counter that numbers   *)
(* the next row.  Append and Compact hold the log's mutex throughout, so   *)
(* each is one step; an event is its position in the order of creation.    *)
(***************************************************************************)
EXTENDS Naturals, FiniteSets

CONSTANTS MaxEvents,   \* bound: events ever created, by all nodes together
          KeepMin      \* the keepMin argument of the compaction worker

ASSUME LogAssumption == MaxEvents \in Nat /\ KeepMin \in Nat

Event == 1..MaxEvents
Row == [id : Event, seq : Nat]
Log == [rows : SUBSET Row, counter : Nat]

EmptyLog == [rows |-> {}, counter |-> 0]
Ids(l) == {r.id : r \in l.rows}
Highest(S) == CHOOSE m \in S : \A k \in S : k <= m

(* Append takes its number before the INSERT.  The INSERT is refused when
   the event id or the number is already in the table; the number is spent
   either way.                                                             *)
NextRow(l, e) == [id |-> e, seq |-> l.counter + 1]
Refuses(l, e) == e \in Ids(l) \/ \E r \in l.rows : r.seq = l.counter + 1
Stored(l, e) == [rows |-> l.rows \cup {NextRow(l, e)}, counter |-> l.counter + 1]
Burnt(l) == [l EXCEPT !.counter = @ + 1]

(* ORDER BY sequence_num ASC LIMIT n, after a sequence number. *)
Query(l, after, n) ==
    LET rest == {r \in l.rows : r.seq > after}
    IN  {r \in rest : Cardinality({q \in rest : q.seq <= r.seq}) <= n}

(* Compact deletes rows past retention below the counter minus KeepMin. *)
Compacted(l, aged) ==
    [l EXCEPT !.rows = {r \in @ : ~(r.id \in aged /\ r.seq + KeepMin < l.counter)}]

(* Open recovers the counter from the highest number left in the table. *)
Reopened(l) ==
    [l EXCEPT !.counter = IF l.rows = {} THEN 0 ELSE Highest({r.seq : r \in l.rows})]

(* The rows of a log are counted: finitely many, numbered from 1 up to the
   counter.                                                                *)
Counted(l) == IsFiniteSet(l.rows) /\ \A r \in l.rows : r.seq >= 1 /\ r.seq <= l.counter
==============================================================================
