---------------------------- MODULE EventLogProofs ----------------------------
(***************************************************************************)
(* Lemmas about the event log, for every log: what each operation keeps    *)
(* true of its rows and what a page of it holds.                           *)
(***************************************************************************)
EXTENDS EventLog, FiniteSetTheorems, WellFoundedInduction, TLAPS

------------------------------------------------------------------------------
(* Induction over finite sets: of the finite sets in a set T, one has no strict
   subset in T.                                                              *)
LEMMA SmallestSubset ==
    ASSUME NEW S, NEW T, T \subseteq FiniteSubsetsOf(S), T # {}
    PROVE  \E s \in T : \A t \in T : t \subseteq s => t = s
<1>1. PICK s \in T : \A t \in T : <<t, s>> \notin StrictSubsetOrdering(S)
  BY FS_StrictSubsetOrderingWellFounded, WFMin
<1>2. \A t \in T : t \in SUBSET S
  BY DEF FiniteSubsetsOf
<1>3. \A t \in T : ~(t \subseteq s /\ t # s)
  BY <1>1, <1>2 DEF StrictSubsetOrdering
<1> QED  BY <1>3

(* What the operations of a log keep true of its rows, for every log. *)

(* A nonempty bounded set of numbers has a highest one. *)
LEMMA HighestOf ==
    ASSUME NEW bound \in Nat, NEW S, S \subseteq 0..bound, S # {}
    PROVE  Highest(S) \in S /\ \A k \in S : k <= Highest(S)
<1> DEFINE D == {d \in Nat : bound - d \in S}
<1>1. PICK x \in D : \A y \in D : ~ (<<y, x>> \in OpToRel(<, Nat))
  <2>1. PICK s \in S : TRUE
    OBVIOUS
  <2>2. bound - s \in D
    OBVIOUS
  <2> HIDE DEF D
  <2>3. D \subseteq Nat
    BY DEF D
  <2> QED  BY <2>2, <2>3, WFMin, NatLessThanWellFounded, Zenon
<1>2. \A y \in D : ~ (y < x)
  BY <1>1 DEF OpToRel
<1>3. \A k \in S : k <= bound - x
  <2> TAKE k \in S
  <2>1. bound - k \in D
    OBVIOUS
  <2> QED  BY <2>1, <1>2
<1>4. \E m \in S : \A k \in S : k <= m
  BY <1>3
<1> QED  BY <1>4 DEF Highest

(* The empty log is typed and counted. *)
LEMMA EmptyLogTypes == EmptyLog \in Log /\ Counted(EmptyLog)
  BY FS_EmptySet DEF EmptyLog, Log, Counted

(* An append keeps a log typed and counted. *)
LEMMA StoredTypes ==
    ASSUME NEW l \in Log, NEW e \in Event, Counted(l)
    PROVE  Stored(l, e) \in Log /\ Counted(Stored(l, e))
<1>1. NextRow(l, e) \in Row
  BY DEF NextRow, Log, Row
<1>2. Stored(l, e) \in Log
  BY <1>1 DEF Stored, Log
<1>3. IsFiniteSet(Stored(l, e).rows)
  BY FS_AddElement DEF Stored, Counted
<1> QED  BY <1>2, <1>3 DEF Stored, NextRow, Counted, Log, Row

(* A failed append keeps a log typed and counted. *)
LEMMA BurntTypes ==
    ASSUME NEW l \in Log, Counted(l)
    PROVE  Burnt(l) \in Log /\ Counted(Burnt(l))
  BY DEF Burnt, Log, Row, Counted

(* Compaction only takes rows away. *)
LEMMA CompactedTypes ==
    ASSUME NEW l \in Log, NEW A, Counted(l)
    PROVE  /\ Compacted(l, A) \in Log /\ Counted(Compacted(l, A))
           /\ Compacted(l, A).rows \subseteq l.rows
           /\ Compacted(l, A).counter = l.counter
<1>1. /\ Compacted(l, A) \in Log
      /\ Compacted(l, A).rows \subseteq l.rows
      /\ Compacted(l, A).counter = l.counter
  BY DEF Compacted, Log
<1>2. IsFiniteSet(Compacted(l, A).rows)
  BY <1>1, FS_Subset DEF Counted
<1> QED  BY <1>1, <1>2 DEF Counted

(* Reopening a log keeps the rows counted: the counter never falls below one. *)
LEMMA ReopenedTypes ==
    ASSUME NEW l \in Log, Counted(l)
    PROVE  /\ Reopened(l) \in Log /\ Counted(Reopened(l))
           /\ Reopened(l).rows = l.rows
<1> DEFINE S == {r.seq : r \in l.rows}
<1>1. CASE l.rows = {}
  BY <1>1 DEF Reopened, Log, Counted
<1>2. CASE l.rows # {}
  <2>1. S \subseteq 0..l.counter /\ S # {} /\ l.counter \in Nat
    BY <1>2 DEF Counted, Log, Row
  <2>2. Highest(S) \in S /\ \A k \in S : k <= Highest(S)
    BY <2>1, HighestOf
  <2>3. Highest(S) \in Nat /\ \A r \in l.rows : r.seq <= Highest(S)
    BY <2>1, <2>2
  <2>4. Reopened(l) = [l EXCEPT !.counter = Highest(S)]
    BY <1>2 DEF Reopened
  <2> QED  BY <2>3, <2>4 DEF Log, Counted
<1> QED  BY <1>1, <1>2

(* A page is a prefix: with a row it has every row between it and `after`. *)
LEMMA QueryIsPrefix ==
    ASSUME NEW l \in Log, Counted(l), NEW after \in Nat, NEW n \in Nat,
           NEW r \in Query(l, after, n)
    PROVE  /\ r \in l.rows
           /\ \A q \in l.rows : q.seq > after /\ q.seq <= r.seq => q \in Query(l, after, n)
<1> DEFINE rest == {x \in l.rows : x.seq > after}
           Upto(x) == {y \in rest : y.seq <= x.seq}
<1>1. r \in rest /\ Cardinality(Upto(r)) <= n
  BY DEF Query
<1>2. ASSUME NEW q \in rest, q.seq <= r.seq
      PROVE  Cardinality(Upto(q)) <= n
  <2>1. Upto(q) \in SUBSET Upto(r)
    BY <1>1, <1>2 DEF Log, Row
  <2>2. IsFiniteSet(Upto(r))
    BY FS_Subset DEF Counted
  <2>3. Cardinality(Upto(q)) <= Cardinality(Upto(r))
    BY <2>1, <2>2, FS_Subset
  <2>4. Cardinality(Upto(q)) \in Nat /\ Cardinality(Upto(r)) \in Nat
    BY <2>1, <2>2, FS_Subset, FS_CardinalityType
  <2> QED  BY <1>1, <2>3, <2>4
<1> QED  BY <1>1, <1>2 DEF Query

(* A page that can hold all the rows after a number does.                    *)
LEMMA QueryTakesAll ==
    ASSUME NEW l, IsFiniteSet(l.rows), NEW after, NEW n \in Nat,
           Cardinality({r \in l.rows : r.seq > after}) <= n
    PROVE  Query(l, after, n) = {r \in l.rows : r.seq > after}
<1> DEFINE rest == {r \in l.rows : r.seq > after}
<1>1. IsFiniteSet(rest)
  BY FS_Subset
<1>2. ASSUME NEW r \in rest
      PROVE  Cardinality({q \in rest : q.seq <= r.seq}) <= n
  <2> DEFINE upto == {q \in rest : q.seq <= r.seq}
  <2>1. Cardinality(upto) <= Cardinality(rest) /\ IsFiniteSet(upto)
    BY <1>1, FS_Subset
  <2>2. Cardinality(upto) \in Nat /\ Cardinality(rest) \in Nat
    BY <1>1, <2>1, FS_CardinalityType
  <2> QED  BY <2>1, <2>2
<1> QED  BY <1>2 DEF Query
==============================================================================
