----------------------------- MODULE KernelReplay -----------------------------
(***************************************************************************)
(* Replay: the events of a log applied in the order of their numbers, from *)
(* the state of a new kernel or from one the caller gives.                 *)
(***************************************************************************)
EXTENDS EventLog, Kernel, Folds

CONSTANT Data   \* [Event -> Payload]: what each event says

ASSUME DataAssumption == Data \in [Event -> Payload]

(* Mutant: the newest of the events are applied first. *)
ApplyBatchBackwards(s, rows) ==
    MapThenFoldSet(LAMBDA r, t : Apply(t, r.seq, Data[r.id]), s, LAMBDA r : r,
                   LAMBDA R : CHOOSE r \in R : \A q \in R : r.seq <= q.seq, rows)

(* Events in the order of their numbers: the last one is applied to what the
   others make of the state.                                               *)
ApplyBatch(s, rows) ==
    MapThenFoldSet(LAMBDA r, t : Apply(t, r.seq, Data[r.id]), s, LAMBDA r : r,
                   LAMBDA R : CHOOSE r \in R : \A q \in R : q.seq <= r.seq, rows)

(* Execute over the first n events after a number.  With no event there the
   result is empty, whatever state the caller gave.                        *)
Execute(l, after, n, from, empty) ==
    LET events == Query(l, after, n)
    IN  IF events = {} THEN empty ELSE ApplyBatch(from, events)
==============================================================================
