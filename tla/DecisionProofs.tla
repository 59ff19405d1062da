----------------------------- MODULE DecisionProofs -----------------------------
(***************************************************************************)
(* What the guard lets through, for every mesh, every configuration and    *)
(* every number of evaluations at once, whichever look-ups fail; and when  *)
(* a resolved incident may come back and when an operator's work may go,   *)
(* for every number of causes, operators, seconds and failed statements.   *)
(***************************************************************************)
EXTENDS GuardedControl, Incidents, SequenceTheorems, FiniteSetTheorems, TLAPS

------------------------------------------------------------------------------
(* The guard. *)

Candidate == UNION {CandidateActions(v) : v \in Views}
Life == {"pending", "pending_approval", "running", "completed"}
Result == {"", "approved", "pending_approval", "rejected", "denied_by_cooldown", "denied_by_policy",
           "denied_by_freeze", "executed_successfully", "executed_noop", "failed_transient"}
Row == [action : Candidate, created : Nat, life : Life, result : Result, done : Int]
Code == {"", "policy", "cooldown", "budget", "conflict"}
Decision == [action : Candidate, code : Code]
History == [target : {c.target : c \in Candidate}, rows : SUBSET Row]

(* What an evaluation holds of its candidates. *)
Holds(e) ==
    /\ eval[e].at \in Nat /\ eval[e].at <= now
    /\ eval[e].left \subseteq Candidate
    /\ eval[e].past \in Seq(History)
    /\ eval[e].decided \in Seq(Decision)
    /\ eval[e].row \in {0} \cup DOMAIN rows
    /\ eval[e].row # 0 => eval[e].decided # <<>>

AllHold == DOMAIN eval = Evaluator /\ \A e \in Evaluator : Holds(e)

RowTypes ==
    /\ rows \in Seq(Row)
    /\ now \in Nat
    /\ \A i \in DOMAIN rows : rows[i].created <= now
    /\ queue \in Seq(DOMAIN rows)
    /\ running \in {0} \cup DOMAIN rows
    /\ AllHold

(* What the guard promises of an action created at this time: what the policy, the
   mode and the overrides say, and a target that has rested, as far as is looked. *)
Excused(target, at) == target = NoTarget \/ <<target, at>> \in unread \/ ~(Len(rows) <= 50)
LetThrough(c, at) == Permitted(c) /\ (Excused(c.target, at) \/ Rested(c, at))

(* A history that was looked up holds all that had run in the cooldown. *)
Tells(past, target, at) ==
    \A j \in DOMAIN rows :
        /\ HasRun(rows[j]) /\ rows[j].action.target = target
        /\ rows[j].created >= at - CooldownPerTarget /\ rows[j].done < at
        => rows[j] \in past
Knowing(s, at) == \A k \in DOMAIN s :
                     Excused(s[k].target, at) \/ Tells(s[k].rows, s[k].target, at)
HistoryInv == \A e \in Evaluator : Knowing(eval[e].past, eval[e].at)

(* It holds of what is decided, and of what is held, sent, queued or run. *)
Sound(s, at) == \A i \in DOMAIN s : s[i].code = "" => LetThrough(s[i].action, at)
DecidedInv == \A e \in Evaluator : Sound(eval[e].decided, eval[e].at)
Live(row) == row.life # "completed" \/ row.result \in Executed
InHand(i) == i = running \/ (\E k \in DOMAIN queue : i = queue[k]) \/ (\E e \in Evaluator : i = eval[e].row)
ThroughInv == \A i \in DOMAIN rows : Live(rows[i]) \/ InHand(i) => LetThrough(rows[i].action, rows[i].created)
GuardInv == HistoryInv /\ DecidedInv /\ ThroughInv

(* What no step does to the table: an action and when it was created stay, and one
   that has run either had, or ends now.                                      *)
RowsGrow ==
    /\ rows' \in Seq(Row) /\ DOMAIN rows \subseteq DOMAIN rows' /\ Len(rows) <= Len(rows')
    /\ \A i \in DOMAIN rows : rows'[i].action = rows[i].action /\ rows'[i].created = rows[i].created
    /\ \A i \in DOMAIN rows' : rows'[i].created <= now
    /\ \A i \in DOMAIN rows' : HasRun(rows'[i]) =>
          (i \in DOMAIN rows /\ rows'[i] = rows[i]) \/ rows'[i].done = now

(* What an evaluation that decides about c makes of itself. *)
Decides(e, c, past, within) ==
    eval' = [eval EXCEPT ![e] =
        Evaluating(eval[e].at, eval[e].view, eval[e].active, eval[e].left \ {c},
            Append(eval[e].past, [target |-> c.target, rows |-> past]),
            Append(eval[e].decided, [action |-> c,
                code |-> Denial(c, eval[e].view, eval[e].active, past, within, eval[e].at)]))]

------------------------------------------------------------------------------
(* Lemmas of single values. *)

LEMMA RowsAreRows ==
    /\ \A c \in Candidate, at \in Nat : NewRow(c, at) \in Row
    /\ \A row \in Row, life \in Life, result \in Result :
          Moved(row, life, result) \in Row
    /\ \A row \in Row, result \in Result, at \in Nat : Closed(row, result, at) \in Row
<1>1. \A c \in Candidate, at \in Nat : NewRow(c, at) \in Row
  BY DEF Row, NewRow, Opened, Life, Result
<1>2. \A row \in Row, life \in Life, result \in Result : Moved(row, life, result) \in Row
  BY DEF Row, Moved, Opened
<1>3. \A row \in Row, result \in Result, at \in Nat : Closed(row, result, at) \in Row
  BY DEF Row, Closed, Life
<1> QED  BY <1>1, <1>2, <1>3

LEMMA FieldsOfRows ==
    /\ \A c, at : /\ NewRow(c, at).action = c /\ NewRow(c, at).created = at
                  /\ NewRow(c, at).life = "pending"
    /\ \A row, life, result :
          /\ Moved(row, life, result).action = row.action
          /\ Moved(row, life, result).created = row.created
          /\ Moved(row, life, result).life = life
    /\ \A row, result, at :
          /\ Closed(row, result, at).action = row.action
          /\ Closed(row, result, at).created = row.created
          /\ Closed(row, result, at).life = "completed"
          /\ Closed(row, result, at).result = result
          /\ Closed(row, result, at).done = at
  BY DEF NewRow, Opened, Moved, Closed

LEMMA RowsHold ==
    ASSUME rows \in Seq(Row)
    PROVE  \A i \in DOMAIN rows : /\ rows[i] \in Row /\ rows[i].done \in Int
                                  /\ rows[i].created \in Nat /\ rows[i].result \in Result
                                  /\ rows[i].action \in Candidate /\ rows[i].life \in Life
<1>1. \A i \in DOMAIN rows : rows[i] \in Row
  OBVIOUS
<1> QED  BY <1>1 DEF Row

LEMMA DenialIsCode ==
    ASSUME NEW c, NEW v, NEW active, NEW past, NEW within, NEW at
    PROVE  Denial(c, v, active, past, within, at) \in Code
  BY DEF Denial, Code

LEMMA CooldownIsNat == CooldownPerTarget \in Nat
  BY GuardAssumption DEF CooldownPerTarget

LEMMA RestIsOver ==
    ASSUME NEW done \in Int, NEW at \in Nat, NEW rest \in Nat, done < at,
           rest = 0 \/ at - done >= rest
    PROVE  done + rest <= at
  OBVIOUS

(* What a look-up that succeeds returns is all there is, if fifty rows are enough. *)
LEMMA LookUpIsWhole ==
    ASSUME rows \in Seq(Row), Len(rows) <= 50, NEW target, NEW since,
           NEW past \in RowsOf(Newest(since, target, 50))
    PROVE  \A j \in DOMAIN rows :
              rows[j].created >= since /\ rows[j].action.target = target => rows[j] \in past
<1> DEFINE hits == {i \in DOMAIN rows : /\ rows[i].created >= since
                                        /\ target \in {NoTarget, rows[i].action.target}}
           n == IF Cardinality(hits) < 50 THEN Cardinality(hits) ELSE 50
<1>1. PICK K \in SUBSET hits : Cardinality(K) = n /\ past = {rows[i] : i \in K}
  BY DEF RowsOf, Newest
<1>2. DOMAIN rows = 1..Len(rows) /\ Len(rows) \in Nat
  OBVIOUS
<1>3. IsFiniteSet(1..Len(rows)) /\ Cardinality(1..Len(rows)) = Len(rows)
  <2>1. 1 \in Int /\ Len(rows) \in Int
    BY <1>2
  <2>2. /\ IsFiniteSet(1..Len(rows))
        /\ Cardinality(1..Len(rows)) = IF 1 > Len(rows) THEN 0 ELSE Len(rows) - 1 + 1
    BY <2>1, FS_Interval
  <2> QED  BY <1>2, <2>2
<1>4. IsFiniteSet(hits) /\ Cardinality(hits) <= Len(rows) /\ Cardinality(hits) \in Nat
  BY <1>2, <1>3, FS_Subset, FS_CardinalityType
<1>5. Cardinality(K) = Cardinality(hits)
  BY <1>1, <1>2, <1>4
<1>6. K = hits
  BY <1>4, <1>5, FS_Subset
<1> QED  BY <1>1, <1>6

LEMMA EmptyAndLonger ==
    /\ <<>> \in Seq(History) /\ <<>> \in Seq(Decision)
    /\ \A s \in Seq(History) : \A x \in History : Append(s, x) \in Seq(History)
    /\ \A s \in Seq(Decision) : \A x \in Decision : Append(s, x) \in Seq(Decision)
    /\ \A s \in Seq(Decision) : s # <<>> => Tail(s) \in Seq(Decision) /\ Head(s) \in Decision
<1> DEFINE S == History
           T == Decision
<1> HIDE DEF S, T
<1>1. <<>> \in Seq(S) /\ <<>> \in Seq(T)
  OBVIOUS
<1>2. \A s \in Seq(S) : \A x \in S : Append(s, x) \in Seq(S)
  OBVIOUS
<1>3. \A s \in Seq(T) : \A x \in T : Append(s, x) \in Seq(T)
  OBVIOUS
<1>4. \A s \in Seq(T) : s # <<>> => Tail(s) \in Seq(T) /\ Head(s) \in T
  OBVIOUS
<1> QED  BY <1>1, <1>2, <1>3, <1>4 DEF S, T

(* A candidate that is not denied is let through. *)
LEMMA AllowedIsLetThrough ==
    ASSUME rows \in Seq(Row), NEW c \in Candidate, NEW v, NEW active, NEW past, NEW within,
           NEW at \in Nat, Excused(c.target, at) \/ Tells(past, c.target, at),
           Denial(c, v, active, past, within, at) = ""
    PROVE  LetThrough(c, at)
<1>1. Permitted(c) /\ CooldownSatisfied(past, c, at)
  BY DEF Denial, Admitted, Permitted
<1>2. ASSUME ~Excused(c.target, at) PROVE Rested(c, at)
  <2>0. \A i \in DOMAIN rows : rows[i].done \in Int
    BY RowsHold
  <2> SUFFICES ASSUME NEW j \in DOMAIN rows,
                      HasRun(rows[j]), rows[j].action.target = c.target,
                      rows[j].created >= at - CooldownPerTarget, rows[j].done < at
               PROVE  rows[j].done + CooldownPerTarget <= at
    BY DEF Rested
  <2>2. rows[j] \in past /\ rows[j].result \in Executed
    BY <1>2 DEF Tells, HasRun
  <2>3. c.target # NoTarget
    BY <1>2 DEF Excused
  <2>4. CooldownPerTarget = 0 \/ at - rows[j].done >= CooldownPerTarget
    BY <1>1, <2>2, <2>3 DEF CooldownSatisfied
  <2>5. rows[j].done \in Int /\ CooldownPerTarget \in Nat
    BY <2>0, CooldownIsNat
  <2> QED  BY <2>4, <2>5, RestIsOver
<1> QED  BY <1>1, <1>2 DEF LetThrough

------------------------------------------------------------------------------
(* Lemmas of steps. *)

(* A row is added, or one is changed. *)
LEMMA RowAdded ==
    ASSUME RowTypes, NEW row \in Row, Inserted(row), row.created <= now, ~HasRun(row)
    PROVE  /\ RowsGrow /\ DOMAIN rows' = DOMAIN rows \cup {Len(rows) + 1}
           /\ rows'[Len(rows) + 1] = row /\ \A i \in DOMAIN rows : rows'[i] = rows[i]
<1>1. /\ rows' = Append(rows, row) /\ rows \in Seq(Row) /\ Len(rows) \in Nat
      /\ DOMAIN rows = 1..Len(rows)
  BY DEF Inserted, RowTypes
<1>2. /\ rows' \in Seq(Row) /\ Len(rows') = Len(rows) + 1 /\ rows'[Len(rows) + 1] = row
      /\ DOMAIN rows' = 1..(Len(rows) + 1)
      /\ \A i \in DOMAIN rows : rows'[i] = rows[i]
  BY <1>1
<1>3. DOMAIN rows' = DOMAIN rows \cup {Len(rows) + 1}
  BY <1>1, <1>2
<1>4. \A i \in DOMAIN rows : rows[i].created <= now
  BY DEF RowTypes
<1> HIDE DEF Inserted
<1> QED  BY <1>1, <1>2, <1>3, <1>4 DEF RowsGrow

LEMMA RowChanged ==
    ASSUME RowTypes, NEW i \in DOMAIN rows, NEW row \in Row, rows' = [rows EXCEPT ![i] = row],
           row.action = rows[i].action, row.created = rows[i].created,
           HasRun(row) => row.done = now
    PROVE  /\ RowsGrow /\ DOMAIN rows' = DOMAIN rows /\ rows'[i] = row
           /\ \A j \in DOMAIN rows \ {i} : rows'[j] = rows[j]
<1>1. rows \in Seq(Row) /\ \A j \in DOMAIN rows : rows[j].created <= now
  BY DEF RowTypes
<1>2. /\ rows' \in Seq(Row) /\ Len(rows') = Len(rows) /\ Len(rows) \in Nat
      /\ DOMAIN rows' = DOMAIN rows /\ rows'[i] = row
      /\ \A j \in DOMAIN rows \ {i} : rows'[j] = rows[j]
  BY <1>1
<1> QED  BY <1>1, <1>2 DEF RowsGrow

LEMMA RowsSame == ASSUME RowTypes, UNCHANGED rows PROVE RowsGrow
<1>1. rows \in Seq(Row) /\ Len(rows) \in Nat /\ \A j \in DOMAIN rows : rows[j].created <= now
  BY DEF RowTypes
<1> QED  BY <1>1 DEF RowsGrow

(* While the table grows, an excuse stays one, and what had rested has. *)
LEMMA PromisesStay ==
    ASSUME RowTypes, RowsGrow, unread \subseteq unread', NEW at \in Nat, at <= now
    PROVE  /\ \A target : Excused(target, at) => Excused(target, at)'
           /\ \A past, target : Tells(past, target, at) => Tells(past, target, at)'
           /\ \A c : LetThrough(c, at) => LetThrough(c, at)'
<1>1. \A target : Excused(target, at) => Excused(target, at)'
  <2>1. Len(rows) \in Nat /\ Len(rows') \in Nat /\ Len(rows) <= Len(rows')
    BY DEF RowTypes, RowsGrow
  <2> QED  BY <2>1 DEF Excused
<1>2. ASSUME NEW j \in DOMAIN rows', HasRun(rows'[j]), rows'[j].done < at
      PROVE  j \in DOMAIN rows /\ rows'[j] = rows[j]
  <2>0. rows'[j] \in Row
    BY DEF RowsGrow
  <2>1. rows'[j].done \in Int /\ now \in Nat
    BY <2>0 DEF RowTypes, Row
  <2> QED  BY <1>2, <2>1 DEF RowsGrow
<1>3. \A past, target : Tells(past, target, at) => Tells(past, target, at)'
  BY <1>2 DEF Tells
<1>4. \A c : Rested(c, at) => Rested(c, at)'
  BY <1>2 DEF Rested
<1> QED  BY <1>1, <1>3, <1>4 DEF LetThrough, Permitted, PolicyPass, OverrideActive, IsMeshLevel

(* A decision that is taken up is one about a candidate. *)
LEMMA DecisionTaken ==
    ASSUME RowTypes, NEW e \in Evaluator, Decided(e)
    PROVE  /\ eval[e].decided \in Seq(Decision) /\ eval[e].decided # <<>>
           /\ Head(eval[e].decided) \in Decision /\ Tail(eval[e].decided) \in Seq(Decision)
           /\ Head(eval[e].decided).action \in Candidate
           /\ eval[e].at \in Nat /\ eval[e].at <= now
<1>1. /\ eval[e].decided \in Seq(Decision) /\ eval[e].decided # <<>>
      /\ eval[e].at \in Nat /\ eval[e].at <= now
  BY DEF Decided, RowTypes, AllHold, Holds
<1>2. Head(eval[e].decided) \in Decision /\ Tail(eval[e].decided) \in Seq(Decision)
  BY <1>1
<1> QED  BY <1>1, <1>2 DEF Decision

(* The row that an evaluation writes is that of the decision it takes up, and is
   closed without having run unless it was allowed.                          *)
LEMMA WritesAdd ==
    ASSUME RowTypes, NEW e \in Evaluator, WriteDenied(e) \/ WriteStopped(e) \/ WriteAllowed(e)
    PROVE  \/ UNCHANGED rows
           \/ \E row \in Row :
                 /\ Inserted(row) /\ ~HasRun(row)
                 /\ row.action = Head(eval[e].decided).action /\ row.created = eval[e].at
                 /\ Live(row) => Head(eval[e].decided).code = ""
<1> DEFINE d == Head(eval[e].decided)
           new == NewRow(d.action, eval[e].at)
<1>0. Decided(e)
  BY DEF WriteDenied, WriteStopped, WriteAllowed
<1>1. d.action \in Candidate /\ eval[e].at \in Nat
  BY <1>0, DecisionTaken
<1>2. new \in Row /\ new.action = d.action /\ new.created = eval[e].at /\ new.life = "pending"
  BY <1>1, RowsAreRows, FieldsOfRows
<1>3. CASE WriteDenied(e)
  <2>1. PICK result \in {"denied_by_cooldown", "denied_by_policy"} :
           Inserted(Closed(new, result, eval[e].at)) \/ UNCHANGED rows
    BY <1>3 DEF WriteDenied
  <2> DEFINE row == Closed(new, result, eval[e].at)
  <2> HIDE DEF new, d
  <2>2. result \in Result /\ result \notin Executed
    BY DEF Result, Executed
  <2>3. row \in Row
    BY <1>1, <1>2, <2>2, RowsAreRows
  <2>4. /\ row.action = d.action /\ row.created = eval[e].at
        /\ row.life = "completed" /\ row.result = result
    BY <1>2, FieldsOfRows
  <2> HIDE DEF row
  <2>5. ~HasRun(row) /\ ~Live(row)
    BY <2>2, <2>4 DEF HasRun, Live
  <2> QED  BY <2>1, <2>3, <2>4, <2>5 DEF row, d
<1>4. CASE WriteStopped(e)
  <2>0. /\ d.code = ""
        /\ \/ Inserted(Closed(new, "denied_by_freeze", eval[e].at))
           \/ Inserted(Moved(new, "pending_approval", "pending_approval"))
           \/ UNCHANGED rows
    BY <1>4 DEF WriteStopped
  <2> DEFINE frozen == Closed(new, "denied_by_freeze", eval[e].at)
             held == Moved(new, "pending_approval", "pending_approval")
  <2> HIDE DEF new, d
  <2>1. frozen \in Row /\ held \in Row
    BY <1>1, <1>2, RowsAreRows DEF Life, Result
  <2>2. /\ frozen.action = d.action /\ frozen.created = eval[e].at
        /\ frozen.result = "denied_by_freeze"
        /\ held.action = d.action /\ held.created = eval[e].at /\ held.life = "pending_approval"
    BY <1>2, FieldsOfRows
  <2>3. ~HasRun(frozen) /\ ~HasRun(held)
    BY <2>2 DEF HasRun, Executed
  <2> HIDE DEF frozen, held
  <2> QED  BY <2>0, <2>1, <2>2, <2>3 DEF frozen, held, d
<1>5. CASE WriteAllowed(e)
  <2>1. d.code = "" /\ (Inserted(new) \/ UNCHANGED rows)
    BY <1>5 DEF WriteAllowed
  <2> HIDE DEF new, d
  <2>2. ~HasRun(new)
    BY <1>2 DEF HasRun
  <2> QED  BY <1>2, <2>1, <2>2 DEF d
<1> QED  BY <1>3, <1>4, <1>5

(* Of a row that an operator, the executor or a sender changes only the stage moves;
   it was live or in somebody's hand if it is live.                           *)
LEMMA ChangesOne ==
    ASSUME RowTypes,
           \/ \E i \in DOMAIN rows : Approve(i) \/ Reject(i)
           \/ Start \/ Finish
           \/ \E e \in Evaluator : SendAllowed(e)
    PROVE  \/ UNCHANGED rows
           \/ \E i \in DOMAIN rows, row \in Row :
                 /\ rows' = [rows EXCEPT ![i] = row]
                 /\ row.action = rows[i].action /\ row.created = rows[i].created
                 /\ HasRun(row) => row.done = now
                 /\ Live(row) => Live(rows[i]) \/ InHand(i)
<1>0. /\ \A i \in DOMAIN rows : rows[i] \in Row /\ rows[i].result \in Result
      /\ now \in Nat
  BY RowsHold DEF RowTypes
<1>1. ASSUME NEW i \in DOMAIN rows, Approve(i) PROVE
         \E row \in Row : /\ rows' = [rows EXCEPT ![i] = row]
                          /\ row.action = rows[i].action /\ row.created = rows[i].created
                          /\ ~HasRun(row) /\ Live(rows[i])
  <2> DEFINE row == Moved(rows[i], "pending", "approved")
  <2>1. row \in Row
    BY <1>0, RowsAreRows DEF Life, Result
  <2>2. row.action = rows[i].action /\ row.created = rows[i].created /\ row.life = "pending"
    BY FieldsOfRows
  <2>3. rows' = [rows EXCEPT ![i] = row] /\ rows[i].life = "pending_approval"
    BY <1>1 DEF Approve
  <2> HIDE DEF row
  <2> QED  BY <2>1, <2>2, <2>3 DEF HasRun, Live
<1>2. ASSUME NEW i \in DOMAIN rows, Reject(i) PROVE
         \E row \in Row : /\ rows' = [rows EXCEPT ![i] = row]
                          /\ row.action = rows[i].action /\ row.created = rows[i].created
                          /\ ~HasRun(row) /\ ~Live(row)
  <2> DEFINE row == Closed(rows[i], "rejected", now)
  <2>1. row \in Row
    BY <1>0, RowsAreRows DEF Result
  <2>2. row.action = rows[i].action /\ row.created = rows[i].created
        /\ row.life = "completed" /\ row.result = "rejected"
    BY FieldsOfRows
  <2>3. rows' = [rows EXCEPT ![i] = row]
    BY <1>2 DEF Reject
  <2> HIDE DEF row
  <2> QED  BY <2>1, <2>2, <2>3 DEF HasRun, Live, Executed
<1>3. ASSUME Start PROVE
         \E i \in DOMAIN rows, row \in Row :
                          /\ rows' = [rows EXCEPT ![i] = row]
                          /\ row.action = rows[i].action /\ row.created = rows[i].created
                          /\ ~HasRun(row) /\ InHand(i)
  <2> DEFINE i == Head(queue)
             row == Moved(rows[i], "running", rows[i].result)
  <2>1. i \in DOMAIN rows /\ 1 \in DOMAIN queue /\ i = queue[1]
    BY <1>3 DEF Start, RowTypes
  <2>2. row \in Row
    BY <1>0, <2>1, RowsAreRows DEF Life
  <2>3. row.action = rows[i].action /\ row.created = rows[i].created /\ row.life = "running"
    BY FieldsOfRows
  <2>4. rows' = [rows EXCEPT ![i] = row]
    BY <1>3 DEF Start
  <2>5. InHand(i)
    BY <2>1 DEF InHand
  <2> HIDE DEF row, i
  <2> QED  BY <2>1, <2>2, <2>3, <2>4, <2>5 DEF HasRun
<1>4. ASSUME Finish PROVE
         \E i \in DOMAIN rows, row \in Row :
                          /\ rows' = [rows EXCEPT ![i] = row]
                          /\ row.action = rows[i].action /\ row.created = rows[i].created
                          /\ row.done = now /\ InHand(i)
  <2>1. running \in DOMAIN rows
    BY <1>4 DEF Finish, RowTypes
  <2>2. PICK result \in Executed \cup {"failed_transient"} :
           rows' = [rows EXCEPT ![running] = Closed(rows[running], result, now)]
    BY <1>4 DEF Finish
  <2> DEFINE row == Closed(rows[running], result, now)
  <2>3. row \in Row
    BY <1>0, <2>1, RowsAreRows DEF Result, Executed
  <2>4. row.action = rows[running].action /\ row.created = rows[running].created /\ row.done = now
    BY FieldsOfRows
  <2>5. InHand(running)
    BY DEF InHand
  <2> HIDE DEF row
  <2> QED  BY <2>1, <2>2, <2>3, <2>4, <2>5 DEF row
<1>5. ASSUME NEW e \in Evaluator, SendAllowed(e), ~UNCHANGED rows PROVE
         \E i \in DOMAIN rows, row \in Row :
                          /\ rows' = [rows EXCEPT ![i] = row]
                          /\ row.action = rows[i].action /\ row.created = rows[i].created
                          /\ ~HasRun(row) /\ ~Live(row)
  <2> DEFINE i == eval[e].row
             row == Closed(rows[i], "failed_transient", eval[e].at)
  <2>1. i \in DOMAIN rows /\ eval[e].at \in Nat
    BY <1>5 DEF SendAllowed, RowTypes, AllHold, Holds
  <2>2. row \in Row
    BY <1>0, <2>1, RowsAreRows DEF Result
  <2>3. row.action = rows[i].action /\ row.created = rows[i].created
        /\ row.life = "completed" /\ row.result = "failed_transient"
    BY FieldsOfRows
  <2>4. rows' = [rows EXCEPT ![i] = row]
    BY <1>5 DEF SendAllowed
  <2> HIDE DEF row, i
  <2> QED  BY <2>1, <2>2, <2>3, <2>4 DEF HasRun, Live, Executed
<1> QED  BY <1>1, <1>2, <1>3, <1>4, <1>5

(* No step undoes a promise, and none takes an action in hand that was not let
   through: what is live or in hand after it was so before, or is new.        *)
Decreed(row) == \E e \in Evaluator : /\ Decided(e) /\ Head(eval[e].decided).code = ""
                                      /\ row.action = Head(eval[e].decided).action
                                      /\ row.created = eval[e].at
LEMMA StepGrows ==
    ASSUME RowTypes, [GuardNext]_guardVars
    PROVE  /\ RowsGrow /\ now' \in Nat /\ now <= now' /\ unread \subseteq unread'
           /\ \A i \in DOMAIN rows' :
                 Live(rows'[i]) => (i \in DOMAIN rows /\ (Live(rows[i]) \/ InHand(i))) \/ Decreed(rows'[i])
<1>1. now \in Nat /\ rows \in Seq(Row)
  BY DEF RowTypes
<1>2. now' \in Nat /\ now <= now' /\ unread \subseteq unread'
  <2>0. ASSUME NEW e \in Evaluator, EvaluateCandidate(e)
        PROVE  UNCHANGED now /\ unread \subseteq unread'
    <3>1. UNCHANGED now /\ \E c \in eval[e].left : \E past \in Histories(e, c) : LooksUp(e, c, past)
      BY <2>0 DEF EvaluateCandidate
    <3>2. \A c, past : LooksUp(e, c, past) => unread \subseteq unread'
      BY DEF LooksUp
    <3> QED  BY <3>1, <3>2
  <2>1. UNCHANGED <<now, unread>> \/ (UNCHANGED unread /\ Pass)
        \/ \E e \in Evaluator : EvaluateCandidate(e)
    BY DEF GuardNext, Evaluate, EndCandidates, EndEvaluation,
           WriteDenied, WriteStopped, WriteAllowed, SendAllowed, Approve, Reject, Start, Finish,
           Pass, guardVars
  <2>2. Pass => now' \in Nat /\ now <= now'
    BY <1>1, GuardAssumption DEF Pass
  <2> QED  BY <1>1, <2>0, <2>1, <2>2
<1>3. ASSUME UNCHANGED rows
      PROVE  RowsGrow /\ \A i \in DOMAIN rows' : Live(rows'[i]) => i \in DOMAIN rows /\ Live(rows[i])
  BY <1>3, RowsSame
<1>4. ASSUME NEW e \in Evaluator, WriteDenied(e) \/ WriteStopped(e) \/ WriteAllowed(e),
             ~UNCHANGED rows
      PROVE  RowsGrow /\ \A i \in DOMAIN rows' :
                            Live(rows'[i]) => (i \in DOMAIN rows /\ Live(rows[i])) \/ Decreed(rows'[i])
  <2>1. Decided(e)
    BY <1>4 DEF WriteDenied, WriteStopped, WriteAllowed
  <2>2. PICK row \in Row :
          /\ Inserted(row) /\ ~HasRun(row)
          /\ row.action = Head(eval[e].decided).action /\ row.created = eval[e].at
          /\ Live(row) => Head(eval[e].decided).code = ""
    BY <1>4, WritesAdd
  <2>3. row.created <= now
    BY <2>1, <2>2, DecisionTaken
  <2>4. /\ RowsGrow /\ DOMAIN rows' = DOMAIN rows \cup {Len(rows) + 1}
        /\ rows'[Len(rows) + 1] = row /\ \A i \in DOMAIN rows : rows'[i] = rows[i]
    BY <2>2, <2>3, RowAdded
  <2> QED  BY <2>1, <2>2, <2>4 DEF Decreed
<1>5. ASSUME \/ \E i \in DOMAIN rows : Approve(i) \/ Reject(i)
             \/ Start \/ Finish
             \/ \E e \in Evaluator : SendAllowed(e),
             ~UNCHANGED rows
      PROVE  RowsGrow /\ \A i \in DOMAIN rows' :
                            Live(rows'[i]) => i \in DOMAIN rows /\ (Live(rows[i]) \/ InHand(i))
  <2>1. PICK i \in DOMAIN rows, row \in Row :
          /\ rows' = [rows EXCEPT ![i] = row]
          /\ row.action = rows[i].action /\ row.created = rows[i].created
          /\ HasRun(row) => row.done = now
          /\ Live(row) => Live(rows[i]) \/ InHand(i)
    BY <1>5, ChangesOne
  <2>2. /\ RowsGrow /\ DOMAIN rows' = DOMAIN rows /\ rows'[i] = row
        /\ \A j \in DOMAIN rows \ {i} : rows'[j] = rows[j]
    BY <2>1, RowChanged
  <2> QED  BY <2>1, <2>2
<1>6. \/ UNCHANGED rows
      \/ \E e \in Evaluator : WriteDenied(e) \/ WriteStopped(e) \/ WriteAllowed(e)
      \/ \E i \in DOMAIN rows : Approve(i) \/ Reject(i)
      \/ Start \/ Finish
      \/ \E e \in Evaluator : SendAllowed(e)
  BY DEF GuardNext, Evaluate, EvaluateCandidate, EndCandidates, EndEvaluation, Pass, guardVars
<1> QED  BY <1>2, <1>3, <1>4, <1>5, <1>6

LEMMA RowTypesHold == GuardSpec => []RowTypes
<1>1. GuardInit => RowTypes
  <2> SUFFICES ASSUME GuardInit PROVE RowTypes
    OBVIOUS
  <2>1. NoEvaluation.at = 0 /\ NoEvaluation.left = {} /\ NoEvaluation.decided = <<>>
        /\ NoEvaluation.past = <<>> /\ NoEvaluation.row = 0
    BY DEF NoEvaluation, Evaluation
  <2>2. \A e \in Evaluator : eval[e] = NoEvaluation
    BY DEF GuardInit
  <2>3. \A e \in Evaluator : Holds(e)
    <3>1. now = 0 /\ 0 \in Nat /\ 0 <= 0
      BY DEF GuardInit
    <3> QED  BY <2>1, <2>2, <3>1, EmptyAndLonger DEF Holds
  <2>4. rows \in Seq(Row) /\ queue \in Seq(DOMAIN rows) /\ DOMAIN eval = Evaluator
        /\ DOMAIN rows = {}
    BY DEF GuardInit
  <2> QED  BY <2>3, <2>4 DEF GuardInit, RowTypes, AllHold
<1>2. RowTypes /\ [GuardNext]_guardVars => RowTypes'
  <2> SUFFICES ASSUME RowTypes, [GuardNext]_guardVars PROVE RowTypes'
    OBVIOUS
  <2>0. RowsGrow /\ now' \in Nat /\ now <= now'
    BY StepGrows
  <2>1. /\ rows' \in Seq(Row) /\ DOMAIN rows \subseteq DOMAIN rows' /\ now \in Nat
        /\ DOMAIN eval = Evaluator /\ \A e \in Evaluator : Holds(e)
        /\ running \in {0} \cup DOMAIN rows /\ queue \in Seq(DOMAIN rows)
        /\ rows \in Seq(Row)
    BY <2>0 DEF RowsGrow, RowTypes, AllHold
  <2>2. \A i \in DOMAIN rows' : rows'[i].created <= now'
    <3>1. \A i \in DOMAIN rows' : rows'[i] \in Row /\ rows'[i].created <= now
      BY <2>0, <2>1 DEF RowsGrow
    <3>2. \A i \in DOMAIN rows' : rows'[i].created \in Nat
      BY <3>1 DEF Row
    <3> QED  BY <2>0, <2>1, <3>1, <3>2
  <2>3. ASSUME NEW e \in Evaluator, eval'[e] = eval[e] PROVE Holds(e)'
    <3>1. Holds(e)
      BY <2>1
    <3>2. eval[e].at <= now' /\ eval[e].row \in {0} \cup DOMAIN rows'
      BY <2>0, <2>1, <3>1 DEF Holds
    <3> QED  BY <2>3, <3>1, <3>2 DEF Holds
  <2>4. ASSUME NEW e \in Evaluator, NEW f, eval' = [eval EXCEPT ![e] = f],
               f.at \in Nat, f.at <= now, f.left \subseteq Candidate, f.past \in Seq(History),
               f.decided \in Seq(Decision), f.row \in {0} \cup DOMAIN rows',
               f.row # 0 => f.decided # <<>>
        PROVE  AllHold'
    <3>1. eval'[e] = f /\ DOMAIN eval' = Evaluator /\ \A g \in Evaluator \ {e} : eval'[g] = eval[g]
      BY <2>1, <2>4
    <3>2. f.at <= now'
      BY <2>0, <2>1, <2>4
    <3>3. Holds(e)'
      BY <2>4, <3>1, <3>2 DEF Holds
    <3> QED  BY <2>3, <3>1, <3>3 DEF AllHold
  <2>5. AllHold'
    <3>1. ASSUME NEW e \in Evaluator, Evaluate(e) PROVE AllHold'
      <4>1. PICK v \in Views, active \in Reads(Newest(now - Window, NoTarget, MaxLimit)) :
              eval' = [eval EXCEPT ![e] = Evaluating(now, v, active, CandidateActions(v), <<>>, <<>>)]
        BY <3>1 DEF Evaluate
      <4> DEFINE f == Evaluating(now, v, active, CandidateActions(v), <<>>, <<>>)
      <4>2. f.at = now /\ f.left = CandidateActions(v) /\ f.past = <<>> /\ f.decided = <<>>
            /\ f.row = 0
        BY DEF Evaluating, Evaluation
      <4>3. CandidateActions(v) \subseteq Candidate
        BY DEF Candidate
      <4>4. f.past \in Seq(History) /\ f.decided \in Seq(Decision)
        BY <4>2, EmptyAndLonger
      <4> HIDE DEF f
      <4>5. now \in Nat /\ now <= now
        BY <2>1
      <4> QED  BY <4>5, <2>4, <4>1, <4>2, <4>3, <4>4 DEF f
    <3>2. ASSUME NEW e \in Evaluator, EvaluateCandidate(e) PROVE AllHold'
      <4>0. PICK c \in eval[e].left : \E past \in Histories(e, c) : \E within : Decides(e, c, past, within)
        BY <3>2 DEF EvaluateCandidate, Decides
      <4>11. PICK past \in Histories(e, c) : \E within : Decides(e, c, past, within)
        BY <4>0
      <4>1. PICK within : Decides(e, c, past, within)
        BY <4>11
      <4> DEFINE code == Denial(c, eval[e].view, eval[e].active, past, within, eval[e].at)
      <4>2. Holds(e) /\ c \in Candidate /\ code \in Code
        BY <2>1, DenialIsCode DEF Holds
      <4>3. past \subseteq Row
        <5>1. \A k \in DOMAIN eval[e].past : eval[e].past[k] \in History
          BY <4>2 DEF Holds
        <5>2. \A k \in DOMAIN eval[e].past : eval[e].past[k].rows \subseteq Row
          BY <5>1 DEF History
        <5>3. \A i \in DOMAIN rows : rows[i] \in Row
          BY <2>1, RowsHold
        <5>4. \A since, target, limit : \A p \in RowsOf(Newest(since, target, limit)) : p \subseteq Row
          <6>1. \A Ks : (\A K \in Ks : K \subseteq DOMAIN rows) => \A p \in RowsOf(Ks) : p \subseteq Row
            BY <5>3 DEF RowsOf
          <6>2. \A since, target, limit : \A K \in Newest(since, target, limit) :
                   K \subseteq DOMAIN rows
            BY DEF Newest
          <6> QED  BY <6>1, <6>2
        <5> QED  BY <5>2, <5>4 DEF Histories
      <4>4. [target |-> c.target, rows |-> past] \in History
        BY <4>2, <4>3 DEF History
      <4> HIDE DEF code
      <4>5. [action |-> c, code |-> code] \in Decision
        BY <4>2 DEF Decision
      <4> DEFINE f == Evaluating(eval[e].at, eval[e].view, eval[e].active, eval[e].left \ {c},
                          Append(eval[e].past, [target |-> c.target, rows |-> past]),
                          Append(eval[e].decided, [action |-> c, code |-> code]))
      <4>6. /\ f.at = eval[e].at /\ f.left = eval[e].left \ {c} /\ f.row = 0
            /\ f.past = Append(eval[e].past, [target |-> c.target, rows |-> past])
            /\ f.decided = Append(eval[e].decided, [action |-> c, code |-> code])
        BY DEF Evaluating, Evaluation
      <4>9. eval' = [eval EXCEPT ![e] = f]
        BY <4>1 DEF Decides, code
      <4> HIDE DEF f
      <4>7. f.past \in Seq(History)
        BY <4>2, <4>4, <4>6, EmptyAndLonger DEF Holds
      <4>8. f.decided \in Seq(Decision)
        BY <4>2, <4>5, <4>6, EmptyAndLonger DEF Holds
      <4> QED  BY <2>4, <4>2, <4>6, <4>7, <4>8, <4>9 DEF Holds
    <3>3. ASSUME NEW e \in Evaluator, EndCandidates(e) PROVE AllHold'
      <4> DEFINE f == ToWrite(eval[e].at, eval[e].decided, 0)
      <4>1. f.at = eval[e].at /\ f.left = {} /\ f.past = <<>> /\ f.decided = eval[e].decided
            /\ f.row = 0
        BY DEF ToWrite, Evaluation
      <4>2. eval' = [eval EXCEPT ![e] = f]
        BY <3>3 DEF EndCandidates
      <4> HIDE DEF f
      <4>3. Holds(e) /\ f.past \in Seq(History)
        BY <2>1, <4>1, EmptyAndLonger
      <4> QED  BY <2>4, <4>1, <4>2, <4>3 DEF Holds
    <3>4. ASSUME NEW e \in Evaluator, EndEvaluation(e) PROVE AllHold'
      <4> DEFINE f == NoEvaluation
      <4>1. f.at = 0 /\ f.left = {} /\ f.decided = <<>> /\ f.past = <<>> /\ f.row = 0
        BY DEF NoEvaluation, Evaluation
      <4>2. eval' = [eval EXCEPT ![e] = f]
        BY <3>4 DEF EndEvaluation
      <4> HIDE DEF f
      <4>3. f.past \in Seq(History) /\ f.decided \in Seq(Decision)
        BY <4>1, EmptyAndLonger
      <4>4. f.at \in Nat /\ f.at <= now
        BY <2>1, <4>1
      <4> QED  BY <2>4, <4>1, <4>2, <4>3, <4>4
    <3>5. ASSUME NEW e \in Evaluator, NextDecision(e), eval[e].decided # <<>>
          PROVE  AllHold'
      <4> DEFINE f == ToWrite(eval[e].at, Tail(eval[e].decided), 0)
      <4>1. f.at = eval[e].at /\ f.left = {} /\ f.past = <<>> /\ f.decided = Tail(eval[e].decided)
            /\ f.row = 0
        BY DEF ToWrite, Evaluation
      <4>2. eval' = [eval EXCEPT ![e] = f]
        BY <3>5 DEF NextDecision
      <4> HIDE DEF f
      <4>3. Holds(e) /\ f.past \in Seq(History)
        BY <2>1, <4>1, EmptyAndLonger
      <4>4. f.decided \in Seq(Decision)
        BY <3>5, <4>1, <4>3, EmptyAndLonger DEF Holds
      <4> QED  BY <2>4, <4>1, <4>2, <4>3, <4>4 DEF Holds
    <3>6. ASSUME NEW e \in Evaluator, WriteAllowed(e), ~NextDecision(e) PROVE AllHold'
      <4> DEFINE f == ToWrite(eval[e].at, eval[e].decided, Len(rows) + 1)
      <4>1. f.at = eval[e].at /\ f.left = {} /\ f.past = <<>> /\ f.decided = eval[e].decided
            /\ f.row = Len(rows) + 1
        BY DEF ToWrite, Evaluation
      <4>2. eval' = [eval EXCEPT ![e] = f] /\ \E row : rows' = Append(rows, row)
        BY <3>6 DEF WriteAllowed, Inserted
      <4> HIDE DEF f
      <4>3. Holds(e) /\ f.past \in Seq(History)
        BY <2>1, <4>1, EmptyAndLonger
      <4>4. Len(rows) + 1 \in DOMAIN rows' /\ eval[e].decided # <<>>
        <5>1. PICK row : rows' = Append(rows, row)
          BY <4>2
        <5>2. Len(rows) + 1 \in DOMAIN rows'
          BY <2>1, <5>1
        <5> QED  BY <3>6, <5>2 DEF WriteAllowed, Decided
      <4> QED  BY <2>4, <4>1, <4>2, <4>3, <4>4 DEF Holds
    <3>7. ASSUME UNCHANGED eval PROVE AllHold'
      BY <2>1, <2>3, <3>7 DEF AllHold
    <3>8. \A e \in Evaluator : SendAllowed(e) => NextDecision(e) /\ eval[e].decided # <<>>
      BY <2>1 DEF SendAllowed, Holds
    <3>9. \A e \in Evaluator : WriteDenied(e) \/ WriteStopped(e) =>
             NextDecision(e) /\ eval[e].decided # <<>>
      BY DEF WriteDenied, WriteStopped, Decided
    <3>10. \A e \in Evaluator : WriteAllowed(e) => eval[e].decided # <<>>
      BY DEF WriteAllowed, Decided
    <3>11. \/ UNCHANGED eval
           \/ \E e \in Evaluator : \/ Evaluate(e) \/ EvaluateCandidate(e) \/ EndCandidates(e)
                                   \/ EndEvaluation(e) \/ WriteDenied(e) \/ WriteStopped(e)
                                   \/ WriteAllowed(e) \/ SendAllowed(e)
      BY DEF GuardNext, Approve, Reject, Start, Finish, Pass, guardVars
    <3> QED  BY <3>1, <3>2, <3>3, <3>4, <3>5, <3>6, <3>7, <3>8, <3>9, <3>10, <3>11
  <2>6. running' \in {0} \cup DOMAIN rows'
    <3>1. \/ running' \in {running, 0} \/ (running' = Head(queue) /\ queue # <<>>)
      BY DEF GuardNext, Evaluate, EvaluateCandidate, EndCandidates, EndEvaluation,
             WriteDenied, WriteStopped, WriteAllowed, SendAllowed, Approve, Reject, Start,
             Finish, Pass, guardVars
    <3>2. queue # <<>> => Head(queue) \in DOMAIN rows
      BY <2>1
    <3> QED  BY <2>1, <3>1, <3>2
  <2>7. queue' \in Seq(DOMAIN rows')
    <3> DEFINE D == DOMAIN rows'
    <3>1. queue \in Seq(D)
      <4>1. DOMAIN rows \subseteq D
        BY <2>1
      <4> HIDE DEF D
      <4> QED  BY <2>1, <4>1, SeqDef
    <3>2. \/ queue' = queue
          \/ queue # <<>> /\ queue' = Tail(queue)
          \/ \E i \in D : queue' = Append(queue, i)
      <4>1. ASSUME NEW i \in DOMAIN rows, Approve(i) PROVE \E j \in D : queue' = Append(queue, j)
        BY <2>1, <4>1 DEF Approve, Send
      <4>2. ASSUME NEW e \in Evaluator, SendAllowed(e), queue' # queue
            PROVE  \E j \in D : queue' = Append(queue, j)
        <5>1. eval[e].row \in D
          BY <2>1, <4>2 DEF SendAllowed, Holds
        <5> QED  BY <4>2, <5>1 DEF SendAllowed, Send
      <4> HIDE DEF D
      <4>3. \/ queue' = queue
            \/ Start
            \/ \E i \in DOMAIN rows : Approve(i)
            \/ \E e \in Evaluator : SendAllowed(e)
        BY DEF GuardNext, Evaluate, EvaluateCandidate, EndCandidates, EndEvaluation,
               WriteDenied, WriteStopped, WriteAllowed, Reject, Finish, Pass, guardVars
      <4>4. Start => queue # <<>> /\ queue' = Tail(queue)
        BY DEF Start
      <4> QED  BY <4>1, <4>2, <4>3, <4>4
    <3> HIDE DEF D
    <3>3. queue # <<>> => Tail(queue) \in Seq(D)
      BY <3>1
    <3>4. \A i \in D : Append(queue, i) \in Seq(D)
      BY <3>1, AppendProperties
    <3> QED  BY <3>1, <3>2, <3>3, <3>4 DEF D
  <2> QED  BY <2>0, <2>1, <2>2, <2>5, <2>6, <2>7 DEF RowTypes
<1> QED  BY <1>1, <1>2, PTL DEF GuardSpec

(* What comes into hand was live, or in another hand, or is decided. *)
LEMMA HandsTakeOver ==
    ASSUME RowTypes, [GuardNext]_guardVars
    PROVE  \A i \in DOMAIN rows' :
              InHand(i)' => (i \in DOMAIN rows /\ (Live(rows[i]) \/ InHand(i))) \/ Decreed(rows'[i])
<1>0. /\ rows \in Seq(Row) /\ queue \in Seq(DOMAIN rows) /\ running \in {0} \cup DOMAIN rows
      /\ DOMAIN eval = Evaluator /\ \A e \in Evaluator : Holds(e)
      /\ DOMAIN rows' \subseteq Nat \ {0}
  <2>1. RowsGrow
    BY StepGrows
  <2>2. rows' \in Seq(Row)
    BY <2>1 DEF RowsGrow
  <2>3. DOMAIN rows' = 1..Len(rows') /\ Len(rows') \in Nat
    BY <2>2
  <2> QED  BY <2>3 DEF RowTypes, AllHold
<1>1. ASSUME NEW i, i = running' \/ (\E k \in DOMAIN queue' : i = queue'[k]), i \in DOMAIN rows'
      PROVE  i \in DOMAIN rows /\ (Live(rows[i]) \/ InHand(i))
  <2>1. \A k \in DOMAIN queue : queue[k] \in DOMAIN rows
    BY <1>0
  <2>2. CASE UNCHANGED <<queue, running>>
    BY <1>0, <1>1, <2>1, <2>2 DEF InHand
  <2>3. ASSUME NEW j \in DOMAIN rows, Approve(j) \/ Reject(j)
        PROVE  i \in DOMAIN rows /\ (Live(rows[i]) \/ InHand(i))
    <3>1. UNCHANGED running /\ (UNCHANGED queue \/ queue' = Append(queue, j))
          /\ rows[j].life = "pending_approval"
      BY <2>3 DEF Approve, Reject, Send
    <3>2. \A k \in DOMAIN queue' : (k \in DOMAIN queue /\ queue'[k] = queue[k]) \/ queue'[k] = j
      BY <1>0, <3>1
    <3>3. Live(rows[j])
      BY <3>1 DEF Live
    <3> QED  BY <1>0, <1>1, <2>1, <3>1, <3>2, <3>3 DEF InHand
  <2>4. CASE Start
    <3>1. /\ queue # <<>> /\ running' = Head(queue) /\ queue' = Tail(queue)
      BY <2>4 DEF Start
    <3>2. /\ 1 \in DOMAIN queue /\ running' = queue[1]
          /\ \A k \in DOMAIN queue' : k + 1 \in DOMAIN queue /\ queue'[k] = queue[k + 1]
      BY <1>0, <3>1
    <3> QED  BY <1>1, <2>1, <3>2 DEF InHand
  <2>5. CASE Finish
    <3>1. running' = 0 /\ queue' = queue
      BY <2>5 DEF Finish
    <3> QED  BY <1>0, <1>1, <2>1, <3>1 DEF InHand
  <2>6. ASSUME NEW e \in Evaluator, SendAllowed(e)
        PROVE  i \in DOMAIN rows /\ (Live(rows[i]) \/ InHand(i))
    <3>1. /\ UNCHANGED running /\ eval[e].row \in DOMAIN rows
          /\ UNCHANGED queue \/ queue' = Append(queue, eval[e].row)
      BY <1>0, <2>6 DEF SendAllowed, Send, Holds
    <3>2. \A k \in DOMAIN queue' :
             (k \in DOMAIN queue /\ queue'[k] = queue[k]) \/ queue'[k] = eval[e].row
      BY <1>0, <3>1
    <3>3. InHand(eval[e].row)
      BY DEF InHand
    <3>4. CASE i = running'
      BY <1>0, <1>1, <3>1, <3>4 DEF InHand
    <3>5. CASE \E k \in DOMAIN queue' : i = queue'[k]
      BY <2>1, <3>1, <3>2, <3>3, <3>5 DEF InHand
    <3> QED  BY <1>1, <3>4, <3>5
  <2> QED
    BY <2>2, <2>3, <2>4, <2>5, <2>6
    DEF GuardNext, Evaluate, EvaluateCandidate, EndCandidates, EndEvaluation, WriteDenied,
        WriteStopped, WriteAllowed, Pass, guardVars
<1>2. ASSUME NEW i \in DOMAIN rows', NEW e \in Evaluator, i = eval'[e].row
      PROVE  (i \in DOMAIN rows /\ InHand(i)) \/ Decreed(rows'[i])
  <2>0. i # 0
    BY <1>0
  <2>1. \A f \in Evaluator : eval'[f] = eval[f] => eval[f].row \in DOMAIN rows \cup {0}
    BY <1>0 DEF Holds
  <2>2. CASE eval'[e] = eval[e]
    BY <1>2, <2>0, <2>1, <2>2 DEF InHand
  <2>3. CASE eval'[e].row = 0
    BY <1>2, <2>0, <2>3
  <2>4. ASSUME WriteAllowed(e), eval'[e] # eval[e], eval'[e].row # 0 PROVE Decreed(rows'[i])
    <3> DEFINE d == Head(eval[e].decided)
    <3>1. /\ Decided(e) /\ d.code = ""
          /\ \/ /\ Inserted(NewRow(d.action, eval[e].at))
                /\ eval' = [eval EXCEPT ![e] = ToWrite(eval[e].at, eval[e].decided, Len(rows) + 1)]
             \/ NextDecision(e)
      BY <2>4 DEF WriteAllowed
    <3>2. ~NextDecision(e)
      <4>1. \A at, decided : ToWrite(at, decided, 0).row = 0
        BY DEF ToWrite, Evaluation
      <4> QED  BY <1>0, <2>4, <4>1 DEF NextDecision
    <3>3. eval'[e].row = Len(rows) + 1
      <4>1. \A at, decided, row : ToWrite(at, decided, row).row = row
        BY DEF ToWrite, Evaluation
      <4>2. eval' = [eval EXCEPT ![e] = ToWrite(eval[e].at, eval[e].decided, Len(rows) + 1)]
        BY <3>1, <3>2
      <4>3. eval'[e] = ToWrite(eval[e].at, eval[e].decided, Len(rows) + 1)
        BY <1>0, <4>2
      <4> QED  BY <4>1, <4>3
    <3>4. rows'[i] = NewRow(d.action, eval[e].at)
      <4> DEFINE new == NewRow(d.action, eval[e].at)
      <4>1. rows' = Append(rows, new)
        BY <3>1, <3>2 DEF Inserted
      <4> HIDE DEF new
      <4>2. rows'[Len(rows) + 1] = new
        BY <1>0, <4>1
      <4> QED  BY <1>2, <3>3, <4>2 DEF new
    <3>5. rows'[i].action = d.action /\ rows'[i].created = eval[e].at
      BY <3>4, FieldsOfRows
    <3> HIDE DEF d
    <3> QED  BY <3>1, <3>5 DEF Decreed, d
  <2>5. eval'[e] = eval[e] \/ eval'[e].row = 0 \/ WriteAllowed(e)
    <3>1. \A at, view, active, left, past, decided :
             Evaluating(at, view, active, left, past, decided).row = 0
      BY DEF Evaluating, Evaluation
    <3>2. NoEvaluation.row = 0 /\ \A at, decided : ToWrite(at, decided, 0).row = 0
      BY DEF NoEvaluation, ToWrite, Evaluation
    <3>3. ASSUME NEW f \in Evaluator, Evaluate(f) \/ EvaluateCandidate(f) PROVE
            eval'[e] = eval[e] \/ eval'[e].row = 0
      <4>1. ASSUME Evaluate(f) PROVE \E g : eval' = [eval EXCEPT ![f] = g] /\ g.row = 0
        <5>1. PICK v \in Views, active \in Reads(Newest(now - Window, NoTarget, MaxLimit)) :
                eval' = [eval EXCEPT ![f] = Evaluating(now, v, active, CandidateActions(v), <<>>, <<>>)]
          BY <4>1 DEF Evaluate
        <5> QED  BY <3>1, <5>1
      <4>2. ASSUME EvaluateCandidate(f) PROVE \E g : eval' = [eval EXCEPT ![f] = g] /\ g.row = 0
        <5>1. PICK c \in eval[f].left : \E past, within : Decides(f, c, past, within)
          BY <4>2 DEF EvaluateCandidate, Decides
        <5>2. PICK past, within : Decides(f, c, past, within)
          BY <5>1
        <5> DEFINE g == Evaluating(eval[f].at, eval[f].view, eval[f].active, eval[f].left \ {c},
                            Append(eval[f].past, [target |-> c.target, rows |-> past]),
                            Append(eval[f].decided, [action |-> c,
                                code |-> Denial(c, eval[f].view, eval[f].active, past, within,
                                                eval[f].at)]))
        <5>3. g.row = 0
          BY <3>1
        <5>4. eval' = [eval EXCEPT ![f] = g]
          BY <5>2 DEF Decides
        <5> HIDE DEF g
        <5> QED  BY <5>3, <5>4
      <4>3. PICK g : eval' = [eval EXCEPT ![f] = g] /\ g.row = 0
        BY <3>3, <4>1, <4>2
      <4> QED  BY <1>0, <4>3
    <3>4. ASSUME NEW f \in Evaluator, NextDecision(f) \/ EndCandidates(f) \/ EndEvaluation(f) PROVE
            eval'[e] = eval[e] \/ eval'[e].row = 0
      BY <1>0, <3>2, <3>4 DEF NextDecision, EndCandidates, EndEvaluation
    <3>5. ASSUME NEW f \in Evaluator, WriteAllowed(f), f # e PROVE eval'[e] = eval[e]
      BY <1>0, <3>5 DEF WriteAllowed, NextDecision
    <3>6. \/ UNCHANGED eval
          \/ \E f \in Evaluator : Evaluate(f) \/ EvaluateCandidate(f)
          \/ \E f \in Evaluator : NextDecision(f) \/ EndCandidates(f) \/ EndEvaluation(f)
          \/ \E f \in Evaluator : WriteAllowed(f)
      BY DEF GuardNext, WriteDenied, WriteStopped, SendAllowed, Approve, Reject, Start, Finish,
             Pass, guardVars
    <3> QED  BY <3>3, <3>4, <3>5, <3>6
  <2> QED  BY <2>2, <2>3, <2>4, <2>5
<1> QED
  <2> SUFFICES ASSUME NEW i \in DOMAIN rows', InHand(i)'
               PROVE  (i \in DOMAIN rows /\ (Live(rows[i]) \/ InHand(i))) \/ Decreed(rows'[i])
    OBVIOUS
  <2>1. \/ i = running' \/ (\E k \in DOMAIN queue' : i = queue'[k])
        \/ \E e \in Evaluator : i = eval'[e].row
    BY DEF InHand
  <2> QED  BY <1>1, <1>2, <2>1

(* What an evaluation knows and has decided: nothing, what it was, less, or one
   candidate more, in whose stead it has looked the target up.               *)
LEMMA EvaluationsGrow ==
    ASSUME RowTypes, [GuardNext]_guardVars, NEW e \in Evaluator
    PROVE  \/ /\ eval'[e].past = <<>> \/ eval'[e].past = eval[e].past
              /\ \/ eval'[e].decided = <<>>
                 \/ /\ eval'[e].at = eval[e].at
                    /\ \/ eval'[e].decided = eval[e].decided
                       \/ eval[e].decided # <<>> /\ eval'[e].decided = Tail(eval[e].decided)
              /\ eval'[e].past # <<>> => eval'[e].at = eval[e].at
           \/ \E c \in eval[e].left : \E past, within :
                 LooksUp(e, c, past) /\ Decides(e, c, past, within) /\ UNCHANGED <<rows, now>>
<1>0. DOMAIN eval = Evaluator /\ Holds(e)
  BY DEF RowTypes, AllHold
<1>1. \A at, decided, row : /\ ToWrite(at, decided, row).past = <<>>
                            /\ ToWrite(at, decided, row).decided = decided
                            /\ ToWrite(at, decided, row).at = at
  BY DEF ToWrite, Evaluation
<1>2. NoEvaluation.past = <<>> /\ NoEvaluation.decided = <<>>
      /\ \A at, v, active, left : /\ Evaluating(at, v, active, left, <<>>, <<>>).past = <<>>
                                  /\ Evaluating(at, v, active, left, <<>>, <<>>).decided = <<>>
  BY DEF NoEvaluation, Evaluating, Evaluation
<1>3. CASE Evaluate(e) \/ EndEvaluation(e)
  BY <1>0, <1>2, <1>3 DEF Evaluate, EndEvaluation
<1>4. CASE EvaluateCandidate(e)
  BY <1>4 DEF EvaluateCandidate, Decides
<1>5. CASE EndCandidates(e)
  BY <1>0, <1>1, <1>5 DEF EndCandidates
<1>6. CASE WriteDenied(e) \/ WriteStopped(e) \/ WriteAllowed(e)
  <2>1. Decided(e) /\ (NextDecision(e) \/
           eval' = [eval EXCEPT ![e] = ToWrite(eval[e].at, eval[e].decided, Len(rows) + 1)])
    BY <1>6 DEF WriteDenied, WriteStopped, WriteAllowed
  <2> QED  BY <1>0, <1>1, <2>1 DEF NextDecision, Decided
<1>7. CASE eval'[e] = eval[e]
  BY <1>7
<1>8. CASE SendAllowed(e)
  <2>1. NextDecision(e) /\ eval[e].decided # <<>>
    BY <1>0, <1>8 DEF SendAllowed, Holds
  <2> QED  BY <1>0, <1>1, <2>1 DEF NextDecision
<1>9. eval'[e] = eval[e] \/ Evaluate(e) \/ EndEvaluation(e) \/ EvaluateCandidate(e)
      \/ EndCandidates(e) \/ WriteDenied(e) \/ WriteStopped(e) \/ WriteAllowed(e) \/ SendAllowed(e)
  <2>1. ASSUME NEW f \in Evaluator \ {e},
               Evaluate(f) \/ EndEvaluation(f) \/ EvaluateCandidate(f) \/ EndCandidates(f)
               \/ WriteDenied(f) \/ WriteStopped(f) \/ WriteAllowed(f) \/ SendAllowed(f)
        PROVE  eval'[e] = eval[e]
    BY <1>0, <2>1 DEF Evaluate, EndEvaluation, EvaluateCandidate, EndCandidates, WriteDenied,
                      WriteStopped, WriteAllowed, SendAllowed, NextDecision
  <2> QED  BY <2>1 DEF GuardNext, Approve, Reject, Start, Finish, Pass, guardVars
<1> QED  BY <1>3, <1>4, <1>5, <1>6, <1>7, <1>8, <1>9

LEMMA SoundDecisions ==
    /\ \A at : Sound(<<>>, at)
    /\ \A s \in Seq(Decision), d \in Decision : \A at :
          Sound(s, at) /\ (d.code = "" => LetThrough(d.action, at)) => Sound(Append(s, d), at)
    /\ \A s \in Seq(Decision) : \A at :
          Sound(s, at) /\ s # <<>> =>
            Sound(Tail(s), at) /\ (Head(s).code = "" => LetThrough(Head(s).action, at))
<1>1. \A at : Sound(<<>>, at)
  <2>1. DOMAIN <<>> = {}
    OBVIOUS
  <2> QED  BY <2>1, Zenon DEF Sound
<1>2. ASSUME NEW s \in Seq(Decision), NEW d \in Decision, NEW at, Sound(s, at),
             d.code = "" => LetThrough(d.action, at)
      PROVE  Sound(Append(s, d), at)
  <2>1. \A i \in DOMAIN Append(s, d) :
           (i \in DOMAIN s /\ Append(s, d)[i] = s[i]) \/ Append(s, d)[i] = d
    OBVIOUS
  <2> QED  BY <1>2, <2>1 DEF Sound
<1>3. ASSUME NEW s \in Seq(Decision), NEW at, Sound(s, at), s # <<>>
      PROVE  Sound(Tail(s), at) /\ (Head(s).code = "" => LetThrough(Head(s).action, at))
  <2>1. \A i \in DOMAIN Tail(s) : i + 1 \in DOMAIN s /\ Tail(s)[i] = s[i + 1]
    BY <1>3
  <2>2. 1 \in DOMAIN s /\ Head(s) = s[1]
    BY <1>3
  <2> QED  BY <1>3, <2>1, <2>2 DEF Sound
<1> QED  BY <1>1, <1>2, <1>3

(* What a candidate's target has been through is known, or excused, when it is
   decided.                                                                   *)
LEMMA LookUpTells ==
    ASSUME RowTypes, HistoryInv, NEW e \in Evaluator, NEW c, NEW past, LooksUp(e, c, past),
           UNCHANGED rows, NEW at, at = eval[e].at
    PROVE  \/ Excused(c.target, at)'
           \/ UNCHANGED unread /\ Tells(past, c.target, at)
<1> DEFINE me == eval[e]
           known == {p.rows : p \in {q \in {me.past[i] : i \in DOMAIN me.past} : q.target = c.target}}
           found == RowsOf(Newest(me.at - CooldownPerTarget, c.target, 50))
<1> SUFFICES ASSUME ~Excused(c.target, at)'
             PROVE  UNCHANGED unread /\ Tells(past, c.target, at)
  OBVIOUS
<1>1. unread \subseteq unread' /\ <<c.target, at>> \notin unread' /\ Len(rows) <= 50
      /\ c.target # NoTarget /\ rows \in Seq(Row)
  BY DEF LooksUp, Excused, RowTypes
<1>2. UNCHANGED unread /\ past \in IF known # {} THEN known ELSE found
  BY <1>1 DEF LooksUp
<1>3. CASE past \in known
  <2>1. PICK k \in DOMAIN eval[e].past :
           eval[e].past[k].target = c.target /\ past = eval[e].past[k].rows
    BY <1>3
  <2>2. ~Excused(c.target, at)
    BY <1>1 DEF Excused
  <2> QED  BY <1>2, <2>1, <2>2 DEF HistoryInv, Knowing
<1>4. CASE past \in found
  <2>1. \A j \in DOMAIN rows :
           rows[j].created >= at - CooldownPerTarget /\ rows[j].action.target = c.target
             => rows[j] \in past
    BY <1>1, <1>4, LookUpIsWhole
  <2> QED  BY <1>2, <2>1 DEF Tells
<1> QED  BY <1>2, <1>3, <1>4

LEMMA GuardInvHolds == GuardSpec => []GuardInv
<1>1. GuardInit => GuardInv
  <2> SUFFICES ASSUME GuardInit PROVE GuardInv
    OBVIOUS
  <2>1. NoEvaluation.past = <<>> /\ NoEvaluation.decided = <<>> /\ DOMAIN <<>> = {}
    BY DEF NoEvaluation, Evaluation
  <2>2. \A e \in Evaluator : eval[e] = NoEvaluation
    BY DEF GuardInit
  <2>3. DecidedInv
    BY <2>1, <2>2, SoundDecisions DEF DecidedInv
  <2>4. HistoryInv
    BY <2>1, <2>2 DEF HistoryInv, Knowing
  <2>5. DOMAIN rows = {}
    BY DEF GuardInit
  <2> QED  BY <2>3, <2>4, <2>5 DEF GuardInv, ThroughInv
<1>2. RowTypes /\ RowTypes' /\ GuardInv /\ [GuardNext]_guardVars => GuardInv'
  <2> SUFFICES ASSUME RowTypes, RowTypes', GuardInv, [GuardNext]_guardVars PROVE GuardInv'
    OBVIOUS
  <2>0. HistoryInv /\ DecidedInv /\ ThroughInv
    BY DEF GuardInv
  <2>1. RowsGrow /\ unread \subseteq unread' /\ now \in Nat
    BY StepGrows DEF RowTypes
  <2>2. \A at \in Nat : at <= now =>
          /\ \A target : Excused(target, at) => Excused(target, at)'
          /\ \A past, target : Tells(past, target, at) => Tells(past, target, at)'
          /\ \A c : LetThrough(c, at) => LetThrough(c, at)'
    BY <2>1, PromisesStay
  <2>3. \A e \in Evaluator : /\ eval[e].at \in Nat /\ eval[e].at <= now
                             /\ eval[e].decided \in Seq(Decision) /\ eval[e].past \in Seq(History)
                             /\ eval[e].left \subseteq Candidate
    BY DEF RowTypes, AllHold, Holds
  <2>4. ASSUME NEW at \in Nat, at <= now
        PROVE  /\ \A s : Sound(s, at) => Sound(s, at)'
               /\ \A s : Knowing(s, at) => Knowing(s, at)'
    BY <2>2, <2>4 DEF Sound, Knowing
  <2>5. ASSUME NEW e \in Evaluator, NEW at, at = eval'[e].at,
               NEW s, s = eval'[e].decided, NEW p, p = eval'[e].past
        PROVE  Sound(s, at)' /\ Knowing(p, at)'
    <3>0. /\ eval[e].at \in Nat /\ eval[e].at <= now
          /\ Sound(eval[e].decided, eval[e].at) /\ Knowing(eval[e].past, eval[e].at)
          /\ eval[e].decided \in Seq(Decision) /\ eval[e].past \in Seq(History)
      BY <2>0, <2>3 DEF HistoryInv, DecidedInv
    <3>1. Sound(<<>>, at)' /\ Knowing(<<>>, at)'
      <4>1. DOMAIN <<>> = {}
        OBVIOUS
      <4> QED  BY <4>1, Zenon DEF Sound, Knowing
    <3>2. CASE /\ p = <<>> \/ p = eval[e].past
               /\ \/ s = <<>>
                  \/ /\ at = eval[e].at
                     /\ \/ s = eval[e].decided
                        \/ eval[e].decided # <<>> /\ s = Tail(eval[e].decided)
               /\ p # <<>> => at = eval[e].at
      <4>1. s = <<>> \/ (at = eval[e].at /\ Sound(s, at))
        BY <3>0, <3>2, SoundDecisions
      <4>2. p = <<>> \/ (at = eval[e].at /\ Knowing(p, at))
        BY <3>0, <3>2
      <4> QED  BY <2>4, <3>0, <3>1, <4>1, <4>2
    <3>3. ASSUME NEW c \in eval[e].left, NEW past, NEW within,
                 LooksUp(e, c, past), Decides(e, c, past, within), UNCHANGED <<rows, now>>
          PROVE  Sound(s, at)' /\ Knowing(p, at)'
      <4> DEFINE code == Denial(c, eval[e].view, eval[e].active, past, within, eval[e].at)
                 entry == [target |-> c.target, rows |-> past]
                 decision == [action |-> c, code |-> code]
      <4>1. at = eval[e].at /\ p = Append(eval[e].past, entry) /\ s = Append(eval[e].decided, decision)
        <5>1. eval'[e] = Evaluating(eval[e].at, eval[e].view, eval[e].active, eval[e].left \ {c},
                             Append(eval[e].past, entry), Append(eval[e].decided, decision))
          BY <3>3 DEF Decides, RowTypes, AllHold
        <5> HIDE DEF entry, decision
        <5> QED  BY <2>5, <5>1 DEF Evaluating, Evaluation
      <4>2. c \in Candidate /\ code \in Code
        BY <2>3, DenialIsCode
      <4>3. rows \in Seq(Row)
        BY DEF RowTypes
      <4>4. \/ Excused(c.target, at)'
            \/ UNCHANGED unread /\ Tells(past, c.target, at)
        BY <2>0, <3>3, <4>1, LookUpTells
      <4>5. code = "" => Permitted(c)
        BY DEF Denial, Admitted, Permitted
      <4>6. code = "" => LetThrough(c, at)'
        <5> SUFFICES ASSUME code = "" PROVE LetThrough(c, at)'
          OBVIOUS
        <5>1. CASE Excused(c.target, at)'
          BY <4>5, <5>1 DEF LetThrough, Permitted, PolicyPass, OverrideActive, IsMeshLevel
        <5>2. CASE UNCHANGED unread /\ Tells(past, c.target, at)
          <6>1. LetThrough(c, at)
            BY <3>0, <4>1, <4>2, <4>3, <5>2, AllowedIsLetThrough
          <6> QED  BY <2>2, <3>0, <4>1, <6>1
        <5> QED  BY <4>4, <5>1, <5>2
      <4>7. Excused(c.target, at)' \/ Tells(past, c.target, at)'
        BY <2>2, <3>0, <4>1, <4>4
      <4> HIDE DEF code
      <4>0. PICK s0, p0 : s0 = eval[e].decided /\ p0 = eval[e].past
        OBVIOUS
      <4>11. Sound(s0, at)' /\ Knowing(p0, at)'
        BY <2>4, <3>0, <4>0, <4>1
      <4>8. /\ \A i \in DOMAIN s0 : s0[i].code = "" => LetThrough(s0[i].action, at)'
            /\ \A k \in DOMAIN p0 : Excused(p0[k].target, at)' \/ Tells(p0[k].rows, p0[k].target, at)'
        BY <4>11 DEF Sound, Knowing
      <4>9. Sound(s, at)'
        <5>1. decision \in Decision
          BY <4>2 DEF Decision
        <5>2. s0 \in Seq(Decision) /\ s = Append(s0, decision)
          BY <3>0, <4>0, <4>1
        <5>3. decision.code = code /\ decision.action = c
          OBVIOUS
        <5> HIDE DEF decision
        <5>4. \A i \in DOMAIN s : (i \in DOMAIN s0 /\ s[i] = s0[i]) \/ s[i] = decision
          BY <5>1, <5>2
        <5> QED  BY <4>6, <4>8, <5>3, <5>4 DEF Sound
      <4>10. Knowing(p, at)'
        <5>1. p0 \in Seq(History) /\ p = Append(p0, entry)
          BY <3>0, <4>0, <4>1
        <5>2. entry.target = c.target /\ entry.rows = past
          OBVIOUS
        <5> HIDE DEF entry
        <5>3. \A k \in DOMAIN p : (k \in DOMAIN p0 /\ p[k] = p0[k]) \/ p[k] = entry
          BY <5>1
        <5> QED  BY <4>7, <4>8, <5>2, <5>3 DEF Knowing
      <4> QED  BY <4>9, <4>10
    <3> QED
      <4>1. \/ <3>2!1
            \/ \E c \in eval[e].left : \E past, within :
                  LooksUp(e, c, past) /\ Decides(e, c, past, within) /\ UNCHANGED <<rows, now>>
        BY <2>5, EvaluationsGrow
      <4> QED  BY <3>2, <3>3, <4>1
  <2>6. HistoryInv' /\ DecidedInv'
    BY <2>5 DEF HistoryInv, DecidedInv
  <2>7. ThroughInv'
    <3>1. ASSUME NEW i \in DOMAIN rows', Live(rows'[i]) \/ InHand(i)',
                 NEW c, c = rows'[i].action, NEW at, at = rows'[i].created
          PROVE  LetThrough(c, at)'
      <4>1. (i \in DOMAIN rows /\ (Live(rows[i]) \/ InHand(i))) \/ Decreed(rows'[i])
        BY <3>1, StepGrows, HandsTakeOver
      <4>2. CASE i \in DOMAIN rows /\ (Live(rows[i]) \/ InHand(i))
        <5>1. rows[i].created \in Nat /\ rows[i].created <= now
          BY <4>2, RowsHold DEF RowTypes
        <5>2. c = rows[i].action /\ at = rows[i].created
          BY <2>1, <3>1, <4>2 DEF RowsGrow
        <5> QED  BY <2>0, <2>2, <4>2, <5>1, <5>2 DEF ThroughInv
      <4>3. CASE Decreed(rows'[i])
        <5>1. PICK e \in Evaluator :
                 /\ Decided(e) /\ Head(eval[e].decided).code = ""
                 /\ c = Head(eval[e].decided).action /\ at = eval[e].at
          BY <3>1, <4>3 DEF Decreed
        <5>2. Sound(eval[e].decided, at) /\ eval[e].decided # <<>>
          BY <2>0, <5>1 DEF DecidedInv, Decided
        <5>3. LetThrough(c, at)
          BY <2>3, <5>1, <5>2, SoundDecisions
        <5> QED  BY <2>2, <2>3, <5>1, <5>3
      <4> QED  BY <4>1, <4>2, <4>3
    <3> QED  BY <3>1 DEF ThroughInv
  <2> QED  BY <2>6, <2>7 DEF GuardInv
<1> QED  BY <1>1, <1>2, RowTypesHold, PTL DEF GuardSpec

(* Nothing that the mode, the policy, an override or the confidence forbids is held
   for approval, queued or executed, and nothing so long as its target is in its
   cooldown, as far as the look-up tells, however evaluations interleave.     *)
THEOREM OnlyPermitted == GuardSpec => []OnlyPermittedRuns
<1>1. RowTypes /\ GuardInv => OnlyPermittedRuns
  <2> SUFFICES ASSUME RowTypes, GuardInv PROVE OnlyPermittedRuns
    OBVIOUS
  <2>1. ThroughInv
    BY DEF GuardInv
  <2> QED  BY <2>1 DEF ThroughInv, OnlyPermittedRuns, Live, LetThrough, Excused
<1> QED  BY <1>1, RowTypesHold, GuardInvHolds, PTL

------------------------------------------------------------------------------
(* The incidents. *)

(* Who is about to write an incident has a copy of its row, and the row has not
   changed since unless the history says so.                                 *)
EditInv(o) ==
    /\ edit[o].pc \in {"idle", "writing"}
    /\ edit[o].pc = "idle" => o \notin outdated
    /\ edit[o].pc = "writing" =>
          /\ edit[o].id \in Id /\ edit[o].kind \in Kind /\ edit[o].copy \in Incident
          /\ o \in outdated \/ edit[o].copy = incidents[edit[o].id]

(* The worker does not write a resolved incident unless it has missed that it is
   one, or there is no other that it could write.                            *)
WorkerInv ==
    /\ worker.pc \in {"idle", "reading", "writing"}
    /\ worker.pc # "writing" => Worker \notin outdated
    /\ worker.pc = "reading" => worker.cause \in Cause
    /\ worker.pc = "writing" =>
          /\ worker.id \in Id
          /\ ~IsResolved(worker.id) \/ Worker \in outdated \/ worker.blind \/ worker.id[2] > 0

DeskInv ==
    /\ incidents \in [Id -> Incident]
    /\ clock \in 1..MaxTime
    /\ waiting \in Seq(Cause)
    /\ DOMAIN edit = Operator
    /\ \A o \in Operator : EditInv(o)
    /\ WorkerInv

------------------------------------------------------------------------------
(* A request makes an incident of an incident, and changes only what it is about. *)
LEMMA EditedIsIncident ==
    ASSUME NEW kind \in Kind, NEW copy \in Incident, NEW incident \in Edited(kind, copy)
    PROVE  /\ incident \in Incident
           /\ incident.owner # copy.owner => kind = "handoff"
           /\ incident.review # copy.review => kind = "patch"
           /\ incident.state = "open" => copy.state = "open"
<1>1. /\ copy.state \in {"absent", "open", "acknowledged", "escalated", "resolved"}
      /\ copy.owner \in Operator \cup {Nobody} /\ copy.review \in Review
  BY DEF Incident
<1>2. CASE kind = "acknowledge"
  BY <1>1, <1>2 DEF Edited, Columns, Incident
<1>3. CASE kind = "resolve"
  BY <1>1, <1>3 DEF Edited, Columns, Incident
<1>4. CASE kind = "escalate"
  BY <1>1, <1>4 DEF Edited, Columns, Incident
<1>5. CASE kind = "handoff"
  BY <1>1, <1>5 DEF Edited, Columns, Incident
<1>6. CASE kind = "patch"
  BY <1>1, <1>6 DEF Edited, Columns, Incident
<1>7. CASE kind = "runbook"
  BY <1>7 DEF Edited
<1> QED  BY <1>2, <1>3, <1>4, <1>5, <1>6, <1>7 DEF Kind

(* What a write of one who is about to end leaves of the others' copies. *)
LEMMA UpsertKeepsCopies ==
    ASSUME DeskInv, NEW me, NEW id \in Id, NEW incident \in Incident, Upsert(me, id, incident)
    PROVE  /\ incidents' \in [Id -> Incident]
           /\ me \notin outdated'
           /\ \A o \in Operator \ {me} : edit'[o] = edit[o] => EditInv(o)'
           /\ me # Worker /\ worker' = worker => WorkerInv'
           /\ \A i \in Id : incidents'[i] # incidents[i] => i = id /\ incidents'[i] = incident
<1>1. incidents' = incidents \/ incidents' = [incidents EXCEPT ![id] = incident]
  BY DEF Upsert
<1>2. /\ incidents' \in [Id -> Incident]
      /\ \A i \in Id : incidents'[i] # incidents[i] => i = id /\ incidents'[i] = incident
  BY <1>1 DEF DeskInv
<1>3. \A p : p # me => (p \in outdated => p \in outdated')
  BY DEF Upsert
<1>4. \A p : p \in outdated' => p \in outdated \/ p \in Writing(id)
  BY DEF Upsert
<1>5. \A p \in Writing(id) : p # me => p \in outdated' \/ incidents' = incidents
  BY DEF Upsert
<1>6. me \notin outdated'
  BY DEF Upsert
<1>7. ASSUME NEW o \in Operator \ {me}, edit'[o] = edit[o] PROVE EditInv(o)'
  <2>1. EditInv(o)
    BY DEF DeskInv
  <2>2. edit[o].pc = "idle" => o \notin outdated'
    <3>1. o # Worker
      BY DeskAssumption
    <3>2. edit[o].pc = "idle" => o \notin Writing(id)
      BY <3>1 DEF Writing
    <3> QED  BY <1>4, <2>1, <3>2 DEF EditInv
  <2>3. edit[o].pc = "writing" => o \in outdated' \/ edit[o].copy = incidents'[edit[o].id]
    <3> SUFFICES ASSUME edit[o].pc = "writing", o \notin outdated'
                 PROVE  edit[o].copy = incidents'[edit[o].id]
      OBVIOUS
    <3>1. o \notin outdated /\ edit[o].copy = incidents[edit[o].id] /\ edit[o].id \in Id
      BY <1>3, <1>7, <2>1 DEF EditInv
    <3>2. edit[o].id = id => incidents' = incidents
      BY <1>5, <1>7 DEF Writing
    <3> QED  BY <1>2, <3>1, <3>2
  <2> QED  BY <1>7, <2>1, <2>2, <2>3 DEF EditInv
<1>8. ASSUME me # Worker, worker' = worker PROVE WorkerInv'
  <2>1. WorkerInv
    BY DEF DeskInv
  <2>2. worker.pc # "writing" => Worker \notin outdated'
    <3>1. Worker \notin Operator
      BY DeskAssumption
    <3> QED  BY <1>4, <2>1, <3>1 DEF WorkerInv, Writing
  <2>3. worker.pc = "writing" =>
          ~IsResolved(worker.id)' \/ Worker \in outdated' \/ worker.blind \/ worker.id[2] > 0
    <3> SUFFICES ASSUME worker.pc = "writing", Worker \notin outdated'
                 PROVE  ~IsResolved(worker.id)' \/ worker.blind \/ worker.id[2] > 0
      OBVIOUS
    <3>1. worker.id = id => incidents' = incidents
      BY <1>5, <1>8 DEF Writing
    <3>2. incidents'[worker.id] = incidents[worker.id]
      BY <1>2, <2>1, <3>1 DEF WorkerInv
    <3> QED  BY <1>3, <1>8, <2>1, <3>2 DEF WorkerInv, IsResolved
  <2> QED  BY <1>8, <2>1, <2>2, <2>3 DEF WorkerInv, IsResolved
<1> QED  BY <1>2, <1>6, <1>7, <1>8

(* Who writes an incident, and what. *)
LEMMA WriterIsKnown ==
    ASSUME DeskInv, [DeskNext]_deskVars, incidents' # incidents
    PROVE  \/ WriteEscalated /\ Upsert(Worker, worker.id, Anew) /\ worker.id \in Id
           \/ \E o \in Operator : \E incident \in Edited(edit[o].kind, edit[o].copy) :
                 WriteEdited(o) /\ Upsert(o, edit[o].id, incident)
           \/ WriteRegression /\ Upsert(Mesh, <<Mesh, 0>>, Anew)
<1> USE DEF Second, Publish, Observe, ReadExisting, ReadToEdit, MeshIsFine, MeshIsBad,
            SaveRegression, DeskRestart, deskVars
<1>1. WriteEscalated \/ WriteRegression \/ \E o \in Operator : WriteEdited(o)
  BY DEF DeskNext
<1>2. CASE WriteEscalated
  BY <1>2 DEF WriteEscalated, DeskInv, WorkerInv
<1>3. CASE WriteRegression
  BY <1>3 DEF WriteRegression
<1>4. CASE \E o \in Operator : WriteEdited(o)
  BY <1>4 DEF WriteEdited
<1> QED  BY <1>1, <1>2, <1>3, <1>4

LEMMA AnewIsIncident == Anew \in Incident /\ Anew.state = "open" /\ <<Mesh, 0>> \in Id
  BY DEF Anew, Columns, Incident, Review, Id

(* Putting an incident changes nobody's row but its own. *)
LEMMA UpsertPutsOne ==
    ASSUME incidents \in [Id -> Incident], NEW me, NEW id \in Id, NEW incident,
           Upsert(me, id, incident)
    PROVE  \A i \in Id : incidents'[i] # incidents[i] => i = id /\ incidents'[i] = incident
<1>1. incidents' = incidents \/ incidents' = [incidents EXCEPT ![id] = incident]
  BY DEF Upsert
<1> QED  BY <1>1

LEMMA DeskInvHolds == DeskSpec => []DeskInv
<1> USE DeskAssumption
<1>1. DeskInit => DeskInv
  <2> SUFFICES ASSUME DeskInit PROVE DeskInv
    OBVIOUS
  <2>1. Absent \in Incident /\ Idle.pc = "idle"
    BY DEF Absent, Columns, Incident, Review, Idle
  <2>2. \A o \in Operator : EditInv(o)
    BY <2>1 DEF DeskInit, EditInv
  <2>3. WorkerInv
    BY <2>1 DEF DeskInit, WorkerInv
  <2> QED  BY <2>1, <2>2, <2>3 DEF DeskInit, DeskInv
<1>2. DeskInv /\ [DeskNext]_deskVars => DeskInv'
  <2> SUFFICES ASSUME DeskInv, [DeskNext]_deskVars PROVE DeskInv'
    OBVIOUS
  <2>0. /\ incidents \in [Id -> Incident] /\ clock \in 1..MaxTime /\ waiting \in Seq(Cause)
        /\ DOMAIN edit = Operator /\ WorkerInv
        /\ \A o \in Operator : EditInv(o)
    BY DEF DeskInv
  <2>1. UNCHANGED <<incidents, outdated>> =>
          /\ worker' = worker => WorkerInv'
          /\ \A o \in Operator : edit'[o] = edit[o] => EditInv(o)'
    BY <2>0 DEF WorkerInv, EditInv, IsResolved
  <2>2. Idle.pc = "idle"
    BY DEF Idle
  <2>3. CASE Second
    <3>1. clock' \in 1..MaxTime
      BY <2>0, <2>3 DEF Second
    <3> QED  BY <2>0, <2>1, <2>3, <3>1 DEF Second, DeskInv
  <2>4. ASSUME NEW c \in Cause, Publish(c) PROVE DeskInv'
    BY <2>0, <2>1, <2>4 DEF Publish, DeskInv
  <2>5. CASE Observe
    <3>1. Head(waiting) \in Cause /\ Tail(waiting) \in Seq(Cause)
      BY <2>0, <2>5 DEF Observe
    <3>2. WorkerInv'
      BY <2>0, <2>5, <3>1 DEF Observe, WorkerInv
    <3> QED  BY <2>0, <2>1, <2>5, <3>1, <3>2 DEF Observe, DeskInv
  <2>6. CASE ReadExisting
    <3>1. /\ worker.cause \in Cause /\ Worker \notin outdated
          /\ <<worker.cause, 0>> \in Id /\ <<worker.cause, clock>> \in Id
      BY <2>0, <2>6 DEF ReadExisting, WorkerInv, Id
    <3>2. \/ worker' = [pc |-> "writing", id |-> Escalated(worker.cause), blind |-> FALSE]
          \/ worker' = [pc |-> "writing", id |-> <<worker.cause, 0>>, blind |-> TRUE]
      BY <2>6 DEF ReadExisting
    <3>3. /\ Escalated(worker.cause) \in Id
          /\ ~IsResolved(Escalated(worker.cause)) \/ Escalated(worker.cause)[2] > 0
      BY <2>0, <3>1 DEF Escalated
    <3>4. incidents' = incidents
      BY <2>6 DEF ReadExisting
    <3>5. WorkerInv'
      <4>1. CASE worker' = [pc |-> "writing", id |-> Escalated(worker.cause), blind |-> FALSE]
        <5>1. worker'.pc = "writing" /\ worker'.id = Escalated(worker.cause)
          BY <4>1
        <5> QED  BY <3>3, <3>4, <5>1 DEF WorkerInv, IsResolved
      <4>2. CASE worker' = [pc |-> "writing", id |-> <<worker.cause, 0>>, blind |-> TRUE]
        <5>1. worker'.pc = "writing" /\ worker'.id = <<worker.cause, 0>> /\ worker'.blind
          BY <4>2
        <5> QED  BY <3>1, <5>1 DEF WorkerInv
      <4> QED  BY <3>2, <4>1, <4>2
    <3> QED  BY <2>0, <2>1, <2>6, <3>5 DEF ReadExisting, DeskInv
  <2>7. ASSUME NEW o \in Operator, NEW id \in Id, NEW kind \in Kind, ReadToEdit(o, id, kind)
        PROVE  DeskInv'
    <3>1. /\ edit' = [edit EXCEPT ![o] = [pc |-> "writing", kind |-> kind, id |-> id,
                                          copy |-> incidents[id]]]
          /\ UNCHANGED <<incidents, outdated, worker, clock, waiting>>
      BY <2>7 DEF ReadToEdit
    <3>2. EditInv(o)'
      BY <2>0, <3>1 DEF EditInv
    <3>3. \A p \in Operator \ {o} : EditInv(p)'
      BY <2>0, <2>1, <3>1
    <3> QED  BY <2>0, <2>1, <3>1, <3>2, <3>3 DEF DeskInv
  <2>8. CASE WriteEscalated
    <3>1. /\ worker.id \in Id /\ Upsert(Worker, worker.id, Anew)
          /\ worker' = Idle /\ UNCHANGED <<edit, clock, waiting>>
      BY <2>0, <2>8 DEF WriteEscalated, WorkerInv
    <3>2. /\ incidents' \in [Id -> Incident] /\ Worker \notin outdated'
          /\ \A o \in Operator : EditInv(o)'
      BY <3>1, UpsertKeepsCopies, AnewIsIncident
    <3>3. WorkerInv'
      BY <2>2, <3>1, <3>2 DEF WorkerInv
    <3> QED  BY <2>0, <3>1, <3>2, <3>3 DEF DeskInv
  <2>9. ASSUME NEW o \in Operator, WriteEdited(o) PROVE DeskInv'
    <3>1. /\ edit[o].id \in Id /\ edit[o].kind \in Kind /\ edit[o].copy \in Incident
          /\ edit' = [edit EXCEPT ![o] = Idle] /\ UNCHANGED <<worker, clock, waiting>>
      BY <2>0, <2>9 DEF WriteEdited, EditInv
    <3>2. PICK incident \in Edited(edit[o].kind, edit[o].copy) : Upsert(o, edit[o].id, incident)
      BY <2>9 DEF WriteEdited
    <3>3. incident \in Incident /\ o # Worker
      BY <3>1, EditedIsIncident
    <3>4. /\ incidents' \in [Id -> Incident] /\ o \notin outdated' /\ WorkerInv'
          /\ \A p \in Operator \ {o} : EditInv(p)'
      <4>1. \A p \in Operator \ {o} : edit'[p] = edit[p]
        BY <2>0, <3>1
      <4> QED  BY <3>1, <3>2, <3>3, <4>1, UpsertKeepsCopies
    <3>5. EditInv(o)'
      BY <2>0, <2>2, <3>1, <3>4 DEF EditInv
    <3> QED  BY <2>0, <3>1, <3>4, <3>5 DEF DeskInv
  <2>10. CASE WriteRegression
    <3>1. Upsert(Mesh, <<Mesh, 0>>, Anew) /\ UNCHANGED <<edit, worker, clock, waiting>>
      BY <2>10 DEF WriteRegression
    <3>2. Mesh # Worker /\ Mesh \notin Operator
      BY DEF Mesh, Worker
    <3>3. /\ incidents' \in [Id -> Incident] /\ WorkerInv'
          /\ \A o \in Operator : EditInv(o)'
      BY <3>1, <3>2, UpsertKeepsCopies, AnewIsIncident
    <3> QED  BY <2>0, <3>1, <3>3 DEF DeskInv
  <2>11. CASE MeshIsFine \/ MeshIsBad \/ SaveRegression \/ UNCHANGED deskVars
    BY <2>0, <2>1, <2>11 DEF MeshIsFine, MeshIsBad, SaveRegression, deskVars, DeskInv
  <2>12. CASE DeskRestart
    <3>1. \A o \in Operator : EditInv(o)'
      BY <2>2, <2>12 DEF DeskRestart, EditInv
    <3>2. WorkerInv'
      BY <2>2, <2>12 DEF DeskRestart, WorkerInv
    <3> QED  BY <2>0, <2>12, <3>1, <3>2 DEF DeskRestart, DeskInv
  <2> QED
    BY <2>3, <2>4, <2>5, <2>6, <2>7, <2>8, <2>9, <2>10, <2>11, <2>12 DEF DeskNext
<1> QED  BY <1>1, <1>2, PTL DEF DeskSpec

------------------------------------------------------------------------------
(* A resolved incident is reopened only by one who has missed that it is resolved,
   by an escalation that has no other incident to write, or by the mesh's one. *)
THEOREM ResolvedStays == DeskSpec => ResolutionStands
<1>1. ASSUME DeskInv, [DeskNext]_deskVars, NEW id \in Id,
             IsResolved(id), incidents'[id].state = "open"
      PROVE  \/ \E o \in Operator : EditsNow(o, id) /\ o \in outdated
             \/ EscalatesNow(id) /\ (Worker \in outdated \/ worker.blind \/ id[2] > 0)
             \/ id[1] = Mesh /\ refresh = "writing"
  <2>0. incidents \in [Id -> Incident]
    BY <1>1 DEF DeskInv
  <2>1. incidents' # incidents
    BY <1>1 DEF IsResolved
  <2>2. CASE WriteEscalated /\ Upsert(Worker, worker.id, Anew) /\ worker.id \in Id
    <3>0. \A i \in Id : incidents'[i] # incidents[i] => i = worker.id
      BY <2>0, <2>2, UpsertPutsOne
    <3>1. id = worker.id
      BY <1>1, <3>0 DEF IsResolved
    <3>2. EscalatesNow(id)
      BY <2>2, <3>1 DEF WriteEscalated, EscalatesNow, Idle
    <3> QED  BY <1>1, <2>2, <3>1, <3>2 DEF DeskInv, WorkerInv, WriteEscalated
  <2>3. ASSUME NEW o \in Operator, NEW incident \in Edited(edit[o].kind, edit[o].copy),
               WriteEdited(o), Upsert(o, edit[o].id, incident)
        PROVE  EditsNow(o, id) /\ o \in outdated
    <3>1. /\ edit[o].id \in Id /\ edit[o].kind \in Kind /\ edit[o].copy \in Incident
          /\ o \in outdated \/ edit[o].copy = incidents[edit[o].id]
      BY <1>1, <2>3 DEF DeskInv, EditInv, WriteEdited
    <3>2. incident \in Incident /\ (incident.state = "open" => edit[o].copy.state = "open")
      BY <3>1, EditedIsIncident
    <3>3. id = edit[o].id /\ incidents'[id] = incident
      <4>1. \A i \in Id : incidents'[i] # incidents[i] => i = edit[o].id /\ incidents'[i] = incident
        BY <2>0, <2>3, <3>1, UpsertPutsOne
      <4> QED  BY <1>1, <4>1 DEF IsResolved
    <3>4. EditsNow(o, id)
      BY <1>1, <2>3, <3>3 DEF WriteEdited, EditsNow, Idle, DeskInv
    <3> QED  BY <1>1, <3>1, <3>2, <3>3, <3>4 DEF IsResolved
  <2>4. CASE WriteRegression /\ Upsert(Mesh, <<Mesh, 0>>, Anew)
    <3>0. \A i \in Id : incidents'[i] # incidents[i] => i = <<Mesh, 0>>
      BY <2>0, <2>4, UpsertPutsOne, AnewIsIncident
    <3>1. id = <<Mesh, 0>>
      BY <1>1, <3>0 DEF IsResolved
    <3> QED  BY <2>4, <3>1 DEF WriteRegression
  <2> QED  BY <1>1, <2>1, <2>2, <2>3, <2>4, WriterIsKnown
<1>2. DeskInv /\ [DeskNext]_deskVars =>
        [\A id \in Id : IsResolved(id) /\ incidents'[id].state = "open" =>
             \/ \E o \in Operator : EditsNow(o, id) /\ o \in outdated
             \/ EscalatesNow(id) /\ (Worker \in outdated \/ worker.blind \/ id[2] > 0)
             \/ id[1] = Mesh /\ refresh = "writing"]_deskVars
  BY <1>1
<1> QED  BY <1>2, DeskInvHolds, PTL DEF DeskSpec, ResolutionStands

------------------------------------------------------------------------------
(* What an operator has put into an incident goes only by a request about it, by
   one that was decided on an older copy, or with the whole incident.         *)
THEOREM WorkStays == DeskSpec => WorkIsTaken
<1>1. ASSUME DeskInv, [DeskNext]_deskVars, NEW id \in Id
      PROVE  /\ incidents'[id].owner # incidents[id].owner => Edits(id, "handoff") \/ Erases(id)
             /\ incidents'[id].review # incidents[id].review => Edits(id, "patch") \/ Erases(id)
  <2> SUFFICES ASSUME incidents'[id] # incidents[id]
               PROVE  \/ Erases(id)
                      \/ /\ incidents'[id].owner # incidents[id].owner => Edits(id, "handoff")
                         /\ incidents'[id].review # incidents[id].review => Edits(id, "patch")
    OBVIOUS
  <2>0. incidents \in [Id -> Incident]
    BY <1>1 DEF DeskInv
  <2>1. incidents' # incidents
    OBVIOUS
  <2>2. CASE WriteEscalated /\ Upsert(Worker, worker.id, Anew) /\ worker.id \in Id
    <3>0. \A i \in Id : incidents'[i] # incidents[i] => i = worker.id /\ incidents'[i] = Anew
      BY <2>0, <2>2, UpsertPutsOne
    <3>1. id = worker.id /\ incidents'[id] = Anew
      BY <3>0
    <3>2. EscalatesNow(id)
      BY <2>2, <3>1 DEF WriteEscalated, EscalatesNow, Idle
    <3> QED  BY <3>1, <3>2 DEF Erases
  <2>3. ASSUME NEW o \in Operator, NEW incident \in Edited(edit[o].kind, edit[o].copy),
               WriteEdited(o), Upsert(o, edit[o].id, incident)
        PROVE  /\ incidents'[id].owner # incidents[id].owner => Edits(id, "handoff")
               /\ incidents'[id].review # incidents[id].review => Edits(id, "patch")
    <3>1. /\ edit[o].id \in Id /\ edit[o].kind \in Kind /\ edit[o].copy \in Incident
          /\ o \in outdated \/ edit[o].copy = incidents[edit[o].id]
      BY <1>1, <2>3 DEF DeskInv, EditInv, WriteEdited
    <3>2. /\ incident \in Incident
          /\ incident.owner # edit[o].copy.owner => edit[o].kind = "handoff"
          /\ incident.review # edit[o].copy.review => edit[o].kind = "patch"
      BY <3>1, EditedIsIncident
    <3>3. id = edit[o].id /\ incidents'[id] = incident
      <4>1. \A i \in Id : incidents'[i] # incidents[i] => i = edit[o].id /\ incidents'[i] = incident
        BY <2>0, <2>3, <3>1, UpsertPutsOne
      <4> QED  BY <1>1, <4>1
    <3>4. EditsNow(o, id)
      BY <1>1, <2>3, <3>3 DEF WriteEdited, EditsNow, Idle, DeskInv
    <3> QED  BY <3>1, <3>2, <3>3, <3>4 DEF Edits
  <2>4. CASE WriteRegression /\ Upsert(Mesh, <<Mesh, 0>>, Anew)
    <3>0. \A i \in Id : incidents'[i] # incidents[i] => i = <<Mesh, 0>> /\ incidents'[i] = Anew
      BY <2>0, <2>4, UpsertPutsOne, AnewIsIncident
    <3>1. id = <<Mesh, 0>> /\ incidents'[id] = Anew
      BY <3>0
    <3> QED  BY <3>1 DEF Erases
  <2> QED  BY <1>1, <2>1, <2>2, <2>3, <2>4, WriterIsKnown
<1>2. DeskInv /\ [DeskNext]_deskVars =>
        [\A id \in Id : incidents[id] # Absent =>
          /\ incidents'[id].owner # incidents[id].owner => Edits(id, "handoff") \/ Erases(id)
          /\ incidents'[id].review # incidents[id].review => Edits(id, "patch") \/ Erases(id)]_deskVars
  BY <1>1
<1> QED  BY <1>2, DeskInvHolds, PTL DEF DeskSpec, WorkIsTaken
==============================================================================
