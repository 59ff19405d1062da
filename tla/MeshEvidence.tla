----------------------------- MODULE MeshEvidence -----------------------------
(***************************************************************************)
(* What an evaluation of the guarded control sees, and the actions it      *)
(* considers for it.  A view is what the statements of one evaluation have *)
(* read: failure clusters and alerts, the health of each transport, its    *)
(* anomaly history of the last fifteen minutes and the messages each       *)
(* sender left in them.  Severities, reasons and rules are the source's    *)
(* strings; confidences are in hundredths.                                 *)
(***************************************************************************)
EXTENDS Naturals, FiniteSets, Sequences

CONSTANTS Transport,
          TopicOf       \* [Transport -> the topic it subscribes to]

NoTarget == "none"      \* the empty target_transport
NoSegment == <<>>       \* the empty target_segment

ASSUME EvidenceAssumption == NoTarget \notin Transport

Severity == {"info", "warn", "critical"}
Reason == {"retry_threshold_exceeded", "subscribe_failure", "malformed_frame",
           "malformed_publish", "observation_dropped", "evidence_loss", "other"}
Noted == [transport : Transport, reason : Reason, severity : Severity]
Anomaly == [bucket : Nat, reason : Reason, count : Nat, drops : Nat]
IsView(v) ==
    /\ v.clusters \in SUBSET Noted      \* with events in the recent window
    /\ v.alerts \in SUBSET Noted        \* active ones
    /\ v.health \in [Transport -> {"healthy", "degraded", "unstable", "failed"}]
    /\ v.noisy \in SUBSET Transport     \* malformed floods, or drops under load
    /\ v.anomalies \in [Transport -> SUBSET Anomaly]
    /\ v.senders \in [Transport -> Seq(Nat)]    \* messages of each sender, most first
    /\ v.connected \in SUBSET Transport \* live or idle
    /\ v.failing \in SUBSET Transport   \* failed, or with failures counted

------------------------------------------------------------------------------
(* What two transports or more have in common, of the clusters or of the alerts. *)

Grouped(noted) ==
    LET told == {n \in noted : n.severity # "info"}
        of(reason) == {n \in told : n.reason = reason}
        group(reason) ==
            [reason |-> reason,
             transports |-> {n.transport : n \in of(reason)},
             severity |-> IF \E n \in of(reason) : n.severity = "critical"
                          THEN "critical" ELSE "warn"]
    IN  {g \in {group(n.reason) : n \in told} : Cardinality(g.transports) >= 2}

Correlated(v) == Grouped(v.clusters) \cup Grouped(v.alerts)

(* A segment is named for the reason and the topic its transports share, "" if they
   share none.                                                                *)
SharedTopic(transports) ==
    LET topics == {TopicOf[t] : t \in transports}
    IN  IF Cardinality(topics) = 1 THEN CHOOSE topic \in topics : TRUE ELSE ""

SegmentOf(g) == [reason |-> g.reason, topic |-> SharedTopic(g.transports)]

(* Of two groups that name the same segment the one that is not critical is kept. *)
CriticalSegments(v) ==
    {SegmentOf(g) : g \in {h \in Correlated(v) :
        \A i \in Correlated(v) : SegmentOf(i) = SegmentOf(h) => i.severity = "critical"}}

Degraded(v) == {t \in Transport : v.health[t] \in {"unstable", "failed"}}

HealthyAlternateExists(v, t) == t \in Degraded(v) /\ Degraded(v) # Transport

------------------------------------------------------------------------------
(* Candidates. *)

Action(type, target, rule, confidence) ==
    [type |-> type, target |-> target, segment |-> NoSegment, rule |-> rule,
     confidence |-> confidence]

FromFailures(v) ==
    UNION {
      CASE g.reason = "retry_threshold_exceeded" ->
             {Action("restart_transport", t, "retry_threshold_exceeded", 96) : t \in g.transports}
        [] g.reason = "subscribe_failure" ->
             {Action("resubscribe_transport", t, "subscription_failure_cluster", 90) :
                 t \in g.transports}
        [] g.reason \in {"malformed_frame", "malformed_publish", "observation_dropped"} ->
             {Action("backoff_increase", t, "failure_storm_backoff_increase", 86) :
                 t \in g.transports}
        [] OTHER -> {} : g \in Correlated(v)}

FromRouting(v) ==
    {Action("temporarily_deprioritize_transport", t, "mesh_relative_degradation", 78) :
        t \in Degraded(v)}
    \cup {Action("temporarily_suppress_noisy_source", t,
                 "high_confidence_noisy_source_attribution", 78) : t \in v.noisy}

FromAlerts(v) ==
    UNION {
      CASE a.reason = "retry_threshold_exceeded" ->
             {Action("restart_transport", a.transport, "retry_threshold_alert", 95)}
        [] a.reason = "subscribe_failure" ->
             {Action("resubscribe_transport", a.transport, "subscription_alert", 88)}
        [] a.reason = "evidence_loss" ->
             {Action("backoff_increase", a.transport, "evidence_loss_alert", 84)}
        [] OTHER -> {} : a \in v.alerts}

FromSegments(v) ==
    {[Action("trigger_health_recheck", NoTarget, "critical_segment_recheck", 80)
        EXCEPT !.segment = <<s>>] : s \in CriticalSegments(v)}

(* Candidates that agree in type, target, segment and rule agree in all that is
   kept of them here, so that the set is as dedupeCandidateActions leaves it.  *)
CandidateActions(v) == FromFailures(v) \cup FromRouting(v) \cup FromAlerts(v) \cup FromSegments(v)

------------------------------------------------------------------------------
(* What the history says of a candidate. *)

Counts(c, a) ==
    LET loss == {"malformed_frame", "malformed_publish", "evidence_loss"}
    IN  CASE c.type = "restart_transport" ->
               a.count > 0 /\ a.reason = "retry_threshold_exceeded"
          [] c.type = "resubscribe_transport" ->
               a.count > 0 /\ a.reason = "subscribe_failure"
          [] c.type = "backoff_increase" ->
               a.drops > 0 \/ (a.count > 0 /\ a.reason \in loss)
          [] OTHER -> a.count > 0

PersistentEvidence(c, v) ==
    IF c.target = NoTarget THEN c.type = "trigger_health_recheck"
    ELSE Cardinality({a.bucket : a \in {b \in v.anomalies[c.target] : Counts(c, b)}}) >= 2

(* All of three messages or more come from one sender. *)
StronglyAttributed(c, v) ==
    c.target # NoTarget /\ Len(v.senders[c.target]) = 1 /\ v.senders[c.target][1] >= 3

EvidencePass(c, v) ==
    /\ PersistentEvidence(c, v)
    /\ c.type = "restart_transport" => c.target \in v.failing
    /\ c.type = "temporarily_suppress_noisy_source" => StronglyAttributed(c, v)
    /\ c.type = "temporarily_deprioritize_transport" => v.connected # {}
==============================================================================
