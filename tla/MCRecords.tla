------------------------------ MODULE MCRecords ------------------------------
(* Four parts that share no state, each checked by itself: a node's event log with
   the kernel and its snapshots, its incidents, its guarded control's decisions, and
   AgentPCAP's capture.  The other parts keep still.                            *)
EXTENDS KernelBridge, Incidents, GuardedControl, CaptureSession, TLC

CONSTANT radio

Says(type, node, level, ahead) ==
    [type |-> type, about |-> radio, node |-> node, detail |-> "", level |-> level,
     version |-> "v1", clock |-> ahead]

(* Two events of the bus, and one from a peer whose clock is ahead; what they
   leave of the transport's score depends on their order.  Two carry a score
   that is no level.                                                        *)
MCData == <<Says("observation", NoNode, 0, 0), Says("transport_health", NoNode, 1500, 0),
            Says("anomaly", "n1", 6000, 4)>>

(* The MQTT link gives up, alone or with its subscription lost as well; or the
   serial one does, which is under manual_only.                              *)
Noting(t, reason) == [transport |-> t, reason |-> reason, severity |-> "warn"]
Told(reason) == {[bucket |-> b, reason |-> reason, count |-> 1, drops |-> 0] : b \in {1, 2}}

MCTopicOf == [t \in Transport |-> "msh"]
Troubled(alerts) ==
    [clusters |-> {}, alerts |-> alerts,
     health |-> [t \in Transport |-> "degraded"],
     noisy |-> {},
     anomalies |-> [t \in Transport |->
                      Told("retry_threshold_exceeded") \cup Told("subscribe_failure")],
     senders |-> [t \in Transport |-> <<>>],
     connected |-> {}, failing |-> Transport]
MCViews == {Troubled({Noting("mqtt", "retry_threshold_exceeded")}),
            Troubled({Noting("mqtt", "retry_threshold_exceeded"),
                      Noting("mqtt", "subscribe_failure")}),
            Troubled({Noting("serial", "retry_threshold_exceeded")})}

VARIABLE part

recordsVars == <<bridgeVars, deskVars, guardVars, captureVars, part>>

RecordsInit == /\ part \in {"kernel", "desk", "alone", "together", "capture"}
               /\ BridgeInit /\ DeskInit /\ GuardInit /\ CaptureInit

Turn(p, A, others) == part = p /\ A /\ UNCHANGED others /\ UNCHANGED part

(* The guard twice: the ticker's evaluations one after the other, or two that
   overlap, with one candidate each, of which none is held for approval.     *)
Alone == GuardNext /\ eval'["recheck"] = NoEvaluation
Together ==
    \/ /\ GuardNext /\ now' <= Pace
       /\ \A e \in Evaluator : Cardinality(eval'[e].left) <= 1
       /\ \A i \in DOMAIN rows' : rows'[i].life # "pending_approval"
    \/ now = Pace /\ UNCHANGED guardVars

RecordsNext ==
    \/ Turn("kernel", BridgeNext, <<deskVars, guardVars, captureVars>>)
    \/ Turn("desk", DeskNext, <<bridgeVars, guardVars, captureVars>>)
    \/ Turn("alone", Alone, <<bridgeVars, deskVars, captureVars>>)
    \/ Turn("together", Together, <<bridgeVars, deskVars, captureVars>>)
    \/ Turn("capture", CaptureNext, <<bridgeVars, deskVars, guardVars>>)

RecordsSpec == RecordsInit /\ [][RecordsNext]_recordsVars
==============================================================================
