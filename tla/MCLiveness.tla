------------------------------ MODULE MCLiveness ------------------------------
(* The daemon under the fairness of its goroutines: the evaluator proposes a
   restart that needs approval, operators decide it and queue an action that
   has no actuator, and both contend for the same channel.                 *)
EXTENDS ControlPlane, TLC

CONSTANTS guarded, advisory, o1, o2, h1, h2, ticker

MCTypeOf == guarded :> "restart_transport" @@ advisory :> "unsupported"
MCTransportOf == guarded :> "mqtt" @@ advisory :> "mqtt"
MCActorOf == h1 :> o1 @@ h2 :> o2
MCScopes == {[kind |-> "transport", value |-> "mqtt"]}
==============================================================================
