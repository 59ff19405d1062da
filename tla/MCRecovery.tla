------------------------------ MODULE MCRecovery ------------------------------
(* The daemon alone: it raises a backoff and restarts a transport by itself, the
   restart's health recheck evaluates beside the ticker, the raise lapses and is
   reverted, and the daemon dies and recovers, with a failed statement.    *)
EXTENDS ControlPlane, TLC

CONSTANTS raise, restart, ticker, second

MCTypeOf == raise :> "backoff_increase" @@ restart :> "restart_transport"
MCTransportOf == raise :> "mqtt" @@ restart :> "mqtt"
MCActorOf == <<>>
MCScopes == {[kind |-> "transport", value |-> "mqtt"]}
==============================================================================
