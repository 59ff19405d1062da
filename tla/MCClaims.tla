------------------------------- MODULE MCClaims -------------------------------
(* The daemon on an instance where the claims the documentation and comments make
   can be confronted: two gated actions, one that runs by itself, operators. *)
EXTENDS ControlPlane, TLC

CONSTANTS first, second, auto, o1, o2, h1, h2, h3, h4, ticker

MCTypeOf == first :> "temporarily_deprioritize" @@ second :> "temporarily_deprioritize"
            @@ auto :> "restart_transport"
MCTransportOf == [x \in {first, second, auto} |-> "mqtt"]
MCActorOf == h1 :> o1 @@ h2 :> o2 @@ h3 :> o1 @@ h4 :> o2
==============================================================================
