------------------------------ MODULE MCApproval ------------------------------
(* One restart that needs approval, queued by an operator, and the requests that
   race to decide it from HTTP handlers and from a CLI process.            *)
EXTENDS ControlPlaneInv, TLC

CONSTANTS a, o1, o2, h1, h2, c1, ticker

MCTypeOf == a :> "restart_transport"
MCTransportOf == a :> "mqtt"
MCActorOf == h1 :> o1 @@ h2 :> o1 @@ c1 :> o2
MCGlobal == {[kind |-> "global", value |-> ""]}
==============================================================================
