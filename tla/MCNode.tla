------------------------------- MODULE MCNode -------------------------------
(* Two parts of one process that share no state, each checked by itself: how it
   judges its peers, and one of its transports.  The other part keeps still.   *)
EXTENDS PeerLiveness, TransportLink, TLC

CONSTANTS n1, n2

(* The clock of one peer is behind, that of the other ahead. *)
MCSkew == n1 :> -1 @@ n2 :> 1

VARIABLE part

nodeVars == <<vars, linkVars, part>>

(* Where a part keeps still it does so in one state of its own; the broker is away. *)
Still ==
    /\ part = "link" => /\ state = Configured(Peer)
                        /\ sent = [p \in Peer |-> 0]
    /\ part = "peers" => ~broker

NodeInit == part \in {"peers", "link"} /\ Init /\ LinkInit /\ Still

PeersMove(A) == part = "peers" /\ A /\ UNCHANGED <<linkVars, part>>
LinkMoves(A) == part = "link" /\ A /\ UNCHANGED <<vars, part>>

NodeNext == PeersMove(Next) \/ LinkMoves(LinkNext)

(* FairSpec of the one and FairLink of the other. *)
NodeSpec ==
    /\ NodeInit /\ [][NodeNext]_nodeVars
    /\ WF_nodeVars(PeersMove(Tick)) /\ WF_nodeVars(PeersMove(CheckPartitions))
    /\ \A p \in Peer : WF_nodeVars(PeersMove(Process(p)))
    /\ WF_nodeVars(LinkMoves(LoopStep))
    /\ WF_nodeVars(LinkMoves(PingSent)) /\ WF_nodeVars(LinkMoves(PingEnds))
    /\ WF_nodeVars(LinkMoves(EndIngest))
    /\ WF_nodeVars(LinkMoves(ReportTaken)) /\ WF_nodeVars(LinkMoves(CloseTaken)) /\ WF_nodeVars(LinkMoves(Interrupt))

(* Both parts keep their types, on every number of restarts, faults and waits. *)
NodeTypeOK == TypeOK /\ LinkTypeOK
==============================================================================
