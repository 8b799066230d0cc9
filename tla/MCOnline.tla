------------------------------ MODULE MCOnline ------------------------------
(***************************************************************************)
(* Gate's connections with the presence record, and service discovery, on  *)
(* small instances, with the fairness that their liveness needs.  They     *)
(* share no state, so each behaviour is one of one of the two, chosen in   *)
(* the initial state; no fair action of the other is enabled there.        *)
(***************************************************************************)
EXTENDS Gate, Discovery, TLC

CONSTANTS c1, c2, c3, g1, g2

MCGateOf == (c1 :> g1) @@ (c2 :> g1) @@ (c3 :> g2)
MCAddrOf == [c \in Conns |-> "home"]

VARIABLE service

vars == <<service, gateVars, discVars>>

Init ==
    /\ service \in {"gate", "discovery"}
    /\ GateInit /\ DiscInit

GateService ==
    /\ service = "gate"
    /\ GateNext
    /\ UNCHANGED <<service, discVars>>

DiscoveryService ==
    /\ service = "discovery"
    /\ DiscNext
    /\ UNCHANGED <<service, gateVars>>

Next == GateService \/ DiscoveryService

Spec == Init /\ [][Next]_vars /\ GateFairness /\ DiscFairness

-----------------------------------------------------------------------------
\* The variables of Gate and of service discovery have their types.
TypeOK == GateTypeOK /\ DiscTypeOK
=============================================================================
