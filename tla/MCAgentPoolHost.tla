--------------------------- MODULE MCAgentPoolHost ---------------------------
(* Goals for a diligent host. *)
EXTENDS AgentPoolHost, TLC

CONSTANTS a1, a2, a3, c1, c2, c3, p1, p2, p3, k1, g1, g2, g3, there

\* Two producers and the integration of their outputs.
JoinDependsOn == (a1 :> {} @@ a2 :> {} @@ a3 :> {a1, a2})
JoinRequired == (a1 :> {} @@ a2 :> {} @@ a3 :> {c1, c2})
JoinAffected == (a1 :> {c1} @@ a2 :> {c2} @@ a3 :> {c3})
JoinReads == (a1 :> {} @@ a2 :> {} @@ a3 :> {p1, p2})
JoinWrites == (a1 :> {p1} @@ a2 :> {p2} @@ a3 :> {p3})
JoinKind == [a \in Actions |-> "work"]
JoinOrder == (a1 :> 1 @@ a2 :> 2 @@ a3 :> 3)
JoinCites == (c1 :> p1 @@ c2 :> p2 @@ c3 :> p3)
NoPremises == [c \in Claims |-> {}]
OneAttempt == [a \in Actions |-> k1]

\* Two producers that read one protocol, on which every claim rests, and
\* whose claims are the premises of a joint claim.
SharedDependsOn == [a \in Actions |-> {}]
SharedRequired == [a \in Actions |-> {}]
SharedReads == [a \in Actions |-> {p3}]
SharedCites == [c \in Claims |-> p3]
SharedPremises == (c1 :> {} @@ c2 :> {} @@ c3 :> {c1, c2})
SharedAffected == (a1 :> {c1} @@ a2 :> {c2})
SharedOrder == (a1 :> 1 @@ a2 :> 2)
SharedWrites == (a1 :> {p1} @@ a2 :> {p2})
=============================================================================
