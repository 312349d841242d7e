----------------------------- MODULE MCAgentPool -----------------------------
(* Small goals for AgentPool. *)
EXTENDS AgentPool, TLC

CONSTANTS a1, a2, a3, c1, c2, c3, p1, p2, p3, k1, g1, g2, g3, f1, there, other

Symmetry == Permutations(Agents)

\* A goal of two independent producers and an optional read-only check whose
\* report may reach the first producer's claim.
OverlapDependsOn == [a \in Actions |-> {}]
NoPremises == [c \in Claims |-> {}]
OverlapRequired == [a \in Actions |-> {}]
OverlapAffected == (a1 :> {c1} @@ a2 :> {c2} @@ a3 :> {c3})
OverlapReads == (a1 :> {} @@ a2 :> {} @@ a3 :> {p1})
OverlapWrites == (a1 :> {p1} @@ a2 :> {p2} @@ a3 :> {})
OverlapKind == (a1 :> "work" @@ a2 :> "work" @@ a3 :> "validate")
OverlapOrder == (a1 :> 1 @@ a2 :> 2 @@ a3 :> 3)
OverlapCites == (c1 :> p1 @@ c2 :> p2 @@ c3 :> p1)

\* A producer and the integration that depends on it and reads its output;
\* the integration's claim has the producer's as premise.
ChainDependsOn == (a1 :> {} @@ a2 :> {a1})
ChainPremises == (c1 :> {} @@ c2 :> {c1})
ChainRequired == (a1 :> {} @@ a2 :> {c1})
ChainAffected == (a1 :> {c1} @@ a2 :> {c2})
ChainReads == (a1 :> {} @@ a2 :> {p1})
ChainWrites == (a1 :> {p1} @@ a2 :> {p2})
ChainKind == (a1 :> "work" @@ a2 :> "work")
ChainOrder == (a1 :> 1 @@ a2 :> 2)
ChainCites == (c1 :> p1 @@ c2 :> p2)

\* Two repairs of one file that share one attempt.
RepairDependsOn == (a1 :> {} @@ a2 :> {})
RepairRequired == (a1 :> {} @@ a2 :> {})
RepairAffected == (a1 :> {c1} @@ a2 :> {c1})
RepairReads == (a1 :> {} @@ a2 :> {})
RepairWrites == (a1 :> {p1} @@ a2 :> {p1})
RepairKind == (a1 :> "repair" @@ a2 :> "repair")
RepairOrder == (a1 :> 1 @@ a2 :> 2)
RepairCites == (c1 :> p1)

OneAttempt == [a \in Actions |-> k1]
=============================================================================
