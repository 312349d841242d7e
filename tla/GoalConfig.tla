------------------------------ MODULE GoalConfig ------------------------------
(***************************************************************************)
(* The validated manifest of a delegated goal: the action graph, the       *)
(* claim graph and the evidence scope every action declares.  Everything   *)
(* here is fixed when the goal is initialised; the schedulers read it.     *)
(***************************************************************************)
EXTENDS Naturals, FiniteSets

CONSTANTS
  Actions,    \* authorised action identifiers
  Claims,     \* claim identifiers
  Paths,      \* declared evidence files
  DependsOn,  \* [Actions -> SUBSET Actions], an action's depends_on
  Premises,   \* [Claims -> SUBSET Claims], a claim's depends_on
  Required,   \* [Actions -> SUBSET Claims], required_claims
  Affected,   \* [Actions -> SUBSET Claims], affected_claims
  Reads,      \* [Actions -> SUBSET Paths], read_paths
  Writes,     \* [Actions -> SUBSET Paths], write_paths
  Kind,       \* [Actions -> {"work", "validate", "repair"}]
  Mandatory,  \* actions whose "required" flag is true
  IdOrder     \* [Actions -> Nat], the alphabetical order of the identifiers

Kinds == {"work", "validate", "repair"}

\* What validate_config establishes about the shape of a manifest.
ASSUME ConfigAssumption ==
  /\ DependsOn \in [Actions -> SUBSET Actions]
  /\ Premises \in [Claims -> SUBSET Claims]
  /\ Required \in [Actions -> SUBSET Claims]
  /\ Affected \in [Actions -> SUBSET Claims]
  /\ Reads \in [Actions -> SUBSET Paths]
  /\ Writes \in [Actions -> SUBSET Paths]
  /\ Kind \in [Actions -> Kinds]
  /\ Mandatory \subseteq Actions
  /\ IdOrder \in [Actions -> Nat]

\* The checks of validate_config that the schedulers lean on: a nonempty
\* scope without a read-modify-write path in both lists, and at least one
\* affected claim.
ASSUME ScopeAssumption ==
  \A a \in Actions :
    /\ Reads[a] \cap Writes[a] = {}
    /\ Reads[a] \cup Writes[a] # {}
    /\ Affected[a] # {}

-----------------------------------------------------------------------------
(* Closures.  Each loop of the code is a least fixed point: the members of *)
(* every set that contains the seed and is closed under one step.          *)

\* The seed and every claim that transitively depends on a member of it.
Closure == [S \in SUBSET Claims |->
  {c \in Claims : \A T \in SUBSET Claims :
     /\ S \subseteq T
     /\ \A d \in Claims : Premises[d] \cap T # {} => d \in T
     => c \in T}]

\* The seed and every claim a member of it transitively depends on.
Ancestors == [S \in SUBSET Claims |->
  {c \in Claims : \A T \in SUBSET Claims :
     /\ S \subseteq T
     /\ \A d \in T : Premises[d] \subseteq T
     => c \in T}]

\* The action itself and every action it transitively depends on.
Upstream == [a \in Actions |->
  {b \in Actions : \A T \in SUBSET Actions :
     /\ a \in T
     /\ \A d \in T : DependsOn[d] \subseteq T
     => b \in T}]

ClaimWrites == [a \in Actions |-> Closure[Affected[a]]]
ClaimReads == [a \in Actions |-> Ancestors[Required[a]]]
ActionClaims == [a \in Actions |-> ClaimReads[a] \cup ClaimWrites[a]]
Scope == [a \in Actions |-> Reads[a] \cup Writes[a]]

\* Candidates are tried by how long a chain of actions waits on them, then by
\* identifier.
Depth[a \in Actions] ==
  LET below == {Depth[b] : b \in {x \in Actions : a \in DependsOn[x]}}
  IN  1 + (IF below = {} THEN 0
           ELSE CHOOSE m \in below : \A n \in below : n <= m)

Before(a, b) ==
  \/ Depth[a] > Depth[b]
  \/ Depth[a] = Depth[b] /\ IdOrder[a] < IdOrder[b]
=============================================================================
