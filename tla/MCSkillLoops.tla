---------------------------- MODULE MCSkillLoops ----------------------------
(***************************************************************************)
(* Four parts of the skill that keep a journal, a store, a file or a        *)
(* repository of their own and share none of it: the serial controller, the *)
(* quality store, the owner contributions and the repair workflows.  A      *)
(* behaviour is a behaviour of one of them.                                 *)
(***************************************************************************)
EXTENDS SerialController, QualityStore, Contribution, RepairPipeline, TLC

CONSTANTS w1, r1, k1, f1, there, other, p1,    \* the serial goal
          q1, q2, q3,                          \* receipts of the quality store
          g1, g2, d1, d2, d4                   \* repair runs and patches

VARIABLE part    \* the part that runs

MCDependsOn == w1 :> {} @@ r1 :> {}
MCKind == w1 :> "work" @@ r1 :> "repair"
MCOrder == w1 :> 2 @@ r1 :> 1
MCAttemptOf == w1 :> k1 @@ r1 :> k1
MCAdds == p1 :> {w1}
MCRewires == p1 :> (r1 :> {w1})

\* q1 is found early and expires early, q3 reports that nothing was wrong.
MCFacts ==
  [r \in Receipts |->
     [signal    |-> IF r = q3 THEN "no_issue" ELSE "documentation_mismatch",
      requested |-> IF r = q3 THEN "none" ELSE "analyze_quality",
      depth |-> 0, own |-> FALSE,
      created |-> IF r = q1 THEN 0 ELSE 1,
      expires |-> IF r = q1 THEN 2 ELSE 3]]
MCLegacies == {<<>>, <<q2, "1.0">> :> "active"}

\* A managed run, and one of this repository's own agent maintainer.
MCKindOf == g1 :> "managed" @@ g2 :> "maintainer"
MCPathsOf == d1 :> {"docs"} @@ d2 :> {"package", "manifest", "version"}
               @@ d4 :> {"docs", "denied"}

LoopInit ==
  /\ part \in {"controller", "store", "contribution", "repairs"}
  /\ SerialInit /\ QualityInit /\ ContributionInit /\ RepairInit
  /\ part # "controller" => evidence = Missing
  /\ part # "store" => quality.proposals = <<>>
  /\ part # "repairs" => issue.bounded

ControllerRuns ==
  /\ part = "controller" /\ SerialNext
  /\ UNCHANGED <<part, qualityVars, contributionVars, repairVars>>
StoreRuns ==
  /\ part = "store" /\ QualityNext
  /\ UNCHANGED <<part, serialVars, contributionVars, repairVars>>
ContributionRuns ==
  /\ part = "contribution" /\ ContributionNext
  /\ UNCHANGED <<part, serialVars, qualityVars, repairVars>>
RepairsRun ==
  /\ part = "repairs" /\ RepairNext
  /\ UNCHANGED <<part, serialVars, qualityVars, contributionVars>>

LoopNext == ControllerRuns \/ StoreRuns \/ ContributionRuns \/ RepairsRun

LoopSpec ==
  LoopInit /\ [][LoopNext]_<<part, serialVars, qualityVars, contributionVars, repairVars>>

Alike ==
  Permutations(Analyzers) \cup Permutations(Turns) \cup Permutations({there, other})
=============================================================================
