------------------------------ MODULE AgentPool ------------------------------
(***************************************************************************)
(* The concurrent scheduler of a delegated goal: scripts/agent_pool.py     *)
(* with the parts of long_running_controller.py and subagent_mode.py its   *)
(* transactions call.  Every operation runs under the controller's file    *)
(* lock and ends in one atomic journal event, so each is one action and a  *)
(* crash between operations loses nothing: the state below is the state of *)
(* the last event.  disk and contract are the outside world, which changes *)
(* between any two operations.                                             *)
(*                                                                         *)
(* A token is the number of its dispatch.  A dispatch intent names one     *)
(* token for ever, so asking again with a used intent only reads.          *)
(***************************************************************************)
EXTENDS GoalConfig, Registry

CONSTANTS
  Agents,           \* host agent identities
  NoAgent,          \* no identity
  NoAction,         \* the action of a review request
  Contents,         \* what an evidence file may hold
  Missing,          \* an absent evidence file
  Contracts,        \* identities of the reviewer sources
  Cites,            \* [Claims -> Paths], the file that can support a claim
  Attempts,         \* repair attempts
  AttemptOf,        \* [Actions -> Attempts], read for repairs only
  Findings,         \* findings a review may raise
  Holdable,         \* actions a review may hold
  Contestable,      \* claims a review may leave unsupported or without evidence
  Commands,         \* controls the owner may give
  Surprises,        \* claims a worker may report beyond its declared ones
  MaxWorkers,       \* agent_pool.max_workers
  MaxDispatches,    \* max_dispatches
  MaxRepairCycles,  \* max_repair_cycles
  MaxEdits,         \* bound on external changes of files or reviewer sources
  MaxRevisions      \* bound on goal revisions

ASSUME PoolAssumption ==
  /\ NoAgent \notin Agents
  /\ NoAction \notin Actions
  /\ Contents # {}
  /\ Contracts # {}
  /\ Cites \in [Claims -> Paths]
  /\ AttemptOf \in [Actions -> Attempts]
  /\ Holdable \subseteq Actions
  /\ Contestable \subseteq Claims
  /\ Commands \subseteq {"active", "paused", "stopped"}
  /\ Surprises \subseteq Claims
  /\ MaxWorkers \in Nat \ {0}
  /\ MaxDispatches \in Nat \ {0}
  /\ MaxRepairCycles \in Nat \ {0}
  /\ MaxEdits \in Nat
  /\ MaxRevisions \in Nat

VARIABLES
  disk, contract, edits,                 \* the world and the bound on its drift
  control, complete, revision, dispatches,
  status, holds, findings, attempts,     \* actions, holds, findings, attempts
  dirty, generations,                    \* claim_dirty, pool_claim_generations
  supported, cited,                      \* working_claims: by status, with evidence
  reviewedActions, reconciliations,      \* pool_reviewed_actions, pool_reconciliations
  clearances, globalReview, failures,    \* pool_clearances, pool_global_review, review_failures
  snapshot, reviewerContract,            \* what the scheduler last saw
  pending, delegations, starts, units    \* pool_pending, delegations, pool_starts, pool_units

world == <<disk, contract, edits>>
goal == <<control, revision>>
claimState == <<dirty, supported, cited, generations>>
plan == <<status, holds, findings, attempts>>
reviewState == <<reviewedActions, reconciliations>>
barrier == <<clearances, globalReview, failures, complete>>
seen == <<snapshot, reviewerContract>>
vars == <<world, goal, claimState, plan, reviewState, barrier, seen,
          dispatches, pending, delegations, starts, units>>

Controls == {"active", "paused", "stopped"}
Statuses == {"pending", "running", "done", "failed", "uncertain"}
NoClearances == [a \in {} |-> {}]

Without(f, k) == Restrict(f, DOMAIN f \ {k})

-----------------------------------------------------------------------------
(* Evidence: what changed, and which changes a running worker owns.        *)

Pending == DOMAIN pending
Workers == {t \in Pending : pending[t].kind # "review"}
Reviews == Pending \ Workers

Changed == {p \in Paths : disk[p] # snapshot[p]}
Owned == UNION {pending[t].writes : t \in Workers}

\* A change nobody in flight owns, or other reviewer sources.
Drift == ~(Changed \subseteq Owned) \/ contract # reviewerContract

\* The bytes of a set of files.
ProjectSnapshot(paths) == [p \in paths |-> disk[p]]

\* The journalled state once drift has been accounted for.
\* Mutant: drift dirties claims without starting new generations.
ObservedGenerationsUnbumped == generations

ObservedGenerations ==
  IF Drift THEN [c \in Claims |-> generations[c] + 1] ELSE generations
ObservedDirty == IF Drift THEN Claims ELSE dirty
ObservedClearances == IF Drift THEN NoClearances ELSE clearances
ObservedGlobal == globalReview \/ Drift
ObservedFailures == IF Drift THEN 0 ELSE failures

Resample == snapshot' = disk /\ reviewerContract' = contract

\* Mutant: drift does not reopen a completed goal.
ObserveStaysComplete ==
  /\ Resample
  /\ generations' = ObservedGenerations
  /\ dirty' = ObservedDirty
  /\ clearances' = ObservedClearances
  /\ globalReview' = ObservedGlobal
  /\ complete' = complete

Observe ==
  /\ Resample
  /\ generations' = ObservedGenerations
  /\ dirty' = ObservedDirty
  /\ clearances' = ObservedClearances
  /\ globalReview' = ObservedGlobal
  /\ complete' = (complete /\ ~Drift)

\* Dirtying claims starts a new generation of each and drops the clearances
\* that relied on one of them.
Bump(gens, claims) == [c \in Claims |-> IF c \in claims THEN gens[c] + 1 ELSE gens[c]]
Unaffected(clear, claims) ==
  Restrict(clear, {a \in DOMAIN clear : ActionClaims[a] \cap claims = {}})

\* Does the request still describe the evidence it was dispatched on?  A
\* worker's own output may move once it has started.
RequestCurrent(t, completion) ==
  LET r == pending[t]
      started == completion \/ t \in starts
      inputs == IF r.kind # "review" /\ started THEN r.reads ELSE r.reads \cup r.writes
  IN  /\ Changed \subseteq Owned
      /\ r.contract = contract
      /\ r.revision = revision
      /\ \A c \in r.claimReads \cup r.claimWrites : r.generations[c] = generations[c]
      /\ \A p \in inputs : r.files[p] = disk[p]

-----------------------------------------------------------------------------
(* Which request may be dispatched next.                                   *)

\* Mutant: a reader does not mind a writer in flight.
ConflictsOfWriters(reads, writes, claimReads, claimWrites, kind) ==
  \E t \in Pending :
    LET r == pending[t] IN
    \/ kind = "repair" \/ r.kind = "repair"
    \/ writes \cap (r.reads \cup r.writes) # {}
    \/ claimWrites \cap (r.claimReads \cup r.claimWrites) # {}

Conflicts(reads, writes, claimReads, claimWrites, kind) ==
  \E t \in Pending :
    LET r == pending[t] IN
    \/ kind = "repair" \/ r.kind = "repair"
    \/ writes \cap (r.reads \cup r.writes) # {}
    \/ reads \cap r.writes # {}
    \/ claimWrites \cap (r.claimReads \cup r.claimWrites) # {}
    \/ claimReads \cap r.claimWrites # {}

Held(a) == Upstream[a] \cap holds # {}

\* Mutant: a dependency that ran and was reviewed counts, however it ended.
PrerequisitesSettled(a) ==
  /\ ~Held(a)
  /\ \A p \in DependsOn[a] : status[p] \notin {"pending", "running"}

Prerequisites(a) ==
  /\ ~Held(a)
  /\ \A p \in DependsOn[a] : status[p] = "done" /\ p \in reviewedActions

\* What a review cleared an action on; it must still be so at dispatch.
Clearance(a) ==
  [files |-> ProjectSnapshot(Scope[a]),
   generations |-> [c \in ActionClaims[a] |-> ObservedGenerations[c]],
   contract |-> contract]

Exhausted(k) == attempts[k].stopped \/ attempts[k].cycles >= MaxRepairCycles

\* Mutant: the repair budget is not looked at when a repair is dispatched.
ReadyUnbudgeted(a) ==
  /\ status[a] = "pending"
  /\ Prerequisites(a)
  /\ ActionClaims[a] \cap dirty = {}
  /\ ClaimReads[a] \subseteq supported
  /\ a \in DOMAIN clearances /\ clearances[a] = Clearance(a)

Ready(a) ==
  /\ status[a] = "pending"
  /\ Prerequisites(a)
  /\ ActionClaims[a] \cap dirty = {}
  /\ ClaimReads[a] \subseteq supported
  /\ a \in DOMAIN clearances /\ clearances[a] = Clearance(a)
  /\ Kind[a] = "repair" => ~Exhausted(AttemptOf[a])

Unreviewed == {u \in DOMAIN units : units[u].reviewer = NoAgent}

\* Mutant: a global review looks at the reported outcomes only.
GlobalScopeOfWork ==
  [mode |-> "global", paths |-> Paths,
   claims |-> UNION {units[u].claims : u \in Unreviewed}, work |-> Unreviewed]

\* A review of everything: all files, every dirty claim, every open outcome.
GlobalScope ==
  [mode |-> "global", paths |-> Paths, claims |-> ObservedDirty, work |-> Unreviewed]

\* Mutant: a unit review does not look at what waits for the unit.
UnitScopeAlone(u) ==
  [mode |-> "unit", claims |-> units[u].claims, work |-> {u},
   paths |-> Scope[units[u].action] \cup {Cites[c] : c \in Ancestors[units[u].claims] \cap cited}]

\* A review of one outcome, with the stable inputs of the actions that wait
\* for it so that they can be cleared.
UnitScope(u) ==
  LET a == units[u].action
      waiting == {b \in Actions : /\ a \in DependsOn[b]
                                  /\ ~Conflicts(Scope[b], {}, {}, {}, "work")}
  IN  [mode |-> "unit", claims |-> units[u].claims, work |-> {u},
       paths |-> Scope[a] \cup {Cites[c] : c \in Ancestors[units[u].claims] \cap cited}
                          \cup UNION {Scope[b] : b \in waiting}]

Reviewable == {u \in Unreviewed :
  LET s == UnitScope(u)
  IN  ~Conflicts(s.paths, {}, Ancestors[s.claims], s.claims, "work")}

AllReviewed == \A a \in Mandatory : status[a] = "done" /\ a \in reviewedActions

\* Mutant: a second review may be dispatched beside the first.
ReviewScopesInParallel ==
  IF ObservedFailures >= 2 THEN {}
  ELSE IF ObservedGlobal THEN IF Pending = {} THEN {GlobalScope} ELSE {}
  ELSE IF Reviewable # {} THEN {UnitScope(u) : u \in Reviewable}
  ELSE IF Pending = {} /\ ~complete /\ AllReviewed THEN {GlobalScope}
  ELSE {}

\* The scopes a review could be given now, none while one is in flight.
ReviewScopes ==
  IF Reviews # {} \/ ObservedFailures >= 2 THEN {}
  ELSE IF ObservedGlobal THEN IF Pending = {} THEN {GlobalScope} ELSE {}
  ELSE IF Reviewable # {} THEN {UnitScope(u) : u \in Reviewable}
  ELSE IF Pending = {} /\ ~complete /\ AllReviewed THEN {GlobalScope}
  ELSE {}

\* Mutant: only the authors of the outcomes under review are excluded.
ExcludedAuthors(s) == {units[u].agent : u \in s.work}

\* Nobody reviews claims or outcomes they had a hand in.
Excluded(s) ==
  {units[u].agent : u \in {v \in DOMAIN units :
     units[v].claims \cap s.claims # {} \/ v \in s.work \/ s.mode = "global"}}

Clearable(s) ==
  {a \in Actions : /\ status[a] = "pending"
                   /\ Scope[a] \subseteq s.paths
                   /\ ActionClaims[a] \cap (ObservedDirty \ s.claims) = {}}

ReviewRequest(s) ==
  LET claims == Ancestors[s.claims] \cup s.claims IN
  [kind |-> "review", action |-> NoAction, mode |-> s.mode, work |-> s.work,
   settles |-> IF s.mode = "global"
               THEN {a \in DOMAIN reconciliations : ~reconciliations[a].reviewed}
               ELSE {},
   excluded |-> Excluded(s), clearable |-> Clearable(s),
   reads |-> s.paths, writes |-> {},
   claimReads |-> Ancestors[s.claims], claimWrites |-> s.claims,
   files |-> ProjectSnapshot(s.paths),
   generations |-> [c \in claims |-> ObservedGenerations[c]],
   contract |-> contract, revision |-> revision, signature |-> {}]

WorkRequest(a, gens) ==
  [kind |-> Kind[a], action |-> a, mode |-> "action", work |-> {}, settles |-> {},
   excluded |-> {}, clearable |-> {},
   reads |-> Reads[a], writes |-> Writes[a],
   claimReads |-> ClaimReads[a], claimWrites |-> ClaimWrites[a],
   files |-> ProjectSnapshot(Scope[a]),
   generations |-> [c \in ActionClaims[a] |-> gens[c]],
   contract |-> contract, revision |-> revision, signature |-> findings]

Eligible ==
  IF ObservedGlobal \/ Cardinality(Workers) >= MaxWorkers THEN {}
  ELSE {a \in Actions : /\ Ready(a)
                        /\ ~Conflicts(Reads[a], Writes[a], ClaimReads[a],
                                      ClaimWrites[a], Kind[a])}

-----------------------------------------------------------------------------
(* next --dispatch-id, with a fresh intent.                                *)

Asked == control = "active" /\ ~(complete /\ ~Drift)

Dispatch(request) ==
  /\ pending' = Put(pending, dispatches + 1, request)
  /\ dispatches' = dispatches + 1

NextReview ==
  /\ Asked
  /\ dispatches < MaxDispatches
  /\ \E s \in ReviewScopes : Dispatch(ReviewRequest(s))
  /\ Observe /\ failures' = ObservedFailures
  /\ UNCHANGED <<world, goal, plan, reviewState, supported, cited, delegations, starts, units>>

\* A worker request dirties what it may change before it is handed out.
NextWork ==
  /\ Asked
  /\ dispatches < MaxDispatches
  /\ ReviewScopes = {}
  /\ \E a \in Eligible :
       /\ \A b \in Eligible \ {a} : Before(a, b)
       /\ generations' = Bump(ObservedGenerations, ClaimWrites[a])
       /\ dirty' = ObservedDirty \cup ClaimWrites[a]
       /\ clearances' = Unaffected(ObservedClearances, ClaimWrites[a])
       /\ status' = [status EXCEPT ![a] = "running"]
       /\ Dispatch(WorkRequest(a, Bump(ObservedGenerations, ClaimWrites[a])))
  /\ snapshot' = disk
  /\ UNCHANGED <<world, goal, holds, findings, attempts, reviewState, supported, cited,
                 globalReview, failures, complete, reviewerContract,
                 delegations, starts, units>>

\* WAITING, POOL_FULL or BUDGET_EXHAUSTED: only the observation is kept.
NextWaiting ==
  /\ Asked
  /\ dispatches < MaxDispatches => ReviewScopes = {} /\ Eligible = {}
  /\ Observe /\ failures' = ObservedFailures
  /\ UNCHANGED <<world, goal, plan, reviewState, supported, cited, dispatches,
                 pending, delegations, starts, units>>

\* PAUSED, STOPPED or COMPLETE: nothing is kept.
NextRefused == ~Asked /\ UNCHANGED vars

-----------------------------------------------------------------------------
(* Binding and starting a host agent.                                      *)

\* An agent seen before needs a fresh observation that it is quiescent; that
\* observation is the host's and is taken to be true.
BindAgent(t, a) ==
  /\ t \in Pending \ DOMAIN delegations
  /\ control = "active"
  /\ RequestCurrent(t, FALSE)
  /\ a \notin pending[t].excluded
  /\ \A u \in DOMAIN delegations : delegations[u] # a
  /\ delegations' = Put(delegations, t, a)
  /\ UNCHANGED <<world, goal, claimState, plan, reviewState, barrier, seen,
                 dispatches, pending, starts, units>>

\* Recorded even when a pause arrived meanwhile.
StartAgent(t) ==
  /\ t \in DOMAIN delegations \ starts
  /\ starts' = starts \cup {t}
  /\ UNCHANGED <<world, goal, claimState, plan, reviewState, barrier, seen,
                 dispatches, pending, delegations, units>>

-----------------------------------------------------------------------------
(* finish: the result of a bound request.                                  *)

\* Mutant: the start acknowledgement outlives the request.
RetireLeavesStart(t) ==
  /\ pending' = Without(pending, t)
  /\ delegations' = Without(delegations, t)
  /\ UNCHANGED starts

Retire(t) ==
  /\ pending' = Without(pending, t)
  /\ delegations' = Without(delegations, t)
  /\ starts' = starts \ {t}

IsReview(t) == t \in DOMAIN delegations /\ pending[t].kind = "review"

\* Current before the observation, and its claims untouched by it.
ReviewCurrent(t) ==
  /\ RequestCurrent(t, TRUE)
  /\ \A c \in DOMAIN pending[t].generations :
       pending[t].generations[c] = ObservedGenerations[c]

StaleReview(t) ==
  /\ IsReview(t) /\ ~ReviewCurrent(t)
  /\ Retire(t)
  /\ failures' = 0
  /\ Observe
  /\ UNCHANGED <<world, goal, plan, reviewState, supported, cited, dispatches, units>>

FailedReview(t) ==
  /\ IsReview(t) /\ ReviewCurrent(t)
  /\ Retire(t)
  /\ failures' = ObservedFailures + 1
  /\ Observe
  /\ UNCHANGED <<world, goal, plan, reviewState, supported, cited, dispatches, units>>

\* What a review may say: the claims it found supported, those it has evidence
\* for (its own counter-evidence as well as support), the actions it
\* clears, holds and findings it adds or lifts, and whether the goal is met.
Verdicts(t) ==
  [supports : {pending[t].claimWrites \ doubted : doubted \in SUBSET Contestable},
   cites : {pending[t].claimWrites \ bare : bare \in SUBSET Contestable},
   clears : SUBSET pending[t].clearable,
   holds : SUBSET Holdable, releases : SUBSET Holdable,
   raises : SUBSET Findings, resolves : SUBSET Findings, met : BOOLEAN]

SupportedAfter(t, v) == (supported \ pending[t].claimWrites) \cup v.supports
CitedAfter(t, v) == (cited \ pending[t].claimWrites) \cup v.cites
DirtyAfter(t) == ObservedDirty \ pending[t].claimWrites
HoldsAfter(v) == (holds \cup v.holds) \ v.releases
FindingsAfter(v) == (findings \cup v.raises) \ v.resolves
Repairs(v) == {a \in v.clears : Kind[a] = "repair"}

\* _review and apply_review: every other verdict is rejected and leaves the
\* request in flight.
Acceptable(t, v) ==
  /\ Closure[pending[t].claimWrites] \subseteq pending[t].claimWrites
  /\ v.supports \subseteq v.cites
  /\ \A c \in v.cites : Cites[c] \in pending[t].reads /\ disk[Cites[c]] # Missing
  /\ \A c \in SupportedAfter(t, v) : Premises[c] \subseteq SupportedAfter(t, v)
  /\ \A a \in v.clears : /\ ActionClaims[a] \cap DirtyAfter(t) = {}
                         /\ ClaimReads[a] \subseteq SupportedAfter(t, v)
  /\ v.releases \subseteq (holds \cup v.holds) \cap v.clears
  /\ v.resolves \subseteq findings \cup v.raises
  /\ v.clears \cap HoldsAfter(v) = {}
  /\ Cardinality(Repairs(v)) <= 1
  /\ v.met =>
       /\ pending[t].mode = "global"
       /\ Pending = {t}
       /\ v.clears = {} /\ HoldsAfter(v) = {} /\ FindingsAfter(v) = {}
       /\ \A a \in Mandatory : status[a] = "done"
       /\ DirtyAfter(t) = {}
       /\ \A p \in pending[t].reads : disk[p] # Missing

FinishReview(t, v) ==
  /\ IsReview(t) /\ ReviewCurrent(t)
  /\ Acceptable(t, v)
  /\ Retire(t)
  /\ supported' = SupportedAfter(t, v) /\ cited' = CitedAfter(t, v)
  /\ dirty' = DirtyAfter(t)
  /\ generations' = ObservedGenerations
  /\ holds' = HoldsAfter(v)
  /\ findings' = FindingsAfter(v)
  /\ failures' = 0
  /\ complete' = ((complete /\ ~Drift) \/ v.met)
  /\ attempts' = [k \in Attempts |->
       IF /\ \E a \in Repairs(v) : AttemptOf[a] = k
          /\ FindingsAfter(v) \in attempts[k].findingSets
       THEN [attempts[k] EXCEPT !.stopped = TRUE] ELSE attempts[k]]
  /\ units' = [u \in DOMAIN units |->
       IF u \in pending[t].work
       THEN [units[u] EXCEPT !.reviewer = delegations[t]] ELSE units[u]]
  /\ reconciliations' = [a \in DOMAIN reconciliations |->
       IF a \in pending[t].settles
       THEN [reconciliations[a] EXCEPT !.reviewed = TRUE] ELSE reconciliations[a]]
  /\ reviewedActions' = reviewedActions
       \cup {units[u].action : u \in {w \in pending[t].work : units[w].status = "done"}}
       \cup {a \in pending[t].settles :
               reconciliations[a].outcome = "done" /\ status[a] = "done"}
  /\ globalReview' = (ObservedGlobal /\ pending[t].mode # "global")
  /\ clearances' = [a \in DOMAIN ObservedClearances \cup v.clears |->
       IF a \in v.clears THEN Clearance(a) ELSE ObservedClearances[a]]
  /\ Resample
  /\ UNCHANGED <<world, goal, status, dispatches>>

\* The outcomes a worker may report.
Results == {"done", "failed", "uncertain", "not_started"}

\* A late "done" on evidence that moved is not taken at its word.
Accepted(t, result) ==
  IF result = "done" /\ ~RequestCurrent(t, TRUE) THEN "uncertain" ELSE result

\* Mutant: an action that was not started is not handed back.
StatusAfterKept(outcome) == IF outcome = "not_started" THEN "running" ELSE outcome

StatusAfter(outcome) == IF outcome = "not_started" THEN "pending" ELSE outcome

\* The cycle is charged, and an attempt that comes back to evidence it has
\* seen before is stopped.
Charged(t) ==
  LET r == pending[t]
      old == attempts[AttemptOf[r.action]]
      candidates == IF old.candidates = {} THEN {r.files} ELSE old.candidates
      candidate == ProjectSnapshot(DOMAIN r.files)
  IN  [cycles |-> old.cycles + 1,
       stopped |-> old.stopped \/ candidate \in candidates,
       candidates |-> candidates \cup {candidate},
       findingSets |-> old.findingSets \cup {r.signature}]

\* added: claims the worker says it affected beyond the declared ones.
FinishWork(t, result, added) ==
  /\ t \in DOMAIN delegations /\ t \in Workers
  /\ LET r == pending[t]
         a == r.action
         outcome == Accepted(t, result)
         changed == Closure[Affected[a] \cup added]
     IN  /\ status' = [status EXCEPT ![a] = StatusAfter(outcome)]
         /\ generations' = Bump(ObservedGenerations, changed)
         /\ dirty' = ObservedDirty \cup changed
         /\ clearances' = Unaffected(ObservedClearances, changed)
         /\ globalReview' = (ObservedGlobal \/ ~(added \subseteq r.claimWrites))
         /\ units' = Put(units, t, [action |-> a, status |-> outcome, claims |-> changed,
                                    agent |-> delegations[t], reviewer |-> NoAgent])
         /\ attempts' = IF r.kind = "repair" /\ outcome # "not_started"
                        THEN [attempts EXCEPT ![AttemptOf[a]] = Charged(t)]
                        ELSE attempts
  /\ Retire(t)
  /\ failures' = 0
  /\ complete' = FALSE
  /\ Resample
  /\ UNCHANGED <<world, goal, holds, findings, supported, cited, reviewState, dispatches>>

-----------------------------------------------------------------------------
(* Owner operations.                                                       *)

\* invalidate_external: everything must be reviewed again.
InvalidateExternal ==
  /\ generations' = Bump(generations, Claims)
  /\ dirty' = Claims
  /\ clearances' = NoClearances
  /\ globalReview' = TRUE
  /\ failures' = 0
  /\ complete' = FALSE

Control(value) ==
  /\ control = "stopped" => value = "stopped"
  /\ control' = value
  /\ UNCHANGED <<world, revision, claimState, plan, reviewState, barrier, seen,
                 dispatches, pending, delegations, starts, units>>

\* Mutant: any finished action may be reconciled.
ReconcileFinished(a, outcome) ==
  /\ Pending = {}
  /\ status[a] \in {"uncertain", "failed", "done"}
  /\ status' = [status EXCEPT ![a] = outcome]
  /\ InvalidateExternal
  /\ reconciliations' = Put(reconciliations, a, [outcome |-> outcome, reviewed |-> FALSE])
  /\ reviewedActions' = reviewedActions \ {a}
  /\ UNCHANGED <<world, goal, holds, findings, attempts, supported, cited, seen,
                 dispatches, pending, delegations, starts, units>>

Reconcile(a, outcome) ==
  /\ Pending = {}
  /\ status[a] \in {"uncertain", "failed"}
  /\ status' = [status EXCEPT ![a] = outcome]
  /\ InvalidateExternal
  /\ reconciliations' = Put(reconciliations, a, [outcome |-> outcome, reviewed |-> FALSE])
  /\ reviewedActions' = reviewedActions \ {a}
  /\ UNCHANGED <<world, goal, holds, findings, attempts, supported, cited, seen,
                 dispatches, pending, delegations, starts, units>>

Revise ==
  /\ revision < MaxRevisions
  /\ Pending = {}
  /\ revision' = revision + 1
  /\ InvalidateExternal
  /\ UNCHANGED <<world, control, plan, reviewState, supported, cited, seen,
                 dispatches, pending, delegations, starts, units>>

-----------------------------------------------------------------------------
(* The world: a released worker writes its declared outputs, anybody else  *)
(* may edit a file or the reviewer sources.                                *)

WorkerWrite(t, p, content) ==
  /\ t \in DOMAIN delegations
  /\ p \in pending[t].writes /\ disk[p] # content
  /\ disk' = [disk EXCEPT ![p] = content]
  /\ UNCHANGED <<contract, edits, goal, claimState, plan, reviewState, barrier, seen,
                 dispatches, pending, delegations, starts, units>>

ExternalEdit(p, content) ==
  /\ edits < MaxEdits /\ disk[p] # content
  /\ edits' = edits + 1
  /\ disk' = [disk EXCEPT ![p] = content]
  /\ UNCHANGED <<contract, goal, claimState, plan, reviewState, barrier, seen,
                 dispatches, pending, delegations, starts, units>>

ContractEdit(k) ==
  /\ edits < MaxEdits /\ contract # k
  /\ edits' = edits + 1
  /\ contract' = k
  /\ UNCHANGED <<disk, goal, claimState, plan, reviewState, barrier, seen,
                 dispatches, pending, delegations, starts, units>>

-----------------------------------------------------------------------------
Init ==
  /\ disk \in [Paths -> Contents]
  /\ contract \in Contracts
  /\ edits = 0
  /\ control = "active" /\ complete = FALSE /\ revision = 0 /\ dispatches = 0
  /\ status = [a \in Actions |-> "pending"]
  /\ holds = {} /\ findings = {}
  /\ attempts = [k \in Attempts |->
       [cycles |-> 0, stopped |-> FALSE, candidates |-> {}, findingSets |-> {}]]
  /\ dirty = Claims /\ supported = {} /\ cited = {} /\ generations = [c \in Claims |-> 0]
  /\ reviewedActions = {} /\ reconciliations = [a \in {} |-> {}]
  /\ clearances = NoClearances /\ globalReview = TRUE /\ failures = 0
  /\ snapshot = disk /\ reviewerContract = contract
  /\ pending = [t \in {} |-> {}] /\ delegations = [t \in {} |-> NoAgent]
  /\ starts = {} /\ units = [t \in {} |-> {}]

Finish ==
  \E t \in DOMAIN delegations :
    \/ StaleReview(t)
    \/ FailedReview(t)
    \/ \E v \in Verdicts(t) : FinishReview(t, v)
    \/ \E result \in Results, added \in SUBSET Surprises : FinishWork(t, result, added)

Next ==
  \/ NextReview
  \/ NextWork
  \/ NextWaiting
  \/ NextRefused
  \/ \E t \in Pending, a \in Agents : BindAgent(t, a)
  \/ \E t \in DOMAIN delegations : StartAgent(t)
  \/ Finish
  \/ \E value \in Commands : Control(value)
  \/ \E a \in Actions, outcome \in {"done", "pending"} : Reconcile(a, outcome)
  \/ Revise
  \/ \E t \in DOMAIN delegations, p \in Paths, content \in Contents :
       WorkerWrite(t, p, content)
  \/ \E p \in Paths, content \in Contents : ExternalEdit(p, content)
  \/ \E k \in Contracts : ContractEdit(k)

Spec == Init /\ [][Next]_vars

-----------------------------------------------------------------------------
(* Properties.                                                             *)

Files(paths) == [paths -> Contents]

WorldOK ==
  /\ disk \in Files(Paths) /\ snapshot \in Files(Paths)
  /\ contract \in Contracts /\ reviewerContract \in Contracts
  /\ edits \in Nat

GoalOK ==
  /\ control \in Controls /\ complete \in BOOLEAN /\ globalReview \in BOOLEAN
  /\ revision \in Nat /\ dispatches \in 0 .. MaxDispatches /\ failures \in Nat

ClaimsOK ==
  /\ dirty \subseteq Claims /\ supported \subseteq cited /\ cited \subseteq Claims
  /\ generations \in [Claims -> Nat]

PlanOK ==
  /\ status \in [Actions -> Statuses]
  /\ holds \subseteq Actions /\ findings \subseteq Findings
  /\ DOMAIN attempts = Attempts
  /\ reviewedActions \subseteq Actions
  /\ DOMAIN reconciliations \subseteq Actions /\ DOMAIN clearances \subseteq Actions

RequestOK(r) ==
  /\ r.kind \in Kinds \cup {"review"}
  /\ r.action \in (IF r.kind = "review" THEN {NoAction} ELSE Actions)
  /\ r.reads \subseteq Paths /\ r.writes \subseteq Paths
  /\ r.claimReads \subseteq Claims /\ r.claimWrites \subseteq Claims
  /\ r.files \in Files(r.reads \cup r.writes)
  /\ r.generations \in [r.claimReads \cup r.claimWrites -> Nat]
  /\ r.excluded \subseteq Agents /\ r.clearable \subseteq Actions

RequestsOK ==
  /\ DOMAIN pending \subseteq 1 .. dispatches
  /\ \A t \in DOMAIN pending : RequestOK(pending[t])
  /\ \A t \in DOMAIN pending : pending[t].work \subseteq DOMAIN units
  /\ \A t \in DOMAIN pending : pending[t].settles \subseteq DOMAIN reconciliations
  /\ starts \subseteq DOMAIN delegations /\ DOMAIN delegations \subseteq DOMAIN pending
  /\ delegations \in [DOMAIN delegations -> Agents]

UnitOK(u) ==
  /\ u.action \in Actions /\ u.status \in Results
  /\ u.claims \subseteq Claims /\ u.agent \in Agents
  /\ u.reviewer \in Agents \cup {NoAgent}

UnitsOK ==
  /\ DOMAIN units \subseteq (1 .. dispatches) \ DOMAIN pending
  /\ \A u \in DOMAIN units : UnitOK(units[u])

\* Every variable has its type; a token is in flight or has one outcome, and a
\* request refers to outcomes and reconciliations that exist.
TypeOK == WorldOK /\ GoalOK /\ ClaimsOK /\ PlanOK /\ RequestsOK /\ UnitsOK

\* Requests in flight together never touch what another one writes, neither a
\* file nor a claim; a repair runs alone and reviews are serialised.  This is
\* _conflicts and the review gate, over every order of dispatches and results.
Apart(r, q) ==
  /\ r.kind # "repair"
  /\ ~(r.kind = "review" /\ q.kind = "review")
  /\ r.writes \cap (q.reads \cup q.writes) = {}
  /\ r.claimWrites \cap (q.claimReads \cup q.claimWrites) = {}

NoOverlap ==
  \A t, u \in Pending : t # u => Apart(pending[t], pending[u])

\* The same as leases: a review holds the review slot, a repair everything.
ReviewSlot == {<<"review", "slot">>}
PathsOf(paths) == {"path"} \X paths
ClaimsOf(claims) == {"claim"} \X claims
AllResources == PathsOf(Paths) \cup ClaimsOf(Claims) \cup ReviewSlot

LeaseOf(r) ==
  [shared |-> PathsOf(r.reads) \cup ClaimsOf(r.claimReads),
   exclusive |-> IF r.kind = "repair" THEN AllResources
                 ELSE PathsOf(r.writes) \cup ClaimsOf(r.claimWrites)
                      \cup (IF r.kind = "review" THEN ReviewSlot ELSE {})]

Leases == INSTANCE ScopeLeases WITH
  Tokens <- 1 .. MaxDispatches, Resources <- AllResources,
  leases <- [t \in Pending |-> LeaseOf(pending[t])]

\* The pool implements exclusive leases: dispatch grants one, only the
\* recorded result releases it, and no other step changes a scope in flight.
LeasesKept == Leases!Spec

\* Nobody reviews their own contribution: not the outcome under review, nor
\* one that touched the claims under review, even when it was recorded after
\* the review was dispatched.  bind_agent and the excluded identities of
\* _review_request.
ReviewIndependence ==
  /\ \A u \in DOMAIN units : units[u].reviewer # units[u].agent
  /\ \A t \in DOMAIN delegations : pending[t].kind = "review" =>
       \A u \in DOMAIN units : units[u].agent = delegations[t] =>
         u \notin pending[t].work /\ units[u].claims \cap pending[t].claimWrites = {}

\* An action is running exactly while one worker is in flight for it: no
\* order of dispatches, results and reconciliations runs it twice at once or
\* leaves it running with nobody to finish it.
RunningIsAssigned ==
  /\ \A t \in Workers : status[pending[t].action] = "running"
  /\ \A t, u \in Workers : pending[t].action = pending[u].action => t = u
  /\ \A a \in Actions : status[a] = "running" => \E t \in Workers : pending[t].action = a

\* While work is in flight every action it depends on stays done and
\* reviewed, whatever is recorded meanwhile.  _prerequisites.
DependenciesReviewed ==
  \A t \in Workers : \A p \in DependsOn[pending[t].action] :
    status[p] = "done" /\ p \in reviewedActions

\* A worker whose claim generations are still current rests on claims that
\* are clean and supported: nothing dirties or withdraws a claim a worker
\* reads without the worker's request turning stale.  The generation check
\* of request_current against every writer of claims.
CurrentWorkRestsOnSupport ==
  \A t \in Workers : \A c \in pending[t].claimReads \ pending[t].claimWrites :
    pending[t].generations[c] = generations[c] => c \notin dirty /\ c \in supported

\* Claimed by references/long-running-mode.md: a stale request whose work never
\* started is retired with a not_started result.
StaleIsRetired ==
  \A t \in Workers : t \notin starts /\ ~RequestCurrent(t, FALSE) =>
    ENABLED FinishWork(t, "not_started", {})

\* Claimed by references/agent-pool.md: a review cannot erase a newer unresolved
\* outcome.  The review that lifts the global barrier leaves none behind.
BarrierIsKept ==
  [][globalReview /\ ~globalReview' => Unreviewed' = {}]_vars

\* No dirty claim is forgotten: somebody in flight writes it, an unreviewed
\* outcome accounts for it, a global review is due, or the final review,
\* which takes whatever is dirty, comes next.
DirtIsOwed ==
  \A c \in dirty :
    \/ globalReview \/ AllReviewed
    \/ \E t \in Pending : c \in pending[t].claimWrites
    \/ \E u \in Unreviewed : c \in units[u].claims

\* Completion is declared only with nothing in flight, every outcome and
\* reconciliation reviewed, every required action done and reviewed, and no
\* open claim, hold, finding or barrier.  agent_pool.finish and _review.
CompletionIsEarned ==
  complete =>
    /\ Pending = {} /\ Unreviewed = {} /\ AllReviewed
    /\ dirty = {} /\ holds = {} /\ findings = {} /\ ~globalReview
    /\ \A a \in DOMAIN reconciliations : reconciliations[a].reviewed

\* Repair cycles are charged once per executed repair, those in flight fit in
\* what is left, and a stopped attempt has none in flight.
RepairBudget ==
  \A k \in Attempts :
    LET mine == {t \in Workers : pending[t].kind = "repair"
                                  /\ AttemptOf[pending[t].action] = k}
        executed == {u \in DOMAIN units : /\ Kind[units[u].action] = "repair"
                                          /\ AttemptOf[units[u].action] = k
                                          /\ units[u].status # "not_started"}
    IN  /\ attempts[k].cycles = Cardinality(executed)
        /\ attempts[k].cycles + Cardinality(mine) <= MaxRepairCycles
        /\ attempts[k].stopped => mine = {}

\* A done action is never dispatched, finished or reconciled again, however
\* late or often results arrive: work is executed at most once successfully.
DoneIsFinal ==
  [][\A a \in Actions : status[a] = "done" => status'[a] = "done"]_vars
=============================================================================
