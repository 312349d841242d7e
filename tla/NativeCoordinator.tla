-------------------------- MODULE NativeCoordinator --------------------------
(***************************************************************************)
(* scripts/native_agent_coordinator.py: tick over a host whose calls may   *)
(* be lost, with a crash (or an uncaught error) between any two steps.     *)
(*                                                                         *)
(* What a step saves is the journal: one atomic event under the            *)
(* controller's lock.  Calls to the host lie between events.  The guard    *)
(* lock admits one tick at a time, so the coordinator is one process.  The *)
(* pool appears by what the coordinator sees of it: tokens in flight, at   *)
(* most MaxWorkers for workers and one for the reviewer, that turn stale   *)
(* and back.                                                               *)
(***************************************************************************)
EXTENDS Naturals, FiniteSets

CONSTANTS
  Agents,          \* identities the host can create
  NoAgent,         \* no identity
  MaxTokens,       \* bound on dispatches
  MaxWorkers,      \* agent_pool.max_workers
  Fates,           \* what may happen to a call: "done", "lost" reply, "void"
  Hidden,          \* sets of agents an observation may miss
  FindMayMiss,     \* may find return nothing although the agent exists?
  CloseSupported,  \* does the host offer a close operation?
  Commands,        \* controls the owner may give
  Adopt,           \* may the goal have been run by another dispatcher before?
  MaxUpsets        \* bound on controls, changes of staleness and rejected results

ASSUME CoordinatorAssumption ==
  /\ NoAgent \notin Agents
  /\ MaxTokens \in Nat \ {0} /\ MaxWorkers \in Nat \ {0} /\ MaxUpsets \in Nat
  /\ Fates \subseteq {"done", "lost", "void"}
  /\ Hidden \subseteq SUBSET Agents
  /\ FindMayMiss \in BOOLEAN /\ CloseSupported \in BOOLEAN /\ Adopt \in BOOLEAN
  /\ Commands \subseteq {"active", "paused", "stopped"}

Tokens == 1 .. MaxTokens
Roles == {"worker", "claims_reviewer"}

VARIABLES
  control, dispatched, role, stale, upsets,      \* the pool as the coordinator sees it
  delegations, starts, receipts,                 \* its bindings, acknowledged starts, receipts
  spawns, assignments, deliveries, results,      \* spawn_attempts and native_lifecycle
  closes,                                        \* agents with a close intent
  status, bornFor, turns, produced,              \* the host
  pc, job, agent, todo, goOn                     \* the tick in progress, lost in a crash

pool == <<control, dispatched, role, stale, upsets>>
bindings == <<delegations, starts, receipts>>
lifecycle == <<spawns, assignments, deliveries, results, closes>>
host == <<status, bornFor, turns, produced>>
tick == <<pc, job, agent, todo, goOn>>
vars == <<pool, bindings, lifecycle, host, tick>>

Pending == (1 .. dispatched) \ receipts
Bound == {t \in 1 .. dispatched : delegations[t] # NoAgent}
Owned == {delegations[t] : t \in Bound}
TokensOf(a) == {t \in Bound : delegations[t] = a}
RoleOf(a) == {role[t] : t \in TokensOf(a)}

\* check: may this token go ahead?
Ready(t) == control = "active" /\ t \notin stale

\* Observations are honest but may miss an agent.  A settling agent is
\* terminal with operations unresolved, that is not quiescent.
Observations ==
  {[a \in Agents |-> IF a \in missed THEN "missing" ELSE status[a]] : missed \in Hidden}
Quiet == {"idle", "completed"}

Become(next) == pc' = next /\ UNCHANGED <<job, agent, todo, goOn>>
Return ==
  /\ pc' = "rest" /\ job' = 0 /\ agent' = NoAgent
  /\ todo' = {} /\ goOn' = FALSE

-----------------------------------------------------------------------------
(* _harvest: persist the raw result of each quiet agent, then finish.      *)
(* Tokens are met in the order of their random ids, so in any order.       *)

Tick ==
  /\ pc = "rest"
  /\ \E o \in Observations :
       todo' = {t \in Pending \cap Bound : o[delegations[t]] = "completed"}
  /\ pc' = "harvest"
  /\ UNCHANGED <<pool, bindings, lifecycle, host, job, agent, goOn>>

Harvestable == {t \in todo : results[t] # "none" \/ produced[t] # "none"}

Harvest(t) ==
  /\ pc = "harvest" /\ t \in Harvestable
  /\ results' = [results EXCEPT ![t] = IF @ = "none" THEN produced[t] ELSE @]
  /\ pc' = "finish" /\ job' = t /\ todo' = todo \ {t}
  /\ UNCHANGED <<pool, bindings, spawns, assignments, deliveries, closes, host,
                 agent, goOn>>

\* A result the controller rejects ends the tick with an error.
Finish ==
  /\ pc = "finish"
  /\ \/ /\ results[job] = "good"
        /\ receipts' = receipts \cup {job}
        /\ Become("harvest")
     \/ /\ results[job] = "bad"
        /\ Return
        /\ UNCHANGED receipts
  /\ UNCHANGED <<pool, delegations, starts, lifecycle, host>>

-----------------------------------------------------------------------------
(* _inventory and _close: which identities to keep.                        *)

Settled(a) == TokensOf(a) \subseteq receipts
Reusable(o) == {a \in Owned \ closes : o[a] \in Quiet /\ Settled(a)}
EligibleForClose(o) ==
  {a \in Owned : CloseSupported /\ o[a] = "completed" /\ Settled(a)}

Limit(r) == IF r = "worker" THEN MaxWorkers ELSE 1
OfRole(agents, r) == {a \in agents : r \in RoleOf(a)}

\* Identities kept for reuse: as many of a role as its held ones leave room for.
Kept(o, final) ==
  LET held(r) == Cardinality(OfRole({a \in Owned : o[a] # "closed"} \ Reusable(o), r))
      room(r) == IF held(r) >= Limit(r) THEN 0 ELSE Limit(r) - held(r)
      fits(kept, r) ==
        LET there == Cardinality(OfRole(Reusable(o), r))
        IN  Cardinality(OfRole(kept, r)) = IF there <= room(r) THEN there ELSE room(r)
  IN  IF final THEN {{}} ELSE {kept \in SUBSET Reusable(o) : \A r \in Roles : fits(kept, r)}

\* A goal that is complete has nothing in flight; whether it is, the pool says.
Inventory ==
  /\ pc = "harvest" /\ Harvestable = {}
  /\ \E o \in Observations, final \in BOOLEAN :
       /\ final => Pending = {}
       /\ goOn' = (control = "active" /\ ~final)
       /\ \E kept \in Kept(o, final) : todo' = (EligibleForClose(o) \ closes) \ kept
  /\ pc' = "inventory"
  /\ UNCHANGED <<pool, bindings, lifecycle, host, job, agent>>

\* The intent is saved before the call; both happen under the controller lock.
CloseIntent(a) ==
  /\ pc = "inventory" /\ a \in todo
  /\ \E o \in Observations :
       \/ /\ a \in EligibleForClose(o)
          /\ closes' = closes \cup {a}
          /\ pc' = "close" /\ agent' = a /\ todo' = todo \ {a}
          /\ UNCHANGED <<job, goOn>>
       \/ a \notin EligibleForClose(o) /\ Return /\ UNCHANGED closes
  /\ UNCHANGED <<pool, bindings, spawns, assignments, deliveries, results, host>>

HostClose ==
  /\ pc = "close"
  /\ \E fate \in Fates :
       status' = IF fate = "void" THEN status ELSE [status EXCEPT ![agent] = "closed"]
  /\ Become("inventory")
  /\ UNCHANGED <<pool, bindings, lifecycle, bornFor, turns, produced>>

Inventoried == pc = "inventory" /\ todo = {}

StayPut ==
  /\ Inventoried /\ ~goOn
  /\ Return
  /\ UNCHANGED <<pool, bindings, lifecycle, host>>

-----------------------------------------------------------------------------
(* tick: a token without a delivery first, else a new dispatch.            *)

Undelivered == {t \in Pending : deliveries[t] \in {"none", "not_started"}}

Resume(t) ==
  /\ Inventoried /\ goOn /\ t \in Undelivered
  /\ pc' = "assign" /\ job' = t
  /\ UNCHANGED <<pool, bindings, lifecycle, host, agent, todo, goOn>>

InFlight(r) == {t \in Pending : role[t] = r}

Dispatch(r) ==
  /\ Inventoried /\ goOn /\ Undelivered = {}
  /\ control = "active" /\ dispatched < MaxTokens
  /\ Cardinality(InFlight(r)) < Limit(r)
  /\ dispatched' = dispatched + 1
  /\ role' = [role EXCEPT ![dispatched + 1] = r]
  /\ pc' = "assign" /\ job' = dispatched + 1
  /\ UNCHANGED <<control, stale, upsets, bindings, lifecycle, host, agent, todo, goOn>>

\* WAITING, POOL_FULL and their like.
Wait ==
  /\ Inventoried /\ goOn /\ Undelivered = {}
  /\ Return
  /\ UNCHANGED <<pool, bindings, lifecycle, host>>

-----------------------------------------------------------------------------
(* _assign: find, reuse or spawn an identity, bind it, start it.           *)

\* A binding this adapter did not make, or one already started, is not resent.
Assign ==
  /\ pc = "assign"
  /\ \/ /\ ~Ready(job) \/ (job \in Bound /\ (job \in starts \/ assignments[job] = NoAgent))
        /\ Return
     \/ /\ Ready(job) /\ job \in Bound
        /\ job \notin starts /\ assignments[job] # NoAgent
        /\ pc' = "release" /\ agent' = delegations[job] /\ UNCHANGED <<job, todo, goOn>>
     \/ /\ Ready(job) /\ job \notin Bound
        /\ Become("find")
  /\ UNCHANGED <<pool, bindings, lifecycle, host>>

\* Mutant: the agent of a reserved spawn is not looked for.
MatchesUnreserved(t) ==
  {a \in Agents : status[a] # "absent" /\ bornFor[a] = t /\ spawns[t] = "none"}

Matches(t) == {a \in Agents : status[a] # "absent" /\ bornFor[a] = t}

\* Take identity a for the token: the intent is saved before it is bound.
Take(a) ==
  /\ assignments' = [assignments EXCEPT ![job] = a]
  /\ pc' = "bind" /\ agent' = a
  /\ UNCHANGED <<job, todo, goOn>>

\* The identity of a spawn whose reply was lost.  That there is one at most
\* (OneSpawnPerToken), unbound, is what two requires of the code say; in every
\* reachable state they hold.
Recover ==
  /\ pc = "find" /\ Cardinality(Matches(job)) = 1
  /\ \E a \in Matches(job) \ Owned : Take(a)
  /\ UNCHANGED <<pool, bindings, spawns, deliveries, results, closes, host>>

NothingFound ==
  /\ pc = "find"
  /\ Matches(job) = {} \/ FindMayMiss

\* Mutants: an identity of the other role, or one being closed, will do.
CandidatesOfAnyRole(o) == {a \in Owned \ closes : o[a] \in Quiet /\ Settled(a)}
CandidatesClosing(o) ==
  {a \in Owned : o[a] \in Quiet /\ Settled(a) /\ RoleOf(a) = {role[job]}}

\* Identities whose every turn was a recorded one of the same role.
Candidates(o) ==
  {a \in Owned \ closes : o[a] \in Quiet /\ Settled(a) /\ RoleOf(a) = {role[job]}}

\* Mutant: an identity the host does not list does not count.
RetainedListed(o) == {a \in Owned : o[a] \notin {"closed", "missing"}}

\* Identities counted against the ceiling: all but those seen closed.
Retained(o) == {a \in Owned : o[a] # "closed"}

Reuse ==
  /\ NothingFound /\ spawns[job] = "none"
  /\ \E o \in Observations : \E a \in Candidates(o) : Take(a)
  /\ UNCHANGED <<pool, bindings, spawns, deliveries, results, closes, host>>

\* Mutant: a reservation may be made again.
ReserveAgain ==
  /\ NothingFound /\ Ready(job)
  /\ \E o \in Observations : /\ Candidates(o) = {}
                             /\ Cardinality(Retained(o)) < MaxWorkers + 1
  /\ spawns' = [spawns EXCEPT ![job] = "reserved"]
  /\ Become("reserved")
  /\ UNCHANGED <<pool, bindings, assignments, deliveries, results, closes, host>>

\* spawn_attempt reserves the one call this token may make.
Reserve ==
  /\ NothingFound /\ spawns[job] = "none" /\ Ready(job)
  /\ \E o \in Observations : /\ Candidates(o) = {}
                             /\ Cardinality(Retained(o)) < MaxWorkers + 1
  /\ spawns' = [spawns EXCEPT ![job] = "reserved"]
  /\ Become("reserved")
  /\ UNCHANGED <<pool, bindings, assignments, deliveries, results, closes, host>>

\* RECOVER_SPAWN, WAITING_FOR_CAPACITY, a control or STALE.
NoIdentity ==
  /\ NothingFound
  /\ \/ spawns[job] # "none"
     \/ \E o \in Observations :
          /\ Candidates(o) = {}
          /\ ~Ready(job) \/ Cardinality(Retained(o)) >= MaxWorkers + 1
  /\ Return
  /\ UNCHANGED <<pool, bindings, lifecycle, host>>

CheckSpawn ==
  /\ pc = "reserved"
  /\ IF Ready(job) THEN Become("spawn") ELSE Return
  /\ UNCHANGED <<pool, bindings, lifecycle, host>>

\* A new suspended identity; the reply may be lost, or nothing be created.
HostSpawn ==
  /\ pc = "spawn"
  /\ \E fate \in Fates, a \in {b \in Agents : status[b] = "absent"} :
       /\ status' = IF fate = "void" THEN status ELSE [status EXCEPT ![a] = "idle"]
       /\ bornFor' = IF fate = "void" THEN bornFor ELSE [bornFor EXCEPT ![a] = job]
       /\ IF fate = "done" THEN pc' = "spawned" /\ agent' = a /\ UNCHANGED <<job, todo, goOn>>
                           ELSE Become("failed")
  /\ UNCHANGED <<pool, bindings, lifecycle, turns, produced>>

\* spawn_result: a general exception proves nothing.
SpawnUncertain ==
  /\ pc = "failed"
  /\ spawns' = [spawns EXCEPT ![job] = "uncertain"]
  /\ Return
  /\ UNCHANGED <<pool, bindings, assignments, deliveries, results, closes, host>>

Spawned ==
  /\ pc = "spawned"
  /\ Take(agent)
  /\ UNCHANGED <<pool, bindings, spawns, deliveries, results, closes, host>>

\* bind_agent, with its own checks.
Bind ==
  /\ pc = "bind"
  /\ IF Ready(job) /\ Settled(agent)
     THEN delegations' = [delegations EXCEPT ![job] = agent] /\ Become("release")
     ELSE Return /\ UNCHANGED delegations
  /\ UNCHANGED <<pool, starts, receipts, lifecycle, host>>

-----------------------------------------------------------------------------
(* Delivery: marker, check again, start.                                   *)

Release ==
  /\ pc = "release"
  /\ \/ /\ Ready(job) /\ assignments[job] = agent
        /\ \E o \in Observations : o[agent] \in Quiet
        /\ Become("intend")
     \/ /\ ~Ready(job) \/ \E o \in Observations : o[agent] \notin Quiet
        /\ Return
  /\ UNCHANGED <<pool, bindings, lifecycle, host>>

Deliver(value) == deliveries' = [deliveries EXCEPT ![job] = value]

\* Mutant: the marker is saved after the second check.
IntendUnmarked ==
  /\ pc = "intend"
  /\ Become("recheck")
  /\ UNCHANGED <<pool, bindings, lifecycle, host>>

Intend ==
  /\ pc = "intend"
  /\ Deliver("requested")
  /\ Become("recheck")
  /\ UNCHANGED <<pool, bindings, spawns, assignments, results, closes, host>>

Recheck ==
  /\ pc = "recheck"
  /\ Become(IF Ready(job) THEN "start" ELSE "withdraw")
  /\ UNCHANGED <<pool, bindings, lifecycle, host>>

Withdraw ==
  /\ pc = "withdraw"
  /\ Deliver("not_started")
  /\ Return
  /\ UNCHANGED <<pool, bindings, spawns, assignments, results, closes, host>>

HostStart ==
  /\ pc = "start"
  /\ \E fate \in Fates :
       /\ status' = IF fate = "void" THEN status ELSE [status EXCEPT ![agent] = "running"]
       /\ turns' = IF fate = "void" THEN turns ELSE [turns EXCEPT ![job] = @ + 1]
       /\ Become(IF fate = "done" THEN "started" ELSE "unsure")
  /\ UNCHANGED <<pool, bindings, lifecycle, bornFor, produced>>

\* start_agent, then the marker.
Started ==
  /\ pc = "started"
  /\ starts' = starts \cup {job}
  /\ Become("acknowledge")
  /\ UNCHANGED <<pool, delegations, receipts, lifecycle, host>>

Acknowledge ==
  /\ pc \in {"acknowledge", "unsure"}
  /\ Deliver(IF pc = "acknowledge" THEN "acknowledged" ELSE "uncertain")
  /\ Return
  /\ UNCHANGED <<pool, bindings, spawns, assignments, results, closes, host>>

Crash ==
  /\ pc # "rest"
  /\ Return
  /\ UNCHANGED <<pool, bindings, lifecycle, host>>

-----------------------------------------------------------------------------
(* The rest of the world.                                                  *)

\* The running turn of an agent is the one it began last.
Running(t) == status[delegations[t]] = "running" /\ turns[t] > 0 /\ produced[t] = "none"

\* A "bad" result is one that finish rejects.
HostEnds(t, outcome) ==
  /\ t \in Bound /\ Running(t)
  /\ outcome = "bad" => upsets < MaxUpsets
  /\ upsets' = IF outcome = "bad" THEN upsets + 1 ELSE upsets
  /\ produced' = [produced EXCEPT ![t] = outcome]
  /\ status' = [status EXCEPT ![delegations[t]] = "settling"]
  /\ UNCHANGED <<control, dispatched, role, stale, bindings, lifecycle, bornFor, turns, tick>>

HostSettles(a) ==
  /\ status[a] = "settling"
  /\ status' = [status EXCEPT ![a] = "completed"]
  /\ UNCHANGED <<pool, bindings, lifecycle, bornFor, turns, produced, tick>>

\* The controller lock is held while an agent is being closed.
Control(value) ==
  /\ pc # "close"
  /\ upsets < MaxUpsets /\ upsets' = upsets + 1
  /\ control # "stopped"
  /\ control' = value
  /\ UNCHANGED <<dispatched, role, stale, bindings, lifecycle, host, tick>>

Drift(t) ==
  /\ upsets < MaxUpsets /\ upsets' = upsets + 1
  /\ stale' = IF t \in stale THEN stale \ {t} ELSE stale \cup {t}
  /\ UNCHANGED <<control, dispatched, role, bindings, lifecycle, host, tick>>

\* The owner retires work that did not start, while no tick is running.
Retire(t) ==
  /\ pc = "rest" /\ t \in Bound \cap Undelivered /\ turns[t] = 0
  /\ receipts' = receipts \cup {t}
  /\ UNCHANGED <<pool, delegations, starts, lifecycle, host, tick>>

-----------------------------------------------------------------------------
\* A goal taken over from the tool-driven protocol: one token is in flight,
\* bound to an identity that was started and acknowledged, started, or not.
TakenOver(a) ==
  /\ dispatched = 1 /\ delegations = [t \in Tokens |-> IF t = 1 THEN a ELSE NoAgent]
  /\ \E begun \in BOOLEAN :
       /\ status = [b \in Agents |-> IF b # a THEN "absent"
                                    ELSE IF begun THEN "running" ELSE "idle"]
       /\ turns = [t \in Tokens |-> IF t = 1 /\ begun THEN 1 ELSE 0]
       /\ starts \in {{}} \cup (IF begun THEN {{1}} ELSE {})
  /\ bornFor = [b \in Agents |-> IF b = a THEN 1 ELSE 0]

Fresh ==
  /\ dispatched = 0 /\ delegations = [t \in Tokens |-> NoAgent]
  /\ status = [a \in Agents |-> "absent"]
  /\ turns = [t \in Tokens |-> 0] /\ starts = {}
  /\ bornFor = [a \in Agents |-> 0]

Init ==
  /\ Fresh \/ (Adopt /\ \E a \in Agents : TakenOver(a))
  /\ control = "active" /\ stale = {} /\ upsets = 0
  /\ role = [t \in Tokens |-> "worker"] /\ receipts = {}
  /\ spawns = [t \in Tokens |-> "none"] /\ assignments = [t \in Tokens |-> NoAgent]
  /\ deliveries = [t \in Tokens |-> "none"] /\ results = [t \in Tokens |-> "none"]
  /\ closes = {}
  /\ produced = [t \in Tokens |-> "none"]
  /\ pc = "rest" /\ job = 0 /\ agent = NoAgent /\ todo = {} /\ goOn = FALSE

HarvestNext == Tick \/ (\E t \in Tokens : Harvest(t)) \/ Finish

InventoryNext == Inventory \/ (\E a \in Agents : CloseIntent(a)) \/ HostClose \/ StayPut

DispatchNext == (\E t \in Tokens : Resume(t)) \/ (\E r \in Roles : Dispatch(r)) \/ Wait

IdentityNext ==
  \/ Assign \/ Recover \/ Reuse \/ Reserve \/ NoIdentity
  \/ CheckSpawn \/ HostSpawn \/ SpawnUncertain \/ Spawned \/ Bind

DeliveryNext ==
  Release \/ Intend \/ Recheck \/ Withdraw \/ HostStart \/ Started \/ Acknowledge

CoordinatorNext ==
  HarvestNext \/ InventoryNext \/ DispatchNext \/ IdentityNext \/ DeliveryNext

HostNext ==
  \/ \E t \in Tokens, outcome \in {"good", "bad"} : HostEnds(t, outcome)
  \/ \E a \in Agents : HostSettles(a)

OwnerNext ==
  \/ \E value \in Commands : Control(value)
  \/ \E t \in Pending : Drift(t)
  \/ \E t \in Tokens : Retire(t)

Next == CoordinatorNext \/ Crash \/ HostNext \/ OwnerNext

Spec == Init /\ [][Next]_vars

\* Without crashes and with the owner away, the coordinator is ticked again and
\* again and every turn ends.
CalmSpec ==
  /\ Init /\ [][CoordinatorNext \/ HostNext]_vars
  /\ WF_vars(CoordinatorNext)
  /\ \A t \in Tokens : WF_vars(HostEnds(t, "good"))
  /\ \A a \in Agents : WF_vars(HostSettles(a))

-----------------------------------------------------------------------------
(* Properties.                                                             *)

TypeOK ==
  /\ control \in {"active", "paused", "stopped"}
  /\ dispatched \in 0 .. MaxTokens /\ upsets \in 0 .. MaxUpsets
  /\ role \in [Tokens -> Roles] /\ stale \subseteq 1 .. dispatched
  /\ delegations \in [Tokens -> Agents \cup {NoAgent}]
  /\ starts \subseteq Bound /\ receipts \subseteq Bound
  /\ spawns \in [Tokens -> {"none", "reserved", "uncertain"}]
  /\ assignments \in [Tokens -> Agents \cup {NoAgent}]
  /\ deliveries \in [Tokens -> {"none", "requested", "not_started", "acknowledged", "uncertain"}]
  /\ results \in [Tokens -> {"none", "good", "bad"}]
  /\ produced \in [Tokens -> {"none", "good", "bad"}]
  /\ closes \subseteq Agents
  /\ status \in [Agents -> {"absent", "idle", "running", "settling", "completed", "closed"}]
  /\ bornFor \in [Agents -> 0 .. MaxTokens] /\ turns \in [Tokens -> Nat]
  /\ job \in 0 .. MaxTokens /\ agent \in Agents \cup {NoAgent} /\ goOn \in BOOLEAN

\* The coordinator implements TurnLedger: across crashes, lost replies, pauses
\* and takeovers a turn begins at most once, only under a saved intent, and
\* never after its outcome is recorded.  The delivery marker of _assign.
Ledger == INSTANCE TurnLedger WITH
  intended <- {t \in Tokens : deliveries[t] \notin {"none", "not_started"} \/ turns[t] > 0},
  begun <- turns, recorded <- receipts

TurnsKept == Ledger!Spec

\* The identities alive on the host never exceed max_workers + 1, lost spawns
\* included, although the ceiling is checked on bound identities only.
WithinCeiling ==
  Cardinality({a \in Agents : status[a] \notin {"absent", "closed"}}) <= MaxWorkers + 1

\* A token never causes two identities, whatever replies are lost.
OneSpawnPerToken == \A a, b \in Agents : bornFor[a] = bornFor[b] /\ bornFor[a] # 0 => a = b

\* An identity with a close intent has every result recorded and never gets
\* another token, so nothing is lost when the close takes effect late.
ClosedIsHarvested ==
  /\ \A a \in closes : Settled(a)
  /\ \A a \in Agents : status[a] = "closed" => a \in closes

\* An identity serves one role, and one turn at a time: what it is bound to
\* but one token has its receipt.
OneTurnPerIdentity ==
  \A t, u \in Bound : delegations[t] = delegations[u] /\ t # u =>
    role[t] = role[u] /\ (t \in receipts \/ u \in receipts)

\* Every dispatched token gets its receipt when calls take effect, even if
\* their replies are lost.
EveryTokenIsRecorded == \A t \in Tokens : t <= dispatched ~> t \in receipts

\* Claimed by tick: it harvests all available results.
AvailableIsHarvested == \A t \in Tokens : produced[t] = "good" ~> t \in receipts
=============================================================================
