----------------------- MODULE NativeCoordinatorProofs -----------------------
(***************************************************************************)
(* Type correctness of the coordinator, that a token causes at most one    *)
(* identity and an identity serves one token at a time, that closing is    *)
(* final, that living workers stay within the ceiling, and that the        *)
(* coordinator implements TurnLedger.                                      *)
(*                                                                         *)
(* Only the position of the tick in progress makes these inductive: what   *)
(* it knows of its token's binding, reservation, delivery and turn, of the *)
(* identity it takes and of the room it found, is stated by BindingKnown,  *)
(* SpawnKnown, DeliveryKnown, TakenKnown, HeldInv and RoomReserved.        *)
(***************************************************************************)
EXTENDS NativeCoordinator, FiniteSetTheorems, TLAPS

Searching == {"find", "reserved", "spawn", "failed", "spawned", "bind"}
Delivering == {"release", "intend", "recheck", "withdraw", "start"}
Begun == {"started", "acknowledge", "unsure"}
Positions ==
  {"rest", "harvest", "finish", "inventory", "close", "assign"}
    \cup Searching \cup Delivering \cup Begun

Unmarked == {"none", "not_started"}

\* A token being searched for has no binding yet, one being delivered has.
BindingKnown ==
  /\ pc \in Positions
  /\ pc \in {"assign", "finish"} \cup Searching \cup Delivering \cup Begun =>
       job \in 1 .. dispatched
  /\ pc \in {"assign"} \cup Searching \cup Delivering => job \notin receipts
  /\ pc \in Searching => delegations[job] = NoAgent
  /\ pc \in Delivering \cup Begun => delegations[job] # NoAgent
  /\ pc \in {"close", "spawned", "bind"} \cup Delivering \cup Begun => agent \in Agents
  /\ pc = "close" => agent \in closes

\* The host has an identity for a token only if one was reserved or the token
\* came bound, and none while its first call is still to be made.
SpawnKnown ==
  /\ \A a \in Agents : bornFor[a] # 0 => bornFor[a] \in Bound \/ spawns[bornFor[a]] # "none"
  /\ pc \in {"reserved", "spawn"} => \A a \in Agents : bornFor[a] # job
  /\ pc \in {"reserved", "spawn", "failed", "spawned"} => spawns[job] = "reserved"

\* A turn that began was intended, or came with the goal and is not resent.
DeliveryKnown ==
  /\ \A t \in Tokens : turns[t] \in {0, 1}
  /\ \A t \in Tokens : turns[t] = 1 => t \in Bound
  /\ \A t \in Tokens : turns[t] = 1 /\ deliveries[t] \in Unmarked => assignments[t] = NoAgent
  /\ \A t \in Tokens : t > dispatched => deliveries[t] = "none" /\ delegations[t] = NoAgent
  /\ pc \in {"assign"} \cup Searching \cup {"release", "intend"} => deliveries[job] \in Unmarked
  /\ pc \in Searching \cup Delivering => turns[job] = 0
  /\ pc \in {"recheck", "withdraw", "start"} \cup Begun => deliveries[job] = "requested"

\* A receipt needs a result, and a result a turn.
ResultsKnown ==
  /\ \A t \in Tokens : produced[t] # "none" => turns[t] = 1
  /\ \A t \in Tokens : results[t] # "none" => produced[t] # "none"
  /\ pc = "finish" => results[job] # "none"

IInv == TypeOK /\ BindingKnown /\ SpawnKnown /\ DeliveryKnown /\ ResultsKnown /\ OneSpawnPerToken

USE CoordinatorAssumption DEF Tokens, Roles, Bound, Pending, Unmarked, Undelivered,
  Searching, Delivering, Begun, Positions, pool, bindings, lifecycle, host, tick, Become

-----------------------------------------------------------------------------
(* Facts the steps share.                                                  *)

LEMMA ReturnTypes ==
  Return => /\ job' \in 0 .. MaxTokens /\ agent' \in Agents \cup {NoAgent}
            /\ goOn' \in BOOLEAN /\ pc' = "rest"
  <1> SUFFICES ASSUME Return
               PROVE  /\ job' \in 0 .. MaxTokens /\ agent' \in Agents \cup {NoAgent}
                      /\ goOn' \in BOOLEAN /\ pc' = "rest"
    OBVIOUS
  <1>1. job' \in 0 .. MaxTokens /\ agent' \in Agents \cup {NoAgent} /\ pc' = "rest"
    BY DEF Return
  <1>2. goOn' \in BOOLEAN
    BY Zenon DEF Return
  <1>3. QED
    BY <1>1, <1>2

\* A tick may end, or die, at any step.
LEMMA ReturnKeeps ==
  ASSUME IInv, Return, UNCHANGED <<pool, bindings, lifecycle, host>>
  PROVE  IInv'
  <1>1. TypeOK'
    BY ReturnTypes DEF IInv, TypeOK
  <1>2. BindingKnown' /\ SpawnKnown' /\ DeliveryKnown' /\ ResultsKnown' /\ OneSpawnPerToken'
    BY ReturnTypes DEF IInv, BindingKnown, SpawnKnown, DeliveryKnown, ResultsKnown,
                       OneSpawnPerToken
  <1>3. QED
    BY <1>1, <1>2 DEF IInv

LEMMA OwnedTypes == TypeOK => Owned \subseteq Agents
  BY DEF TypeOK, Owned

\* Only a turn of a bound token can have a result.
LEMMA ResultOfBound ==
  ASSUME IInv, NEW t \in Tokens, results[t] # "none" \/ produced[t] # "none"
  PROVE  t \in Bound
  BY DEF IInv, DeliveryKnown, ResultsKnown

-----------------------------------------------------------------------------
(* _harvest.                                                               *)

LEMMA TickKeeps ==
  ASSUME IInv, Tick
  PROVE  IInv'
  BY DEF Tick, IInv, TypeOK, BindingKnown, SpawnKnown, DeliveryKnown, ResultsKnown,
         OneSpawnPerToken

LEMMA HarvestKeeps ==
  ASSUME IInv, NEW t \in Tokens, Harvest(t)
  PROVE  IInv'
  <1>1. results[t] # "none" \/ produced[t] # "none"
    BY DEF Harvest, Harvestable
  <1>2. t \in 1 .. dispatched
    BY <1>1, ResultOfBound
  <1>3. TypeOK' /\ BindingKnown'
    BY <1>2 DEF Harvest, IInv, TypeOK, BindingKnown
  <1>4. SpawnKnown' /\ DeliveryKnown' /\ OneSpawnPerToken'
    BY DEF Harvest, IInv, SpawnKnown, DeliveryKnown, OneSpawnPerToken
  <1>5. ResultsKnown'
    <2>1. results' = [results EXCEPT ![t] = IF @ = "none" THEN produced[t] ELSE @]
      BY DEF Harvest
    <2>2. results'[t] # "none" /\ produced[t] # "none"
      BY <1>1, <2>1 DEF IInv, TypeOK, ResultsKnown
    <2>3. QED
      BY <2>1, <2>2 DEF Harvest, IInv, TypeOK, ResultsKnown
  <1>6. QED
    BY <1>3, <1>4, <1>5 DEF IInv

LEMMA FinishKeeps ==
  ASSUME IInv, Finish
  PROVE  IInv'
  <1>1. job \in Tokens /\ job \in Bound
    BY ResultOfBound DEF Finish, IInv, TypeOK, BindingKnown, ResultsKnown
  <1>2. CASE Return
    BY <1>2, ReturnKeeps, ReturnTypes DEF Finish
  <1>3. CASE pc' = "harvest"
    <2>1. TypeOK'
      BY <1>1, <1>3, ReturnTypes DEF Finish, IInv, TypeOK
    <2>2. BindingKnown' /\ SpawnKnown' /\ DeliveryKnown' /\ ResultsKnown' /\ OneSpawnPerToken'
      BY <1>3, ReturnTypes DEF Finish, IInv, TypeOK, BindingKnown, SpawnKnown, DeliveryKnown,
           ResultsKnown, OneSpawnPerToken
    <2>3. QED
      BY <2>1, <2>2 DEF IInv
  <1>4. QED
    BY <1>2, <1>3 DEF Finish

-----------------------------------------------------------------------------
(* _inventory and _close.                                                  *)

LEMMA InventoryKeeps ==
  ASSUME IInv, Inventory
  PROVE  IInv'
  BY DEF Inventory, IInv, TypeOK, BindingKnown, SpawnKnown, DeliveryKnown, ResultsKnown,
         OneSpawnPerToken

LEMMA CloseIntentKeeps ==
  ASSUME IInv, NEW a \in Agents, CloseIntent(a)
  PROVE  IInv'
  <1>1. CASE Return /\ UNCHANGED closes
    BY <1>1, ReturnKeeps DEF CloseIntent
  <1>2. CASE closes' = closes \cup {a} /\ pc' = "close" /\ agent' = a /\ UNCHANGED <<job, goOn>>
    BY <1>2 DEF CloseIntent, IInv, TypeOK, BindingKnown, SpawnKnown, DeliveryKnown,
         ResultsKnown, OneSpawnPerToken
  <1>3. QED
    BY <1>1, <1>2 DEF CloseIntent

LEMMA HostCloseKeeps ==
  ASSUME IInv, HostClose
  PROVE  IInv'
  BY DEF HostClose, IInv, TypeOK, BindingKnown, SpawnKnown, DeliveryKnown, ResultsKnown,
         OneSpawnPerToken

-----------------------------------------------------------------------------
(* What to work on.                                                        *)

LEMMA ResumeKeeps ==
  ASSUME IInv, NEW t \in Tokens, Resume(t)
  PROVE  IInv'
  <1>1. TypeOK'
    BY DEF Resume, Inventoried, IInv, TypeOK
  <1>2. BindingKnown'
    BY DEF Resume, Inventoried, IInv, TypeOK, BindingKnown
  <1>3. SpawnKnown' /\ OneSpawnPerToken'
    BY DEF Resume, Inventoried, IInv, TypeOK, BindingKnown, SpawnKnown, OneSpawnPerToken
  <1>4. DeliveryKnown'
    BY DEF Resume, Inventoried, IInv, TypeOK, BindingKnown, DeliveryKnown
  <1>5. ResultsKnown'
    BY DEF Resume, Inventoried, IInv, TypeOK, BindingKnown, ResultsKnown
  <1>6. QED
    BY <1>1, <1>2, <1>3, <1>4, <1>5 DEF IInv

LEMMA DispatchKeeps ==
  ASSUME IInv, NEW r \in Roles, Dispatch(r)
  PROVE  IInv'
  <1>1. TypeOK'
    BY DEF Dispatch, Inventoried, IInv, TypeOK
  <1>2. BindingKnown'
    BY DEF Dispatch, Inventoried, IInv, TypeOK, BindingKnown
  <1>3. SpawnKnown' /\ OneSpawnPerToken'
    BY DEF Dispatch, Inventoried, IInv, TypeOK, BindingKnown, SpawnKnown, OneSpawnPerToken
  <1>4. DeliveryKnown'
    BY DEF Dispatch, Inventoried, IInv, TypeOK, BindingKnown, DeliveryKnown
  <1>5. ResultsKnown'
    BY DEF Dispatch, Inventoried, IInv, TypeOK, BindingKnown, ResultsKnown
  <1>6. QED
    BY <1>1, <1>2, <1>3, <1>4, <1>5 DEF IInv

-----------------------------------------------------------------------------
(* _assign: an identity.                                                   *)

LEMMA AssignKeeps ==
  ASSUME IInv, Assign
  PROVE  IInv'
  <1>1. CASE Return
    BY <1>1, ReturnKeeps DEF Assign
  <1>2. CASE pc' = "release" \/ pc' = "find"
    <2>1. TypeOK' /\ SpawnKnown' /\ ResultsKnown' /\ OneSpawnPerToken'
      BY <1>2, ReturnTypes DEF Assign, IInv, TypeOK, BindingKnown, SpawnKnown, ResultsKnown,
           OneSpawnPerToken
    <2>2. BindingKnown' /\ DeliveryKnown'
      BY <1>2, ReturnTypes DEF Assign, IInv, TypeOK, BindingKnown, DeliveryKnown
    <2>3. QED
      BY <2>1, <2>2 DEF IInv
  <1>3. QED
    BY <1>1, <1>2 DEF Assign

LEMMA RecoverKeeps ==
  ASSUME IInv, Recover
  PROVE  IInv'
  <1>1. TypeOK'
    BY DEF Recover, Take, Matches, IInv, TypeOK, BindingKnown
  <1>2. BindingKnown'
    BY DEF Recover, Take, Matches, IInv, TypeOK, BindingKnown
  <1>3. SpawnKnown' /\ OneSpawnPerToken'
    BY DEF Recover, Take, Matches, IInv, TypeOK, BindingKnown, SpawnKnown, OneSpawnPerToken
  <1>4. DeliveryKnown'
    BY DEF Recover, Take, Matches, IInv, TypeOK, BindingKnown, DeliveryKnown
  <1>5. ResultsKnown'
    BY DEF Recover, Take, Matches, IInv, TypeOK, BindingKnown, DeliveryKnown, ResultsKnown
  <1>6. QED
    BY <1>1, <1>2, <1>3, <1>4, <1>5 DEF IInv

LEMMA ReuseKeeps ==
  ASSUME IInv, Reuse
  PROVE  IInv'
  BY OwnedTypes DEF Reuse, Take, Candidates, NothingFound, IInv, TypeOK, BindingKnown,
         SpawnKnown, DeliveryKnown, ResultsKnown,
         OneSpawnPerToken

LEMMA ReserveKeeps ==
  ASSUME IInv, Reserve
  PROVE  IInv'
  <1>1. TypeOK'
    BY DEF Reserve, NothingFound, IInv, TypeOK, BindingKnown
  <1>2. BindingKnown'
    BY DEF Reserve, NothingFound, IInv, TypeOK, BindingKnown
  <1>3. SpawnKnown' /\ OneSpawnPerToken'
    <2>1. job \in Tokens /\ job \notin Bound /\ spawns[job] = "none"
      BY DEF Reserve, NothingFound, IInv, TypeOK, BindingKnown
    <2>2. ASSUME NEW a \in Agents, bornFor[a] = job
          PROVE  FALSE
      <3>1. bornFor[a] # 0
        BY <2>1, <2>2
      <3>2. QED
        BY <2>1, <2>2, <3>1 DEF IInv, SpawnKnown
    <2>3. QED
      BY <2>1, <2>2 DEF Reserve, NothingFound, IInv, TypeOK, SpawnKnown, OneSpawnPerToken
  <1>4. DeliveryKnown'
    BY DEF Reserve, NothingFound, IInv, TypeOK, BindingKnown, DeliveryKnown
  <1>5. ResultsKnown'
    BY DEF Reserve, NothingFound, IInv, TypeOK, BindingKnown, DeliveryKnown, ResultsKnown
  <1>6. QED
    BY <1>1, <1>2, <1>3, <1>4, <1>5 DEF IInv

LEMMA CheckSpawnKeeps ==
  ASSUME IInv, CheckSpawn
  PROVE  IInv'
  <1>1. CASE Return
    BY <1>1, ReturnKeeps DEF CheckSpawn
  <1>2. CASE Become("spawn")
    BY <1>2 DEF CheckSpawn, IInv, TypeOK, BindingKnown, SpawnKnown, DeliveryKnown, ResultsKnown,
         OneSpawnPerToken
  <1>3. QED
    BY <1>1, <1>2 DEF CheckSpawn

LEMMA HostSpawnKeeps ==
  ASSUME IInv, HostSpawn
  PROVE  IInv'
  BY DEF HostSpawn, IInv, TypeOK, BindingKnown, SpawnKnown, DeliveryKnown, ResultsKnown,
         OneSpawnPerToken

LEMMA SpawnUncertainKeeps ==
  ASSUME IInv, SpawnUncertain
  PROVE  IInv'
  <1>1. TypeOK'
    BY ReturnTypes DEF SpawnUncertain, IInv, TypeOK
  <1>2. BindingKnown'
    BY ReturnTypes DEF SpawnUncertain, IInv, TypeOK, BindingKnown
  <1>3. SpawnKnown' /\ OneSpawnPerToken'
    BY ReturnTypes DEF SpawnUncertain, IInv, TypeOK, BindingKnown, SpawnKnown, OneSpawnPerToken
  <1>4. DeliveryKnown'
    BY ReturnTypes DEF SpawnUncertain, IInv, TypeOK, BindingKnown, DeliveryKnown
  <1>5. ResultsKnown'
    BY ReturnTypes DEF SpawnUncertain, IInv, TypeOK, BindingKnown, ResultsKnown
  <1>6. QED
    BY <1>1, <1>2, <1>3, <1>4, <1>5 DEF IInv

LEMMA SpawnedKeeps ==
  ASSUME IInv, Spawned
  PROVE  IInv'
  BY DEF Spawned, Take, IInv, TypeOK, BindingKnown, SpawnKnown, DeliveryKnown, ResultsKnown,
         OneSpawnPerToken

LEMMA BindKeeps ==
  ASSUME IInv, Bind
  PROVE  IInv'
  <1>1. CASE Return /\ UNCHANGED delegations
    BY <1>1, ReturnKeeps DEF Bind
  <1>2. CASE delegations' = [delegations EXCEPT ![job] = agent] /\ Become("release")
    <2>1. job \in Tokens /\ agent \in Agents
      BY DEF Bind, IInv, TypeOK, BindingKnown
    <2>2. Bound' = Bound \cup {job}
      BY <1>2, <2>1 DEF Bind, IInv, TypeOK, BindingKnown
    <2>3. TypeOK'
      BY <1>2, <2>1, <2>2 DEF Bind, IInv, TypeOK
    <2>4. BindingKnown'
      BY <1>2, <2>1 DEF Bind, IInv, TypeOK, BindingKnown
    <2>5. SpawnKnown' /\ ResultsKnown' /\ OneSpawnPerToken'
      BY <1>2, <2>2 DEF Bind, IInv, SpawnKnown, ResultsKnown, OneSpawnPerToken
    <2>6. DeliveryKnown'
      BY <1>2, <2>1 DEF Bind, IInv, TypeOK, BindingKnown, DeliveryKnown
    <2>7. QED
      BY <2>3, <2>4, <2>5, <2>6 DEF IInv
  <1>3. QED
    BY <1>1, <1>2 DEF Bind

-----------------------------------------------------------------------------
(* _assign: delivery.                                                      *)

LEMMA ReleaseKeeps ==
  ASSUME IInv, Release
  PROVE  IInv'
  <1>1. CASE Return
    BY <1>1, ReturnKeeps DEF Release
  <1>2. CASE Become("intend")
    BY <1>2 DEF Release, IInv, TypeOK, BindingKnown, SpawnKnown, DeliveryKnown, ResultsKnown,
         OneSpawnPerToken
  <1>3. QED
    BY <1>1, <1>2 DEF Release

LEMMA IntendKeeps ==
  ASSUME IInv, Intend
  PROVE  IInv'
  BY DEF Intend, Deliver, IInv, TypeOK, BindingKnown, SpawnKnown, DeliveryKnown, ResultsKnown,
         OneSpawnPerToken

LEMMA RecheckKeeps ==
  ASSUME IInv, Recheck
  PROVE  IInv'
  BY DEF Recheck, IInv, TypeOK, BindingKnown, SpawnKnown, DeliveryKnown, ResultsKnown,
         OneSpawnPerToken

LEMMA WithdrawKeeps ==
  ASSUME IInv, Withdraw
  PROVE  IInv'
  <1>1. TypeOK'
    BY ReturnTypes DEF Withdraw, Deliver, IInv, TypeOK
  <1>2. BindingKnown'
    BY ReturnTypes DEF Withdraw, Deliver, IInv, TypeOK, BindingKnown
  <1>3. SpawnKnown' /\ OneSpawnPerToken'
    BY ReturnTypes DEF Withdraw, Deliver, IInv, TypeOK, BindingKnown, SpawnKnown, OneSpawnPerToken
  <1>4. DeliveryKnown'
    BY ReturnTypes DEF Withdraw, Deliver, IInv, TypeOK, BindingKnown, DeliveryKnown
  <1>5. ResultsKnown'
    BY ReturnTypes DEF Withdraw, Deliver, IInv, TypeOK, BindingKnown, ResultsKnown
  <1>6. QED
    BY <1>1, <1>2, <1>3, <1>4, <1>5 DEF IInv

LEMMA HostStartKeeps ==
  ASSUME IInv, HostStart
  PROVE  IInv'
  <1>1. TypeOK'
    BY DEF HostStart, IInv, TypeOK, BindingKnown
  <1>2. BindingKnown'
    BY DEF HostStart, IInv, TypeOK, BindingKnown
  <1>3. SpawnKnown' /\ OneSpawnPerToken'
    BY DEF HostStart, IInv, TypeOK, BindingKnown, SpawnKnown, OneSpawnPerToken
  <1>4. DeliveryKnown'
    BY DEF HostStart, IInv, TypeOK, BindingKnown, DeliveryKnown
  <1>5. ResultsKnown'
    BY DEF HostStart, IInv, TypeOK, BindingKnown, DeliveryKnown, ResultsKnown
  <1>6. QED
    BY <1>1, <1>2, <1>3, <1>4, <1>5 DEF IInv

LEMMA StartedKeeps ==
  ASSUME IInv, Started
  PROVE  IInv'
  BY DEF Started, IInv, TypeOK, BindingKnown, SpawnKnown, DeliveryKnown, ResultsKnown,
         OneSpawnPerToken

LEMMA AcknowledgeKeeps ==
  ASSUME IInv, Acknowledge
  PROVE  IInv'
  <1>1. TypeOK'
    BY ReturnTypes DEF Acknowledge, Deliver, IInv, TypeOK
  <1>2. BindingKnown'
    BY ReturnTypes DEF Acknowledge, Deliver, IInv, TypeOK, BindingKnown
  <1>3. SpawnKnown' /\ OneSpawnPerToken'
    BY ReturnTypes DEF Acknowledge, Deliver, IInv, TypeOK, BindingKnown, SpawnKnown, OneSpawnPerToken
  <1>4. DeliveryKnown'
    BY ReturnTypes DEF Acknowledge, Deliver, IInv, TypeOK, BindingKnown, DeliveryKnown
  <1>5. ResultsKnown'
    BY ReturnTypes DEF Acknowledge, Deliver, IInv, TypeOK, BindingKnown, ResultsKnown
  <1>6. QED
    BY <1>1, <1>2, <1>3, <1>4, <1>5 DEF IInv

-----------------------------------------------------------------------------
(* The rest of the world.                                                  *)

LEMMA HostEndsKeeps ==
  ASSUME IInv, NEW t \in Tokens, NEW outcome \in {"good", "bad"}, HostEnds(t, outcome)
  PROVE  IInv'
  <1>1. TypeOK'
    BY DEF HostEnds, Running, IInv, TypeOK, BindingKnown
  <1>2. BindingKnown'
    BY DEF HostEnds, Running, IInv, TypeOK, BindingKnown
  <1>3. SpawnKnown' /\ OneSpawnPerToken'
    BY DEF HostEnds, Running, IInv, TypeOK, BindingKnown, SpawnKnown, OneSpawnPerToken
  <1>4. DeliveryKnown'
    BY DEF HostEnds, Running, IInv, TypeOK, BindingKnown, DeliveryKnown
  <1>5. ResultsKnown'
    BY DEF HostEnds, Running, IInv, TypeOK, BindingKnown, DeliveryKnown, ResultsKnown
  <1>6. QED
    BY <1>1, <1>2, <1>3, <1>4, <1>5 DEF IInv

LEMMA HostSettlesKeeps ==
  ASSUME IInv, NEW a \in Agents, HostSettles(a)
  PROVE  IInv'
  BY DEF HostSettles, IInv, TypeOK, BindingKnown, SpawnKnown, DeliveryKnown, ResultsKnown,
         OneSpawnPerToken

LEMMA ControlKeeps ==
  ASSUME IInv, NEW value \in Commands, Control(value)
  PROVE  IInv'
  BY DEF Control, IInv, TypeOK, BindingKnown, SpawnKnown, DeliveryKnown, ResultsKnown,
         OneSpawnPerToken

LEMMA DriftKeeps ==
  ASSUME IInv, NEW t \in Pending, Drift(t)
  PROVE  IInv'
  <1>1. TypeOK'
    BY DEF Drift, IInv, TypeOK
  <1>2. BindingKnown'
    BY DEF Drift, IInv, TypeOK, BindingKnown
  <1>3. SpawnKnown' /\ OneSpawnPerToken'
    BY DEF Drift, IInv, TypeOK, BindingKnown, SpawnKnown, OneSpawnPerToken
  <1>4. DeliveryKnown'
    BY DEF Drift, IInv, TypeOK, BindingKnown, DeliveryKnown
  <1>5. ResultsKnown'
    BY DEF Drift, IInv, TypeOK, BindingKnown, ResultsKnown
  <1>6. QED
    BY <1>1, <1>2, <1>3, <1>4, <1>5 DEF IInv

LEMMA RetireKeeps ==
  ASSUME IInv, NEW t \in Tokens, Retire(t)
  PROVE  IInv'
  <1>1. TypeOK'
    BY DEF Retire, IInv, TypeOK
  <1>2. BindingKnown'
    BY DEF Retire, IInv, TypeOK, BindingKnown
  <1>3. SpawnKnown' /\ OneSpawnPerToken'
    BY DEF Retire, IInv, TypeOK, BindingKnown, SpawnKnown, OneSpawnPerToken
  <1>4. DeliveryKnown'
    BY DEF Retire, IInv, TypeOK, BindingKnown, DeliveryKnown
  <1>5. ResultsKnown'
    BY DEF Retire, IInv, TypeOK, BindingKnown, ResultsKnown
  <1>6. QED
    BY <1>1, <1>2, <1>3, <1>4, <1>5 DEF IInv

-----------------------------------------------------------------------------
(* The theorems.                                                           *)

LEMMA InitInv == Init => IInv
  <1> SUFFICES ASSUME Init PROVE IInv
    OBVIOUS
  <1> SUFFICES ASSUME Init PROVE IInv
    OBVIOUS
  <1>1. CASE Fresh
    <2>1. Bound = {}
      BY <1>1 DEF Fresh
    <2>2. goOn \in BOOLEAN
      BY Zenon DEF Init
    <2>3. TypeOK
      BY <1>1, <2>1, <2>2 DEF Init, Fresh, TypeOK
    <2>4. BindingKnown /\ SpawnKnown /\ DeliveryKnown /\ ResultsKnown /\ OneSpawnPerToken
      BY <1>1 DEF Init, Fresh, BindingKnown, SpawnKnown, DeliveryKnown, ResultsKnown,
                  OneSpawnPerToken
    <2>5. QED
      BY <2>3, <2>4 DEF IInv
  <1>2. ASSUME NEW a \in Agents, TakenOver(a)
        PROVE  IInv
    <2>1. PICK begun \in BOOLEAN :
            /\ status = [b \in Agents |-> IF b # a THEN "absent"
                                          ELSE IF begun THEN "running" ELSE "idle"]
            /\ turns = [t \in Tokens |-> IF t = 1 /\ begun THEN 1 ELSE 0]
            /\ starts \in {{}} \cup (IF begun THEN {{1}} ELSE {})
      BY <1>2 DEF TakenOver
    <2>2. /\ dispatched = 1 /\ delegations = [t \in Tokens |-> IF t = 1 THEN a ELSE NoAgent]
          /\ bornFor = [b \in Agents |-> IF b = a THEN 1 ELSE 0]
      BY <1>2 DEF TakenOver
    <2>3. Bound = {1} /\ starts \subseteq {1}
      BY <2>1, <2>2
    <2>4. TypeOK
      <3>1. goOn \in BOOLEAN
        BY Zenon DEF Init
      <3>2. status \in [Agents -> {"idle", "running", "absent"}] /\ turns \in [Tokens -> Nat]
        BY <2>1
      <3>3. QED
        BY <2>2, <2>3, <3>1, <3>2 DEF Init, TypeOK
    <2>5. BindingKnown /\ SpawnKnown /\ OneSpawnPerToken
      BY <2>2, <2>3 DEF Init, BindingKnown, SpawnKnown, OneSpawnPerToken
    <2>6. DeliveryKnown
      BY <2>1, <2>2, <2>3 DEF Init, DeliveryKnown
    <2>7. ResultsKnown
      BY DEF Init, ResultsKnown
    <2>8. QED
      BY <2>4, <2>5, <2>6, <2>7 DEF IInv
  <1>3. QED
    BY <1>1, <1>2 DEF Init

LEMMA StutterInv == IInv /\ UNCHANGED vars => IInv'
  BY DEF vars, IInv, TypeOK, BindingKnown, SpawnKnown, DeliveryKnown, ResultsKnown,
       OneSpawnPerToken

LEMMA StepInv == IInv /\ [Next]_vars => IInv'
  <1> SUFFICES ASSUME IInv, [Next]_vars PROVE IInv'
    OBVIOUS
  <1>1. CASE HarvestNext
    BY <1>1, TickKeeps, HarvestKeeps, FinishKeeps DEF HarvestNext
  <1>2. CASE InventoryNext
    BY <1>2, InventoryKeeps, CloseIntentKeeps, HostCloseKeeps, ReturnKeeps
       DEF InventoryNext, StayPut
  <1>3. CASE DispatchNext
    BY <1>3, ResumeKeeps, DispatchKeeps, ReturnKeeps DEF DispatchNext, Wait
  <1>4. CASE IdentityNext
    BY <1>4, AssignKeeps, RecoverKeeps, ReuseKeeps, ReserveKeeps, CheckSpawnKeeps,
       HostSpawnKeeps, SpawnUncertainKeeps, SpawnedKeeps, BindKeeps, ReturnKeeps
       DEF IdentityNext, NoIdentity
  <1>5. CASE DeliveryNext
    BY <1>5, ReleaseKeeps, IntendKeeps, RecheckKeeps, WithdrawKeeps, HostStartKeeps,
       StartedKeeps, AcknowledgeKeeps DEF DeliveryNext
  <1>6. CASE Crash
    BY <1>6, ReturnKeeps DEF Crash
  <1>7. CASE HostNext
    BY <1>7, HostEndsKeeps, HostSettlesKeeps DEF HostNext
  <1>8. CASE OwnerNext
    BY <1>8, ControlKeeps, DriftKeeps, RetireKeeps DEF OwnerNext
  <1>9. QED
    BY <1>1, <1>2, <1>3, <1>4, <1>5, <1>6, <1>7, <1>8, StutterInv DEF Next, CoordinatorNext

LEMMA Invariant == Spec => []IInv
  BY InitInv, StepInv, PTL DEF Spec

\* Receipts and acknowledged starts belong to bound tokens, in every crash,
\* lost reply, pause and takeover.
THEOREM CoordinatorTypeCorrect == Spec => []TypeOK
  <1>1. IInv => TypeOK
    BY DEF IInv
  <1>2. QED
    BY <1>1, Invariant, PTL

\* However many replies to spawn are lost and however often the coordinator
\* dies, no token causes two identities: the reservation is saved first.
THEOREM OneSpawn == Spec => []OneSpawnPerToken
  <1>1. IInv => OneSpawnPerToken
    BY DEF IInv
  <1>2. QED
    BY <1>1, Invariant, PTL

-----------------------------------------------------------------------------
(* How identities are used.                                                *)

\* An identity taken for a token exists, is not being closed, and served the
\* token's role only; one just spawned has served nobody.
TakenKnown ==
  /\ \A a \in Owned : status[a] # "absent"
  /\ pc \in {"spawned", "bind"} => status[agent] # "absent"
  /\ pc = "spawned" => agent \notin Owned
  /\ pc = "bind" => agent \notin closes /\ \A t \in TokensOf(agent) : role[t] = role[job]

UseInv ==
  closes \subseteq Owned /\ TakenKnown /\ ClosedIsHarvested /\ OneTurnPerIdentity

\* What a step must leave alone, or only add to, for UseInv to go on.
LEMMA UseUndisturbed ==
  ASSUME IInv, UseInv,
         UNCHANGED <<delegations, closes>>, dispatched' = dispatched, role' = role,
         receipts \subseteq receipts',
         \A a \in Agents : (status[a] # "absent" => status'[a] # "absent")
                        /\ (status'[a] = "closed" => status[a] = "closed"),
         pc' \notin {"spawned", "bind"} \/ UNCHANGED <<pc, agent, job>>
  PROVE  UseInv'
  <1>1. Bound' = Bound /\ Owned' = Owned /\ \A a \in Agents : TokensOf(a)' = TokensOf(a)
    BY DEF Owned, TokensOf
  <1>2. TakenKnown'
    BY <1>1, OwnedTypes DEF IInv, BindingKnown, UseInv, TakenKnown
  <1>3. ClosedIsHarvested'
    BY <1>1, OwnedTypes DEF IInv, UseInv, ClosedIsHarvested, Settled
  <1>4. OneTurnPerIdentity'
    BY <1>1 DEF IInv, TypeOK, UseInv, OneTurnPerIdentity
  <1>5. QED
    BY <1>1, <1>2, <1>3, <1>4 DEF UseInv

LEMMA CloseIntentUse ==
  ASSUME IInv, UseInv, NEW a \in Agents, CloseIntent(a)
  PROVE  UseInv'
  <1>1. CASE UNCHANGED closes /\ Return
    BY <1>1, ReturnTypes, UseUndisturbed DEF CloseIntent
  <1>2. CASE closes' = closes \cup {a} /\ pc' = "close" /\ a \in Owned /\ Settled(a)
    <2>1. UNCHANGED <<Bound, Owned, delegations, receipts, role, status>>
      BY DEF CloseIntent, Owned
    <2>2. \A b \in Agents : Settled(b)' = Settled(b)
      BY <2>1 DEF Settled, TokensOf
    <2>3. ClosedIsHarvested'
      BY <1>2, <2>1, <2>2, OwnedTypes DEF IInv, UseInv, ClosedIsHarvested
    <2>4. TakenKnown'
      BY <1>2, <2>1 DEF UseInv, TakenKnown
    <2>5. OneTurnPerIdentity'
      BY <2>1 DEF UseInv, OneTurnPerIdentity
    <2>6. QED
      BY <1>2, <2>1, <2>3, <2>4, <2>5 DEF UseInv
  <1>3. QED
    BY <1>1, <1>2 DEF CloseIntent, EligibleForClose

LEMMA HostCloseUse ==
  ASSUME IInv, UseInv, HostClose
  PROVE  UseInv'
  <1>1. agent \in Agents /\ agent \in closes
    BY DEF HostClose, IInv, BindingKnown
  <1>2. /\ UNCHANGED <<Bound, Owned, delegations, receipts, role, closes>>
        /\ pc' = "inventory"
        /\ status' = status \/ status' = [status EXCEPT ![agent] = "closed"]
    BY DEF HostClose, Owned
  <1>3. \A b \in Agents : Settled(b)' = Settled(b)
    BY <1>2 DEF Settled, TokensOf
  <1>4. ClosedIsHarvested'
    BY <1>1, <1>2, <1>3 DEF IInv, TypeOK, UseInv, ClosedIsHarvested
  <1>5. TakenKnown'
    BY <1>2, OwnedTypes DEF IInv, TypeOK, UseInv, TakenKnown
  <1>6. OneTurnPerIdentity'
    BY <1>2 DEF UseInv, OneTurnPerIdentity
  <1>7. QED
    BY <1>2, <1>4, <1>5, <1>6 DEF UseInv

LEMMA DispatchUse ==
  ASSUME IInv, UseInv, NEW r \in Roles, Dispatch(r)
  PROVE  UseInv'
  <1>1. dispatched + 1 \in Tokens /\ delegations[dispatched + 1] = NoAgent
    BY DEF Dispatch, IInv, TypeOK, DeliveryKnown
  <1>2. Bound' = Bound
    BY <1>1 DEF Dispatch, IInv, TypeOK
  <1>3. Owned' = Owned /\ \A a \in Agents : TokensOf(a)' = TokensOf(a)
    BY <1>2 DEF Dispatch, Owned, TokensOf
  <1>4. \A t \in Bound : role'[t] = role[t]
    BY <1>1 DEF Dispatch, IInv, TypeOK
  <1>5. TakenKnown'
    BY <1>3 DEF Dispatch, UseInv, TakenKnown
  <1>6. ClosedIsHarvested'
    BY <1>3, OwnedTypes DEF Dispatch, IInv, UseInv, ClosedIsHarvested, Settled
  <1>7. OneTurnPerIdentity'
    BY <1>2, <1>4 DEF Dispatch, UseInv, OneTurnPerIdentity
  <1>8. QED
    BY <1>3, <1>5, <1>6, <1>7 DEF Dispatch, UseInv

\* Taking an identity that exists, is not being closed and fits the token.
LEMMA TakeUse ==
  ASSUME IInv, UseInv, NEW a \in Agents, Take(a),
         UNCHANGED <<pool, bindings, spawns, deliveries, results, closes, host>>,
         status[a] # "absent", a \notin closes,
         \A t \in TokensOf(a) : role[t] = role[job]
  PROVE  UseInv'
  <1>1. UNCHANGED <<Bound, Owned>> /\ \A b \in Agents : TokensOf(b)' = TokensOf(b)
    BY DEF Owned, TokensOf
  <1>2. TakenKnown'
    BY <1>1 DEF Take, UseInv, TakenKnown
  <1>3. ClosedIsHarvested'
    BY <1>1, OwnedTypes DEF IInv, UseInv, ClosedIsHarvested, Settled
  <1>4. OneTurnPerIdentity'
    BY <1>1 DEF UseInv, OneTurnPerIdentity
  <1>5. QED
    BY <1>1, <1>2, <1>3, <1>4 DEF UseInv

LEMMA NotOwnedFits ==
  ASSUME UseInv, NEW a \in Agents, a \notin Owned
  PROVE  a \notin closes /\ TokensOf(a) = {}
  BY DEF UseInv, Owned, TokensOf

LEMMA RecoverUse ==
  ASSUME IInv, UseInv, Recover
  PROVE  UseInv'
  <1>1. PICK a \in Matches(job) \ Owned : Take(a)
    BY DEF Recover
  <1>2. a \in Agents /\ status[a] # "absent" /\ a \notin closes /\ TokensOf(a) = {}
    BY <1>1, NotOwnedFits DEF Matches
  <1>3. QED
    BY <1>1, <1>2, TakeUse DEF Recover

LEMMA ReuseUse ==
  ASSUME IInv, UseInv, Reuse
  PROVE  UseInv'
  <1>1. PICK o \in Observations : \E a \in Candidates(o) : Take(a)
    BY DEF Reuse
  <1>2. PICK a \in Candidates(o) : Take(a)
    BY <1>1
  <1>3. a \in Owned /\ a \in Agents /\ a \notin closes /\ RoleOf(a) = {role[job]}
    BY <1>2, OwnedTypes DEF Candidates, IInv
  <1>4. status[a] # "absent" /\ \A t \in TokensOf(a) : role[t] = role[job]
    BY <1>3 DEF UseInv, TakenKnown, RoleOf
  <1>5. QED
    BY <1>2, <1>3, <1>4, TakeUse DEF Reuse

LEMMA SpawnedUse ==
  ASSUME IInv, UseInv, Spawned
  PROVE  UseInv'
  <1>1. agent \in Agents /\ status[agent] # "absent" /\ agent \notin Owned
    BY DEF Spawned, IInv, BindingKnown, UseInv, TakenKnown
  <1>2. PICK a \in Agents : a = agent
    BY <1>1
  <1>3. a \notin closes /\ TokensOf(a) = {}
    BY <1>1, <1>2, NotOwnedFits
  <1>4. QED
    BY <1>1, <1>2, <1>3, TakeUse DEF Spawned

LEMMA HostSpawnUse ==
  ASSUME IInv, UseInv, HostSpawn
  PROVE  UseInv'
  <1>1. PICK a \in {b \in Agents : status[b] = "absent"} :
          /\ status' = status \/ status' = [status EXCEPT ![a] = "idle"]
          /\ \/ pc' = "failed"
             \/ pc' = "spawned" /\ agent' = a /\ status' = [status EXCEPT ![a] = "idle"]
    BY DEF HostSpawn, IInv, TypeOK
  <1>2. UNCHANGED <<Bound, Owned, delegations, receipts, role, closes>>
    BY DEF HostSpawn, Owned
  <1>3. a \notin Owned
    BY <1>1 DEF UseInv, TakenKnown
  <1>4. \A b \in Agents : Settled(b)' = Settled(b)
    BY <1>2 DEF Settled, TokensOf
  <1>5. TakenKnown'
    BY <1>1, <1>2, <1>3, OwnedTypes DEF IInv, TypeOK, UseInv, TakenKnown
  <1>6. ClosedIsHarvested'
    BY <1>1, <1>2, <1>4 DEF IInv, TypeOK, UseInv, ClosedIsHarvested
  <1>7. OneTurnPerIdentity'
    BY <1>2 DEF UseInv, OneTurnPerIdentity
  <1>8. QED
    BY <1>2, <1>5, <1>6, <1>7 DEF UseInv

\* The image of a set with one more element.
LEMMA ImageOfAdded ==
  ASSUME NEW f, NEW S, NEW k
  PROVE  {f[t] : t \in S \cup {k}} = {f[t] : t \in S} \cup {f[k]}
  OBVIOUS

LEMMA BindUse ==
  ASSUME IInv, UseInv, Bind
  PROVE  UseInv'
  <1>1. CASE Return /\ UNCHANGED delegations
    BY <1>1, ReturnTypes, UseUndisturbed DEF Bind
  <1>2. CASE Settled(agent) /\ delegations' = [delegations EXCEPT ![job] = agent] /\ pc' = "release"
    <2>1. /\ job \in Tokens /\ job \in 1 .. dispatched /\ job \notin Bound
          /\ delegations[job] = NoAgent /\ agent \in Agents
      BY DEF Bind, IInv, TypeOK, BindingKnown
    <2>2. /\ UNCHANGED <<dispatched, receipts, role, status, closes>>
          /\ \A t \in Tokens : delegations'[t] = IF t = job THEN agent ELSE delegations[t]
      BY <1>2 DEF Bind, IInv, TypeOK
    <2>3. Bound' = Bound \cup {job}
      BY <2>1, <2>2 DEF IInv, TypeOK
    <2>4. delegations'[job] = agent /\ \A t \in Bound : t # job /\ delegations'[t] = delegations[t]
      BY <2>1, <2>2 DEF IInv, TypeOK
    <2>5. /\ Owned' = Owned \cup {agent}
          /\ \A a \in Agents : a # agent => TokensOf(a)' = TokensOf(a)
      <3> DEFINE before == delegations
                 after == delegations'
                 more == Bound'
      <3>1. more = Bound \cup {job} /\ after[job] = agent /\ \A t \in Bound : after[t] = before[t]
        BY <2>3, <2>4
      <3>2. Owned = {before[t] : t \in Bound} /\ Owned' = {after[t] : t \in more}
        BY DEF Owned
      <3>3. \A a \in Agents : /\ TokensOf(a) = {t \in Bound : before[t] = a}
                             /\ TokensOf(a)' = {t \in more : after[t] = a}
        BY DEF TokensOf
      <3> HIDE DEF before, after, more
      <3>4. {after[t] : t \in more} = {before[t] : t \in Bound} \cup {agent}
        <4>1. {after[t] : t \in more} = {after[t] : t \in Bound} \cup {after[job]}
          BY <3>1, ImageOfAdded
        <4>2. {after[t] : t \in Bound} = {before[t] : t \in Bound}
          BY <3>1
        <4>3. QED
          BY <3>1, <4>1, <4>2
      <3>5. \A a \in Agents : a # agent =>
              {t \in more : after[t] = a} = {t \in Bound : before[t] = a}
        BY <3>1
      <3>6. QED
        BY <3>2, <3>3, <3>4, <3>5
    <2>6. /\ agent \notin closes /\ status[agent] # "absent"
          /\ \A t \in Bound : delegations[t] = agent => role[t] = role[job] /\ t \in receipts
      BY <1>2 DEF Bind, UseInv, TakenKnown, Settled, TokensOf
    <2>7. TakenKnown'
      BY <1>2, <2>2, <2>5, <2>6 DEF UseInv, TakenKnown
    <2>8. ClosedIsHarvested'
      <3>1. \A a \in closes : a \in Agents /\ a # agent /\ Settled(a)
        BY <2>6, OwnedTypes DEF IInv, UseInv, ClosedIsHarvested
      <3>2. \A a \in closes' : Settled(a)'
        BY <2>2, <2>5, <3>1 DEF Settled
      <3>3. QED
        BY <2>2, <3>2 DEF UseInv, ClosedIsHarvested
    <2>9. OneTurnPerIdentity'
      <3> SUFFICES ASSUME NEW t \in Bound', NEW u \in Bound',
                          delegations'[t] = delegations'[u], t # u
                   PROVE  role[t] = role[u] /\ (t \in receipts \/ u \in receipts)
        BY <2>2 DEF OneTurnPerIdentity
      <3>1. CASE t \in Bound /\ u \in Bound
        BY <2>4, <3>1 DEF UseInv, OneTurnPerIdentity
      <3>2. CASE t = job /\ u \in Bound
        BY <2>4, <2>6, <3>2
      <3>3. CASE u = job /\ t \in Bound
        BY <2>4, <2>6, <3>3
      <3>4. QED
        BY <2>3, <3>1, <3>2, <3>3
    <2>10. QED
      BY <2>2, <2>5, <2>7, <2>8, <2>9 DEF UseInv
  <1>3. QED
    BY <1>1, <1>2 DEF Bind

LEMMA HostUse ==
  ASSUME IInv, UseInv, HostStart \/ HostNext
  PROVE  UseInv'
  <1>1. /\ UNCHANGED <<delegations, closes, receipts>> /\ dispatched' = dispatched /\ role' = role
        /\ pc' \notin {"spawned", "bind"} \/ UNCHANGED <<pc, agent, job>>
    BY DEF HostStart, HostNext, HostEnds, HostSettles
  <1>2. \A a \in Agents : (status[a] # "absent" => status'[a] # "absent")
                        /\ (status'[a] = "closed" => status[a] = "closed")
    BY DEF HostStart, HostNext, HostEnds, HostSettles, IInv, TypeOK
  <1>3. QED
    BY <1>1, <1>2, UseUndisturbed

LEMMA UseInit == Init => UseInv
  <1> SUFFICES ASSUME Init PROVE UseInv
    OBVIOUS
  <1>1. closes = {} /\ pc = "rest"
    BY DEF Init
  <1>2. CASE Fresh
    <2>1. Bound = {} /\ Owned = {} /\ \A a \in Agents : status[a] = "absent"
      BY <1>2 DEF Fresh, Owned
    <2>2. QED
      BY <1>1, <2>1 DEF UseInv, TakenKnown, ClosedIsHarvested, OneTurnPerIdentity
  <1>3. ASSUME NEW a \in Agents, TakenOver(a)
        PROVE  UseInv
    <2>1. /\ Bound = {1} /\ Owned = {a}
          /\ \A b \in Agents : status[b] # "closed" /\ status[a] # "absent"
      BY <1>3 DEF TakenOver, Owned
    <2>2. QED
      BY <1>1, <2>1 DEF UseInv, TakenKnown, ClosedIsHarvested, OneTurnPerIdentity
  <1>4. QED
    BY <1>2, <1>3 DEF Init

LEMMA UseStep == IInv /\ UseInv /\ [Next]_vars => UseInv'
  <1> SUFFICES ASSUME IInv, UseInv, [Next]_vars PROVE UseInv'
    OBVIOUS
  <1>1. CASE HarvestNext
    BY <1>1, ReturnTypes, UseUndisturbed DEF HarvestNext, Tick, Harvest, Finish
  <1>2. CASE InventoryNext
    BY <1>2, ReturnTypes, CloseIntentUse, HostCloseUse, UseUndisturbed
       DEF InventoryNext, Inventory, StayPut
  <1>3. CASE DispatchNext
    BY <1>3, ReturnTypes, DispatchUse, UseUndisturbed DEF DispatchNext, Resume, Wait
  <1>4. CASE IdentityNext
    BY <1>4, ReturnTypes, RecoverUse, ReuseUse, HostSpawnUse, SpawnedUse, BindUse, UseUndisturbed
       DEF IdentityNext, Assign, Reserve, NoIdentity, CheckSpawn, SpawnUncertain
  <1>5. CASE DeliveryNext
    BY <1>5, ReturnTypes, HostUse, UseUndisturbed
       DEF DeliveryNext, Release, Intend, Recheck, Withdraw, Started, Acknowledge
  <1>6. CASE Crash
    BY <1>6, ReturnTypes, UseUndisturbed DEF Crash
  <1>7. CASE HostNext
    BY <1>7, HostUse
  <1>8. CASE OwnerNext
    BY <1>8, UseUndisturbed DEF OwnerNext, Control, Drift, Retire
  <1>9. CASE UNCHANGED vars
    BY <1>9, UseUndisturbed DEF vars
  <1>10. QED
    BY <1>1, <1>2, <1>3, <1>4, <1>5, <1>6, <1>7, <1>8, <1>9 DEF Next, CoordinatorNext

LEMMA UseInvariant == Spec => []UseInv
  BY UseInit, UseStep, Invariant, PTL DEF Spec

\* An identity with a close intent has delivered every result it owes and gets
\* no other token, and the host closes no identity without such an intent.
THEOREM ClosingIsFinal == Spec => []ClosedIsHarvested
  <1>1. UseInv => ClosedIsHarvested
    BY DEF UseInv
  <1>2. QED
    BY <1>1, UseInvariant, PTL

\* An identity is given a token only when every turn it had is recorded, and
\* never one of another role.
THEOREM IdentitiesTakeTurns == Spec => []OneTurnPerIdentity
  <1>1. UseInv => OneTurnPerIdentity
    BY DEF UseInv
  <1>2. QED
    BY <1>1, UseInvariant, PTL

-----------------------------------------------------------------------------
(* How many identities live.                                               *)

\* Undelivered tokens go first, so one token at most is without a binding, the
\* latest: a delivery needs a binding.
OneUnbound ==
  /\ \A t \in 1 .. dispatched : t \in Bound \/ t = dispatched
  /\ \A t \in Tokens : deliveries[t] \notin Unmarked => t \in Bound

\* An identity was created for the token it is bound to first; the one in hand
\* was created for the token at hand, unless nothing was.
BirthKnown ==
  /\ \A a \in Agents : bornFor[a] # 0 <=> status[a] # "absent"
  /\ \A a \in Agents : bornFor[a] <= dispatched
  /\ \A a \in Agents : bornFor[a] \in Bound => delegations[bornFor[a]] = a
  /\ pc = "spawned" => bornFor[agent] = job
  /\ pc = "bind" => bornFor[agent] = job \/ spawns[job] = "none"
  /\ pc \in Delivering => delegations[job] = agent

HeldInv == OneUnbound /\ BirthKnown

InHand == {"spawned", "bind"} \cup Delivering

LEMMA HeldUndisturbed ==
  ASSUME IInv, HeldInv,
         UNCHANGED <<delegations, bornFor>>, dispatched' = dispatched,
         \A a \in Agents : status'[a] # "absent" <=> status[a] # "absent",
         \A t \in Tokens : deliveries'[t] \notin Unmarked => t \in Bound,
         \/ pc' \notin InHand
         \/ UNCHANGED <<agent, job, spawns>> /\ (pc' = pc \/ {pc, pc'} \subseteq Delivering)
  PROVE  HeldInv'
  <1>1. OneUnbound'
    BY DEF HeldInv, OneUnbound
  <1>2. BirthKnown'
    BY DEF HeldInv, BirthKnown, InHand
  <1>3. QED
    BY <1>1, <1>2 DEF HeldInv

LEMMA DispatchHeld ==
  ASSUME IInv, HeldInv, NEW r \in Roles, Dispatch(r)
  PROVE  HeldInv'
  <1>1. /\ dispatched + 1 \in Tokens /\ dispatched' = dispatched + 1
        /\ UNCHANGED <<delegations, deliveries, bornFor, status>> /\ pc' = "assign"
    BY DEF Dispatch, IInv, TypeOK
  <1>2. delegations[dispatched + 1] = NoAgent
    BY <1>1 DEF IInv, TypeOK, DeliveryKnown
  <1>3. Bound' = Bound
    BY <1>1, <1>2 DEF IInv, TypeOK
  <1>4. \A t \in 1 .. dispatched : t \in Bound
    <2>1. SUFFICES ASSUME NEW t \in 1 .. dispatched, t \notin Bound
                   PROVE  FALSE
      OBVIOUS
    <2>2. t \in Pending /\ t \in Tokens
      BY <2>1 DEF IInv, TypeOK
    <2>3. deliveries[t] \notin Unmarked
      BY <2>2 DEF Dispatch
    <2>4. QED
      BY <2>1, <2>2, <2>3 DEF HeldInv, OneUnbound
  <1>5. \A t \in 1 .. dispatched' : t \in Bound' \/ t = dispatched'
    BY <1>1, <1>3, <1>4 DEF IInv, TypeOK
  <1>6. OneUnbound'
    BY <1>1, <1>3, <1>5 DEF HeldInv, OneUnbound
  <1>7. BirthKnown'
    BY <1>1, <1>3 DEF IInv, TypeOK, HeldInv, BirthKnown
  <1>8. QED
    BY <1>6, <1>7 DEF HeldInv

\* Taking an identity created for the token, or any if none was.
LEMMA TakeHeld ==
  ASSUME IInv, HeldInv, NEW a \in Agents, Take(a), bornFor[a] = job \/ spawns[job] = "none",
         UNCHANGED <<pool, bindings, spawns, deliveries, results, closes, host>>
  PROVE  HeldInv'
  <1>1. OneUnbound'
    BY DEF HeldInv, OneUnbound
  <1>2. BirthKnown'
    BY DEF Take, HeldInv, BirthKnown
  <1>3. QED
    BY <1>1, <1>2 DEF HeldInv

LEMMA HostSpawnHeld ==
  ASSUME IInv, HeldInv, HostSpawn
  PROVE  HeldInv'
  <1>1. PICK a \in {b \in Agents : status[b] = "absent"} :
          /\ \/ UNCHANGED <<status, bornFor>>
             \/ /\ status' = [status EXCEPT ![a] = "idle"]
                /\ bornFor' = [bornFor EXCEPT ![a] = job]
          /\ \/ pc' = "failed"
             \/ /\ pc' = "spawned" /\ agent' = a /\ job' = job
                /\ bornFor' = [bornFor EXCEPT ![a] = job]
    BY DEF HostSpawn, IInv, TypeOK
  <1>2. job \in 1 .. dispatched /\ job \notin Bound /\ pc' \in {"failed", "spawned"}
    BY <1>1 DEF HostSpawn, IInv, BindingKnown
  <1>3. UNCHANGED <<dispatched, delegations, deliveries, spawns>>
    BY DEF HostSpawn
  <1>4. OneUnbound'
    BY <1>3 DEF HeldInv, OneUnbound
  <1>5. BirthKnown'
    <2>1. CASE UNCHANGED <<status, bornFor>> /\ pc' = "failed"
      BY <1>3, <2>1 DEF HeldInv, BirthKnown
    <2>2. CASE status' = [status EXCEPT ![a] = "idle"] /\ bornFor' = [bornFor EXCEPT ![a] = job]
      <3>1. \A b \in Agents : /\ bornFor'[b] = IF b = a THEN job ELSE bornFor[b]
                             /\ status'[b] = IF b = a THEN "idle" ELSE status[b]
        BY <2>2 DEF IInv, TypeOK
      <3>2. /\ \A b \in Agents : bornFor'[b] # 0 <=> status'[b] # "absent"
            /\ \A b \in Agents : bornFor'[b] <= dispatched
            /\ \A b \in Agents : bornFor'[b] \in Bound => delegations[bornFor'[b]] = b
        <4>1. /\ job # 0 /\ job <= dispatched
              /\ \A b \in Agents : bornFor[b] # 0 <=> status[b] # "absent"
              /\ \A b \in Agents : bornFor[b] <= dispatched
              /\ \A b \in Agents : bornFor[b] \in Bound => delegations[bornFor[b]] = b
          BY <1>2 DEF IInv, TypeOK, HeldInv, BirthKnown
        <4>2. \A b \in Agents : bornFor'[b] # 0 <=> status'[b] # "absent"
          BY <3>1, <4>1
        <4>3. \A b \in Agents : bornFor'[b] <= dispatched
          BY <3>1, <4>1
        <4>4. \A b \in Agents : bornFor'[b] \in Bound => bornFor'[b] = bornFor[b]
          BY <1>2, <3>1
        <4>5. QED
          BY <4>1, <4>2, <4>3, <4>4
      <3>3. pc' = "spawned" => bornFor'[agent'] = job'
        BY <1>1, <3>1
      <3>4. QED
        BY <1>2, <1>3, <3>2, <3>3 DEF BirthKnown
    <2>3. QED
      <3>1. UNCHANGED <<status, bornFor>> /\ pc' = "spawned" => FALSE
        <4>1. SUFFICES ASSUME UNCHANGED <<status, bornFor>>, pc' = "spawned"
                       PROVE  FALSE
          OBVIOUS
        <4>2. bornFor[a] = job
          BY <1>1, <4>1 DEF IInv, TypeOK
        <4>3. QED
          BY <1>2, <4>2 DEF HeldInv, BirthKnown
      <3>2. QED
        BY <1>1, <1>2, <2>1, <2>2, <3>1
  <1>6. QED
    BY <1>4, <1>5 DEF HeldInv

LEMMA BindHeld ==
  ASSUME IInv, HeldInv, Bind
  PROVE  HeldInv'
  <1>1. CASE Return /\ UNCHANGED delegations
    BY <1>1, ReturnTypes, HeldUndisturbed DEF Bind, HeldInv, OneUnbound, InHand
  <1>2. CASE delegations' = [delegations EXCEPT ![job] = agent] /\ Become("release")
    <2>1. /\ job \in Tokens /\ job \in 1 .. dispatched /\ job \notin Bound
          /\ delegations[job] = NoAgent /\ agent \in Agents
      BY DEF Bind, IInv, TypeOK, BindingKnown
    <2>2. /\ UNCHANGED <<dispatched, deliveries, bornFor, status>>
          /\ pc' = "release" /\ agent' = agent /\ job' = job
          /\ \A t \in Tokens : delegations'[t] = IF t = job THEN agent ELSE delegations[t]
      BY <1>2, <2>1 DEF Bind, IInv, TypeOK
    <2>3. Bound' = Bound \cup {job}
      BY <2>1, <2>2 DEF IInv, TypeOK
    <2>4. OneUnbound'
      BY <2>2, <2>3 DEF HeldInv, OneUnbound
    <2>5. ASSUME NEW a \in Agents, bornFor[a] = job
          PROVE  a = agent
      <3>1. bornFor[a] # 0 /\ spawns[job] # "none"
        BY <2>1, <2>5 DEF IInv, SpawnKnown
      <3>2. bornFor[agent] = job
        BY <3>1 DEF Bind, HeldInv, BirthKnown
      <3>3. QED
        BY <2>1, <2>5, <3>1, <3>2 DEF IInv, OneSpawnPerToken
    <2>6. \A a \in Agents : bornFor[a] \in Bound' => delegations'[bornFor[a]] = a
      <3>1. SUFFICES ASSUME NEW a \in Agents, bornFor[a] \in Bound'
                     PROVE  delegations'[bornFor[a]] = a
        OBVIOUS
      <3>2. CASE bornFor[a] = job
        BY <2>1, <2>2, <2>5, <3>2
      <3>3. CASE bornFor[a] \in Bound /\ bornFor[a] # job
        BY <2>2, <3>3 DEF IInv, TypeOK, HeldInv, BirthKnown
      <3>4. QED
        BY <2>3, <3>1, <3>2, <3>3
    <2>7. BirthKnown'
      BY <2>1, <2>2, <2>6 DEF HeldInv, BirthKnown
    <2>8. QED
      BY <2>4, <2>7 DEF HeldInv
  <1>3. QED
    BY <1>1, <1>2 DEF Bind

LEMMA IdentityHeld ==
  ASSUME IInv, UseInv, HeldInv, IdentityNext
  PROVE  HeldInv'
  <1>1. CASE Assign
    <2>1. CASE pc' = "release" /\ agent' = delegations[job] /\ job' = job
      BY <1>1, <2>1 DEF Assign, HeldInv, OneUnbound, BirthKnown
    <2>2. CASE pc' \notin InHand
      BY <1>1, <2>2, HeldUndisturbed DEF Assign, HeldInv, OneUnbound
    <2>3. QED
      BY <1>1, <2>1, <2>2, ReturnTypes DEF Assign, InHand
  <1>2. CASE Recover
    <2>1. PICK a \in Matches(job) \ Owned : Take(a)
      BY <1>2 DEF Recover
    <2>2. QED
      BY <1>2, <2>1, TakeHeld DEF Recover, Matches
  <1>3. CASE Reuse
    <2>1. PICK o \in Observations : \E a \in Candidates(o) : Take(a)
      BY <1>3 DEF Reuse
    <2>2. PICK a \in Candidates(o) : Take(a)
      BY <2>1
    <2>3. a \in Agents
      BY <2>2, OwnedTypes DEF Candidates, IInv
    <2>4. QED
      BY <1>3, <2>2, <2>3, TakeHeld DEF Reuse
  <1>4. CASE Spawned
    <2>1. agent \in Agents /\ bornFor[agent] = job
      BY <1>4 DEF Spawned, IInv, BindingKnown, HeldInv, BirthKnown
    <2>2. QED
      BY <1>4, <2>1, TakeHeld DEF Spawned
  <1>5. CASE Reserve \/ NoIdentity \/ CheckSpawn \/ SpawnUncertain
    BY <1>5, ReturnTypes, HeldUndisturbed
       DEF Reserve, NoIdentity, CheckSpawn, SpawnUncertain, HeldInv, OneUnbound, InHand
  <1>6. QED
    BY <1>1, <1>2, <1>3, <1>4, <1>5, HostSpawnHeld, BindHeld DEF IdentityNext

LEMMA DeliveryHeld ==
  ASSUME IInv, UseInv, HeldInv, DeliveryNext
  PROVE  HeldInv'
  <1>1. pc \in Delivering \cup Begun /\ job \in Tokens /\ job \in Bound
    BY DEF DeliveryNext, Release, Intend, Recheck, Withdraw, HostStart, Started, Acknowledge,
           IInv, TypeOK, BindingKnown
  <1>2. UNCHANGED <<delegations, bornFor>> /\ dispatched' = dispatched
    BY DEF DeliveryNext, Release, Intend, Recheck, Withdraw, HostStart, Started, Acknowledge
  <1>3. \A t \in Tokens : deliveries'[t] \notin Unmarked => t \in Bound
    BY <1>1 DEF DeliveryNext, Release, Intend, Recheck, Withdraw, HostStart, Started,
                Acknowledge, Deliver, IInv, TypeOK, HeldInv, OneUnbound
  <1>4. \/ pc' \notin InHand
        \/ UNCHANGED <<agent, job, spawns>> /\ {pc, pc'} \subseteq Delivering
    BY ReturnTypes DEF DeliveryNext, Release, Intend, Recheck, Withdraw, HostStart, Started,
                Acknowledge, InHand
  <1>5. \A a \in Agents : status'[a] # "absent" <=> status[a] # "absent"
    <2>1. CASE UNCHANGED status
      BY <2>1
    <2>2. CASE HostStart
      <3>1. delegations[job] = agent
        BY <2>2 DEF HostStart, HeldInv, BirthKnown
      <3>2. agent \in Owned
        BY <1>1, <3>1 DEF Owned
      <3>3. status[agent] # "absent"
        BY <3>2 DEF UseInv, TakenKnown
      <3>4. QED
        BY <2>2, <3>3 DEF HostStart, IInv, TypeOK
    <2>3. QED
      BY <2>1, <2>2 DEF DeliveryNext, Release, Intend, Recheck, Withdraw, Started, Acknowledge
  <1>6. QED
    BY <1>2, <1>3, <1>4, <1>5, HeldUndisturbed

LEMMA HeldInit == Init => HeldInv
  <1> SUFFICES ASSUME Init PROVE HeldInv
    OBVIOUS
  <1>1. pc = "rest" /\ deliveries = [t \in Tokens |-> "none"]
    BY DEF Init
  <1>2. CASE Fresh
    BY <1>1, <1>2 DEF Fresh, HeldInv, OneUnbound, BirthKnown
  <1>3. ASSUME NEW a \in Agents, TakenOver(a)
        PROVE  HeldInv
    <2>1. /\ dispatched = 1 /\ delegations = [t \in Tokens |-> IF t = 1 THEN a ELSE NoAgent]
          /\ bornFor = [b \in Agents |-> IF b = a THEN 1 ELSE 0]
          /\ \A b \in Agents : status[b] # "absent" <=> b = a
      BY <1>3 DEF TakenOver
    <2>2. Bound = {1}
      BY <2>1
    <2>3. QED
      BY <1>1, <2>1, <2>2 DEF HeldInv, OneUnbound, BirthKnown
  <1>4. QED
    BY <1>2, <1>3 DEF Init

LEMMA HeldStep == IInv /\ UseInv /\ HeldInv /\ [Next]_vars => HeldInv'
  <1> SUFFICES ASSUME IInv, UseInv, HeldInv, [Next]_vars PROVE HeldInv'
    OBVIOUS
  <1> USE DEF InHand
  <1>0. \A t \in Tokens : deliveries[t] \notin Unmarked => t \in Bound
    BY DEF HeldInv, OneUnbound
  <1>1. CASE HarvestNext
    BY <1>0, <1>1, ReturnTypes, HeldUndisturbed DEF HarvestNext, Tick, Harvest, Finish
  <1>2. CASE InventoryNext
    <2>1. CASE HostClose
      <3>1. agent \in Owned
        BY <2>1 DEF HostClose, IInv, BindingKnown, UseInv
      <3>2. status[agent] # "absent"
        BY <3>1 DEF UseInv, TakenKnown
      <3>3. QED
        BY <1>0, <2>1, <3>2, HeldUndisturbed DEF HostClose, IInv, TypeOK
    <2>2. QED
      BY <1>0, <1>2, <2>1, ReturnTypes, HeldUndisturbed
         DEF InventoryNext, Inventory, CloseIntent, StayPut
  <1>3. CASE DispatchNext
    BY <1>0, <1>3, ReturnTypes, DispatchHeld, HeldUndisturbed DEF DispatchNext, Resume, Wait
  <1>4. CASE IdentityNext \/ DeliveryNext
    BY <1>4, IdentityHeld, DeliveryHeld
  <1>5. CASE Crash
    BY <1>0, <1>5, ReturnTypes, HeldUndisturbed DEF Crash
  <1>6. CASE HostNext
    <2>1. \A a \in Agents : status'[a] # "absent" <=> status[a] # "absent"
      BY <1>6 DEF HostNext, HostEnds, HostSettles, Running, IInv, TypeOK
    <2>2. QED
      BY <1>0, <1>6, <2>1, HeldUndisturbed DEF HostNext, HostEnds, HostSettles
  <1>7. CASE OwnerNext
    BY <1>0, <1>7, HeldUndisturbed DEF OwnerNext, Control, Drift, Retire
  <1>8. CASE UNCHANGED vars
    BY <1>0, <1>8, HeldUndisturbed DEF vars
  <1>9. QED
    BY <1>1, <1>2, <1>3, <1>4, <1>5, <1>6, <1>7, <1>8 DEF Next, CoordinatorNext

LEMMA HeldInvariant == Spec => []HeldInv
  BY HeldInit, HeldStep, UseInvariant, Invariant, PTL DEF Spec

Alive == {a \in Agents : status[a] \notin {"absent", "closed"}}

\* Once a creation is reserved there is room for one more.
RoomReserved ==
  /\ IsFiniteSet(Alive)
  /\ Cardinality(Alive) <= MaxWorkers + 1
  /\ pc \in {"reserved", "spawn"} => Cardinality(Alive) <= MaxWorkers

\* With no identity created for the latest token, every live one is bound.
LEMMA AliveIsOwned ==
  ASSUME IInv, HeldInv, job \in 1 .. dispatched, job \notin Bound,
         \A a \in Agents : bornFor[a] # job
  PROVE  Alive \subseteq Owned
  <1>1. SUFFICES ASSUME NEW a \in Alive
                 PROVE  a \in Owned
    OBVIOUS
  <1>2. a \in Agents /\ bornFor[a] # 0 /\ bornFor[a] # job
    BY <1>1 DEF Alive, HeldInv, BirthKnown
  <1>3. bornFor[a] \in 1 .. dispatched
    BY <1>2 DEF IInv, TypeOK, HeldInv, BirthKnown
  <1>4. bornFor[a] \in Bound
    BY <1>2, <1>3 DEF HeldInv, OneUnbound
  <1>5. QED
    BY <1>2, <1>4 DEF Owned, HeldInv, BirthKnown

\* Nothing adds to the live identities but a creation.
LEMMA NoneMoreAlive ==
  ASSUME IInv, UseInv, HeldInv, RoomReserved, [Next]_vars, ~HostSpawn, ~Reserve
  PROVE  RoomReserved'
  <1>1. Alive' \subseteq Alive
    <2>1. CASE UNCHANGED status
      BY <2>1 DEF Alive
    <2>2. CASE HostClose
      BY <2>2 DEF HostClose, Alive, IInv, TypeOK
    <2>3. CASE HostStart
      <3>1. job \in Bound /\ agent = delegations[job] /\ job \notin receipts /\ agent \in Agents
        BY <2>3 DEF HostStart, IInv, BindingKnown, HeldInv, BirthKnown
      <3>2. agent \in Owned /\ ~Settled(agent)
        BY <3>1 DEF Owned, Settled, TokensOf
      <3>3. agent \in Alive
        BY <3>1, <3>2 DEF UseInv, TakenKnown, ClosedIsHarvested, Alive
      <3>4. status' = status \/ status' = [status EXCEPT ![agent] = "running"]
        BY <2>3 DEF HostStart
      <3>5. QED
        BY <3>3, <3>4 DEF Alive, IInv, TypeOK
    <2>4. CASE HostNext
      BY <2>4 DEF HostNext, HostEnds, HostSettles, Running, Alive, IInv, TypeOK
    <2>5. status' = status \/ HostClose \/ HostStart \/ HostNext
      BY DEF vars, Next, CoordinatorNext, HarvestNext, InventoryNext, DispatchNext, IdentityNext,
             DeliveryNext, OwnerNext, Tick, Harvest, Finish, Inventory, CloseIntent, StayPut,
             Resume, Dispatch, Wait, Assign, Recover, Reuse, NoIdentity, CheckSpawn,
             SpawnUncertain, Spawned, Bind, Release, Intend, Recheck, Withdraw, Started,
             Acknowledge, Crash, Control, Drift, Retire
    <2>6. QED
      BY <2>1, <2>2, <2>3, <2>4, <2>5
  <1>2. pc' \in {"reserved", "spawn"} => pc \in {"reserved", "spawn"}
    BY ReturnTypes
       DEF vars, Next, CoordinatorNext, HarvestNext, InventoryNext, DispatchNext, IdentityNext,
           DeliveryNext, OwnerNext, HostNext, Tick, Harvest, Finish, Inventory, CloseIntent,
           HostClose, StayPut, Resume, Dispatch, Wait, Assign, Recover, Reuse, NoIdentity,
           CheckSpawn, SpawnUncertain, Spawned, Bind, Release, Intend, Recheck, Withdraw,
           HostStart, Started, Acknowledge, Crash, HostEnds, HostSettles, Control, Drift,
           Retire, Take
  <1>3. IsFiniteSet(Alive') /\ Cardinality(Alive') <= Cardinality(Alive)
    BY <1>1, FS_Subset DEF RoomReserved
  <1>4. Cardinality(Alive) \in Nat /\ Cardinality(Alive') \in Nat
    BY <1>3, FS_CardinalityType DEF RoomReserved
  <1>5. QED
    BY <1>2, <1>3, <1>4 DEF RoomReserved

LEMMA ReserveRoom ==
  ASSUME IInv, HeldInv, RoomReserved, Reserve
  PROVE  RoomReserved'
  <1>1. job \in Tokens /\ job \in 1 .. dispatched /\ job \notin Bound /\ spawns[job] = "none"
    BY DEF Reserve, NothingFound, IInv, TypeOK, BindingKnown
  <1>2. \A a \in Agents : bornFor[a] # job
    BY <1>1 DEF IInv, SpawnKnown
  <1>3. Alive \subseteq Owned
    BY <1>1, <1>2, AliveIsOwned
  <1>4. PICK o \in Observations : Cardinality(Retained(o)) < MaxWorkers + 1
    BY DEF Reserve
  <1>5. \A a \in Alive : o[a] # "closed"
    BY <1>4 DEF Observations, Alive
  <1>6. Alive \subseteq Retained(o)
    BY <1>3, <1>5 DEF Retained
  <1>7. IsFiniteSet(Retained(o))
    <2>1. IsFiniteSet(1 .. dispatched)
      BY FS_Interval DEF IInv, TypeOK
    <2>2. IsFiniteSet(Bound)
      BY <2>1, FS_Subset
    <2>3. IsFiniteSet(Owned)
      <3>1. [t \in Bound |-> delegations[t]] \in Surjection(Bound, Owned)
        BY DEF Surjection, Owned
      <3>2. QED
        BY <2>2, <3>1, FS_Surjection
    <2>4. QED
      BY <2>3, FS_Subset DEF Retained
  <1>8. Cardinality(Alive) <= Cardinality(Retained(o))
    BY <1>6, <1>7, FS_Subset
  <1>9. Cardinality(Retained(o)) \in Nat /\ Cardinality(Alive) \in Nat
    BY <1>7, FS_CardinalityType DEF RoomReserved
  <1>10. Cardinality(Alive) <= MaxWorkers
    BY <1>4, <1>8, <1>9
  <1>11. Alive' = Alive
    BY DEF Reserve, Alive
  <1>12. QED
    BY <1>10, <1>11 DEF RoomReserved

LEMMA HostSpawnRoom ==
  ASSUME IInv, RoomReserved, HostSpawn
  PROVE  RoomReserved'
  <1>1. PICK a \in {b \in Agents : status[b] = "absent"} :
          status' = status \/ status' = [status EXCEPT ![a] = "idle"]
    BY DEF HostSpawn
  <1>2. Alive' = Alive \/ Alive' = Alive \cup {a}
    BY <1>1 DEF Alive, IInv, TypeOK
  <1>3. a \notin Alive
    BY DEF Alive
  <1>4. Cardinality(Alive) \in Nat /\ Cardinality(Alive) <= MaxWorkers /\ IsFiniteSet(Alive)
    BY FS_CardinalityType DEF HostSpawn, RoomReserved
  <1>5. IsFiniteSet(Alive \cup {a}) /\ Cardinality(Alive \cup {a}) = Cardinality(Alive) + 1
    BY <1>3, <1>4, FS_AddElement
  <1>6. IsFiniteSet(Alive') /\ Cardinality(Alive') <= MaxWorkers + 1
    <2>1. CASE Alive' = Alive
      BY <1>4, <2>1
    <2>2. CASE Alive' = Alive \cup {a}
      BY <1>4, <1>5, <2>2
    <2>3. QED
      BY <1>2, <2>1, <2>2
  <1>7. pc' \in {"failed", "spawned"}
    BY DEF HostSpawn
  <1>8. QED
    BY <1>6, <1>7 DEF RoomReserved

LEMMA RoomInit == Init => RoomReserved
  <1> SUFFICES ASSUME Init PROVE RoomReserved
    OBVIOUS
  <1>1. PICK a : Alive \subseteq {a}
    <2>1. CASE Fresh
      BY <2>1 DEF Fresh, Alive
    <2>2. ASSUME NEW a \in Agents, TakenOver(a)
          PROVE  Alive \subseteq {a}
      BY <2>2 DEF TakenOver, Alive
    <2>3. QED
      BY <2>1, <2>2 DEF Init
  <1>2. IsFiniteSet({a}) /\ Cardinality({a}) = 1
    BY FS_Singleton
  <1>3. IsFiniteSet(Alive) /\ Cardinality(Alive) <= 1 /\ Cardinality(Alive) \in Nat
    BY <1>1, <1>2, FS_Subset, FS_CardinalityType
  <1>4. pc = "rest"
    BY DEF Init
  <1>5. QED
    BY <1>3, <1>4 DEF RoomReserved

LEMMA RoomStep == IInv /\ UseInv /\ HeldInv /\ RoomReserved /\ [Next]_vars => RoomReserved'
  BY NoneMoreAlive, ReserveRoom, HostSpawnRoom

\* The identities alive on the host never exceed max_workers + 1, although the
\* ceiling is checked on bound ones only and replies to spawn may be lost: an
\* unbound identity belongs to the latest token, and no other is dispatched
\* before that one is delivered.
THEOREM StaysWithinCeiling == Spec => []WithinCeiling
  <1>1. RoomReserved => WithinCeiling
    BY DEF RoomReserved, WithinCeiling, Alive
  <1>2. Spec => []RoomReserved
    BY RoomInit, RoomStep, HeldInvariant, UseInvariant, Invariant, PTL DEF Spec
  <1>3. QED
    BY <1>1, <1>2, PTL

-----------------------------------------------------------------------------
(* The coordinator implements TurnLedger.                                  *)

Intended == {t \in Tokens : deliveries[t] \notin {"none", "not_started"} \/ turns[t] > 0}

LEMMA LedgerInit == Init => Ledger!Init
  <1> SUFFICES ASSUME Init PROVE Ledger!Init
    OBVIOUS
  <1>1. IInv
    BY InitInv
  <1>2. turns \in [Tokens -> 0 .. 1]
    BY <1>1 DEF IInv, TypeOK, DeliveryKnown
  <1>3. receipts = {}
    BY DEF Init
  <1>4. QED
    BY <1>2, <1>3 DEF Ledger!Init

\* A step that leaves deliveries, turns and receipts alone is a stutter.
LEMMA LedgerStutter ==
  UNCHANGED <<deliveries, turns, receipts>> => UNCHANGED Ledger!ledger
  BY DEF Ledger!ledger

LEMMA LedgerFinish ==
  ASSUME IInv, Finish
  PROVE  Ledger!Next \/ UNCHANGED Ledger!ledger
  <1>1. PICK t \in Tokens : t = job /\ turns[t] = 1
    BY DEF Finish, IInv, TypeOK, BindingKnown, ResultsKnown
  <1>2. CASE receipts' = receipts
    BY <1>2, LedgerStutter DEF Finish
  <1>3. CASE receipts' = receipts \cup {t} /\ t \notin receipts
    BY <1>1, <1>3 DEF Finish, Ledger!Next, Ledger!Record
  <1>4. receipts' = receipts \/ (receipts' = receipts \cup {t} /\ t \notin receipts)
    <2>1. receipts' = receipts \/ receipts' = receipts \cup {t}
      BY <1>1 DEF Finish, Return
    <2>2. t \in receipts => receipts \cup {t} = receipts
      OBVIOUS
    <2>3. QED
      BY <2>1, <2>2
  <1>5. QED
    BY <1>2, <1>3, <1>4

LEMMA LedgerIntend ==
  ASSUME IInv, Intend
  PROVE  Ledger!Next
  <1>1. PICK t \in Tokens : /\ t = job /\ turns[t] = 0 /\ t \notin receipts
                            /\ deliveries[t] \in Unmarked
    BY DEF Intend, IInv, TypeOK, BindingKnown, DeliveryKnown
  <1>2. deliveries' = [deliveries EXCEPT ![t] = "requested"] /\ UNCHANGED <<turns, receipts>>
    BY <1>1 DEF Intend, Deliver
  <1>3. t \notin Intended /\ Intended' = Intended \cup {t}
    BY <1>1, <1>2 DEF Intended, IInv, TypeOK
  <1>4. Ledger!Intend(t)
    BY <1>1, <1>2, <1>3 DEF Intended, Ledger!Intend
  <1>5. QED
    BY <1>1, <1>4 DEF Ledger!Next

LEMMA LedgerWithdraw ==
  ASSUME IInv, Withdraw
  PROVE  Ledger!Next
  <1>1. PICK t \in Tokens : t = job /\ turns[t] = 0 /\ deliveries[t] = "requested"
    BY DEF Withdraw, IInv, TypeOK, BindingKnown, DeliveryKnown
  <1>2. deliveries' = [deliveries EXCEPT ![t] = "not_started"] /\ UNCHANGED <<turns, receipts>>
    BY <1>1 DEF Withdraw, Deliver
  <1>3. t \in Intended /\ Intended' = Intended \ {t}
    BY <1>1, <1>2 DEF Intended, IInv, TypeOK
  <1>4. Ledger!Withdraw(t)
    BY <1>1, <1>2, <1>3 DEF Intended, Ledger!Withdraw
  <1>5. QED
    BY <1>1, <1>4 DEF Ledger!Next

LEMMA LedgerBegin ==
  ASSUME IInv, HostStart
  PROVE  Ledger!Next \/ UNCHANGED Ledger!ledger
  <1>1. PICK t \in Tokens : /\ t = job /\ turns[t] = 0 /\ t \notin receipts
                            /\ deliveries[t] = "requested"
    BY DEF HostStart, IInv, TypeOK, BindingKnown, DeliveryKnown
  <1>2. UNCHANGED <<deliveries, receipts>>
    BY DEF HostStart
  <1>3. CASE UNCHANGED turns
    BY <1>2, <1>3, LedgerStutter
  <1>4. CASE turns' = [turns EXCEPT ![t] = @ + 1]
    <2>1. turns' = [turns EXCEPT ![t] = 1]
      BY <1>1, <1>4 DEF IInv, TypeOK
    <2>2. t \in Intended /\ Intended' = Intended
      BY <1>1, <1>2, <2>1 DEF Intended, IInv, TypeOK
    <2>3. Ledger!Begin(t)
      BY <1>1, <1>2, <2>1, <2>2 DEF Intended, Ledger!Begin
    <2>4. QED
      BY <1>1, <2>3 DEF Ledger!Next
  <1>5. QED
    BY <1>1, <1>3, <1>4 DEF HostStart

LEMMA LedgerAcknowledge ==
  ASSUME IInv, Acknowledge
  PROVE  UNCHANGED Ledger!ledger
  <1>1. job \in Tokens /\ deliveries[job] = "requested"
    BY DEF Acknowledge, IInv, TypeOK, BindingKnown, DeliveryKnown
  <1>2. /\ \/ deliveries' = [deliveries EXCEPT ![job] = "acknowledged"]
           \/ deliveries' = [deliveries EXCEPT ![job] = "uncertain"]
        /\ UNCHANGED <<turns, receipts>>
    BY DEF Acknowledge, Deliver
  <1>3. Intended' = Intended
    BY <1>1, <1>2 DEF Intended, IInv, TypeOK
  <1>4. QED
    BY <1>2, <1>3 DEF Intended, Ledger!ledger

LEMMA LedgerRetire ==
  ASSUME IInv, NEW t \in Tokens, Retire(t)
  PROVE  Ledger!Next
  <1>1. t \notin Intended /\ t \notin receipts
    BY DEF Retire, Intended
  <1>2. receipts' = receipts \cup {t} /\ UNCHANGED <<deliveries, turns>>
    BY DEF Retire
  <1>3. Ledger!Record(t)
    BY <1>1, <1>2 DEF Intended, Ledger!Record
  <1>4. QED
    BY <1>3 DEF Ledger!Next

LEMMA LedgerStep == IInv /\ [Next]_vars => [Ledger!Next]_(Ledger!ledger)
  <1> SUFFICES ASSUME IInv, [Next]_vars
               PROVE  Ledger!Next \/ UNCHANGED Ledger!ledger
    OBVIOUS
  <1>1. CASE HarvestNext
    BY <1>1, LedgerFinish, LedgerStutter DEF HarvestNext, Tick, Harvest
  <1>2. CASE InventoryNext
    BY <1>2, LedgerStutter DEF InventoryNext, Inventory, CloseIntent, HostClose, StayPut
  <1>3. CASE DispatchNext
    BY <1>3, LedgerStutter DEF DispatchNext, Resume, Dispatch, Wait
  <1>4. CASE IdentityNext
    BY <1>4, LedgerStutter DEF IdentityNext, Assign, Recover, Reuse, Reserve, NoIdentity,
         CheckSpawn, HostSpawn, SpawnUncertain, Spawned, Bind
  <1>5. CASE DeliveryNext
    BY <1>5, LedgerIntend, LedgerWithdraw, LedgerBegin, LedgerAcknowledge, LedgerStutter
       DEF DeliveryNext, Release, Recheck, Started
  <1>6. CASE Crash \/ HostNext
    BY <1>6, LedgerStutter DEF Crash, HostNext, HostEnds, HostSettles
  <1>7. CASE OwnerNext
    BY <1>7, LedgerRetire, LedgerStutter DEF OwnerNext, Control, Drift
  <1>8. CASE UNCHANGED vars
    BY <1>8, LedgerStutter DEF vars
  <1>9. QED
    BY <1>1, <1>2, <1>3, <1>4, <1>5, <1>6, <1>7, <1>8 DEF Next, CoordinatorNext

\* No turn is handed out twice, or without a saved intent, or after its
\* outcome is recorded, in every crash, lost reply, pause and takeover.
THEOREM KeepsTurns == Spec => TurnsKept
  BY LedgerInit, LedgerStep, Invariant, PTL DEF Spec, TurnsKept, Ledger!Spec
=============================================================================
