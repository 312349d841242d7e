---------------------------- MODULE QualityStore ----------------------------
(***************************************************************************)
(* The skill quality loop's local store (_internal/skill_quality/store.py): *)
(* a bounded queue of outcome receipts, the local proposals and no-action   *)
(* tombstones they turn into, the analyzer leases, and the memory of turns  *)
(* in which the Stop hook already asked for a continuation.                 *)
(*                                                                         *)
(* A receipt stands for its exact digest.  Every operation reads, prunes    *)
(* and writes the store under its file lock; consume_next picks under the   *)
(* lock and consumes under a second acquisition of it.                      *)
(***************************************************************************)
EXTENDS Naturals, FiniteSets, Registry

CONSTANTS
  Receipts, Analyzers, Versions, Turns,
  ReceiptFacts,      \* [Receipts -> what validate_receipt reads and the store uses]
  Legacies,          \* the version-1 proposal registries the store may start from
  NoReceipt, NoHolder,
  LeaseSeconds, MaxReceipts, MaxProposals, MaxNoActions, MaxRevisions, MaxHookTurns,
  MaxClock           \* bound on time

VARIABLES
  clock,
  quality,    \* the stored state: receipts, proposals, no_actions, hook_turns
  picked,     \* [Analyzers -> the receipt consume_next chose, or NoReceipt]
  owed,       \* receipts the store accepted that no consumption answered yet
  asked       \* [Turns -> continuations requested since the turn was last evicted]

qualityVars == <<clock, quality, picked, owed, asked>>

\* What validate_receipt demands of a receipt at any time.
WellFormed(f) ==
  /\ f.signal = "no_issue" <=> f.requested = "none"
  /\ f.requested \in {"none", "analyze_quality"}
  /\ f.depth \in {0, 1}
  /\ f.created \in Nat /\ f.expires \in Nat /\ f.created < f.expires

ASSUME ReceiptAssumption == \A r \in Receipts : WellFormed(ReceiptFacts[r])

\* A version-1 store was within the limits; migrating refuses more revisions.
ASSUME StoreAssumption ==
  /\ {MaxReceipts, MaxProposals, MaxNoActions, MaxRevisions, MaxHookTurns} \subseteq Nat \ {0}
  /\ \A legacy \in Legacies :
       LET found == {x[1] : x \in DOMAIN legacy} IN
       /\ DOMAIN legacy \subseteq Receipts \X Versions
       /\ IsFiniteSet(DOMAIN legacy) /\ Cardinality(found) <= MaxProposals
       /\ \A r \in found : Cardinality({v \in Versions : <<r, v>> \in DOMAIN legacy}) <= MaxRevisions

-----------------------------------------------------------------------------
(* Pruning and eviction.                                                   *)

Expired(r) == ReceiptFacts[r].expires <= clock
\* What validate_receipt demands of a receipt now.
Presentable(r) == ReceiptFacts[r].created <= clock /\ ~Expired(r)

Ready == [state |-> "READY", holder |-> NoHolder, until |-> 0]
Leased(record) == record.state = "CLAIMED" /\ record.until > clock

\* Mutant: a receipt whose lease lapsed is dropped and not offered again.
PrunedReceiptsLost(receipts) ==
  Restrict(receipts, {r \in DOMAIN receipts : ~Expired(r) /\ (receipts[r] = Ready \/ Leased(receipts[r]))})
PrunedReceipts(receipts) ==
  [r \in {x \in DOMAIN receipts : ~Expired(x)} |->
     IF Leased(receipts[r]) THEN receipts[r] ELSE Ready]

PrunedNoActions(tombstones) == Restrict(tombstones, {r \in DOMAIN tombstones : ~Expired(r)})

Pruned == [quality EXCEPT !.receipts = PrunedReceipts(@), !.no_actions = PrunedNoActions(@)]

\* What is left of a registry after the oldest of the evictable are removed
\* until there is room for one more; At gives the time the order goes by.
RoomIn(registry, evictable, At(_), limit) ==
  {kept \in SUBSET DOMAIN registry :
     LET gone == DOMAIN registry \ kept IN
     /\ gone \subseteq evictable
     /\ \A x \in gone, y \in evictable \cap kept : At(x) <= At(y)
     /\ gone # {} => Cardinality(kept) = limit - 1
     /\ Cardinality(kept) < limit \/ gone = evictable}

\* Mutant: a full store makes room by dropping its oldest proposals, whatever their status.
EvictableAny(proposals) == DOMAIN proposals
Evictable(proposals) == {r \in DOMAIN proposals : proposals[r].status = "dismissed"}

ProposalRoom(proposals) ==
  RoomIn(proposals, Evictable(proposals), LAMBDA r : proposals[r].at, MaxProposals)
NoActionRoom(tombstones) ==
  RoomIn(tombstones, DOMAIN tombstones, LAMBDA r : tombstones[r].at, MaxNoActions)

-----------------------------------------------------------------------------
(* receive and claim.                                                      *)

\* Mutant: the limit is compared after the fact.
QueueFullLate(state) == Cardinality(DOMAIN state.receipts) > MaxReceipts
QueueFull(state) == Cardinality(DOMAIN state.receipts) >= MaxReceipts

\* A receipt already queued keeps its record.
Queued(state, r) ==
  IF r \in DOMAIN state.receipts THEN state
  ELSE [state EXCEPT !.receipts = Put(@, r, Ready)]

Receive(r) ==
  /\ Presentable(r)
  /\ r \in DOMAIN Pruned.receipts \/ ~QueueFull(Pruned)
  /\ quality' = Queued(Pruned, r)
  /\ owed' = owed \cup {r}
  /\ UNCHANGED <<clock, picked, asked>>

\* Pruning has already made a lapsed lease READY, so a claimed receipt is busy.
Claim(a, r) ==
  /\ r \in DOMAIN Pruned.receipts /\ Pruned.receipts[r] = Ready
  /\ quality' = [Pruned EXCEPT !.receipts[r] =
       [state |-> "CLAIMED", holder |-> a, until |-> clock + LeaseSeconds]]
  /\ UNCHANGED <<clock, picked, owed, asked>>

-----------------------------------------------------------------------------
(* consume.                                                                *)

\* An analyzer version is recorded once; a full history refuses a new one.
RevisionFits(record, v) == v \in record.versions \/ Cardinality(record.versions) < MaxRevisions
Revised(record, v) == [record EXCEPT !.versions = @ \cup {v}]

NewTombstone == [at |-> clock, versions |-> {}]
NewProposal == [status |-> "active", at |-> 0, versions |-> {}]

\* requested_action none: a tombstone, and the receipt leaves whoever claimed it.
ConsumeNoAction(r, v, state) ==
  /\ ReceiptFacts[r].requested = "none"
  /\ LET known == r \in DOMAIN state.no_actions
         record == IF known THEN state.no_actions[r] ELSE NewTombstone
     IN \E kept \in (IF known THEN {DOMAIN state.no_actions} ELSE NoActionRoom(state.no_actions)) :
          /\ RevisionFits(record, v)
          /\ quality' = [state EXCEPT !.no_actions = Put(Restrict(@, kept), r, Revised(record, v)),
                                      !.receipts = Drop(@, {r})]

\* The proposal exists: the analysis becomes a revision of it.
ConsumeAgain(r, v, state) ==
  /\ ReceiptFacts[r].requested # "none" /\ r \in DOMAIN state.proposals
  /\ RevisionFits(state.proposals[r], v)
  /\ quality' = [state EXCEPT !.proposals[r] = Revised(@, v), !.receipts = Drop(@, {r})]

\* A new proposal, for the holder of the lease or for a receipt nobody holds.
ConsumeNew(a, r, v, state) ==
  /\ ReceiptFacts[r].requested # "none" /\ r \notin DOMAIN state.proposals
  /\ r \in DOMAIN state.receipts \/ ~QueueFull(state)
  /\ r \in DOMAIN state.receipts /\ Leased(state.receipts[r]) =>
       state.receipts[r].holder = a
  /\ \E kept \in ProposalRoom(state.proposals) :
       /\ Cardinality(kept) < MaxProposals
       /\ quality' = [state EXCEPT
            !.proposals = Put(Restrict(@, kept), r, Revised(NewProposal, v)),
            !.receipts = Drop(@, {r})]

\* consume of one receipt, presented by its marker or picked from the queue.
Consumed(a, r, v) ==
  /\ Presentable(r)
  /\ \/ ConsumeNoAction(r, v, Pruned)
     \/ ConsumeAgain(r, v, Pruned)
     \/ ConsumeNew(a, r, v, Pruned)
  /\ owed' = owed \ {r}
  /\ UNCHANGED <<clock, asked>>

Consume(a, r, v) == picked[a] = NoReceipt /\ Consumed(a, r, v) /\ UNCHANGED picked

\* consume_next, first half: the oldest READY receipt, chosen under the lock.
PickNext(a) ==
  /\ picked[a] = NoReceipt
  /\ quality' = Pruned
  /\ \E r \in {x \in DOMAIN Pruned.receipts : Pruned.receipts[x] = Ready} :
       /\ \A x \in DOMAIN Pruned.receipts :
            Pruned.receipts[x] = Ready => ReceiptFacts[r].created <= ReceiptFacts[x].created
       /\ picked' = [picked EXCEPT ![a] = r]
  /\ UNCHANGED <<clock, owed, asked>>

\* Second half, after the lock was released: the pick may be consumed, claimed,
\* expired or forgotten by now, and the call then ends in an error.
ConsumePicked(a, v) ==
  /\ picked[a] # NoReceipt /\ Consumed(a, picked[a], v)
  /\ picked' = [picked EXCEPT ![a] = NoReceipt]

PickFails(a) ==
  /\ picked[a] # NoReceipt
  /\ picked' = [picked EXCEPT ![a] = NoReceipt]
  /\ UNCHANGED <<clock, quality, owed, asked>>

Dismiss(r) ==
  /\ r \in DOMAIN quality.proposals
  /\ quality' = [quality EXCEPT !.proposals[r].status = "dismissed", !.proposals[r].at = clock]
  /\ UNCHANGED <<clock, picked, owed, asked>>

-----------------------------------------------------------------------------
(* The Stop hook.                                                          *)

\* A trailing marker the hook may act on.
Marker(r) ==
  ReceiptFacts[r].requested = "analyze_quality" /\ ReceiptFacts[r].depth = 0 /\ ~ReceiptFacts[r].own

\* The oldest remembered turn makes room for a new one.
TurnRoom(turns) == RoomIn(turns, DOMAIN turns, LAMBDA t : turns[t], MaxHookTurns)

\* Mutant: a turn is remembered only if its receipt was new.
RememberedIfNew(turns, kept, t, r) ==
  IF r \in DOMAIN Pruned.receipts THEN Restrict(turns, kept) ELSE Put(Restrict(turns, kept), t, clock)
Remembered(turns, kept, t, r) == Put(Restrict(turns, kept), t, clock)

\* handle_stop_event: a full queue asks nothing and leaves the turn unrecorded.
HandleStopEvent(t, r) ==
  /\ Marker(r) /\ Presentable(r)
  /\ t \notin DOMAIN quality.hook_turns
  /\ r \in DOMAIN Pruned.receipts \/ ~QueueFull(Pruned)
  /\ \E kept \in TurnRoom(quality.hook_turns) :
       /\ quality' = [Queued(Pruned, r) EXCEPT !.hook_turns = Remembered(@, kept, t, r)]
       /\ asked' = [x \in Turns |-> IF x = t THEN asked[t] + 1
                      ELSE IF x \in DOMAIN quality.hook_turns \ kept THEN 0 ELSE asked[x]]
  /\ owed' = owed \cup {r}
  /\ UNCHANGED <<clock, picked>>

Tick ==
  /\ clock < MaxClock
  /\ clock' = clock + 1
  /\ UNCHANGED <<quality, picked, owed, asked>>

-----------------------------------------------------------------------------
(* The specification.                                                      *)

\* A version-1 registry holds a proposal per receipt and version; they merge
\* into one proposal, active if one of them is, with a revision per version.
Migrated(legacy) ==
  [r \in {x[1] : x \in DOMAIN legacy} |->
     [status |-> IF \E v \in Versions : <<r, v>> \in DOMAIN legacy /\ legacy[<<r, v>>] = "active"
                 THEN "active" ELSE "dismissed",
      at |-> 0,
      versions |-> {v \in Versions : <<r, v>> \in DOMAIN legacy}]]

QualityInit ==
  /\ clock = 0
  /\ \E legacy \in Legacies :
       quality = [receipts |-> <<>>, proposals |-> Migrated(legacy),
                  no_actions |-> <<>>, hook_turns |-> <<>>]
  /\ picked = [a \in Analyzers |-> NoReceipt]
  /\ owed = {} /\ asked = [t \in Turns |-> 0]

QualityNext ==
  \/ Tick
  \/ \E r \in Receipts : Receive(r) \/ Dismiss(r)
  \/ \E r \in Receipts, t \in Turns : HandleStopEvent(t, r)
  \/ \E a \in Analyzers :
       \/ PickNext(a) \/ PickFails(a)
       \/ \E r \in Receipts : Claim(a, r)
       \/ \E v \in Versions : ConsumePicked(a, v)
       \/ \E r \in Receipts, v \in Versions : Consume(a, r, v)

QualitySpec == QualityInit /\ [][QualityNext]_qualityVars

-----------------------------------------------------------------------------
(* Properties.                                                             *)

\* What is stored keeps its shape; a proposal has at least one analysis.
QualityTypeOK ==
  /\ DOMAIN quality.receipts \subseteq Receipts
  /\ \A r \in DOMAIN quality.receipts : quality.receipts[r].state \in {"READY", "CLAIMED"}
  /\ \A r \in DOMAIN quality.proposals :
       /\ quality.proposals[r].status \in {"active", "dismissed"}
       /\ quality.proposals[r].versions # {} /\ quality.proposals[r].versions \subseteq Versions

\* The store and the histories in it stay within their limits, whatever is
\* received, asked, analyzed and evicted in which order.
WithinLimits ==
  /\ Cardinality(DOMAIN quality.receipts) <= MaxReceipts
  /\ Cardinality(DOMAIN quality.proposals) <= MaxProposals
  /\ Cardinality(DOMAIN quality.no_actions) <= MaxNoActions
  /\ Cardinality(DOMAIN quality.hook_turns) <= MaxHookTurns
  /\ \A r \in DOMAIN quality.proposals : Cardinality(quality.proposals[r].versions) <= MaxRevisions

\* A receipt the store accepted is queued until it is answered or expires:
\* a lapsed lease, a lost race between pick and consume, a refused revision
\* or an eviction loses none.
ReceiptsAnswered ==
  \A r \in owed : Expired(r) \/ r \in DOMAIN quality.receipts

\* The hook asks a turn again only after it evicted the turn from its memory.
AskedOncePerMemory ==
  \A t \in Turns : asked[t] <= 1

\* An active proposal is only ever removed by a person: room is made from
\* dismissed ones, and a full store refuses.
ActiveProposalsSurvive ==
  [][\A r \in Receipts :
       r \in DOMAIN quality.proposals /\ quality.proposals[r].status = "active" =>
         r \in DOMAIN quality'.proposals]_qualityVars
=============================================================================
