------------------------- MODULE QualityLoopProofs --------------------------
(***************************************************************************)
(* The skill quality loop, for any number of drafts, submitters, receipts, *)
(* analyzers and turns: a contribution creates at most one issue, and what *)
(* is on file, told and registered about it is true; a receipt that was    *)
(* accepted is answered before it goes, an active proposal is kept, a turn *)
(* is asked about once for as long as the store remembers it, and whatever *)
(* is stored stays within its limits.                                      *)
(*                                                                         *)
(* A submitter owns its draft between the creation of the file and the     *)
(* last write to it. Every write of the store is one of a few kinds, and   *)
(* what a writer decides is decided on the registries it writes.           *)
(***************************************************************************)
EXTENDS Contribution, QualityStore, FiniteSetTheorems, TLAPS

-----------------------------------------------------------------------------
(* Contributions.                                                          *)

\* The steps between the creation of the submission file and the last write
\* to it: the submitter owns the draft.
OwningSteps == {"write", "create", "created", "unsure"}
Owns(s, c) == submitter[s].step \in OwningSteps /\ submitter[s].draft = c

\* A draft has one owner at a time.
OneOwner == \A s, t \in Submitters : \A c \in Contributions : Owns(s, c) /\ Owns(t, c) => s = t

\* What an owner knows of its draft: how far the file and the issue are.
OwnerKnows ==
  \A s \in Submitters :
    LET c == submitter[s].draft IN
    /\ submitter[s].step = "write" => submission[c] = "empty"
    /\ submitter[s].step = "create" => submission[c] = "ATTEMPTING" /\ issues[c] = 0
    /\ submitter[s].step = "created" => submission[c] = "ATTEMPTING" /\ issues[c] = 1
    /\ submitter[s].step = "unsure" => submission[c] = "ATTEMPTING"
    /\ submitter[s].step = "record" => submission[c] = "SUBMITTED"

\* What the file says of the issue.
FileTells ==
  \A c \in Contributions :
    /\ submission[c] \in {"absent", "empty"} => issues[c] = 0
    /\ submission[c] = "SUBMITTED" => issues[c] = 1
    /\ issues[c] <= 1
    /\ c \in told \/ c \in outbound => submission[c] = "SUBMITTED"

Accounts == ContributionTypeOK /\ OneOwner /\ OwnerKnows /\ FileTells

\* The types of the drafts, files and submitters are kept: whoever works on a
\* draft names it, and whoever rests names none.
THEOREM ContributionTypeCorrect == ContributionSpec => []ContributionTypeOK
<1>1. ContributionInit => ContributionTypeOK
  BY ContributionAssumption DEF ContributionInit, ContributionTypeOK, SubmissionStates, SubmitterSteps, Resting
<1>2. ContributionTypeOK /\ [ContributionNext]_contributionVars => ContributionTypeOK'
  <2> SUFFICES ASSUME ContributionTypeOK, [ContributionNext]_contributionVars
      PROVE  ContributionTypeOK'
    OBVIOUS
  <2> USE ContributionAssumption DEF ContributionTypeOK, SubmissionStates, SubmitterSteps, Resting,
        SubmitterAt, SubmitterGoes, SubmitterEnds, SubmissionSaved
  <2>1. CASE UNCHANGED contributionVars
    BY <2>1 DEF contributionVars
  <2>2. ASSUME NEW c \in Contributions, Prepare(c) \/ Expire(c) PROVE ContributionTypeOK'
    BY <2>2 DEF Prepare, Expire
  <2>3. ASSUME NEW s \in Submitters, NEW c \in Contributions, Submit(s, c) PROVE ContributionTypeOK'
    <3>1. CASE submission[c] = "absent"
      BY <2>3, <3>1 DEF Submit
    <3>2. CASE submission[c] = "SUBMITTED"
      BY <2>3, <3>2 DEF Submit
    <3>3. CASE submission[c] \notin {"absent", "SUBMITTED"}
      BY <2>3, <3>3 DEF Submit
    <3> QED BY <3>1, <3>2, <3>3
  <2>4. ASSUME NEW s \in Submitters, NEW ok \in BOOLEAN,
               Lookup(s, ok) \/ WriteClaimFails(s, ok) \/ NoteUnknown(s, ok)
        PROVE ContributionTypeOK'
    BY <2>4 DEF Lookup, WriteClaimFails, NoteUnknown, Unsure
  <2>5. ASSUME NEW s \in Submitters, NEW made \in BOOLEAN, NEW answer \in BOOLEAN,
               CreateIssue(s, made, answer)
        PROVE ContributionTypeOK'
    BY <2>5 DEF CreateIssue
  <2>6. ASSUME NEW s \in Submitters, ClaimSubmission(s) PROVE ContributionTypeOK'
    BY <2>6 DEF ClaimSubmission, Claimable
  <2>7. ASSUME NEW s \in Submitters, WriteClaim(s) \/ CreateExpired(s) \/ FinishSubmission(s)
                 \/ FinishFails(s) \/ RecordOutbound(s) \/ SubmitterDies(s)
        PROVE ContributionTypeOK'
    BY <2>7 DEF WriteClaim, CreateExpired, FinishSubmission, FinishFails, RecordOutbound, SubmitterDies
  <2> QED
    BY <2>1, <2>2, <2>3, <2>4, <2>5, <2>6, <2>7 DEF ContributionNext, SubmitterStep
<1> QED BY <1>1, <1>2, PTL DEF ContributionSpec

LEMMA AccountsInit == ContributionInit => Accounts
BY ContributionAssumption
   DEF ContributionInit, Accounts, ContributionTypeOK, SubmissionStates, SubmitterSteps, Resting,
       OneOwner, Owns, OwningSteps, OwnerKnows, FileTells

\* A submitter's step leaves what other submitters own and know as it is: it
\* writes only the file and the issue of the draft it owns.
LEMMA AccountsStep ==
  ASSUME Accounts, ContributionTypeOK', [ContributionNext]_contributionVars
  PROVE  (OneOwner /\ OwnerKnows /\ FileTells)'
<1> USE ContributionAssumption DEF Accounts, ContributionTypeOK, SubmissionStates, SubmitterSteps,
      Resting, OneOwner, Owns, OwningSteps, OwnerKnows, FileTells,
      SubmitterAt, SubmitterGoes, SubmitterEnds, SubmissionSaved
<1>1. CASE UNCHANGED contributionVars
  BY <1>1 DEF contributionVars
<1>2. ASSUME NEW c \in Contributions, Prepare(c) \/ Expire(c)
      PROVE  (OneOwner /\ OwnerKnows /\ FileTells)'
  BY <1>2 DEF Prepare, Expire
<1>3. ASSUME NEW s \in Submitters, NEW c \in Contributions, Submit(s, c)
      PROVE  (OneOwner /\ OwnerKnows /\ FileTells)'
  <2>1. CASE submission[c] = "absent"
    BY <1>3, <2>1 DEF Submit
  <2>2. CASE submission[c] = "SUBMITTED"
    BY <1>3, <2>2 DEF Submit
  <2>3. CASE submission[c] \notin {"absent", "SUBMITTED"}
    BY <1>3, <2>3 DEF Submit
  <2> QED BY <2>1, <2>2, <2>3
<1>4. ASSUME NEW s \in Submitters, NEW ok \in BOOLEAN, Lookup(s, ok)
      PROVE  (OneOwner /\ OwnerKnows /\ FileTells)'
  BY <1>4 DEF Lookup
<1>5. ASSUME NEW s \in Submitters, NEW ok \in BOOLEAN, WriteClaimFails(s, ok)
      PROVE  (OneOwner /\ OwnerKnows /\ FileTells)'
  BY <1>5 DEF WriteClaimFails
<1>6. ASSUME NEW s \in Submitters, NEW ok \in BOOLEAN, NoteUnknown(s, ok)
      PROVE  (OneOwner /\ OwnerKnows /\ FileTells)'
  BY <1>6 DEF NoteUnknown, Unsure
<1>7. ASSUME NEW s \in Submitters, NEW made \in BOOLEAN, NEW answer \in BOOLEAN,
             CreateIssue(s, made, answer)
      PROVE  (OneOwner /\ OwnerKnows /\ FileTells)'
  BY <1>7 DEF CreateIssue
<1>8. ASSUME NEW s \in Submitters, ClaimSubmission(s)
      PROVE  (OneOwner /\ OwnerKnows /\ FileTells)'
  BY <1>8 DEF ClaimSubmission, Claimable
<1>9. ASSUME NEW s \in Submitters, WriteClaim(s) PROVE (OneOwner /\ OwnerKnows /\ FileTells)'
  BY <1>9 DEF WriteClaim
<1>10. ASSUME NEW s \in Submitters, FinishSubmission(s) PROVE (OneOwner /\ OwnerKnows /\ FileTells)'
  BY <1>10 DEF FinishSubmission
<1>11. ASSUME NEW s \in Submitters,
              CreateExpired(s) \/ FinishFails(s) \/ RecordOutbound(s) \/ SubmitterDies(s)
       PROVE  (OneOwner /\ OwnerKnows /\ FileTells)'
  BY <1>11 DEF CreateExpired, FinishFails, RecordOutbound, SubmitterDies
<1> QED
  BY <1>1, <1>2, <1>3, <1>4, <1>5, <1>6, <1>7, <1>8, <1>9, <1>10, <1>11
  DEF ContributionNext, SubmitterStep

\* However many submitters run, stop, lose their answers or fail to write, a
\* contribution creates at most one issue, and the file, the caller's answer
\* and the registry say SUBMITTED only of an issue that exists.
THEOREM IssuesAreAccounted == ContributionSpec => []IssuesAccounted
<1>1. Accounts => IssuesAccounted
  BY DEF Accounts, FileTells, ContributionTypeOK, SubmissionStates, IssuesAccounted, IssueOnce
<1>2. Accounts /\ ContributionTypeOK' /\ [ContributionNext]_contributionVars => Accounts'
  BY AccountsStep DEF Accounts
<1>3. ContributionSpec => []ContributionTypeOK
  BY ContributionTypeCorrect
<1> QED BY AccountsInit, <1>1, <1>2, <1>3, PTL DEF ContributionSpec

-----------------------------------------------------------------------------
(* The quality store.                                                      *)

Registries == {"receipts", "proposals", "no_actions", "hook_turns"}

\* What is true of the store itself, whoever uses it.
StoreKnown ==
  /\ DOMAIN quality = Registries /\ DOMAIN quality.receipts \subseteq Receipts
  /\ clock \in Nat
  /\ owed \subseteq Receipts /\ picked \in [Analyzers -> Receipts \cup {NoReceipt}]

\* Pruning drops receipts that expired and nothing else of the queue.
LEMMA PrunedStore ==
  ASSUME DOMAIN quality = Registries
  PROVE  /\ DOMAIN Pruned = Registries
         /\ DOMAIN Pruned.receipts = {r \in DOMAIN quality.receipts : ~Expired(r)}
         /\ Pruned.proposals = quality.proposals /\ Pruned.hook_turns = quality.hook_turns
  BY DEF Pruned, Registries, PrunedReceipts

\* A receipt is queued at most once.
LEMMA QueuedStore ==
  ASSUME NEW state, DOMAIN state = Registries, NEW r
  PROVE  /\ DOMAIN Queued(state, r) = Registries
         /\ DOMAIN Queued(state, r).receipts = DOMAIN state.receipts \cup {r}
         /\ Queued(state, r).proposals = state.proposals
         /\ Queued(state, r).hook_turns = state.hook_turns
  BY DEF Queued, Registries, Put

\* Room is made of what may go.
LEMMA RoomKeeps ==
  ASSUME NEW proposals, NEW kept \in ProposalRoom(proposals), NEW x \in DOMAIN proposals,
         proposals[x].status # "dismissed"
  PROVE  x \in kept
  BY DEF ProposalRoom, RoomIn, Evictable

\* What every step of the store keeps of what it holds.
Careful ==
  /\ DOMAIN quality' = Registries /\ DOMAIN quality'.receipts \subseteq Receipts
  /\ clock' \in Nat /\ clock <= clock'
  /\ \A x \in owed' : x \in Receipts /\ (x \in owed \/ x \in DOMAIN quality'.receipts)
  /\ \A x \in DOMAIN quality.receipts :
       x \in DOMAIN quality'.receipts \/ Expired(x) \/ x \notin owed'
  /\ \A x \in DOMAIN quality.proposals :
       x \in DOMAIN quality'.proposals \/ quality.proposals[x].status = "dismissed"
  /\ picked' \in [Analyzers -> Receipts \cup {NoReceipt}]

Unasked == quality'.hook_turns = quality.hook_turns /\ asked' = asked

LEMMA ReceiveCareful ==
  ASSUME StoreKnown, NEW r \in Receipts, Receive(r)
  PROVE  Careful /\ Unasked
  <1>1. /\ quality' = Queued(Pruned, r) /\ owed' = owed \cup {r}
        /\ clock' = clock /\ picked' = picked /\ asked' = asked
    BY DEF Receive
  <1>2. /\ DOMAIN quality' = Registries
        /\ DOMAIN quality'.receipts = {x \in DOMAIN quality.receipts : ~Expired(x)} \cup {r}
        /\ quality'.proposals = quality.proposals /\ quality'.hook_turns = quality.hook_turns
    BY <1>1, PrunedStore, QueuedStore DEF StoreKnown
  <1>3. QED
    BY <1>1, <1>2 DEF StoreKnown, Careful, Unasked

LEMMA ClaimCareful ==
  ASSUME StoreKnown, NEW a \in Analyzers, NEW r \in Receipts, Claim(a, r)
  PROVE  Careful /\ Unasked
  <1>1. /\ owed' = owed /\ clock' = clock /\ picked' = picked /\ asked' = asked
        /\ \E claimed : quality' = [Pruned EXCEPT !.receipts[r] = claimed]
    BY DEF Claim
  <1>2. /\ DOMAIN quality' = Registries
        /\ DOMAIN quality'.receipts = {x \in DOMAIN quality.receipts : ~Expired(x)}
        /\ quality'.proposals = quality.proposals /\ quality'.hook_turns = quality.hook_turns
    BY <1>1, PrunedStore DEF StoreKnown, Registries
  <1>3. QED
    BY <1>1, <1>2 DEF StoreKnown, Careful, Unasked

\* A consumption answers its receipt and drops no other, nor an active proposal.
LEMMA ConsumedCareful ==
  ASSUME StoreKnown, NEW a \in Analyzers, NEW r \in Receipts, NEW v, Consumed(a, r, v),
         picked' \in [Analyzers -> Receipts \cup {NoReceipt}]
  PROVE  Careful /\ Unasked
  <1>1. owed' = owed \ {r} /\ clock' = clock /\ asked' = asked
    BY DEF Consumed
  <1>2. /\ DOMAIN Pruned = Registries
        /\ DOMAIN Pruned.receipts = {x \in DOMAIN quality.receipts : ~Expired(x)}
        /\ Pruned.proposals = quality.proposals /\ Pruned.hook_turns = quality.hook_turns
    BY PrunedStore DEF StoreKnown
  <1>3. DOMAIN Drop(Pruned.receipts, {r}) = DOMAIN Pruned.receipts \ {r}
    BY DEF Drop, Restrict
  <1>4. CASE ConsumeNoAction(r, v, Pruned)
    <2>1. /\ DOMAIN quality' = Registries
          /\ quality'.receipts = Drop(Pruned.receipts, {r})
          /\ quality'.proposals = Pruned.proposals /\ quality'.hook_turns = Pruned.hook_turns
      BY <1>2, <1>4 DEF ConsumeNoAction, Registries
    <2>2. QED
      BY <1>1, <1>2, <1>3, <2>1 DEF StoreKnown, Careful, Unasked
  <1>5. CASE ConsumeAgain(r, v, Pruned)
    <2>1. /\ DOMAIN quality' = Registries
          /\ quality'.receipts = Drop(Pruned.receipts, {r})
          /\ DOMAIN quality'.proposals = DOMAIN Pruned.proposals
          /\ quality'.hook_turns = Pruned.hook_turns
      BY <1>2, <1>5 DEF ConsumeAgain, Registries
    <2>2. QED
      BY <1>1, <1>2, <1>3, <2>1 DEF StoreKnown, Careful, Unasked
  <1>6. CASE ConsumeNew(a, r, v, Pruned)
    <2>1. PICK kept \in ProposalRoom(Pruned.proposals) :
            quality' = [Pruned EXCEPT
              !.proposals = Put(Restrict(Pruned.proposals, kept), r, Revised(NewProposal, v)),
              !.receipts = Drop(Pruned.receipts, {r})]
      BY <1>6 DEF ConsumeNew
    <2>2. /\ DOMAIN quality' = Registries
          /\ quality'.receipts = Drop(Pruned.receipts, {r})
          /\ quality'.proposals = Put(Restrict(Pruned.proposals, kept), r, Revised(NewProposal, v))
          /\ quality'.hook_turns = Pruned.hook_turns
      BY <1>2, <2>1 DEF Registries
    <2>3. DOMAIN quality'.proposals = kept \cup {r}
      BY <2>2 DEF Put, Restrict
    <2>4. \A x \in DOMAIN quality.proposals :
            x \in DOMAIN quality'.proposals \/ quality.proposals[x].status = "dismissed"
      BY <1>2, <2>1, <2>3, RoomKeeps
    <2>5. QED
      BY <1>1, <1>2, <1>3, <2>2, <2>4 DEF StoreKnown, Careful, Unasked
  <1>7. QED
    BY <1>4, <1>5, <1>6 DEF Consumed

LEMMA PicksCareful ==
  ASSUME StoreKnown, NEW a \in Analyzers, PickNext(a) \/ PickFails(a)
  PROVE  Careful /\ Unasked
  <1>1. CASE PickNext(a)
    <2>1. /\ quality' = Pruned /\ owed' = owed /\ clock' = clock /\ asked' = asked
      BY <1>1 DEF PickNext
    <2>2. /\ DOMAIN quality' = Registries
          /\ DOMAIN quality'.receipts = {x \in DOMAIN quality.receipts : ~Expired(x)}
          /\ quality'.proposals = quality.proposals /\ quality'.hook_turns = quality.hook_turns
      BY <2>1, PrunedStore DEF StoreKnown
    <2>3. picked' \in [Analyzers -> Receipts \cup {NoReceipt}]
      <3>1. PICK r \in DOMAIN Pruned.receipts : picked' = [picked EXCEPT ![a] = r]
        BY <1>1 DEF PickNext
      <3>2. QED
        BY <2>1, <2>2, <3>1 DEF StoreKnown
    <2>4. QED
      BY <2>1, <2>2, <2>3 DEF StoreKnown, Careful, Unasked
  <1>2. CASE PickFails(a)
    BY <1>2 DEF PickFails, StoreKnown, Careful, Unasked
  <1>3. QED
    BY <1>1, <1>2

LEMMA DismissCareful ==
  ASSUME StoreKnown, NEW r \in Receipts, Dismiss(r)
  PROVE  Careful /\ Unasked
  <1>1. /\ owed' = owed /\ clock' = clock /\ picked' = picked /\ asked' = asked
        /\ quality' = [quality EXCEPT !.proposals[r].status = "dismissed",
                                      !.proposals[r].at = clock]
    BY DEF Dismiss
  <1>2. /\ DOMAIN quality' = Registries /\ quality'.receipts = quality.receipts
        /\ DOMAIN quality'.proposals = DOMAIN quality.proposals
        /\ quality'.hook_turns = quality.hook_turns
    BY <1>1 DEF StoreKnown, Registries
  <1>3. QED
    BY <1>1, <1>2 DEF StoreKnown, Careful, Unasked

\* The hook queues its receipt, asks its turn and forgets only what it evicts.
Asks(t, kept) ==
  /\ t \notin DOMAIN quality.hook_turns
  /\ DOMAIN quality'.hook_turns = kept \cup {t} /\ kept \subseteq DOMAIN quality.hook_turns
  /\ asked' = [x \in Turns |-> IF x = t THEN asked[t] + 1
                 ELSE IF x \in DOMAIN quality.hook_turns \ kept THEN 0 ELSE asked[x]]

LEMMA StopEventCareful ==
  ASSUME StoreKnown, NEW t \in Turns, NEW r \in Receipts, HandleStopEvent(t, r)
  PROVE  Careful /\ \E kept : Asks(t, kept)
  <1>1. PICK kept \in TurnRoom(quality.hook_turns) :
          /\ t \notin DOMAIN quality.hook_turns
          /\ quality' = [Queued(Pruned, r) EXCEPT !.hook_turns = Remembered(@, kept, t, r)]
          /\ asked' = [x \in Turns |-> IF x = t THEN asked[t] + 1
                         ELSE IF x \in DOMAIN quality.hook_turns \ kept THEN 0 ELSE asked[x]]
          /\ owed' = owed \cup {r} /\ clock' = clock /\ picked' = picked
    BY DEF HandleStopEvent
  <1>2. /\ DOMAIN Queued(Pruned, r) = Registries
        /\ DOMAIN Queued(Pruned, r).receipts =
             {x \in DOMAIN quality.receipts : ~Expired(x)} \cup {r}
        /\ Queued(Pruned, r).proposals = quality.proposals
        /\ Queued(Pruned, r).hook_turns = quality.hook_turns
    BY PrunedStore, QueuedStore DEF StoreKnown
  <1>3. /\ DOMAIN quality' = Registries
        /\ quality'.receipts = Queued(Pruned, r).receipts
        /\ quality'.proposals = quality.proposals
        /\ quality'.hook_turns = Remembered(quality.hook_turns, kept, t, r)
    BY <1>1, <1>2 DEF Registries
  <1>4. DOMAIN quality'.hook_turns = kept \cup {t}
    BY <1>3 DEF Remembered, Put, Restrict
  <1>5. kept \subseteq DOMAIN quality.hook_turns
    BY <1>1 DEF TurnRoom, RoomIn
  <1>6. Careful
    BY <1>1, <1>2, <1>3 DEF StoreKnown, Careful
  <1>7. QED
    BY <1>1, <1>4, <1>5, <1>6 DEF Asks

LEMMA StoreStep ==
  ASSUME StoreKnown, QualityNext
  PROVE  Careful /\ (Unasked \/ \E t \in Turns : \E kept : Asks(t, kept))
  <1>1. CASE Tick
    BY <1>1 DEF Tick, StoreKnown, Careful, Unasked
  <1>2. ASSUME NEW r \in Receipts, Receive(r) \/ Dismiss(r)
        PROVE  Careful /\ Unasked
    BY <1>2, ReceiveCareful, DismissCareful
  <1>3. ASSUME NEW r \in Receipts, NEW t \in Turns, HandleStopEvent(t, r)
        PROVE  Careful /\ \E kept : Asks(t, kept)
    BY <1>3, StopEventCareful
  <1>4. ASSUME NEW a \in Analyzers, NEW r \in Receipts, Claim(a, r)
        PROVE  Careful /\ Unasked
    BY <1>4, ClaimCareful
  <1>5. ASSUME NEW a \in Analyzers, NEW v \in Versions, ConsumePicked(a, v)
        PROVE  Careful /\ Unasked
    <2>1. picked[a] \in Receipts /\ picked' \in [Analyzers -> Receipts \cup {NoReceipt}]
      BY <1>5 DEF ConsumePicked, StoreKnown
    <2>2. QED
      BY <1>5, <2>1, ConsumedCareful DEF ConsumePicked
  <1>6. ASSUME NEW a \in Analyzers, NEW r \in Receipts, NEW v \in Versions, Consume(a, r, v)
        PROVE  Careful /\ Unasked
    <2>1. picked' \in [Analyzers -> Receipts \cup {NoReceipt}]
      BY <1>6 DEF Consume, StoreKnown
    <2>2. QED
      BY <1>6, <2>1, ConsumedCareful DEF Consume
  <1>7. QED
    BY <1>1, <1>2, <1>3, <1>4, <1>5, <1>6, PicksCareful DEF QualityNext

LEMMA StoreInvariant == QualitySpec => []StoreKnown
  <1>1. QualityInit => StoreKnown
    BY DEF QualityInit, StoreKnown, Registries
  <1>2. StoreKnown /\ [QualityNext]_qualityVars => StoreKnown'
    <2> SUFFICES ASSUME StoreKnown, [QualityNext]_qualityVars PROVE StoreKnown'
      OBVIOUS
    <2>1. CASE QualityNext
      BY <2>1, StoreStep DEF Careful, StoreKnown
    <2>2. CASE UNCHANGED qualityVars
      BY <2>2 DEF qualityVars, StoreKnown
    <2>3. QED
      BY <2>1, <2>2
  <1>3. QED
    BY <1>1, <1>2, PTL DEF QualitySpec

\* A receipt that was accepted waits until it is answered or expires, however
\* leases lapse, picks race consumptions and room is made.
THEOREM AcceptedReceiptsWait == QualitySpec => []ReceiptsAnswered
  <1>1. QualityInit => ReceiptsAnswered
    BY DEF QualityInit, ReceiptsAnswered
  <1>2. StoreKnown /\ ReceiptsAnswered /\ [QualityNext]_qualityVars => ReceiptsAnswered'
    <2> SUFFICES ASSUME StoreKnown, ReceiptsAnswered, [QualityNext]_qualityVars
                 PROVE  ReceiptsAnswered'
      OBVIOUS
    <2>1. CASE QualityNext
      <3>1. SUFFICES ASSUME NEW r \in owed'
                     PROVE  Expired(r)' \/ r \in DOMAIN quality'.receipts
        BY DEF ReceiptsAnswered
      <3>2. Careful
        BY <2>1, StoreStep
      <3>3. r \in Receipts /\ ReceiptFacts[r].expires \in Nat
        BY <3>2, ReceiptAssumption DEF Careful, WellFormed
      <3>4. Expired(r) => Expired(r)'
        BY <3>2, <3>3 DEF Careful, StoreKnown, Expired
      <3>5. QED
        BY <3>2, <3>4 DEF Careful, ReceiptsAnswered
    <2>2. CASE UNCHANGED qualityVars
      BY <2>2 DEF qualityVars, ReceiptsAnswered, Expired
    <2>3. QED
      BY <2>1, <2>2
  <1>3. QED
    BY <1>1, <1>2, StoreInvariant, PTL DEF QualitySpec

\* Of the proposals a full store drops none is active.
THEOREM ActiveProposalsAreKept == QualitySpec => ActiveProposalsSurvive
  <1>1. StoreKnown /\ [QualityNext]_qualityVars =>
          [\A r \in Receipts :
             r \in DOMAIN quality.proposals /\ quality.proposals[r].status = "active" =>
               r \in DOMAIN quality'.proposals]_qualityVars
    BY StoreStep DEF Careful
  <1>2. QED
    BY <1>1, StoreInvariant, PTL DEF QualitySpec, ActiveProposalsSurvive

\* A turn the store does not remember was not asked since it was forgotten.
Remembering ==
  /\ asked \in [Turns -> Nat]
  /\ \A t \in Turns : asked[t] <= 1 /\ (t \notin DOMAIN quality.hook_turns => asked[t] = 0)

\* No turn is asked twice while the store remembers it.
THEOREM TurnsAreAskedOnce == QualitySpec => []AskedOncePerMemory
  <1>1. QualityInit => Remembering
    BY DEF QualityInit, Remembering
  <1>2. StoreKnown /\ Remembering /\ [QualityNext]_qualityVars => Remembering'
    <2> SUFFICES ASSUME StoreKnown, Remembering, [QualityNext]_qualityVars
                 PROVE  Remembering'
      OBVIOUS
    <2>1. CASE Unasked \/ UNCHANGED qualityVars
      BY <2>1 DEF qualityVars, Unasked, Remembering
    <2>2. ASSUME NEW t \in Turns, NEW kept, Asks(t, kept)
          PROVE  Remembering'
      <3>1. /\ asked \in [Turns -> Nat] /\ asked[t] = 0
            /\ asked' \in [Turns -> Nat] /\ asked'[t] = 1
        BY <2>2 DEF Asks, Remembering
      <3>2. ASSUME NEW x \in Turns
            PROVE  /\ asked'[x] <= 1
                   /\ x \notin DOMAIN quality'.hook_turns => asked'[x] = 0
        BY <2>2, <3>1 DEF Asks, Remembering
      <3>3. QED
        BY <3>1, <3>2 DEF Remembering
    <2>3. QED
      BY <2>1, <2>2, StoreStep
  <1>3. Remembering => AskedOncePerMemory
    BY DEF Remembering, AskedOncePerMemory
  <1>4. QED
    BY <1>1, <1>2, <1>3, StoreInvariant, PTL DEF QualitySpec

-----------------------------------------------------------------------------
(* The limits of the store.                                                *)

\* A proposal with the revisions of its analyses.
ProposalSound(p) ==
  /\ DOMAIN p = {"status", "at", "versions"} /\ p.status \in {"active", "dismissed"}
  /\ p.versions # {} /\ p.versions \subseteq Versions
  /\ IsFiniteSet(p.versions) /\ Cardinality(p.versions) <= MaxRevisions

Within(S, limit) == IsFiniteSet(S) /\ Cardinality(S) <= limit

QueueSound(receipts) ==
  /\ Within(DOMAIN receipts, MaxReceipts)
  /\ \A r \in DOMAIN receipts : r \in Receipts /\ receipts[r].state \in {"READY", "CLAIMED"}
                               /\ DOMAIN receipts[r] = {"state", "holder", "until"}

ProposalsSound(proposals) ==
  /\ Within(DOMAIN proposals, MaxProposals)
  /\ \A r \in DOMAIN proposals : ProposalSound(proposals[r])

StoreSound(state) ==
  /\ DOMAIN state = Registries
  /\ QueueSound(state.receipts) /\ ProposalsSound(state.proposals)
  /\ Within(DOMAIN state.no_actions, MaxNoActions)
  /\ Within(DOMAIN state.hook_turns, MaxHookTurns)

StoreIsSound == StoreSound(quality)

LEMMA Limits ==
  /\ MaxReceipts \in Nat /\ MaxProposals \in Nat /\ MaxNoActions \in Nat
  /\ MaxRevisions \in Nat /\ MaxHookTurns \in Nat
  /\ MaxNoActions >= 1 /\ MaxRevisions >= 1 /\ MaxHookTurns >= 1
  BY StoreAssumption

LEMMA FewerWithin ==
  ASSUME NEW S, NEW limit \in Nat, Within(S, limit), NEW T \in SUBSET S
  PROVE  Within(T, limit)
  BY FS_Subset, FS_CardinalityType DEF Within

\* One more fits where there is room.
LEMMA OneMoreWithin ==
  ASSUME NEW S, IsFiniteSet(S), NEW limit \in Nat, Cardinality(S) < limit, NEW x
  PROVE  Within(S \cup {x}, limit)
  <1>1. CASE x \in S
    <2>1. S \cup {x} = S
      BY <1>1
    <2>2. Cardinality(S) \in Nat
      BY FS_CardinalityType
    <2>3. QED
      BY <2>1, <2>2 DEF Within
  <1>2. CASE x \notin S
    <2>1. IsFiniteSet(S \cup {x}) /\ Cardinality(S \cup {x}) = Cardinality(S) + 1
      BY <1>2, FS_AddElement
    <2>2. QED
      BY <2>1, FS_CardinalityType DEF Within
  <1>3. QED
    BY <1>1, <1>2

\* There is room for one more once the oldest are gone, if all may go.
LEMMA RoomForOne ==
  ASSUME NEW S, NEW kept \in SUBSET S, NEW limit \in Nat, limit >= 1, Within(S, limit),
         Cardinality(kept) < limit \/ S \ kept = S, NEW x
  PROVE  Within(kept \cup {x}, limit)
  <1>1. IsFiniteSet(kept)
    BY FS_Subset DEF Within
  <1>2. Cardinality(kept) < limit
    <2>1. CASE S \ kept = S
      <3>1. kept = {}
        BY <2>1
      <3>2. QED
        BY <3>1, FS_EmptySet
    <2>2. QED
      BY <2>1
  <1>3. QED
    BY <1>1, <1>2, OneMoreWithin

LEMMA PrunedSound ==
  ASSUME StoreSound(quality) PROVE StoreSound(Pruned)
  <1>1. /\ DOMAIN Pruned = Registries /\ Pruned.receipts = PrunedReceipts(quality.receipts)
        /\ Pruned.no_actions = PrunedNoActions(quality.no_actions)
        /\ Pruned.proposals = quality.proposals /\ Pruned.hook_turns = quality.hook_turns
    BY DEF Pruned, StoreSound, Registries
  <1>2. DOMAIN PrunedReceipts(quality.receipts) \subseteq DOMAIN quality.receipts
    BY DEF PrunedReceipts
  <1>3. DOMAIN PrunedNoActions(quality.no_actions) \subseteq DOMAIN quality.no_actions
    BY DEF PrunedNoActions, Restrict
  <1>4. ASSUME NEW r \in DOMAIN PrunedReceipts(quality.receipts)
        PROVE  /\ r \in Receipts /\ PrunedReceipts(quality.receipts)[r].state \in {"READY", "CLAIMED"}
               /\ DOMAIN PrunedReceipts(quality.receipts)[r] = {"state", "holder", "until"}
    BY <1>2, <1>4 DEF PrunedReceipts, Ready, StoreSound, QueueSound
  <1>5. QueueSound(PrunedReceipts(quality.receipts))
    BY <1>2, <1>4, FewerWithin, Limits DEF StoreSound, QueueSound
  <1>6. Within(DOMAIN PrunedNoActions(quality.no_actions), MaxNoActions)
    BY <1>3, FewerWithin, Limits DEF StoreSound
  <1>7. QED
    BY <1>1, <1>5, <1>6 DEF StoreSound

LEMMA QueuedSound ==
  ASSUME NEW state, StoreSound(state), NEW r \in Receipts,
         r \in DOMAIN state.receipts \/ ~QueueFull(state)
  PROVE  StoreSound(Queued(state, r))
  <1>1. CASE r \in DOMAIN state.receipts
    BY <1>1 DEF Queued
  <1>2. CASE r \notin DOMAIN state.receipts
    <2>1. /\ DOMAIN Queued(state, r) = Registries
          /\ Queued(state, r).receipts = Put(state.receipts, r, Ready)
          /\ Queued(state, r).no_actions = state.no_actions
          /\ Queued(state, r).proposals = state.proposals
          /\ Queued(state, r).hook_turns = state.hook_turns
      BY <1>2 DEF Queued, StoreSound, Registries
    <2>2. Within(DOMAIN state.receipts \cup {r}, MaxReceipts)
      <3>1. IsFiniteSet(DOMAIN state.receipts) /\ Cardinality(DOMAIN state.receipts) < MaxReceipts
        BY <1>2, Limits, FS_CardinalityType DEF QueueFull, StoreSound, QueueSound, Within
      <3>2. QED
        BY <3>1, OneMoreWithin, Limits
    <2>3. QueueSound(Put(state.receipts, r, Ready))
      BY <2>2 DEF Put, Ready, StoreSound, QueueSound
    <2>4. QED
      BY <2>1, <2>3 DEF StoreSound
  <1>3. QED
    BY <1>1, <1>2

LEMMA DroppedSound ==
  ASSUME NEW receipts, QueueSound(receipts), NEW r
  PROVE  QueueSound(Drop(receipts, {r}))
  <1>1. DOMAIN Drop(receipts, {r}) \subseteq DOMAIN receipts
    BY DEF Drop, Restrict
  <1>2. Within(DOMAIN Drop(receipts, {r}), MaxReceipts)
    BY <1>1, FewerWithin, Limits DEF QueueSound
  <1>3. QED
    BY <1>1, <1>2 DEF Drop, Restrict, QueueSound

\* A revision that fits.
LEMMA RevisedSound ==
  ASSUME NEW p, ProposalSound(p), NEW v \in Versions, RevisionFits(p, v)
  PROVE  ProposalSound(Revised(p, v))
  <1>1. Within(p.versions \cup {v}, MaxRevisions)
    <2>1. CASE v \in p.versions
      <3>1. p.versions \cup {v} = p.versions
        BY <2>1
      <3>2. QED
        BY <3>1 DEF ProposalSound, Within
    <2>2. CASE v \notin p.versions
      BY <2>2, OneMoreWithin, Limits DEF RevisionFits, ProposalSound
    <2>3. QED
      BY <2>1, <2>2
  <1>2. /\ DOMAIN Revised(p, v) = DOMAIN p /\ Revised(p, v).status = p.status
        /\ Revised(p, v).versions = p.versions \cup {v}
    BY DEF Revised, ProposalSound
  <1>3. QED
    BY <1>1, <1>2 DEF ProposalSound, Within

LEMMA NewProposalSound ==
  ASSUME NEW v \in Versions PROVE ProposalSound(Revised(NewProposal, v))
  <1>1. Within({} \cup {v}, MaxRevisions)
    <2>1. IsFiniteSet({}) /\ Cardinality({}) = 0
      BY FS_EmptySet
    <2>2. 0 < MaxRevisions /\ MaxRevisions \in Nat
      BY Limits
    <2>3. QED
      BY <2>1, <2>2, OneMoreWithin
  <1>2. /\ DOMAIN Revised(NewProposal, v) = {"status", "at", "versions"}
        /\ Revised(NewProposal, v).status = "active" /\ Revised(NewProposal, v).versions = {} \cup {v}
    BY DEF Revised, NewProposal
  <1>3. QED
    BY <1>1, <1>2 DEF ProposalSound, Within

LEMMA NoActionSound ==
  ASSUME StoreSound(Pruned), NEW r, NEW v, ConsumeNoAction(r, v, Pruned)
  PROVE  StoreSound(quality')
  <1>1. PICK kept \in SUBSET DOMAIN Pruned.no_actions :
          /\ \E record :
               quality' = [Pruned EXCEPT !.no_actions = Put(Restrict(@, kept), r, Revised(record, v)),
                                         !.receipts = Drop(@, {r})]
          /\ \/ r \in DOMAIN Pruned.no_actions /\ kept = DOMAIN Pruned.no_actions
             \/ Cardinality(kept) < MaxNoActions
                \/ DOMAIN Pruned.no_actions \ kept = DOMAIN Pruned.no_actions
    BY DEF ConsumeNoAction, NoActionRoom, RoomIn
  <1>2. /\ DOMAIN quality' = Registries /\ DOMAIN quality'.no_actions = kept \cup {r}
        /\ quality'.receipts = Drop(Pruned.receipts, {r})
        /\ quality'.proposals = Pruned.proposals /\ quality'.hook_turns = Pruned.hook_turns
    BY <1>1 DEF StoreSound, Registries, Put, Restrict
  <1>3. Within(kept \cup {r}, MaxNoActions)
    <2>1. CASE r \in DOMAIN Pruned.no_actions /\ kept = DOMAIN Pruned.no_actions
      <3>1. kept \cup {r} = DOMAIN Pruned.no_actions
        BY <2>1
      <3>2. QED
        BY <3>1 DEF StoreSound
    <2>2. QED
      BY <1>1, <2>1, RoomForOne, Limits DEF StoreSound
  <1>4. QED
    BY <1>2, <1>3, DroppedSound DEF StoreSound

LEMMA PutSound ==
  ASSUME NEW proposals, ProposalsSound(proposals), NEW r \in DOMAIN proposals,
         NEW p, ProposalSound(p)
  PROVE  ProposalsSound([proposals EXCEPT ![r] = p])
  <1>1. DOMAIN [proposals EXCEPT ![r] = p] = DOMAIN proposals
    OBVIOUS
  <1>2. ASSUME NEW x \in DOMAIN proposals PROVE ProposalSound([proposals EXCEPT ![r] = p][x])
    <2>1. [proposals EXCEPT ![r] = p][x] = IF x = r THEN p ELSE proposals[x]
      OBVIOUS
    <2>2. QED
      BY <2>1 DEF ProposalsSound
  <1>3. QED
    BY <1>1, <1>2 DEF ProposalsSound

LEMMA AgainSound ==
  ASSUME StoreSound(Pruned), NEW r, NEW v \in Versions, ConsumeAgain(r, v, Pruned)
  PROVE  StoreSound(quality')
  <1>1. /\ DOMAIN quality' = Registries /\ quality'.no_actions = Pruned.no_actions
        /\ quality'.receipts = Drop(Pruned.receipts, {r}) /\ quality'.hook_turns = Pruned.hook_turns
        /\ quality'.proposals = [Pruned.proposals EXCEPT ![r] = Revised(@, v)]
    BY DEF ConsumeAgain, StoreSound, Registries
  <1>2. PICK p : p = Revised(Pruned.proposals[r], v)
    OBVIOUS
  <1>3. ProposalSound(p)
    BY <1>2, RevisedSound DEF ConsumeAgain, StoreSound, ProposalsSound
  <1>4. PICK proposals : proposals = Pruned.proposals
    OBVIOUS
  <1>5. quality'.proposals = [proposals EXCEPT ![r] = p]
    BY <1>1, <1>2, <1>4
  <1>6. ProposalsSound(proposals) /\ r \in DOMAIN proposals
    BY <1>4 DEF ConsumeAgain, StoreSound
  <1>7. ProposalsSound(quality'.proposals)
    BY <1>3, <1>5, <1>6, PutSound
  <1>8. QueueSound(quality'.receipts)
    <2>1. QueueSound(Drop(Pruned.receipts, {r}))
      BY DroppedSound DEF StoreSound
    <2>2. quality'.receipts = Drop(Pruned.receipts, {r})
      BY <1>1
    <2>3. QED
      BY <2>1, <2>2
  <1>9. QED
    BY <1>1, <1>7, <1>8 DEF StoreSound

LEMMA NewSound ==
  ASSUME StoreSound(Pruned), NEW a, NEW r, NEW v \in Versions, ConsumeNew(a, r, v, Pruned)
  PROVE  StoreSound(quality')
  <1>1. PICK kept \in SUBSET DOMAIN Pruned.proposals :
          /\ Cardinality(kept) < MaxProposals
          /\ quality' = [Pruned EXCEPT
               !.proposals = Put(Restrict(@, kept), r, Revised(NewProposal, v)),
               !.receipts = Drop(@, {r})]
    BY DEF ConsumeNew, ProposalRoom, RoomIn
  <1>2. /\ DOMAIN quality' = Registries /\ quality'.no_actions = Pruned.no_actions
        /\ quality'.receipts = Drop(Pruned.receipts, {r}) /\ quality'.hook_turns = Pruned.hook_turns
        /\ quality'.proposals = Put(Restrict(Pruned.proposals, kept), r, Revised(NewProposal, v))
    BY <1>1 DEF StoreSound, Registries
  <1>3. Within(kept \cup {r}, MaxProposals)
    <2>1. IsFiniteSet(kept)
      BY FS_Subset DEF StoreSound, ProposalsSound, Within
    <2>2. QED
      BY <1>1, <2>1, OneMoreWithin, Limits
  <1>4. ProposalsSound(quality'.proposals)
    BY <1>2, <1>3, NewProposalSound DEF StoreSound, ProposalsSound, Put, Restrict
  <1>5. QED
    BY <1>2, <1>4, DroppedSound DEF StoreSound

\* A lease keeps the queue.
LEMMA ClaimSound ==
  ASSUME StoreSound(Pruned), NEW a, NEW r, Claim(a, r)
  PROVE  StoreSound(quality')
  <1> DEFINE lease == [state |-> "CLAIMED", holder |-> a, until |-> clock + LeaseSeconds]
  <1>1. /\ DOMAIN quality' = Registries /\ quality'.no_actions = Pruned.no_actions
        /\ quality'.receipts = [Pruned.receipts EXCEPT ![r] = lease]
        /\ quality'.proposals = Pruned.proposals /\ quality'.hook_turns = Pruned.hook_turns
    BY DEF Claim, StoreSound, Registries
  <1>2. DOMAIN lease = {"state", "holder", "until"} /\ lease.state = "CLAIMED"
    OBVIOUS
  <1> HIDE DEF lease
  <1>3. QueueSound(quality'.receipts)
    <2>1. DOMAIN quality'.receipts = DOMAIN Pruned.receipts
      BY <1>1
    <2>2. ASSUME NEW x \in DOMAIN Pruned.receipts
          PROVE  quality'.receipts[x] = IF x = r THEN lease ELSE Pruned.receipts[x]
      BY <1>1
    <2>3. QED
      BY <1>2, <2>1, <2>2 DEF StoreSound, QueueSound
  <1>4. QED
    BY <1>1, <1>3 DEF StoreSound

LEMMA DismissSound ==
  ASSUME StoreSound(quality), NEW r, Dismiss(r)
  PROVE  StoreSound(quality')
  <1>1. PICK p : /\ quality'.proposals = [quality.proposals EXCEPT ![r] = p]
                 /\ p = [quality.proposals[r] EXCEPT !.status = "dismissed", !.at = clock]
    BY DEF Dismiss, StoreSound, Registries
  <1>2. /\ DOMAIN quality' = Registries /\ quality'.no_actions = quality.no_actions
        /\ quality'.receipts = quality.receipts /\ quality'.hook_turns = quality.hook_turns
    BY DEF Dismiss, StoreSound, Registries
  <1>3. r \in DOMAIN quality.proposals /\ ProposalsSound(quality.proposals)
    BY DEF Dismiss, StoreSound
  <1>4. ProposalSound(p)
    BY <1>1, <1>3 DEF ProposalsSound, ProposalSound
  <1>5. QED
    BY <1>1, <1>2, <1>3, <1>4, PutSound DEF StoreSound

LEMMA StopEventSound ==
  ASSUME StoreSound(quality), NEW t, NEW r \in Receipts, HandleStopEvent(t, r)
  PROVE  StoreSound(quality')
  <1>1. StoreSound(Queued(Pruned, r))
    BY PrunedSound, QueuedSound DEF HandleStopEvent
  <1>2. Pruned.hook_turns = quality.hook_turns
    BY DEF Pruned, StoreSound, Registries
  <1>3. Queued(Pruned, r).hook_turns = quality.hook_turns
    BY <1>2, PrunedSound DEF Queued, StoreSound, Registries
  <1>4. PICK kept \in SUBSET DOMAIN quality.hook_turns :
          /\ quality' = [Queued(Pruned, r) EXCEPT !.hook_turns = Remembered(@, kept, t, r)]
          /\ \/ Cardinality(kept) < MaxHookTurns
             \/ DOMAIN quality.hook_turns \ kept = DOMAIN quality.hook_turns
    BY DEF HandleStopEvent, TurnRoom, RoomIn
  <1>5. /\ DOMAIN quality' = Registries /\ quality'.receipts = Queued(Pruned, r).receipts
        /\ quality'.proposals = Queued(Pruned, r).proposals
        /\ quality'.no_actions = Queued(Pruned, r).no_actions
        /\ DOMAIN quality'.hook_turns = kept \cup {t}
    BY <1>1, <1>3, <1>4 DEF StoreSound, Registries, Remembered, Put, Restrict
  <1>6. Within(kept \cup {t}, MaxHookTurns)
    BY <1>4, RoomForOne, Limits DEF StoreSound
  <1>7. QED
    BY <1>1, <1>5, <1>6 DEF StoreSound

\* A migrated store is within the limits, as the version-1 store was.
LEMMA MigratedSound ==
  ASSUME NEW legacy \in Legacies PROVE ProposalsSound(Migrated(legacy))
  <1>1. PICK found : /\ found = {x[1] : x \in DOMAIN legacy}
                     /\ DOMAIN legacy \subseteq Receipts \X Versions
                     /\ IsFiniteSet(DOMAIN legacy) /\ Cardinality(found) <= MaxProposals
                     /\ \A r \in found :
                          Cardinality({v \in Versions : <<r, v>> \in DOMAIN legacy}) <= MaxRevisions
    BY StoreAssumption
  <1>2. Within(DOMAIN Migrated(legacy), MaxProposals)
    <2> DEFINE first == [x \in DOMAIN legacy |-> x[1]]
    <2>1. first \in Surjection(DOMAIN legacy, found)
      BY <1>1 DEF Surjection
    <2>2. IsFiniteSet(found)
      BY <1>1, <2>1, FS_Surjection
    <2>3. QED
      BY <1>1, <2>2 DEF Migrated, Within
  <1>3. ASSUME NEW r \in found PROVE ProposalSound(Migrated(legacy)[r])
    <2> DEFINE seen == {x \in DOMAIN legacy : x[1] = r}
               revisions == {v \in Versions : <<r, v>> \in DOMAIN legacy}
               second == [x \in seen |-> x[2]]
    <2>1. IsFiniteSet(seen)
      BY <1>1, FS_Subset
    <2>2. second \in Surjection(seen, revisions)
      <3>1. second \in [seen -> revisions]
        BY <1>1
      <3>2. ASSUME NEW v \in revisions PROVE \E x \in seen : second[x] = v
        <4>1. <<r, v>> \in seen /\ second[<<r, v>>] = v
          OBVIOUS
        <4>2. QED
          BY <4>1
      <3>3. QED
        BY <3>1, <3>2 DEF Surjection
    <2>3. IsFiniteSet(revisions)
      BY <2>1, <2>2, FS_Surjection
    <2>4. PICK x \in DOMAIN legacy : x[1] = r
      BY <1>1, <1>3
    <2>5. x[2] \in revisions
      BY <1>1, <2>4
    <2>6. revisions \in SUBSET Versions /\ revisions # {}
      BY <2>5
    <2>7. Migrated(legacy)[r] =
            [status |-> IF \E v \in Versions : <<r, v>> \in DOMAIN legacy /\ legacy[<<r, v>>] = "active"
                        THEN "active" ELSE "dismissed",
             at |-> 0, versions |-> revisions]
      BY <1>1 DEF Migrated
    <2>8. Cardinality(revisions) <= MaxRevisions
      BY <1>1
    <2> HIDE DEF revisions
    <2>9. QED
      BY <2>3, <2>6, <2>7, <2>8 DEF ProposalSound
  <1>4. DOMAIN Migrated(legacy) = found
    BY <1>1 DEF Migrated
  <1>5. QED
    BY <1>2, <1>3, <1>4 DEF ProposalsSound

LEMMA StoreSoundInit == QualityInit => StoreSound(quality)
  <1> SUFFICES ASSUME QualityInit PROVE StoreSound(quality)
    OBVIOUS
  <1>1. PICK legacy \in Legacies :
          quality = [receipts |-> <<>>, proposals |-> Migrated(legacy),
                     no_actions |-> <<>>, hook_turns |-> <<>>]
    BY DEF QualityInit
  <1>2. DOMAIN <<>> = {} /\ IsFiniteSet({}) /\ Cardinality({}) = 0
    BY FS_EmptySet
  <1>3. \A limit \in Nat : Within(DOMAIN <<>>, limit)
    BY <1>2 DEF Within
  <1>4. ProposalsSound(quality.proposals)
    BY <1>1, MigratedSound
  <1>5. QED
    BY <1>1, <1>2, <1>3, <1>4, Limits DEF StoreSound, QueueSound, Registries

LEMMA StoreSoundConsumed ==
  ASSUME StoreSound(quality), NEW a, NEW r, NEW v \in Versions, Consumed(a, r, v)
  PROVE  StoreSound(quality')
  BY PrunedSound, NoActionSound, AgainSound, NewSound DEF Consumed

LEMMA StoreSoundNext == StoreSound(quality) /\ [QualityNext]_qualityVars => StoreSound(quality')
  <1> SUFFICES ASSUME StoreSound(quality), [QualityNext]_qualityVars PROVE StoreSound(quality')
    OBVIOUS
  <1>1. CASE Tick \/ UNCHANGED qualityVars
    BY <1>1 DEF Tick, qualityVars
  <1>2. ASSUME NEW r \in Receipts, Receive(r) PROVE StoreSound(quality')
    BY <1>2, PrunedSound, QueuedSound DEF Receive
  <1>3. ASSUME NEW r \in Receipts, Dismiss(r) PROVE StoreSound(quality')
    BY <1>3, DismissSound
  <1>4. ASSUME NEW t \in Turns, NEW r \in Receipts, HandleStopEvent(t, r) PROVE StoreSound(quality')
    BY <1>4, StopEventSound
  <1>5. ASSUME NEW a \in Analyzers, PickNext(a) \/ PickFails(a) PROVE StoreSound(quality')
    BY <1>5, PrunedSound DEF PickNext, PickFails
  <1>6. ASSUME NEW a \in Analyzers, NEW r \in Receipts, Claim(a, r) PROVE StoreSound(quality')
    BY <1>6, PrunedSound, ClaimSound
  <1>7. ASSUME NEW a \in Analyzers, NEW v \in Versions, ConsumePicked(a, v) PROVE StoreSound(quality')
    BY <1>7, StoreSoundConsumed DEF ConsumePicked
  <1>8. ASSUME NEW a \in Analyzers, NEW r \in Receipts, NEW v \in Versions, Consume(a, r, v)
        PROVE  StoreSound(quality')
    BY <1>8, StoreSoundConsumed DEF Consume
  <1>9. QED
    BY <1>1, <1>2, <1>3, <1>4, <1>5, <1>6, <1>7, <1>8 DEF QualityNext

LEMMA SoundIsWithinLimits == StoreIsSound => QualityTypeOK /\ WithinLimits
  BY DEF StoreIsSound, StoreSound, QueueSound, ProposalsSound, ProposalSound, Within,
         QualityTypeOK, WithinLimits

LEMMA StoreSoundInvariant == QualitySpec => []StoreIsSound
  <1>1. QualityInit => StoreIsSound
    BY StoreSoundInit DEF StoreIsSound
  <1>2. StoreIsSound /\ [QualityNext]_qualityVars => StoreIsSound'
    BY StoreSoundNext DEF StoreIsSound
  <1>3. QED
    BY <1>1, <1>2, PTL DEF QualitySpec

\* What the store keeps has its shape: no operation leaves a receipt without
\* a state or a proposal without an analysis.
THEOREM StoreTypeCorrect == QualitySpec => []QualityTypeOK
  BY StoreSoundInvariant, SoundIsWithinLimits, PTL

\* The store stays within its limits, and every history of a proposal within
\* its own, whatever is received, claimed, consumed, dismissed and evicted in
\* which order.
THEOREM StoreStaysWithinLimits == QualitySpec => []WithinLimits
  BY StoreSoundInvariant, SoundIsWithinLimits, PTL
=============================================================================
