---------------------------- MODULE AgentPoolHost ----------------------------
(***************************************************************************)
(* AgentPool driven by the host loop its reference prescribes: ask for the *)
(* next request, bind and start an agent for it, bring every result back,  *)
(* and ask again.  Nothing goes wrong: no drift, no pause, every worker is *)
(* done, every reviewer supports and clears as much as finish accepts and  *)
(* declares the goal met as soon as it may.  What such a host cannot       *)
(* finish, the scheduler has stalled.                                      *)
(***************************************************************************)
EXTENDS AgentPool

CONSTANT Reviewer  \* the identity the host keeps for reviews

ASSUME HostAssumption == Reviewer \in Agents

Verdict(t, supports, clears, met) ==
  [supports |-> supports, cites |-> supports, clears |-> clears, holds |-> {}, releases |-> {},
   raises |-> {}, resolves |-> {}, met |-> met]

\* The verdicts no reviewer could improve on.
Generous(t) ==
  LET all == {v \in {Verdict(t, s, k, m) : s \in SUBSET pending[t].claimWrites,
                                           k \in SUBSET pending[t].clearable,
                                           m \in BOOLEAN} : Acceptable(t, v)}
  IN  {v \in all : \A w \in all :
         /\ w.met => v.met
         /\ v.supports \subseteq w.supports /\ v.clears \subseteq w.clears /\ v.met = w.met
            => v = w}

\* The coordinator's roles: one agent reviews, the others work.
HostBind(t, a) ==
  /\ a = Reviewer <=> pending[t].kind = "review"
  /\ BindAgent(t, a)

HostFinish(t) ==
  \/ IsReview(t) /\ \E v \in Generous(t) : FinishReview(t, v)
  \/ FinishWork(t, "done", {})

HostNext ==
  \/ NextReview
  \/ NextWork
  \/ NextWaiting
  \/ \E t \in Pending, a \in Agents : HostBind(t, a)
  \/ \E t \in DOMAIN delegations : StartAgent(t)
  \/ \E t \in DOMAIN delegations : HostFinish(t)
  \/ NextRefused

\* The host keeps going: it never sits on a request it could ask for, bind,
\* start or finish.
HostSpec == Init /\ [][HostNext]_vars /\ WF_vars(HostNext)

\* Under such a host the goal completes.  The scheduler's review gate,
\* clearances and conflict checks must between them never leave an
\* authorised action waiting for a clearance no review can give.
GoalCompletes == <>complete
=============================================================================
