----------------------------- MODULE TurnLedger -----------------------------
(***************************************************************************)
(* What a coordinator promises about the turns it hands to agents: an      *)
(* intent is recorded before a turn begins, a turn begins at most once, an *)
(* intent is withdrawn only while it has not begun, and a turn whose       *)
(* outcome is recorded never begins afterwards.                            *)
(***************************************************************************)
EXTENDS Naturals

CONSTANT Tokens  \* the turns

VARIABLES
  intended,  \* turns with an intent to begin
  begun,     \* how often each turn has begun
  recorded   \* turns with a recorded outcome

ledger == <<intended, begun, recorded>>

\* Turns may be under way when the coordinator takes over.
Init ==
  /\ intended \subseteq Tokens /\ recorded = {}
  /\ begun \in [Tokens -> 0 .. 1]
  /\ \A t \in Tokens : begun[t] = 1 => t \in intended

Intend(t) ==
  /\ t \notin intended \cup recorded /\ begun[t] = 0
  /\ intended' = intended \cup {t}
  /\ UNCHANGED <<begun, recorded>>

Withdraw(t) ==
  /\ t \in intended /\ begun[t] = 0
  /\ intended' = intended \ {t}
  /\ UNCHANGED <<begun, recorded>>

Begin(t) ==
  /\ t \in intended \ recorded /\ begun[t] = 0
  /\ begun' = [begun EXCEPT ![t] = 1]
  /\ UNCHANGED <<intended, recorded>>

\* The outcome of a turn that began, or of one that is not even intended.
Record(t) ==
  /\ t \notin recorded
  /\ begun[t] = 1 \/ t \notin intended
  /\ recorded' = recorded \cup {t}
  /\ UNCHANGED <<intended, begun>>

Next == \E t \in Tokens : Intend(t) \/ Withdraw(t) \/ Begin(t) \/ Record(t)

Spec == Init /\ [][Next]_ledger
=============================================================================
