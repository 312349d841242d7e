----------------------------- MODULE ScopeLeases -----------------------------
(***************************************************************************)
(* What the pool promises about concurrency, without its scheduler: a      *)
(* request is a lease on resources, some shared and some exclusive, granted*)
(* only while nobody holds a resource it needs in a way that excludes it,  *)
(* and held until its one result is recorded.                              *)
(***************************************************************************)
EXTENDS Functions

CONSTANTS
  Tokens,     \* lease names
  Resources   \* what a lease may cover

VARIABLE leases  \* the leases held, by token

Lease == [shared : SUBSET Resources, exclusive : SUBSET Resources]

Compatible(l, m) ==
  /\ l.exclusive \cap (m.shared \cup m.exclusive) = {}
  /\ m.exclusive \cap (l.shared \cup l.exclusive) = {}

Grant(t) ==
  /\ t \notin DOMAIN leases
  /\ DOMAIN leases' = DOMAIN leases \cup {t}
  /\ leases'[t] \in Lease
  /\ \A u \in DOMAIN leases : /\ leases'[u] = leases[u]
                              /\ Compatible(leases'[t], leases[u])

Release(t) ==
  /\ t \in DOMAIN leases
  /\ leases' = Restrict(leases, DOMAIN leases \ {t})

Init == leases = [t \in {} |-> {}]

Next == \E t \in Tokens : Grant(t) \/ Release(t)

Spec == Init /\ [][Next]_leases

\* Leases held together are compatible.  This is what _conflicts is for.
Exclusive ==
  \A t, u \in DOMAIN leases : t # u => Compatible(leases[t], leases[u])
=============================================================================
