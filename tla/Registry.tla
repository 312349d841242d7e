------------------------------ MODULE Registry ------------------------------
(***************************************************************************)
(* The registries of the journal, the stores and the services: JSON objects *)
(* and tables by key, into which an entry is put and from which keys are    *)
(* dropped.                                                                 *)
(***************************************************************************)
EXTENDS Functions

Put(f, k, v) == [x \in DOMAIN f \cup {k} |-> IF x = k THEN v ELSE f[x]]
Drop(f, keys) == Restrict(f, DOMAIN f \ keys)
=============================================================================
