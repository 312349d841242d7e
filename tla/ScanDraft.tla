----------------------------- MODULE ScanDraft -----------------------------
(***************************************************************************)
(* What an evidence-bound scan record may claim (evidence_bound_scan.py):  *)
(* the checks of a draft's references, of the bindings between its claims  *)
(* and its evidence, and of how current that evidence is.                  *)
(*                                                                         *)
(* A draft is a record                                                     *)
(*   evidence     [ids -> [source, method]]                                *)
(*   claims       [ids -> [element, material, status]]                     *)
(*   bindings     a set of <<claim, evidence, role>>                       *)
(*   limitations  [ids -> [claims, evidence]]                              *)
(*   strongest, boundary, none    its summary                              *)
(***************************************************************************)
EXTENDS Naturals

CONSTANTS
  Files,         \* sources that are files of the project
  TestFiles,     \* those that hold the source of tests
  Pinned,        \* https sources with a digest or an immutable revision
  Unpinned,      \* other https sources
  NoClaim

ASSUME SourceAssumption ==
  /\ TestFiles \subseteq Files
  /\ Files \cap (Pinned \cup Unpinned) = {} /\ Pinned \cap Unpinned = {}

Roles == {"supports", "contradicts", "limits", "context"}
Current == {"current", "declared_immutable"}
Supported == {"supported", "partially_supported"}

\* What is known of a source that a draft names, without looking at it again.
FreshnessOf(source) ==
  CASE source \in Files  -> "current"
    [] source \in Pinned -> "declared_immutable"
    [] OTHER             -> "unverifiable"

\* The source of a test is no evidence that the test ran.
EvidenceAdmitted(d) ==
  \A e \in DOMAIN d.evidence :
    d.evidence[e].method = "executed_test" => d.evidence[e].source \notin TestFiles

\* A draft's references resolve: its claims to elements of the map, its
\* bindings, limitations and summary to what the draft declares.
Resolved(d, elements) ==
  /\ EvidenceAdmitted(d)
  /\ DOMAIN d.claims # {}
  /\ \A k \in DOMAIN d.claims : d.claims[k].element \in elements
  /\ d.bindings \subseteq (DOMAIN d.claims) \X (DOMAIN d.evidence) \X Roles
  /\ \A l \in DOMAIN d.limitations :
       /\ d.limitations[l].claims # {}
       /\ d.limitations[l].claims \subseteq DOMAIN d.claims
       /\ d.limitations[l].evidence \subseteq DOMAIN d.evidence
  /\ d.boundary \subseteq DOMAIN d.limitations
  /\ IF d.none THEN d.strongest = NoClaim ELSE d.strongest \in DOMAIN d.claims

\* The evidence bound to a claim in a role.
BoundIn(d, k, role) == {e \in DOMAIN d.evidence : <<k, e, role>> \in d.bindings}

LimitationsOf(d, k) == {l \in DOMAIN d.limitations : k \in d.limitations[l].claims}

\* The evidence bound to a claim says no more and no less than its status.
ClaimBound(d, k) ==
  LET status     == d.claims[k].status
      support    == BoundIn(d, k, "supports")
      contradict == BoundIn(d, k, "contradicts")
  IN /\ status \in Supported => support # {}
     /\ status = "contradicted" => contradict # {}
     /\ status = "partially_supported" => LimitationsOf(d, k) # {}
     /\ status \in {"untested", "invalidly_specified", "not_applicable"}
          => support \cup contradict = {}
     /\ status = "supported" => contradict = {}

\* Limitations and bindings in the role "limits" name the same pairs.
LimitsMatch(d) ==
  \A k \in DOMAIN d.claims : \A e \in DOMAIN d.evidence :
    (<<k, e, "limits">> \in d.bindings)
      <=> (\E l \in LimitationsOf(d, k) : e \in d.limitations[l].evidence)

\* The summary neither overstates nor understates: it names a material
\* claim that is supported, with all its limitations, or there is none.
SummaryFits(d) ==
  /\ d.none => \A k \in DOMAIN d.claims :
                 ~(d.claims[k].material /\ d.claims[k].status \in Supported)
  /\ d.strongest # NoClaim =>
       /\ d.claims[d.strongest].material
       /\ d.claims[d.strongest].status \in Supported
       /\ LimitationsOf(d, d.strongest) = d.boundary

\* What _validate_binding_invariants asks of a draft alone.
Consistent(d) ==
  /\ LimitsMatch(d)
  /\ \A b \in d.bindings : d.evidence[b[2]].method = "not_tested" => b[3] = "context"
  /\ \A k \in DOMAIN d.claims : ClaimBound(d, k)
  /\ SummaryFits(d)

\* What it asks once the freshness of the evidence is known.
FreshEnough(d, fresh) ==
  /\ \A k \in DOMAIN d.claims :
       d.claims[k].status \in Supported =>
         \E e \in BoundIn(d, k, "supports") : fresh[e] \in Current
  /\ d.strongest # NoClaim =>
       \A role \in Roles \ {"context"} :
         \A e \in BoundIn(d, d.strongest, role) : fresh[e] \in Current

ScanStatus(d) ==
  LET found == {d.claims[k].status : k \in {j \in DOMAIN d.claims : d.claims[j].material}}
  IN  IF found \cap {"contradicted", "invalidly_specified"} # {} THEN "FAIL"
      ELSE IF found \cap {"partially_supported", "untested"} # {} THEN "PARTIAL"
      ELSE IF found = {"not_applicable"} THEN "NA"
      ELSE "PASS"
=============================================================================
