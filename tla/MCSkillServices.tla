-------------------------- MODULE MCSkillServices --------------------------
(***************************************************************************)
(* Five parts of the skill and its services that keep files or tables of    *)
(* their own and share none of it: problem reports with their server,       *)
(* installation analytics with theirs, the updater, the component map and   *)
(* the scan records.  A behaviour is one of one part.                       *)
(***************************************************************************)
EXTENDS ProblemReports, InstallationAnalytics, UpdatePolicy, ComponentMap, ScanRecords, TLC

CONSTANTS p1, p2,       \* reporters
          n1, n2, n3    \* clients of the analytics service

VARIABLE part    \* the part that runs

\* Both reports have the same content; each reporter has a token of its own.
\* Two clients share a token, one uses another.
MCTokenOf == p1 :> "ta" @@ p2 :> "tb"
MCFingerprint == [r \in Reports |-> "f"]
MCClientToken == n1 :> "ta" @@ n2 :> "ta" @@ n3 :> "tb"

\* Maps that add an element, and that change what one says.
MCContents == {"x" :> 1, "x" :> 2, "x" :> 1 @@ "y" :> 1}
MCDraft(evidence, material, status, bindings, limitations, strongest, boundary) ==
  [evidence |-> evidence, bindings |-> bindings, limitations |-> limitations,
   claims |-> [k \in {"k"} |-> [element |-> "x", material |-> material, status |-> status]],
   strongest |-> strongest, boundary |-> boundary, none |-> strongest = NoClaim]

\* A draft on the project's file, and one on a page that may change.
MCScans ==
  {MCDraft([e \in {"e"} |-> [source |-> s, method |-> "inspected"]], TRUE, "supported",
           {<<"k", "e", "supports">>}, <<>>, "k", {}) : s \in {"file", "page"}}

\* One claim of every status and summary, bound to one item of evidence that
\* supports it or to none and to another in any role, with and without a
\* limitation.
MCEvidence ==
  {[e \in {"e", "f"} |-> IF e = "e" THEN [source |-> "file", method |-> "inspected"]
                         ELSE [source |-> f[1], method |-> f[2]]] :
     f \in {<<"test", "executed_test">>, <<"test", "inspected">>, <<"pin", "inspected">>,
             <<"page", "inspected">>, <<"page", "not_tested">>}}
MCBindings ==
  {{<<"k", "e", "supports">>} \cup {<<"k", "f", role>> : role \in roles} :
     roles \in {{}} \cup {{role} : role \in Roles}}
  \cup {{<<"k", "f", role>>} : role \in Roles}
MCLimitations ==
  {<<>>} \cup {[l \in {"l"} |-> [claims |-> {"k"}, evidence |-> s]] : s \in {{}, {"f"}}}
MCStatuses ==
  Supported \cup {"contradicted", "untested", "invalidly_specified", "not_applicable"}
MCDrafts ==
  {MCDraft(e, m, s, b, l, k, DOMAIN l) : e \in MCEvidence, m \in BOOLEAN, s \in MCStatuses,
     b \in MCBindings, l \in MCLimitations, k \in {"k", NoClaim}}

ServiceInit ==
  /\ part \in {"reports", "analytics", "updater", "map", "records"}
  /\ ReportInit /\ AnalyticsInit /\ UpdateInit /\ MapInit /\ RecordsInit
  /\ part # "reports" => policy = NoPolicy
  /\ part # "updater" => \A s \in Sources : host.source = s => s = CHOOSE t \in Sources : TRUE
  /\ world.map.elements = {"x"} /\ world.files["file"] = "held"
  /\ part # "map" => project = CHOOSE content \in Contents : TRUE

ReportsRun ==
  /\ part = "reports" /\ ReportNext
  /\ UNCHANGED <<part, analyticsVars, updateVars, mapVars, recordVars>>
AnalyticsRun ==
  /\ part = "analytics" /\ AnalyticsNext
  /\ UNCHANGED <<part, reportVars, updateVars, mapVars, recordVars>>
UpdaterRuns ==
  /\ part = "updater" /\ UpdateNext
  /\ UNCHANGED <<part, reportVars, analyticsVars, mapVars, recordVars>>
MapRuns ==
  /\ part = "map" /\ MapNext
  /\ UNCHANGED <<part, reportVars, analyticsVars, updateVars, recordVars>>

RecordsRun ==
  /\ part = "records" /\ RecordsNext
  /\ UNCHANGED <<part, reportVars, analyticsVars, updateVars, mapVars>>

ServiceNext ==
  ReportsRun \/ AnalyticsRun \/ UpdaterRuns \/ MapRuns \/ RecordsRun

ServiceSpec ==
  ServiceInit
    /\ [][ServiceNext]_<<part, reportVars, analyticsVars, updateVars, mapVars, recordVars>>

Alike == Permutations(Checks) \cup Permutations(MapCommands) \cup Permutations({n1, n2})
=============================================================================
