---------------------------- MODULE ScanRecords ----------------------------
(***************************************************************************)
(* The log of evidence-bound scan records (evidence_bound_scan.py).  A     *)
(* draft is written, appended to the log as a record that names the        *)
(* evidence, the map and the code it was made with, rendered as a report   *)
(* and verified later, when any of these may have changed.                 *)
(*                                                                         *)
(* A digest is the value it is taken of.  What overlaps with the steps of  *)
(* `append` between its reads is modelled in ComponentMap; here an append  *)
(* is its record and then its report, and a verification is one step for   *)
(* each thing it reads.                                                    *)
(***************************************************************************)
EXTENDS ScanDraft, FiniteSets

CONSTANTS
  Drafts,           \* what an author may write
  FileContents,     \* what a file of the project may hold
  Missing,          \* a file that is not there, or from which nothing is selected
  MapElements,      \* the sets of elements an accepted map may have
  Broken,           \* an engine that does not verify itself
  NoDraft, Unwritten, NoVerdict,
  MaxRecords,       \* bound: records in the log
  MaxRecordChanges  \* bound: changes made by others

ASSUME RecordAssumption ==
  /\ MapElements # {} /\ {} \notin MapElements
  /\ MaxRecords \in Nat /\ MaxRecordChanges \in Nat
  /\ Broken \notin Nat /\ Missing \notin FileContents

VARIABLES
  draft,       \* the draft file
  world,       \* files, map, skill, code of the recorder, engine
  records,     \* the log: [id -> the stored payload and its digest]
  report,      \* the report beside each record
  writer,      \* the append in flight: the record whose report it has to write
  verifier,    \* the verification in flight
  verdict,     \* what the last verification found
  others       \* changes made by others

recordVars == <<draft, world, records, report, writer, verifier, verdict, others>>

NoVerifier == [at |-> "idle"]

-----------------------------------------------------------------------------
(* A record                                                                *)

\* The accepted map serves a command of the skill as it is now.
MapLoads(w) == w.map.sound /\ w.map.skill = w.skill

InFiles(d) == {e \in DOMAIN d.evidence : d.evidence[e].source \in Files}

\* What a locator selects from a file, or Missing.
Selected(w, f) == w.files[f]

\* A file that is there, is an ordinary one and holds still while it is read.
Usable(w, f) == w.files[f] # Missing

\* What identifies an item of evidence: its source, its method and what was
\* selected from it.  Nothing is fetched from outside.
Identity(d, e, w) ==
  [source |-> d.evidence[e].source, method |-> d.evidence[e].method,
   selected |-> IF e \in InFiles(d) THEN Selected(w, d.evidence[e].source) ELSE Missing]

Materialized(d, w) == [e \in DOMAIN d.evidence |-> Identity(d, e, w)]

Freshness(d) == [e \in DOMAIN d.evidence |-> FreshnessOf(d.evidence[e].source)]

\* A draft from which append makes a record.
Appendable(d, w) ==
  /\ MapLoads(w)
  /\ Resolved(d, w.map.elements) /\ Consistent(d)
  /\ w.engine # Broken
  /\ \A e \in InFiles(d) : Usable(w, d.evidence[e].source)
  /\ FreshEnough(d, Freshness(d))

MaterialCount(d) == Cardinality({k \in DOMAIN d.claims : d.claims[k].material})

Built(d, w) ==
  [draft |-> d, identity |-> Materialized(d, w), freshness |-> Freshness(d),
   status |-> ScanStatus(d), material_claims |-> MaterialCount(d),
   map |-> [id |-> w.map.id, file |-> w.map.file],
   skill |-> w.skill, recorder |-> w.recorder, engine |-> w.engine]

-----------------------------------------------------------------------------
(* The persisted form                                                      *)

Intact(r) == r.digest = r.payload

\* Mutant: only a digest pins a source, not an immutable revision.
ExpectedFreshnessOfFiles(source) ==
  IF source \in Files THEN "current" ELSE "unverifiable"
ExpectedFreshness(source) ==
  IF source \in Files THEN "current"
  ELSE IF source \in Pinned THEN "declared_immutable" ELSE "unverifiable"

EvidencePersisted(p) ==
  \A e \in DOMAIN p.draft.evidence :
    LET i == p.identity[e]  given == p.draft.evidence[e] IN
    /\ (i.selected = Missing) <=> (e \notin InFiles(p.draft))
    /\ p.freshness[e] = ExpectedFreshness(given.source)
    /\ i.source = given.source /\ i.method = given.method

\* Everything derived is derived again from what is stored, with the elements
\* the claims name in place of the map's, and must come out the same.
Persisted(p) ==
  LET d == p.draft IN
  /\ EvidencePersisted(p)
  /\ Resolved(d, {d.claims[k].element : k \in DOMAIN d.claims})
  /\ Consistent(d) /\ FreshEnough(d, p.freshness)
  /\ p.status = ScanStatus(d) /\ p.material_claims = MaterialCount(d)

Readable(r) == Intact(r) /\ Persisted(r.payload)

-----------------------------------------------------------------------------
(* Drafts and records                                                      *)

\* The draft that init writes, and draft-v2 for a record of an older form: one
\* claim to review, about an element of the map, without evidence.
Template(element) ==
  [evidence |-> <<>>,
   claims |-> [k \in {"claim-to-review"} |->
                [element |-> element, material |-> TRUE, status |-> "untested"]],
   bindings |-> {}, limitations |-> <<>>,
   strongest |-> NoClaim, boundary |-> {}, none |-> TRUE]

\* Never over a draft that is there.
InitDraft ==
  /\ draft = NoDraft /\ MapLoads(world)
  /\ draft' = Template(CHOOSE x \in world.map.elements : TRUE)
  /\ UNCHANGED <<world, records, report, writer, verifier, verdict, others>>

\* An author fills the template in.
AuthorDraft ==
  /\ draft # NoDraft /\ "claim-to-review" \in DOMAIN draft.claims
  /\ DOMAIN records = {}
  /\ draft' \in Drafts
  /\ UNCHANGED <<world, records, report, writer, verifier, verdict, others>>

Append(reported) ==
  LET id == Cardinality(DOMAIN records) + 1
      p  == Built(draft, world) IN
  /\ writer = 0 /\ draft # NoDraft /\ id <= MaxRecords
  /\ Appendable(draft, world)
  /\ records' = [i \in DOMAIN records \cup {id} |->
                  IF i = id THEN [payload |-> p, digest |-> p] ELSE records[i]]
  /\ report' = [i \in DOMAIN records \cup {id} |-> IF i = id THEN Unwritten ELSE report[i]]
  /\ writer' = IF reported THEN id ELSE 0
  /\ UNCHANGED <<draft, world, verifier, verdict, others>>

\* A report says what the record says; the code that renders it must be the
\* code the record was made with.
Renderable(r) == Readable(r) /\ r.payload.recorder = world.recorder

\* The second thing an append writes.  It is not put over a report that is
\* there, nor rendered by other code than the record's; the record stays.
WriteReport ==
  /\ writer # 0
  /\ report' = IF report[writer] = Unwritten /\ records[writer].digest.recorder = world.recorder
               THEN [report EXCEPT ![writer] = records[writer].digest] ELSE report
  /\ writer' = 0
  /\ UNCHANGED <<draft, world, records, verifier, verdict, others>>

AppendDies ==
  /\ writer # 0 /\ writer' = 0
  /\ UNCHANGED <<draft, world, records, report, verifier, verdict, others>>

Render(i) ==
  /\ Renderable(records[i])
  /\ report' = [report EXCEPT ![i] = records[i].payload]
  /\ UNCHANGED <<draft, world, records, writer, verifier, verdict, others>>

-----------------------------------------------------------------------------
(* verify                                                                  *)

RecorderCodes(p) ==
  (IF p.recorder # world.recorder THEN {"recorder"} ELSE {})
    \cup (IF p.skill # world.skill THEN {"skill"} ELSE {})
    \cup (IF world.engine = Broken \/ p.engine # world.engine THEN {"engine"} ELSE {})

\* Mutant: the map is known by its id.
MapCodesById(p) ==
  IF MapLoads(world) /\ p.map.id = world.map.id THEN {} ELSE {"map"}
MapCodes(p) ==
  IF ~MapLoads(world) THEN {"map"}
  ELSE (IF p.map = [id |-> world.map.id, file |-> world.map.file] THEN {} ELSE {"map"})
         \cup (IF \A k \in DOMAIN p.draft.claims :
                    p.draft.claims[k].element \in world.map.elements
               THEN {} ELSE {"element"})

EvidenceCodes(p) ==
  (IF \E e \in InFiles(p.draft) :
        \/ ~Usable(world, p.draft.evidence[e].source)
        \/ p.identity[e] # Identity(p.draft, e, world)
   THEN {"evidence"} ELSE {})
    \cup (IF \E e \in DOMAIN p.freshness \ InFiles(p.draft) : p.freshness[e] = "unverifiable"
          THEN {"external"} ELSE {})

\* Unless the recorder was found to be another one, the report is rendered
\* again, by the code as it is by now, and compared.
ReportCodes(v) ==
  IF /\ "recorder" \notin v.codes
     /\ v.payload.recorder # world.recorder \/ report[v.id] # v.payload
  THEN {"report"} ELSE {}

\* Bound: one verification.
BeginVerify(i) ==
  /\ verifier.at = "idle" /\ verdict = NoVerdict
  /\ Readable(records[i])
  /\ verifier' = [at |-> "map", id |-> i, payload |-> records[i].payload,
                  codes |-> RecorderCodes(records[i].payload), steady |-> TRUE]
  /\ UNCHANGED <<draft, world, records, report, writer, verdict, others>>

VerifyMap ==
  /\ verifier.at = "map"
  /\ verifier' = [verifier EXCEPT !.at = "evidence", !.codes = @ \cup MapCodes(verifier.payload)]
  /\ UNCHANGED <<draft, world, records, report, writer, verdict, others>>

\* The last reads, and the verdict.
ConcludeVerify(reported) ==
  LET v == verifier IN
  /\ v.at = "evidence"
  /\ verdict' = [payload |-> v.payload, steady |-> v.steady,
                 codes |-> v.codes \cup EvidenceCodes(v.payload)
                             \cup (IF reported THEN ReportCodes(v) ELSE {})]
  /\ verifier' = NoVerifier
  /\ UNCHANGED <<draft, world, records, report, writer, others>>

-----------------------------------------------------------------------------
(* What others do                                                          *)

\* Before there is a record, a change leads to another first world.
Changed ==
  /\ DOMAIN records # {}
  /\ others < MaxRecordChanges /\ others' = others + 1
  /\ verifier' = IF verifier.at = "idle" THEN verifier ELSE [verifier EXCEPT !.steady = FALSE]
  /\ verdict' = IF verdict = NoVerdict THEN verdict ELSE [verdict EXCEPT !.steady = FALSE]

EditFile(f, content) ==
  /\ content # world.files[f] /\ Changed
  /\ world' = [world EXCEPT !.files[f] = content]
  /\ UNCHANGED <<draft, records, report, writer>>

\* A release changes the skill's text, the recorder or the engine; or the
\* engine's files no longer match their digest.
Release(part) ==
  /\ Changed
  /\ world' = [world EXCEPT ![part] = IF @ = Broken THEN 1 ELSE @ + 1]
  /\ UNCHANGED <<draft, records, report, writer>>

BreakEngine ==
  /\ world.engine # Broken /\ Changed
  /\ world' = [world EXCEPT !.engine = Broken]
  /\ UNCHANGED <<draft, records, report, writer>>

\* Another map is accepted: other elements, or the same map in another file.
AcceptMap(elements) ==
  /\ Changed
  /\ world' = [world EXCEPT
       !.map = [id |-> IF elements = @.elements THEN @.id ELSE @.id + 1, file |-> @.file + 1,
                elements |-> elements, sound |-> TRUE, skill |-> world.skill]]
  /\ UNCHANGED <<draft, records, report, writer>>

SpoilMapFile ==
  /\ world.map.sound /\ Changed
  /\ world' = [world EXCEPT !.map.sound = FALSE]
  /\ UNCHANGED <<draft, records, report, writer>>

\* Somebody edits a record or a report by hand.
EditRecord(i) ==
  /\ Intact(records[i]) /\ Changed
  /\ \E s \in {"PASS", "FAIL"} \ {records[i].payload.status} :
       records' = [records EXCEPT ![i].payload.status = s]
  /\ UNCHANGED <<draft, world, report, writer>>

EditReport(i) ==
  /\ report[i] # Unwritten /\ Changed
  /\ report' = [report EXCEPT ![i] = Unwritten]
  /\ UNCHANGED <<draft, world, records, writer>>

-----------------------------------------------------------------------------
RecordsInit ==
  /\ draft = NoDraft
  /\ \E held \in FileContents, elements \in MapElements :
       world = [files |-> [f \in Files |-> held],
                map |-> [id |-> 1, file |-> 1, elements |-> elements, sound |-> TRUE, skill |-> 1],
                skill |-> 1, recorder |-> 1, engine |-> 1]
  /\ records = <<>> /\ report = <<>> /\ writer = 0
  /\ verifier = NoVerifier /\ verdict = NoVerdict /\ others = 0

RecordsNext ==
  \/ InitDraft \/ AuthorDraft
  \/ \E reported \in BOOLEAN : Append(reported) \/ ConcludeVerify(reported)
  \/ WriteReport \/ AppendDies
  \/ \E i \in DOMAIN records : Render(i) \/ BeginVerify(i) \/ EditRecord(i) \/ EditReport(i)
  \/ VerifyMap
  \/ \E f \in Files, content \in FileContents \cup {Missing} : EditFile(f, content)
  \/ \E part \in {"skill", "recorder", "engine"} : Release(part)
  \/ BreakEngine \/ SpoilMapFile
  \/ \E elements \in MapElements : AcceptMap(elements)

RecordsSpec == RecordsInit /\ [][RecordsNext]_recordVars

-----------------------------------------------------------------------------
(* Properties                                                              *)

(* A record that append wrote passes every check of the persisted form, in  *)
(* whatever version and after whatever change it is read: rendering and     *)
(* verifying derive again, by code of their own, what appending derived.    *)
RecordsReadable ==
  \A i \in DOMAIN records : Intact(records[i]) => Persisted(records[i].payload)

(* A verification that nothing disturbed is exact: it finds no more and no  *)
(* less than it would take to append the same draft again now, to the same  *)
(* record, on evidence that is all current.                                 *)
VerdictIsExact ==
  verdict # NoVerdict /\ verdict.steady =>
    LET p == verdict.payload IN
    (verdict.codes \ {"report"} = {}) <=>
      /\ Appendable(p.draft, world) /\ Built(p.draft, world) = p
      /\ \A e \in DOMAIN p.freshness : p.freshness[e] \in Current
=============================================================================
