---------------------------- MODULE ComponentMap ----------------------------
(***************************************************************************)
(* The accepted component map of a project and what is written about it    *)
(* (reconcile_component_map.py, map_guard.py, evidence_bound_scan.py).     *)
(*                                                                         *)
(* accepted-map.json is one file, replaced as a whole and guarded by no    *)
(* lock.  `reconcile` compares an observation of the project with it and   *)
(* writes a candidate, a delta and a history event; `accept` archives it   *)
(* and puts a candidate in its place; `append` writes a scan record that   *)
(* names it.  Commands overlap, and any of them may die between two steps. *)
(* A guarded command is told which map it is for (the three --expected-map *)
(* options) and refuses, before each thing it writes, if accepted-map.json *)
(* holds another.                                                          *)
(*                                                                         *)
(* An identity that the code takes from a clock or a digest is the number  *)
(* of the command that wrote the file: no two accepted files are equal, as *)
(* each holds its own accepted_at_utc.                                     *)
(***************************************************************************)
EXTENDS ScanDraft

CONSTANTS
  MapCommands,      \* command processes that may run at the same time
  Contents,         \* what a project may hold: functions from elements to facts
  Scans,            \* draft scan records an author may append
  NoMap,
  MaxMapCommands,   \* bound: commands ever started
  MaxMapChanges     \* bound: changes made to the project, the skill and the map by others

\* What accepted-map.json may hold.
Stamps == 0..MaxMapCommands
Maps == [file : Stamps \ {0}, content : Contents, skill : Nat, sound : BOOLEAN]

ASSUME MapAssumption ==
  /\ Contents # {} /\ MaxMapCommands \in Nat /\ MaxMapChanges \in Nat
  /\ NoMap \notin Maps

VARIABLES
  project,      \* the content of the project's files
  skill,        \* the version of SKILL.md
  accepted,     \* accepted-map.json
  archive,      \* accepted-history/
  artifacts,    \* candidates/, deltas/, scan-history/ and the record log
  tool,         \* the commands in flight
  begun_tools,  \* commands ever started
  promoted,     \* (history) the maps that accepted-map.json has held
  overrun,      \* (history) the maps an accept replaced that had archived another one
  changed       \* changes made by others

mapVars == <<project, skill, accepted, archive, artifacts, tool, begun_tools,
             promoted, overrun, changed>>

Writes == {"candidate", "delta", "history", "record"}
NoTool == [at |-> "idle"]
\* The number of a file that holds a map, 0 for none.
FileOf(map) == IF map = NoMap THEN 0 ELSE map.file
IsSound == accepted # NoMap /\ accepted.sound

----------------------------------------------------------------------------
(* Starting, ending and refusing. *)

Begin(c, at, guarded, base, content, action) ==
  /\ tool[c].at = "idle"
  /\ begun_tools < MaxMapCommands
  /\ begun_tools' = begun_tools + 1
  /\ tool' = [tool EXCEPT ![c] =
       [at |-> at, guarded |-> guarded, checked |-> ~guarded, base |-> base, under |-> 0,
        content |-> content, skill |-> skill, action |-> action, by |-> begun_tools + 1]]

Stop(c) == tool' = [tool EXCEPT ![c] = NoTool]

\* Mutant: the map is known by the digest of its content, not of its file.
GuardRefusesByContent(c) ==
  tool[c].guarded /\ ~(IsSound /\ accepted.content = tool[c].base.content)
\* A guarded command meets another map than the one it was told to expect.
GuardRefuses(c) == tool[c].guarded /\ ~(IsSound /\ accepted.file = tool[c].base.file)

\* The guard is read again before each write of a guarded command.
Recheck(c) ==
  /\ tool[c].at \in Writes
  /\ ~tool[c].checked
  /\ \/ GuardRefuses(c) /\ Stop(c)
     \/ ~GuardRefuses(c) /\ tool' = [tool EXCEPT ![c].checked = TRUE]
  /\ UNCHANGED <<project, skill, accepted, archive, artifacts, begun_tools, promoted, overrun, changed>>

\* What a command writes after its present step.
Follows(t) ==
  CASE t.at = "candidate" -> IF t.action \in {"drift_detected", "conflict_detected"}
                               THEN "delta" ELSE "history"
    [] t.at = "delta" -> "history"
    [] OTHER -> "idle"

Write(c) ==
  LET t == tool[c] IN
  /\ t.at \in Writes
  /\ t.checked
  /\ artifacts' = artifacts \cup
       {[kind |-> t.at, action |-> t.action, content |-> t.content,
         skill |-> t.skill, guarded |-> t.guarded, under |-> t.under,
         names |-> FileOf(t.base)]}
  /\ IF Follows(t) = "idle" THEN Stop(c)
       ELSE tool' = [tool EXCEPT ![c].at = Follows(t), ![c].checked = ~t.guarded]
  /\ UNCHANGED <<project, skill, accepted, archive, begun_tools, promoted, overrun, changed>>

\* A command is killed, or one of its reads or writes fails.
Dies(c) ==
  /\ tool[c].at # "idle"
  /\ Stop(c)
  /\ UNCHANGED <<project, skill, accepted, archive, artifacts, begun_tools, promoted, overrun, changed>>

----------------------------------------------------------------------------
(* reconcile *)

BeginReconcile(c, guarded) ==
  /\ guarded => IsSound
  /\ Begin(c, "observe", guarded, IF guarded THEN accepted ELSE NoMap, project, "none")
  /\ UNCHANGED <<project, skill, accepted, archive, artifacts, promoted, overrun, changed>>

\* The observation is normalised: the sources it declares are hashed.
Observe(c) ==
  /\ tool[c].at = "observe"
  /\ tool' = [tool EXCEPT ![c].at = "compare", ![c].content = project, ![c].under = FileOf(accepted)]
  /\ UNCHANGED <<project, skill, accepted, archive, artifacts, begun_tools, promoted, overrun, changed>>

\* How an observation differs from a map that is in force.
Compared(base, content, version) ==
  LET shared == DOMAIN base.content \cap DOMAIN content IN
  IF base.content = content /\ base.skill = version THEN "checked_unchanged"
  ELSE IF \E e \in shared : base.content[e] # content[e] THEN "conflict_detected"
  ELSE "drift_detected"

Outlook(base, content, version) ==
  IF base = NoMap THEN "bootstrapped_provisional"
  ELSE IF ~base.sound THEN "accepted_map_invalid"
  ELSE Compared(base, content, version)

Compare(c) ==
  LET base   == IF tool[c].guarded THEN tool[c].base ELSE accepted
      action == Outlook(base, tool[c].content, skill)
  IN /\ tool[c].at = "compare"
     /\ tool' = [tool EXCEPT
          ![c].at = IF action = "checked_unchanged" THEN "history" ELSE "candidate",
          ![c].base = base, ![c].action = action, ![c].skill = skill]
     /\ UNCHANGED <<project, skill, accepted, archive, artifacts, begun_tools, promoted,
                    overrun, changed>>

----------------------------------------------------------------------------
(* accept *)

\* A candidate made under the present skill is taken up.
BeginAccept(c, k) ==
  /\ k.kind = "candidate" /\ k.skill = skill
  /\ Begin(c, "archive", FALSE, NoMap, k.content, "accepted_candidate")
  /\ UNCHANGED <<project, skill, accepted, archive, artifacts, promoted, overrun, changed>>

\* Mutant: a candidate that repeats the map in force is not taken for a replacement.
ArchivedIfNew(c) ==
  IF accepted = NoMap \/ accepted.content = tool[c].content THEN archive
  ELSE archive \cup {accepted.file}
\* The map in force is copied to accepted-history before another replaces it.
Archived(c) == IF accepted = NoMap THEN archive ELSE archive \cup {accepted.file}

ArchiveMap(c) ==
  /\ tool[c].at = "archive"
  /\ accepted # NoMap => accepted.sound
  /\ archive' = Archived(c)
  /\ tool' = [tool EXCEPT ![c].at = "replace", ![c].under = FileOf(accepted)]
  /\ UNCHANGED <<project, skill, accepted, artifacts, begun_tools, promoted, overrun, changed>>

ReplaceMap(c) ==
  LET new == [file |-> tool[c].by, content |-> tool[c].content, skill |-> tool[c].skill,
              sound |-> TRUE] IN
  /\ tool[c].at = "replace"
  /\ accepted' = new
  /\ promoted' = promoted \cup {new.file}
  /\ overrun' = IF accepted # NoMap /\ accepted.file # tool[c].under
                THEN overrun \cup {accepted.file} ELSE overrun
  /\ tool' = [tool EXCEPT ![c].at = "history", ![c].base = new, ![c].under = new.file]
  /\ UNCHANGED <<project, skill, archive, artifacts, begun_tools, changed>>

----------------------------------------------------------------------------
(* append *)

BeginAppend(c, s, guarded) ==
  /\ IsSound
  /\ accepted.skill = skill
  /\ Resolved(s, DOMAIN accepted.content) /\ Consistent(s)
  /\ FreshEnough(s, [e \in DOMAIN s.evidence |-> FreshnessOf(s.evidence[e].source)])
  /\ Begin(c, IF guarded THEN "evidence" ELSE "digest", guarded, accepted, project, ScanStatus(s))
  /\ UNCHANGED <<project, skill, accepted, archive, artifacts, promoted, overrun, changed>>

\* Without a guard the file's digest is taken in a second read of the file.
DigestMap(c) ==
  /\ tool[c].at = "digest"
  /\ accepted # NoMap
  /\ tool' = [tool EXCEPT ![c].at = "evidence", ![c].base = accepted]
  /\ UNCHANGED <<project, skill, accepted, archive, artifacts, begun_tools, promoted, overrun, changed>>

\* The evidence is read from the project's files.
ReadEvidence(c) ==
  /\ tool[c].at = "evidence"
  /\ tool' = [tool EXCEPT ![c].at = "record", ![c].content = project, ![c].skill = skill,
                          ![c].under = FileOf(accepted)]
  /\ UNCHANGED <<project, skill, accepted, archive, artifacts, begun_tools, promoted, overrun, changed>>

----------------------------------------------------------------------------
(* What others do. *)

EditProject(content) ==
  /\ changed < MaxMapChanges
  /\ content # project
  /\ project' = content
  /\ changed' = changed + 1
  /\ UNCHANGED <<skill, accepted, archive, artifacts, tool, begun_tools, promoted, overrun>>

UpgradeSkill ==
  /\ changed < MaxMapChanges
  /\ skill' = skill + 1
  /\ changed' = changed + 1
  /\ UNCHANGED <<project, accepted, archive, artifacts, tool, begun_tools, promoted, overrun>>

\* Somebody writes over accepted-map.json: it no longer carries its own digest.
SpoilMap ==
  /\ changed < MaxMapChanges
  /\ IsSound
  /\ accepted' = [accepted EXCEPT !.sound = FALSE]
  /\ promoted' = promoted \ {accepted.file}
  /\ changed' = changed + 1
  /\ UNCHANGED <<project, skill, archive, artifacts, tool, begun_tools, overrun>>

----------------------------------------------------------------------------
MapInit ==
  /\ project \in Contents
  /\ skill = 1
  /\ accepted = NoMap
  /\ archive = {}
  /\ artifacts = {}
  /\ tool = [c \in MapCommands |-> NoTool]
  /\ begun_tools = 0
  /\ promoted = {}
  /\ overrun = {}
  /\ changed = 0

MapNext ==
  \/ \E c \in MapCommands :
       \/ Recheck(c) \/ Write(c) \/ Dies(c)
       \/ Observe(c) \/ Compare(c)
       \/ ArchiveMap(c) \/ ReplaceMap(c)
       \/ DigestMap(c) \/ ReadEvidence(c)
       \/ \E guarded \in BOOLEAN : BeginReconcile(c, guarded)
       \/ \E k \in artifacts : BeginAccept(c, k)
       \/ \E s \in Scans, guarded \in BOOLEAN : BeginAppend(c, s, guarded)
  \/ \E content \in Contents : EditProject(content)
  \/ UpgradeSkill
  \/ SpoilMap

MapSpec == MapInit /\ [][MapNext]_mapVars

----------------------------------------------------------------------------
(* The variables have their types, and accepted-history holds only maps that *)
(* were made by a command.                                                 *)
MapActions ==
  {"none", "accepted_candidate", "bootstrapped_provisional", "accepted_map_invalid",
   "checked_unchanged", "conflict_detected", "drift_detected", "PASS", "PARTIAL", "FAIL", "NA"}
Tools ==
  [at : Writes \cup {"observe", "compare", "archive", "replace", "digest", "evidence"},
   guarded : BOOLEAN, checked : BOOLEAN, base : Maps \cup {NoMap}, under : Stamps,
   content : Contents, skill : Nat, action : MapActions, by : Stamps \ {0}]
Artifacts ==
  [kind : Writes, action : MapActions, content : Contents, skill : Nat, guarded : BOOLEAN,
   under : Stamps, names : Stamps]

MapTypeOK ==
  /\ project \in Contents /\ skill \in Nat
  /\ accepted \in Maps \cup {NoMap}
  /\ archive \subseteq Stamps /\ promoted \subseteq Stamps
  /\ artifacts \subseteq Artifacts
  /\ tool \in [MapCommands -> Tools \cup {NoTool}]
  /\ begun_tools \in Stamps /\ overrun \subseteq Stamps /\ changed \in 0..MaxMapChanges

(* Accepting a map never loses the one it replaces: whatever crashes, and   *)
(* however often the same content is accepted, each map that was in force   *)
(* is accepted-map.json or lies in accepted-history.  Lost is only a map    *)
(* that somebody wrote over, or that an accept replaced after archiving the *)
(* one before it (nothing keeps two accepts apart: two that archive the     *)
(* same map and then both replace it leave the first's result nowhere); the *)
(* maps that come before and after such an accident are kept.              *)
MapsAreKept ==
  \A f \in promoted \ overrun : f \in archive \/ (accepted # NoMap /\ accepted.file = f)

(* What a guarded command leaves behind is about the map it names: the      *)
(* project was observed, or the evidence read, while that very file was the *)
(* accepted map, although an accept may run between any two steps of the    *)
(* command and its last check is not the last thing it does.                *)
GuardedWorkIsAboutItsMap ==
  \A a \in artifacts : a.guarded => a.under = a.names
=============================================================================
