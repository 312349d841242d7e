----------------------------- MODULE MapProofs ------------------------------
(***************************************************************************)
(* Proofs about the accepted map and the scan records that name it.        *)
(*                                                                         *)
(* ComponentMap: types, that accepted maps are kept, and that what a       *)
(* guarded command writes is about the map it names.  The argument for the *)
(* last: a file that was once accepted and then replaced never comes back, *)
(* as each accept makes a file of its own.  So a command that finds its map*)
(* in force when it is about to write has had it in force since it began,  *)
(* however many accepts ran beside it.                                     *)
(*                                                                         *)
(* ScanRecords: what appending derives, rendering and verifying derive     *)
(* again; and an undisturbed verification is exact.  Both for every set of *)
(* drafts, sources, maps and changes.                                      *)
(***************************************************************************)
EXTENDS ComponentMap, ScanRecords, TLAPS

Working(c) == tool[c].at # "idle"
Accepting(c) == tool[c].at \in {"archive", "replace"}

-----------------------------------------------------------------------------
(* No accepted map is lost.                                                *)

\* Whoever is about to replace the map has archived the one it saw.
ReplacerArchived ==
  \A c \in MapCommands : tool[c].at = "replace" => tool[c].under \in archive \cup {0}

Kept == MapsAreKept /\ ReplacerArchived

-----------------------------------------------------------------------------
(* What a guarded command knows.                                           *)

\* A file that has been in force, and that nobody will bring into force again.
Past(f) ==
  /\ f <= begun_tools
  /\ \A d \in MapCommands : Accepting(d) => tool[d].by # f

InForce(f) == accepted # NoMap /\ accepted.file = f

Numbered(c) ==
  Working(c) =>
    /\ tool[c].by <= begun_tools
    /\ \A d \in MapCommands \ {c} : Working(d) => tool[d].by # tool[c].by

Guarded(c) ==
  Working(c) /\ tool[c].guarded =>
    /\ tool[c].at \in Writes \cup {"observe", "compare", "evidence"}
    /\ tool[c].base # NoMap /\ Past(tool[c].base.file)
    /\ tool[c].at \in Writes \cup {"compare"} /\ InForce(tool[c].base.file) =>
         tool[c].under = tool[c].base.file
    /\ tool[c].checked => tool[c].at \in Writes /\ tool[c].under = tool[c].base.file

Informed ==
  /\ accepted # NoMap => Past(accepted.file)
  /\ \A c \in MapCommands : Numbered(c) /\ Guarded(c)

MapInv == MapTypeOK /\ Kept /\ Informed /\ GuardedWorkIsAboutItsMap

LEMMA MapBounds == MaxMapCommands \in Nat /\ MaxMapChanges \in Nat /\ 0 \in Stamps
  BY MapAssumption DEF Stamps

LEMMA WorkingIsTool ==
  ASSUME MapTypeOK, NEW c \in MapCommands, Working(c)
  PROVE  tool[c] \in Tools
  BY DEF MapTypeOK, Working, NoTool

LEMMA MapIsMap ==
  ASSUME MapTypeOK, accepted # NoMap
  PROVE  accepted \in Maps /\ accepted.file \in Nat
  BY MapBounds DEF MapTypeOK, Maps, Stamps

-----------------------------------------------------------------------------
(* A step of one command.                                                  *)

\* What the other commands see of it: nobody starts accepting under a number
\* that is used up, and no file that was in force before comes back.
SeenByOthers(c) ==
  /\ \A d \in MapCommands \ {c} : tool'[d] = tool[d]
  /\ begun_tools <= begun_tools'
  /\ Working(c)' => \/ Working(c) /\ tool'[c].by = tool[c].by
                    \/ tool'[c].by = begun_tools + 1 /\ begun_tools' = begun_tools + 1
  /\ Accepting(c)' => (Accepting(c) /\ tool'[c].by = tool[c].by) \/ tool'[c].by = begun_tools + 1

LEMMA PastStaysPast ==
  ASSUME MapTypeOK, MapTypeOK', NEW c \in MapCommands, SeenByOthers(c), NEW f \in Nat, Past(f)
  PROVE  Past(f)'
  <1>1. begun_tools \in Nat /\ begun_tools' \in Nat BY MapBounds DEF MapTypeOK, Stamps
  <1>2. f <= begun_tools' BY <1>1 DEF Past, SeenByOthers
  <1>3. ASSUME NEW d \in MapCommands, Accepting(d)' PROVE tool'[d].by # f
    <2>1. CASE d = c BY <1>1, <1>3, <2>1 DEF Past, SeenByOthers
    <2>2. CASE d # c BY <1>3, <2>2 DEF Past, SeenByOthers, Accepting
    <2> QED BY <2>1, <2>2
  <1> QED BY <1>2, <1>3 DEF Past

LEMMA OthersStayInformed ==
  ASSUME MapInv, MapTypeOK', NEW c \in MapCommands, SeenByOthers(c),
         NEW d \in MapCommands \ {c},
         \A f \in Nat : Past(f) /\ InForce(f)' => InForce(f)
  PROVE  Numbered(d)' /\ Guarded(d)'
  <1>1. Numbered(d) /\ Guarded(d) BY DEF MapInv, Informed
  <1>2. tool'[d] = tool[d] BY DEF SeenByOthers
  <1>3. begun_tools \in Nat /\ begun_tools' \in Nat BY MapBounds DEF MapInv, MapTypeOK, Stamps
  <1>4. Numbered(d)'
    <2> SUFFICES ASSUME Working(d)' PROVE Numbered(d)' BY DEF Numbered
    <2>1. Working(d) BY <1>2 DEF Working
    <2>2. tool[d].by \in Nat BY <2>1, WorkingIsTool, MapBounds DEF MapInv, Tools, Stamps
    <2>3. tool'[d].by <= begun_tools' BY <1>1, <1>2, <1>3, <2>1, <2>2 DEF Numbered, SeenByOthers
    <2>4. ASSUME NEW e \in MapCommands \ {d}, Working(e)' PROVE tool'[e].by # tool'[d].by
      <3>1. CASE e = c
        BY <1>1, <1>2, <1>3, <2>1, <2>2, <2>4, <3>1 DEF Numbered, SeenByOthers
      <3>2. CASE e # c
        BY <1>1, <1>2, <2>1, <2>4, <3>2 DEF Numbered, SeenByOthers, Working
      <3> QED BY <3>1, <3>2
    <2> QED BY <2>3, <2>4 DEF Numbered
  <1>5. Guarded(d)'
    <2> SUFFICES ASSUME Working(d)', tool'[d].guarded PROVE Guarded(d)' BY DEF Guarded
    <2>1. Working(d) /\ tool[d].guarded BY <1>2 DEF Working
    <2>2. tool[d].base # NoMap /\ tool[d] \in Tools
      BY <1>1, <2>1, WorkingIsTool DEF Guarded, MapInv
    <2>3. tool[d].base.file \in Nat BY <2>2, MapBounds DEF Tools, Maps, Stamps
    <2>4. Past(tool[d].base.file) BY <1>1, <2>1 DEF Guarded
    <2>5. Past(tool[d].base.file)' BY <1>2, <2>3, <2>4, PastStaysPast DEF MapInv, Past, Accepting
    <2>6. InForce(tool[d].base.file)' => InForce(tool[d].base.file)
      BY <1>2, <2>3, <2>4 DEF InForce
    <2> QED BY <1>1, <1>2, <2>1, <2>2, <2>5, <2>6 DEF Guarded, Past, InForce, Accepting
  <1> QED BY <1>4, <1>5

LEMMA MoverIsNumbered ==
  ASSUME MapInv, MapTypeOK', NEW c \in MapCommands, SeenByOthers(c)
  PROVE  Numbered(c)'
  <1> SUFFICES ASSUME Working(c)' PROVE Numbered(c)' BY DEF Numbered
  <1>1. begun_tools \in Nat /\ begun_tools' \in Nat BY MapBounds DEF MapInv, MapTypeOK, Stamps
  <1>2. Numbered(c) /\ \A d \in MapCommands : Numbered(d) BY DEF MapInv, Informed
  <1>3. CASE Working(c) /\ tool'[c].by = tool[c].by
    <2>1. tool[c].by \in Nat BY <1>3, WorkingIsTool, MapBounds DEF MapInv, Tools, Stamps
    <2> QED BY <1>1, <1>2, <1>3, <2>1 DEF Numbered, SeenByOthers, Working
  <1>4. CASE tool'[c].by = begun_tools + 1 /\ begun_tools' = begun_tools + 1
    <2>1. ASSUME NEW d \in MapCommands \ {c}, Working(d)' PROVE tool'[d].by # tool'[c].by
      <3>1. Working(d) /\ tool'[d] = tool[d] BY <2>1 DEF SeenByOthers, Working
      <3>2. tool[d].by \in Nat BY <3>1, WorkingIsTool, MapBounds DEF MapInv, Tools, Stamps
      <3> QED BY <1>1, <1>2, <1>4, <3>1, <3>2 DEF Numbered
    <2> QED BY <1>1, <1>4, <2>1 DEF Numbered
  <1> QED BY <1>3, <1>4 DEF SeenByOthers

\* A step that leaves the accepted map and its archive alone.
LEMMA MapStands ==
  ASSUME MapInv, MapTypeOK', NEW c \in MapCommands, SeenByOthers(c),
         UNCHANGED <<accepted, archive, promoted, overrun>>,
         tool'[c].at # "replace", Guarded(c)', GuardedWorkIsAboutItsMap'
  PROVE  MapInv'
  <1>1. Kept'
    BY DEF MapInv, Kept, MapsAreKept, ReplacerArchived, SeenByOthers
  <1>2. (accepted # NoMap => Past(accepted.file))'
    <2> SUFFICES ASSUME accepted # NoMap PROVE Past(accepted.file)' OBVIOUS
    <2>1. PICK f \in Nat : f = accepted.file BY MapIsMap DEF MapInv
    <2>2. Past(f) BY <2>1 DEF MapInv, Informed
    <2>3. Past(f)' BY <2>2, PastStaysPast DEF MapInv
    <2> QED BY <2>1, <2>3 DEF Past
  <1>3. \A f \in Nat : Past(f) /\ InForce(f)' => InForce(f) BY DEF InForce
  <1>4. \A d \in MapCommands \ {c} : Numbered(d)' /\ Guarded(d)'
    BY <1>3, OthersStayInformed
  <1>5. Numbered(c)' BY MoverIsNumbered
  <1> QED BY <1>1, <1>2, <1>4, <1>5 DEF MapInv, Informed

\* A command that is not there any more.
LEMMA Stopping ==
  ASSUME MapInv, NEW c \in MapCommands, Stop(c),
         UNCHANGED <<project, skill, accepted, archive, begun_tools, promoted, overrun, changed>>,
         artifacts' \subseteq Artifacts, GuardedWorkIsAboutItsMap'
  PROVE  MapInv'
  <1>1. tool'[c] = NoTool /\ \A d \in MapCommands \ {c} : tool'[d] = tool[d]
    BY DEF Stop, MapInv, MapTypeOK
  <1>2. MapTypeOK' BY DEF Stop, MapInv, MapTypeOK
  <1>3. ~Working(c)' /\ ~Accepting(c)' /\ tool'[c].at # "replace"
    BY <1>1 DEF Working, Accepting, NoTool
  <1>4. begun_tools \in Nat BY MapBounds DEF MapInv, MapTypeOK, Stamps
  <1>5. SeenByOthers(c) BY <1>1, <1>3, <1>4 DEF SeenByOthers
  <1>6. Guarded(c)' BY <1>3 DEF Guarded
  <1> QED BY <1>2, <1>3, <1>5, <1>6, MapStands

\* A new command.
LEMMA Beginning ==
  ASSUME MapInv, NEW c \in MapCommands,
         NEW at \in {"observe", "archive", "digest", "evidence"}, NEW guarded \in BOOLEAN,
         NEW base \in Maps \cup {NoMap}, NEW content \in Contents, NEW action \in MapActions,
         Begin(c, at, guarded, base, content, action),
         guarded => at \in {"observe", "evidence"} /\ base = accepted /\ accepted # NoMap,
         UNCHANGED <<project, skill, accepted, archive, artifacts, promoted, overrun, changed>>
  PROVE  MapInv'
  <1> DEFINE new == [at |-> at, guarded |-> guarded, checked |-> ~guarded, base |-> base, under |-> 0,
                     content |-> content, skill |-> skill, action |-> action, by |-> begun_tools + 1]
  <1>1. begun_tools \in Nat /\ begun_tools + 1 \in Stamps /\ begun_tools' = begun_tools + 1
    BY MapBounds DEF Begin, MapInv, MapTypeOK, Stamps
  <1>2. new \in Tools
    <2>1. skill \in Nat /\ (~guarded) \in BOOLEAN BY DEF MapInv, MapTypeOK
    <2> QED BY <1>1, <2>1, MapBounds DEF Tools
  <1>3. tool' \in [MapCommands -> Tools \cup {NoTool}] /\ tool'[c] = new
        /\ \A d \in MapCommands \ {c} : tool'[d] = tool[d]
    BY <1>2 DEF Begin, MapInv, MapTypeOK
  <1>4. /\ new.at = at /\ new.guarded = guarded /\ new.checked = ~guarded /\ new.base = base
        /\ new.by = begun_tools + 1
    OBVIOUS
  <1> HIDE DEF new
  <1>5. MapTypeOK' BY <1>1, <1>3 DEF MapInv, MapTypeOK
  <1>6. SeenByOthers(c) BY <1>1, <1>3, <1>4 DEF SeenByOthers
  <1>7. tool'[c].at # "replace" BY <1>3, <1>4
  <1>8. Guarded(c)'
    <2> SUFFICES ASSUME guarded PROVE Guarded(c)' BY <1>3, <1>4 DEF Guarded
    <2>1. base.file \in Nat /\ Past(base.file) BY MapIsMap DEF MapInv, Informed
    <2>2. Past(base.file)' BY <1>5, <1>6, <2>1, PastStaysPast DEF MapInv
    <2>3. tool'[c].base = base BY <1>3, <1>4
    <2>4. Past(tool[c].base.file)' BY <2>2, <2>3 DEF Past
    <2> QED BY <1>3, <1>4, <2>4 DEF Guarded, Writes
  <1>9. GuardedWorkIsAboutItsMap' BY DEF MapInv, GuardedWorkIsAboutItsMap
  <1> QED BY <1>5, <1>6, <1>7, <1>8, <1>9, MapStands

\* A command that goes on under the map it was begun for.
LEMMA Advancing ==
  ASSUME MapInv, NEW c \in MapCommands, Working(c),
         tool' \in [MapCommands -> Tools \cup {NoTool}], tool'[c] \in Tools,
         \A d \in MapCommands \ {c} : tool'[d] = tool[d],
         tool'[c].by = tool[c].by, tool'[c].guarded = tool[c].guarded,
         tool'[c].at \notin {"archive", "replace"},
         UNCHANGED <<project, skill, accepted, archive, begun_tools, promoted, overrun, changed>>,
         artifacts' \subseteq Artifacts, GuardedWorkIsAboutItsMap',
         tool[c].guarded =>
           /\ tool'[c].base = tool[c].base
           /\ tool'[c].at \in Writes \cup {"compare", "evidence"}
           /\ tool'[c].at \in Writes \cup {"compare"} /\ InForce(tool[c].base.file) =>
                tool'[c].under = tool[c].base.file
           /\ tool'[c].checked => tool'[c].at \in Writes /\ tool'[c].under = tool[c].base.file
  PROVE  MapInv'
  <1>1. MapTypeOK' BY DEF MapInv, MapTypeOK
  <1>2. begun_tools \in Nat BY MapBounds DEF MapInv, MapTypeOK, Stamps
  <1>3. SeenByOthers(c) BY <1>2 DEF SeenByOthers, Accepting
  <1>4. Guarded(c)'
    <2> SUFFICES ASSUME tool[c].guarded PROVE Guarded(c)' BY DEF Guarded
    <2>1. tool[c].base # NoMap /\ Past(tool[c].base.file) /\ tool[c] \in Tools
      BY WorkingIsTool DEF MapInv, Informed, Guarded
    <2>2. PICK f \in Nat : f = tool[c].base.file
      BY <2>1, MapBounds DEF Tools, Maps, Stamps
    <2>3. Past(f)' BY <1>1, <1>3, <2>1, <2>2, PastStaysPast DEF MapInv
    <2>4. Past(tool[c].base.file)' BY <2>2, <2>3 DEF Past
    <2>5. InForce(tool[c].base.file)' => InForce(tool[c].base.file) BY DEF InForce
    <2> QED BY <2>1, <2>4, <2>5 DEF Guarded
  <1> QED BY <1>1, <1>3, <1>4, MapStands

LEMMA Rechecking ==
  ASSUME MapInv, NEW c \in MapCommands, Recheck(c)
  PROVE  MapInv'
  <1>1. artifacts' \subseteq Artifacts /\ GuardedWorkIsAboutItsMap'
    BY DEF Recheck, MapInv, MapTypeOK, GuardedWorkIsAboutItsMap
  <1>2. CASE Stop(c) BY <1>1, <1>2, Stopping DEF Recheck
  <1>3. CASE ~GuardRefuses(c) /\ tool' = [tool EXCEPT ![c].checked = TRUE]
    <2>1. Working(c) /\ tool[c].at \in Writes BY DEF Recheck, Working, Writes
    <2>2. tool[c] \in Tools BY <2>1, WorkingIsTool DEF MapInv
    <2>3. /\ tool' \in [MapCommands -> Tools \cup {NoTool}] /\ tool'[c] \in Tools
          /\ \A d \in MapCommands \ {c} : tool'[d] = tool[d]
          /\ tool'[c].by = tool[c].by /\ tool'[c].guarded = tool[c].guarded
          /\ tool'[c].at = tool[c].at /\ tool'[c].base = tool[c].base
          /\ tool'[c].under = tool[c].under
      BY <1>3, <2>2 DEF Tools, MapInv, MapTypeOK
    <2>4. tool[c].guarded => tool[c].under = tool[c].base.file
      <3>1. tool[c].guarded => InForce(tool[c].base.file)
        BY <1>3 DEF GuardRefuses, IsSound, InForce
      <3> QED BY <2>1, <3>1 DEF MapInv, Informed, Guarded
    <2>5. tool'[c].at \notin {"archive", "replace"} BY <2>1, <2>3 DEF Writes
    <2> QED BY <1>1, <2>1, <2>3, <2>4, <2>5, Advancing DEF Recheck
  <1> QED BY <1>2, <1>3 DEF Recheck

LEMMA Writing ==
  ASSUME MapInv, NEW c \in MapCommands, Write(c)
  PROVE  MapInv'
  <1> DEFINE made == [kind |-> tool[c].at, action |-> tool[c].action, content |-> tool[c].content,
                      skill |-> tool[c].skill, guarded |-> tool[c].guarded, under |-> tool[c].under,
                      names |-> FileOf(tool[c].base)]
  <1>1. Working(c) /\ tool[c].at \in Writes /\ tool[c].checked BY DEF Write, Working, Writes
  <1>2. tool[c] \in Tools BY <1>1, WorkingIsTool DEF MapInv
  <1>3. FileOf(tool[c].base) \in Stamps
    BY <1>2, MapBounds DEF Tools, FileOf, Maps
  <1>4. made \in Artifacts BY <1>1, <1>2, <1>3 DEF Tools, Artifacts
  <1>5. artifacts' = artifacts \cup {made} BY DEF Write
  <1>6. tool[c].guarded => tool[c].base # NoMap /\ tool[c].under = tool[c].base.file
    BY <1>1 DEF MapInv, Informed, Guarded
  <1>7. made.guarded => made.under = made.names BY <1>6 DEF FileOf
  <1>8. artifacts' \subseteq Artifacts BY <1>4, <1>5 DEF MapInv, MapTypeOK
  <1>9. GuardedWorkIsAboutItsMap'
    BY <1>5, <1>7 DEF MapInv, GuardedWorkIsAboutItsMap
  <1> HIDE DEF made
  <1>10. CASE Stop(c) BY <1>8, <1>9, <1>10, Stopping DEF Write
  <1>11. CASE /\ Follows(tool[c]) # "idle"
              /\ tool' = [tool EXCEPT ![c].at = Follows(tool[c]), ![c].checked = ~tool[c].guarded]
    <2>1. Follows(tool[c]) \in {"delta", "history"}
      <3>1. CASE tool[c].at = "candidate" BY <3>1 DEF Follows
      <3>2. CASE tool[c].at = "delta" BY <3>2 DEF Follows
      <3>3. CASE tool[c].at \notin {"candidate", "delta"} BY <1>11, <3>3 DEF Follows
      <3> QED BY <3>1, <3>2, <3>3
    <2>2. PICK at \in {"delta", "history"} : at = Follows(tool[c]) BY <2>1
    <2>3. tool' = [tool EXCEPT ![c].at = at, ![c].checked = ~tool[c].guarded] BY <1>11, <2>2
    <2>4. at \in Writes BY DEF Writes
    <2>5. /\ tool' \in [MapCommands -> Tools \cup {NoTool}] /\ tool'[c] \in Tools
          /\ \A d \in MapCommands \ {c} : tool'[d] = tool[d]
          /\ tool'[c].by = tool[c].by /\ tool'[c].guarded = tool[c].guarded
          /\ tool'[c].at = at /\ tool'[c].base = tool[c].base
          /\ tool'[c].under = tool[c].under /\ (tool[c].guarded => ~tool'[c].checked)
      BY <1>2, <2>3, <2>4 DEF Tools, MapInv, MapTypeOK
    <2> QED BY <1>1, <1>6, <1>8, <1>9, <2>4, <2>5, Advancing DEF Write
  <1> QED BY <1>10, <1>11 DEF Write

LEMMA Reading ==
  ASSUME MapInv, NEW c \in MapCommands, Observe(c) \/ Compare(c) \/ DigestMap(c) \/ ReadEvidence(c)
  PROVE  MapInv'
  <1>1. Working(c) BY DEF Observe, Compare, DigestMap, ReadEvidence, Working
  <1>2. tool[c] \in Tools BY <1>1, WorkingIsTool DEF MapInv
  <1>3. /\ project \in Contents /\ skill \in Nat /\ accepted \in Maps \cup {NoMap}
        /\ tool \in [MapCommands -> Tools \cup {NoTool}]
        /\ artifacts \subseteq Artifacts /\ GuardedWorkIsAboutItsMap
    BY DEF MapInv, MapTypeOK
  <1>4. Guarded(c) BY DEF MapInv, Informed
  <1>5. UNCHANGED <<project, skill, accepted, archive, artifacts, begun_tools, promoted, overrun, changed>>
    BY DEF Observe, Compare, DigestMap, ReadEvidence
  <1>6. GuardedWorkIsAboutItsMap' BY <1>3, <1>5 DEF GuardedWorkIsAboutItsMap
  <1>7. FileOf(accepted) \in Stamps BY <1>3, MapBounds DEF FileOf, Maps
  <1>8. CASE Observe(c)
    <2>1. "compare" \in Writes \cup {"observe", "compare", "archive", "replace", "digest", "evidence"}
      OBVIOUS
    <2>2. tool[c].at = "observe"
          /\ tool' = [tool EXCEPT ![c].at = "compare", ![c].content = project, ![c].under = FileOf(accepted)]
      BY <1>8 DEF Observe
    <2>3. /\ tool' \in [MapCommands -> Tools \cup {NoTool}] /\ tool'[c] \in Tools
          /\ \A d \in MapCommands \ {c} : tool'[d] = tool[d]
          /\ tool'[c].by = tool[c].by /\ tool'[c].guarded = tool[c].guarded
          /\ tool'[c].at = "compare" /\ tool'[c].base = tool[c].base
          /\ tool'[c].under = FileOf(accepted) /\ tool'[c].checked = tool[c].checked
      BY <1>2, <1>3, <1>7, <2>1, <2>2 DEF Tools
    <2>4. tool[c].guarded => ~tool[c].checked
      BY <1>1, <1>4, <2>2 DEF Guarded, Writes
    <2>5. InForce(tool[c].base.file) => FileOf(accepted) = tool[c].base.file
      BY DEF InForce, FileOf
    <2> QED BY <1>1, <1>3, <1>5, <1>6, <2>3, <2>4, <2>5, Advancing
  <1>9. CASE Compare(c)
    <2> DEFINE base == IF tool[c].guarded THEN tool[c].base ELSE accepted
               action == Outlook(base, tool[c].content, skill)
               at == IF action = "checked_unchanged" THEN "history" ELSE "candidate"
    <2>1. tool[c].at = "compare"
          /\ tool' = [tool EXCEPT ![c].at = at, ![c].base = base, ![c].action = action, ![c].skill = skill]
      BY <1>9 DEF Compare
    <2>2. at \in Writes /\ base \in Maps \cup {NoMap} /\ (tool[c].guarded => base = tool[c].base)
      BY <1>2, <1>3 DEF Writes, Tools
    <2>3. action \in MapActions BY DEF MapActions, Outlook, Compared
    <2> HIDE DEF base, action, at
    <2>4. /\ tool' \in [MapCommands -> Tools \cup {NoTool}] /\ tool'[c] \in Tools
          /\ \A d \in MapCommands \ {c} : tool'[d] = tool[d]
          /\ tool'[c].by = tool[c].by /\ tool'[c].guarded = tool[c].guarded
          /\ tool'[c].at = at /\ tool'[c].base = base
          /\ tool'[c].under = tool[c].under /\ tool'[c].checked = tool[c].checked
      BY <1>2, <1>3, <2>1, <2>2, <2>3 DEF Tools
    <2>5. tool[c].guarded => ~tool[c].checked
      BY <1>1, <1>4, <2>1 DEF Guarded, Writes
    <2>6. tool[c].guarded /\ InForce(tool[c].base.file) => tool[c].under = tool[c].base.file
      BY <1>1, <1>4, <2>1 DEF Guarded
    <2>7. tool'[c].at \notin {"archive", "replace"} BY <2>2, <2>4 DEF Writes
    <2> QED BY <1>1, <1>3, <1>5, <1>6, <2>2, <2>4, <2>5, <2>6, <2>7, Advancing
  <1>10. CASE DigestMap(c)
    <2>1. tool[c].at = "digest" /\ tool' = [tool EXCEPT ![c].at = "evidence", ![c].base = accepted]
      BY <1>10 DEF DigestMap
    <2>2. ~tool[c].guarded BY <1>1, <1>2, <1>4, <2>1 DEF Guarded, Tools, Writes
    <2>3. /\ tool' \in [MapCommands -> Tools \cup {NoTool}] /\ tool'[c] \in Tools
          /\ \A d \in MapCommands \ {c} : tool'[d] = tool[d]
          /\ tool'[c].by = tool[c].by /\ tool'[c].guarded = tool[c].guarded
          /\ tool'[c].at = "evidence"
      BY <1>2, <1>3, <2>1 DEF Tools
    <2> QED BY <1>1, <1>3, <1>5, <1>6, <2>2, <2>3, Advancing
  <1>11. CASE ReadEvidence(c)
    <2>1. tool[c].at = "evidence"
          /\ tool' = [tool EXCEPT ![c].at = "record", ![c].content = project, ![c].skill = skill,
                                  ![c].under = FileOf(accepted)]
      BY <1>11 DEF ReadEvidence
    <2>2. "record" \in Writes BY DEF Writes
    <2>3. /\ tool' \in [MapCommands -> Tools \cup {NoTool}] /\ tool'[c] \in Tools
          /\ \A d \in MapCommands \ {c} : tool'[d] = tool[d]
          /\ tool'[c].by = tool[c].by /\ tool'[c].guarded = tool[c].guarded
          /\ tool'[c].at = "record" /\ tool'[c].base = tool[c].base
          /\ tool'[c].under = FileOf(accepted) /\ tool'[c].checked = tool[c].checked
      BY <1>2, <1>3, <1>7, <2>1, <2>2 DEF Tools
    <2>4. tool[c].guarded => ~tool[c].checked
      BY <1>1, <1>4, <2>1 DEF Guarded, Writes
    <2>5. InForce(tool[c].base.file) => FileOf(accepted) = tool[c].base.file
      BY DEF InForce, FileOf
    <2> QED BY <1>1, <1>3, <1>5, <1>6, <2>2, <2>3, <2>4, <2>5, Advancing
  <1> QED BY <1>8, <1>9, <1>10, <1>11

\* A command in the middle of accepting was given no map to expect.
LEMMA AcceptingIsUnguarded ==
  ASSUME MapInv, NEW c \in MapCommands, Accepting(c)
  PROVE  Working(c) /\ tool[c] \in Tools /\ ~tool[c].guarded
  <1>1. Working(c) BY DEF Accepting, Working
  <1> QED BY <1>1, WorkingIsTool DEF MapInv, Informed, Guarded, Accepting, Writes

LEMMA AllInformed ==
  ASSUME MapInv, MapTypeOK', NEW c \in MapCommands, SeenByOthers(c), Guarded(c)',
         \A f \in Nat : Past(f) /\ InForce(f)' => InForce(f),
         (accepted # NoMap => Past(accepted.file))'
  PROVE  Informed'
  <1>1. \A d \in MapCommands \ {c} : Numbered(d)' /\ Guarded(d)' BY OthersStayInformed
  <1>2. Numbered(c)' BY MoverIsNumbered
  <1> QED BY <1>1, <1>2 DEF Informed

LEMMA Archiving ==
  ASSUME MapInv, NEW c \in MapCommands, ArchiveMap(c)
  PROVE  MapInv'
  <1>1. Accepting(c) /\ tool[c].at = "archive" BY DEF ArchiveMap, Accepting
  <1>2. Working(c) /\ tool[c] \in Tools /\ ~tool[c].guarded BY <1>1, AcceptingIsUnguarded
  <1>3. UNCHANGED <<project, skill, accepted, artifacts, begun_tools, promoted, overrun, changed>>
    BY DEF ArchiveMap
  <1>4. /\ tool' \in [MapCommands -> Tools \cup {NoTool}]
        /\ \A d \in MapCommands \ {c} : tool'[d] = tool[d]
        /\ tool'[c].by = tool[c].by /\ tool'[c].guarded = tool[c].guarded
        /\ tool'[c].at = "replace" /\ tool'[c].under = FileOf(accepted)
    <2>1. FileOf(accepted) \in Stamps BY MapBounds DEF FileOf, Maps, MapInv, MapTypeOK
    <2> QED BY <1>2, <2>1 DEF ArchiveMap, MapInv, MapTypeOK, Tools
  <1>5. archive' = Archived(c) BY DEF ArchiveMap
  <1>6. archive \subseteq archive' /\ (accepted # NoMap => accepted.file \in archive')
    BY <1>5 DEF Archived
  <1>7. MapTypeOK'
    <2>1. archive' \subseteq Stamps
      BY <1>5 DEF MapInv, MapTypeOK, Archived, Maps
    <2> QED BY <1>3, <1>4, <2>1 DEF MapInv, MapTypeOK
  <1>8. Kept'
    <2>1. MapsAreKept' BY <1>3, <1>6 DEF MapInv, Kept, MapsAreKept
    <2>2. FileOf(accepted) \in archive' \cup {0} BY <1>6 DEF FileOf
    <2>3. ASSUME NEW d \in MapCommands, tool'[d].at = "replace"
          PROVE  tool'[d].under \in archive' \cup {0}
      <3>1. CASE d = c BY <1>4, <2>2, <3>1
      <3>2. CASE d # c BY <1>4, <1>6, <2>3, <3>2 DEF MapInv, Kept, ReplacerArchived
      <3> QED BY <3>1, <3>2
    <2> QED BY <2>1, <2>3 DEF Kept, ReplacerArchived
  <1>9. begun_tools \in Nat BY MapBounds DEF MapInv, MapTypeOK, Stamps
  <1>10. SeenByOthers(c) BY <1>1, <1>2, <1>3, <1>4, <1>9 DEF SeenByOthers
  <1>11. Guarded(c)' BY <1>2, <1>4 DEF Guarded
  <1>12. \A f \in Nat : Past(f) /\ InForce(f)' => InForce(f) BY <1>3 DEF InForce
  <1>13. (accepted # NoMap => Past(accepted.file))'
    <2> SUFFICES ASSUME accepted # NoMap PROVE Past(accepted.file)' BY <1>3
    <2>1. PICK f \in Nat : f = accepted.file BY MapIsMap DEF MapInv
    <2>2. Past(f) BY <2>1 DEF MapInv, Informed
    <2>3. Past(f)' BY <1>7, <1>10, <2>2, PastStaysPast DEF MapInv
    <2> QED BY <1>3, <2>1, <2>3 DEF Past
  <1>14. Informed' BY <1>7, <1>10, <1>11, <1>12, <1>13, AllInformed
  <1>15. GuardedWorkIsAboutItsMap' BY <1>3 DEF MapInv, GuardedWorkIsAboutItsMap
  <1> QED BY <1>7, <1>8, <1>14, <1>15 DEF MapInv

LEMMA Replacing ==
  ASSUME MapInv, NEW c \in MapCommands, ReplaceMap(c)
  PROVE  MapInv'
  <1> DEFINE new == [file |-> tool[c].by, content |-> tool[c].content, skill |-> tool[c].skill,
                     sound |-> TRUE]
  <1>1. Accepting(c) /\ tool[c].at = "replace" BY DEF ReplaceMap, Accepting
  <1>2. Working(c) /\ tool[c] \in Tools /\ ~tool[c].guarded BY <1>1, AcceptingIsUnguarded
  <1>3. UNCHANGED <<project, skill, archive, artifacts, begun_tools, changed>>
        /\ overrun' = IF accepted # NoMap /\ accepted.file # tool[c].under
                      THEN overrun \cup {accepted.file} ELSE overrun
    BY DEF ReplaceMap
  <1>4. new \in Maps /\ new.file = tool[c].by /\ tool[c].by \in Stamps
    BY <1>2 DEF Tools, Maps
  <1>5. accepted' = new /\ promoted' = promoted \cup {new.file}
        /\ tool' = [tool EXCEPT ![c].at = "history", ![c].base = new, ![c].under = new.file]
    BY DEF ReplaceMap
  <1>6. new # NoMap BY <1>4, MapAssumption
  <1> HIDE DEF new
  <1>7. /\ tool' \in [MapCommands -> Tools \cup {NoTool}]
        /\ \A d \in MapCommands \ {c} : tool'[d] = tool[d]
        /\ tool'[c].by = tool[c].by /\ tool'[c].guarded = tool[c].guarded
        /\ tool'[c].at = "history"
    <2>1. "history" \in Writes BY DEF Writes
    <2> QED BY <1>2, <1>4, <1>5, <2>1 DEF MapInv, MapTypeOK, Tools
  <1>8. MapTypeOK'
    <2>1. overrun' \subseteq Stamps BY <1>3 DEF MapInv, MapTypeOK, Maps
    <2> QED BY <1>3, <1>4, <1>5, <1>7, <2>1 DEF MapInv, MapTypeOK
  <1>9. begun_tools \in Nat /\ tool[c].by \in Nat
    BY <1>4, MapBounds DEF MapInv, MapTypeOK, Stamps
  <1>10. ~Accepting(c)' BY <1>7 DEF Accepting
  <1>11. SeenByOthers(c) BY <1>2, <1>3, <1>7, <1>9, <1>10 DEF SeenByOthers
  <1>12. Guarded(c)' BY <1>2, <1>7 DEF Guarded
  <1>13. \A f \in Nat : Past(f) /\ InForce(f)' => InForce(f)
    BY <1>1, <1>4, <1>5 DEF Past, InForce
  <1>14. (accepted # NoMap => Past(accepted.file))'
    <2>1. Numbered(c) BY DEF MapInv, Informed
    <2>2. \A d \in MapCommands : Accepting(d)' => tool'[d].by # tool[c].by
      BY <1>2, <1>7, <1>10, <2>1 DEF Numbered, Accepting, Working
    <2> QED BY <1>2, <1>3, <1>4, <1>5, <2>1, <2>2 DEF Numbered, Past
  <1>15. Informed' BY <1>8, <1>11, <1>12, <1>13, <1>14, AllInformed
  <1>16. Kept'
    <2>1. MapsAreKept /\ tool[c].under \in archive \cup {0}
      BY <1>1 DEF MapInv, Kept, ReplacerArchived
    <2>2. accepted # NoMap => accepted.file \in archive \cup overrun'
      <3> SUFFICES ASSUME accepted # NoMap, accepted.file = tool[c].under
                   PROVE  accepted.file \in archive
        BY <1>3
      <3>1. accepted.file # 0 BY DEF MapInv, MapTypeOK, Maps
      <3> QED BY <2>1, <3>1
    <2>3. overrun \subseteq overrun' BY <1>3
    <2>4. \A f \in promoted \ overrun' : f \in archive BY <2>1, <2>2, <2>3 DEF MapsAreKept
    <2>5. MapsAreKept' BY <1>3, <1>5, <1>6, <2>4 DEF MapsAreKept
    <2>6. ReplacerArchived'
      BY <1>3, <1>7 DEF MapInv, Kept, ReplacerArchived
    <2> QED BY <2>5, <2>6 DEF Kept
  <1>17. GuardedWorkIsAboutItsMap' BY <1>3 DEF MapInv, GuardedWorkIsAboutItsMap
  <1> QED BY <1>8, <1>15, <1>16, <1>17 DEF MapInv

LEMMA Starting ==
  ASSUME MapInv, NEW c \in MapCommands,
         \/ \E guarded \in BOOLEAN : BeginReconcile(c, guarded)
         \/ \E k \in artifacts : BeginAccept(c, k)
         \/ \E s \in Scans, guarded \in BOOLEAN : BeginAppend(c, s, guarded)
  PROVE  MapInv'
  <1>1. project \in Contents /\ accepted \in Maps \cup {NoMap} /\ artifacts \subseteq Artifacts
    BY DEF MapInv, MapTypeOK
  <1>2. ASSUME NEW guarded \in BOOLEAN, BeginReconcile(c, guarded) PROVE MapInv'
    <2>1. PICK base \in Maps \cup {NoMap} : base = IF guarded THEN accepted ELSE NoMap BY <1>1
    <2>2. Begin(c, "observe", guarded, base, project, "none") BY <1>2, <2>1 DEF BeginReconcile
    <2>3. guarded => base = accepted /\ accepted # NoMap BY <1>2, <2>1 DEF BeginReconcile, IsSound
    <2>4. UNCHANGED <<project, skill, accepted, archive, artifacts, promoted, overrun, changed>>
      BY <1>2 DEF BeginReconcile
    <2>5. "none" \in MapActions BY DEF MapActions
    <2> QED BY <1>1, <2>2, <2>3, <2>4, <2>5, Beginning
  <1>3. ASSUME NEW k \in artifacts, BeginAccept(c, k) PROVE MapInv'
    <2>1. PICK content \in Contents : content = k.content BY <1>1 DEF Artifacts
    <2>2. Begin(c, "archive", FALSE, NoMap, content, "accepted_candidate")
      BY <1>3, <2>1 DEF BeginAccept
    <2>3. UNCHANGED <<project, skill, accepted, archive, artifacts, promoted, overrun, changed>>
      BY <1>3 DEF BeginAccept
    <2>4. "accepted_candidate" \in MapActions BY DEF MapActions
    <2> QED BY <2>2, <2>3, <2>4, Beginning
  <1>4. ASSUME NEW s \in Scans, NEW guarded \in BOOLEAN, BeginAppend(c, s, guarded) PROVE MapInv'
    <2>1. PICK at \in {"evidence", "digest"} : at = IF guarded THEN "evidence" ELSE "digest" OBVIOUS
    <2>2. PICK action \in MapActions : action = ScanStatus(s) BY DEF ScanStatus, MapActions
    <2>3. Begin(c, at, guarded, accepted, project, action) BY <1>4, <2>1, <2>2 DEF BeginAppend
    <2>4. accepted # NoMap BY <1>4 DEF BeginAppend, IsSound
    <2>5. UNCHANGED <<project, skill, accepted, archive, artifacts, promoted, overrun, changed>>
      BY <1>4 DEF BeginAppend
    <2> QED BY <1>1, <2>1, <2>3, <2>4, <2>5, Beginning
  <1> QED BY <1>2, <1>3, <1>4

-----------------------------------------------------------------------------
(* What others do, and the whole.                                          *)

\* Nothing but the project, the skill and the soundness of the map changes.
LEMMA Bystanders ==
  ASSUME MapInv, MapTypeOK', UNCHANGED <<archive, artifacts, tool, begun_tools, overrun>>,
         promoted' \subseteq promoted,
         accepted' = accepted \/ (accepted # NoMap /\ accepted' # NoMap
                                    /\ accepted'.file = accepted.file)
  PROVE  MapInv'
  <1>1. Kept'
    BY DEF MapInv, Kept, MapsAreKept, ReplacerArchived
  <1>2. \A f : Past(f) => Past(f)' BY DEF Past, Accepting
  <1>3. (accepted # NoMap => Past(accepted.file))' BY DEF MapInv, Informed, Past, Accepting
  <1>4. ASSUME NEW c \in MapCommands PROVE Numbered(c)' /\ Guarded(c)'
    <2>1. Numbered(c) /\ Guarded(c) BY DEF MapInv, Informed
    <2>2. Numbered(c)' BY <2>1 DEF Numbered, Working
    <2>3. Guarded(c)' BY <2>1 DEF Guarded, Working, Past, Accepting, InForce
    <2> QED BY <2>2, <2>3
  <1>5. GuardedWorkIsAboutItsMap' BY DEF MapInv, GuardedWorkIsAboutItsMap
  <1> QED BY <1>1, <1>3, <1>4, <1>5 DEF MapInv, Informed

LEMMA MapInvInit == MapInit => MapInv
  <1> SUFFICES ASSUME MapInit PROVE MapInv OBVIOUS
  <1>1. MapTypeOK
    <2>1. tool \in [MapCommands -> Tools \cup {NoTool}] BY DEF MapInit
    <2>2. changed \in 0..MaxMapChanges /\ begun_tools \in Stamps BY MapBounds DEF MapInit
    <2> QED BY <2>1, <2>2 DEF MapInit, MapTypeOK
  <1>2. \A c \in MapCommands : ~Working(c) /\ ~Accepting(c)
    BY DEF MapInit, NoTool, Working, Accepting
  <1>3. Kept BY <1>2 DEF MapInit, Kept, MapsAreKept, ReplacerArchived, Accepting
  <1>4. Informed BY <1>2 DEF MapInit, Informed, Numbered, Guarded
  <1>5. GuardedWorkIsAboutItsMap BY DEF MapInit, GuardedWorkIsAboutItsMap
  <1> QED BY <1>1, <1>3, <1>4, <1>5 DEF MapInv

LEMMA MapInvStep == MapInv /\ [MapNext]_mapVars => MapInv'
  <1> SUFFICES ASSUME MapInv, [MapNext]_mapVars PROVE MapInv' OBVIOUS
  <1> USE DEF MapInv
  <1>1. ASSUME NEW c \in MapCommands, Recheck(c) PROVE MapInv' BY <1>1, Rechecking
  <1>2. ASSUME NEW c \in MapCommands, Write(c) PROVE MapInv' BY <1>2, Writing
  <1>3. ASSUME NEW c \in MapCommands, Dies(c) PROVE MapInv'
    <2>1. artifacts' \subseteq Artifacts /\ GuardedWorkIsAboutItsMap'
      BY <1>3 DEF Dies, MapTypeOK, GuardedWorkIsAboutItsMap
    <2> QED BY <1>3, <2>1, Stopping DEF Dies
  <1>4. ASSUME NEW c \in MapCommands, Observe(c) \/ Compare(c) \/ DigestMap(c) \/ ReadEvidence(c)
        PROVE MapInv'
    BY <1>4, Reading
  <1>5. ASSUME NEW c \in MapCommands, ArchiveMap(c) PROVE MapInv' BY <1>5, Archiving
  <1>6. ASSUME NEW c \in MapCommands, ReplaceMap(c) PROVE MapInv' BY <1>6, Replacing
  <1>7. ASSUME NEW c \in MapCommands,
               \/ \E guarded \in BOOLEAN : BeginReconcile(c, guarded)
               \/ \E k \in artifacts : BeginAccept(c, k)
               \/ \E s \in Scans, guarded \in BOOLEAN : BeginAppend(c, s, guarded)
        PROVE MapInv'
    BY <1>7, Starting
  <1>8. ASSUME NEW content \in Contents, EditProject(content) PROVE MapInv'
    <2>1. MapTypeOK' BY <1>8, MapBounds DEF EditProject, MapTypeOK
    <2> QED BY <1>8, <2>1, Bystanders DEF EditProject
  <1>9. CASE UpgradeSkill
    <2>1. MapTypeOK' BY <1>9, MapBounds DEF UpgradeSkill, MapTypeOK
    <2> QED BY <1>9, <2>1, Bystanders DEF UpgradeSkill
  <1>10. CASE SpoilMap
    <2>1. accepted \in Maps BY <1>10 DEF SpoilMap, IsSound, MapTypeOK
    <2>2. accepted' \in Maps /\ accepted'.file = accepted.file BY <1>10, <2>1 DEF SpoilMap, Maps
    <2>3. MapTypeOK' BY <1>10, <2>2, MapBounds DEF SpoilMap, MapTypeOK
    <2>4. accepted' # NoMap BY <2>2, MapAssumption
    <2> QED BY <1>10, <2>2, <2>3, <2>4, Bystanders DEF SpoilMap, IsSound
  <1>11. CASE UNCHANGED mapVars
    <2>1. MapTypeOK' BY <1>11 DEF mapVars, MapTypeOK
    <2> QED BY <1>11, <2>1, Bystanders DEF mapVars
  <1> QED BY <1>1, <1>2, <1>3, <1>4, <1>5, <1>6, <1>7, <1>8, <1>9, <1>10, <1>11 DEF MapNext

THEOREM MapInvHolds == MapSpec => []MapInv
  BY MapInvInit, MapInvStep, PTL DEF MapSpec

(* The variables of the map keep their types, whatever overlaps or dies.    *)
THEOREM MapTypeCorrect == MapSpec => []MapTypeOK
  <1>1. MapInv => MapTypeOK BY DEF MapInv
  <1> QED BY <1>1, MapInvHolds, PTL

(* No accept loses the map it replaces, unless it had archived another one. *)
THEOREM AcceptedMapsAreKept == MapSpec => []MapsAreKept
  <1>1. MapInv => MapsAreKept BY DEF MapInv, Kept, MapsAreKept
  <1> QED BY <1>1, MapInvHolds, PTL

(* What a guarded command writes is about the map it names.                 *)
THEOREM GuardedWorkHoldsItsMap == MapSpec => []GuardedWorkIsAboutItsMap
  <1>1. MapInv => GuardedWorkIsAboutItsMap BY DEF MapInv
  <1> QED BY <1>1, MapInvHolds, PTL

-----------------------------------------------------------------------------
(* The scan records.                                                       *)

USE DEF Roles, Current, Supported

\* A payload has the fields that Built gives it.
Shaped(p) ==
  /\ p = [draft |-> p.draft, identity |-> p.identity, freshness |-> p.freshness,
          status |-> p.status, material_claims |-> p.material_claims, map |-> p.map,
          skill |-> p.skill, recorder |-> p.recorder, engine |-> p.engine]
  /\ p.map = [id |-> p.map.id, file |-> p.map.file]
  /\ p.freshness = [e \in DOMAIN p.draft.evidence |-> p.freshness[e]]
  /\ p.identity = [e \in DOMAIN p.draft.evidence |->
                    [source |-> p.identity[e].source, method |-> p.identity[e].method,
                     selected |-> p.identity[e].selected]]

\* A record keeps the payload it was made with in its digest.
RecordsMade ==
  /\ records = [i \in DOMAIN records |-> [payload |-> records[i].payload,
                                          digest |-> records[i].digest]]
  /\ \A i \in DOMAIN records : Shaped(records[i].digest) /\ Persisted(records[i].digest)

Codes(p) == RecorderCodes(p) \cup MapCodes(p) \cup EvidenceCodes(p)

\* An undisturbed verification has found what there is to find so far.
VerifierKnows ==
  \/ verifier = NoVerifier
  \/ /\ verifier.at \in {"map", "evidence"}
     /\ verifier = [at |-> verifier.at, id |-> verifier.id, payload |-> verifier.payload,
                    codes |-> verifier.codes, steady |-> verifier.steady]
     /\ Shaped(verifier.payload) /\ Persisted(verifier.payload)
     /\ verifier.steady /\ verifier.at = "map" =>
          verifier.codes = RecorderCodes(verifier.payload)
     /\ verifier.steady /\ verifier.at = "evidence" =>
          verifier.codes = RecorderCodes(verifier.payload) \cup MapCodes(verifier.payload)

VerdictKnows ==
  verdict # NoVerdict =>
    /\ verdict = [payload |-> verdict.payload, steady |-> verdict.steady, codes |-> verdict.codes]
    /\ Shaped(verdict.payload) /\ Persisted(verdict.payload)
    /\ verdict.steady => verdict.codes \ {"report"} = Codes(verdict.payload)

IInv == RecordsMade /\ VerifierKnows /\ VerdictKnows

-----------------------------------------------------------------------------
(* The record that append makes                                            *)

LEMMA FreshnessAgrees ==
  ASSUME NEW s PROVE FreshnessOf(s) = ExpectedFreshness(s)
BY SourceAssumption DEF FreshnessOf, ExpectedFreshness

LEMMA BuiltIsShaped == ASSUME NEW d, NEW w PROVE Shaped(Built(d, w))
BY DEF Shaped, Built, Materialized, Identity, Freshness

LEMMA BuiltIsPersisted ==
  ASSUME NEW d, NEW w, Appendable(d, w) PROVE Persisted(Built(d, w))
<1> DEFINE p == Built(d, w)
<1>1. p.draft = d /\ p.freshness = Freshness(d) /\ p.identity = Materialized(d, w)
      /\ p.status = ScanStatus(d) /\ p.material_claims = MaterialCount(d)
  BY DEF Built
<1>2. ASSUME NEW e \in DOMAIN d.evidence
      PROVE /\ (p.identity[e].selected = Missing) <=> (e \notin InFiles(d))
            /\ p.freshness[e] = ExpectedFreshness(d.evidence[e].source)
            /\ p.identity[e].source = d.evidence[e].source
            /\ p.identity[e].method = d.evidence[e].method
  <2>1. p.identity[e] = Identity(d, e, w)
    BY <1>1 DEF Materialized
  <2>2. p.freshness[e] = ExpectedFreshness(d.evidence[e].source)
    BY <1>1, FreshnessAgrees DEF Freshness
  <2>3. e \in InFiles(d) => Usable(w, d.evidence[e].source)
    BY DEF Appendable
  <2> QED BY <2>1, <2>2, <2>3 DEF Identity, Selected, Usable
<1>3. Resolved(d, {d.claims[k].element : k \in DOMAIN d.claims})
  BY DEF Appendable, Resolved
<1>4. Consistent(d) /\ FreshEnough(d, p.freshness)
  BY <1>1 DEF Appendable
<1> QED BY <1>1, <1>2, <1>3, <1>4 DEF Persisted, EvidencePersisted

\* Verifying finds nothing exactly when appending again would make the same
\* record on evidence that is current.
LEMMA Exact ==
  ASSUME NEW p, Shaped(p), Persisted(p)
  PROVE  Codes(p) = {} <=>
           /\ Appendable(p.draft, world) /\ Built(p.draft, world) = p
           /\ \A e \in DOMAIN p.freshness : p.freshness[e] \in Current
<1> DEFINE d == p.draft
<1>0. /\ \A e \in DOMAIN d.evidence :
           /\ (p.identity[e].selected = Missing) <=> (e \notin InFiles(d))
           /\ p.freshness[e] = ExpectedFreshness(d.evidence[e].source)
           /\ p.identity[e].source = d.evidence[e].source
           /\ p.identity[e].method = d.evidence[e].method
      /\ Resolved(d, {d.claims[k].element : k \in DOMAIN d.claims})
      /\ Consistent(d) /\ FreshEnough(d, p.freshness)
      /\ p.status = ScanStatus(d) /\ p.material_claims = MaterialCount(d)
  BY DEF Persisted, EvidencePersisted
<1>1. DOMAIN p.freshness = DOMAIN d.evidence
  BY DEF Shaped
<1>2. p.freshness = Freshness(d)
  BY <1>0, FreshnessAgrees DEF Shaped, Freshness
<1>3. RecorderCodes(p) = {} <=> /\ p.recorder = world.recorder /\ p.skill = world.skill
                                /\ world.engine # Broken /\ p.engine = world.engine
  BY DEF RecorderCodes
<1>4. MapCodes(p) = {} <=>
        /\ MapLoads(world) /\ p.map = [id |-> world.map.id, file |-> world.map.file]
        /\ \A k \in DOMAIN d.claims : d.claims[k].element \in world.map.elements
  BY DEF MapCodes
<1>5. EvidenceCodes(p) = {} <=>
        /\ \A e \in InFiles(d) : /\ Usable(world, d.evidence[e].source)
                                 /\ p.identity[e] = Identity(d, e, world)
        /\ \A e \in DOMAIN p.freshness \ InFiles(d) : p.freshness[e] # "unverifiable"
  BY DEF EvidenceCodes
<1>6. InFiles(d) \subseteq DOMAIN d.evidence
  BY DEF InFiles
<1>7. (\A e \in DOMAIN p.freshness \ InFiles(d) : p.freshness[e] # "unverifiable")
        <=> (\A e \in DOMAIN p.freshness : p.freshness[e] \in Current)
  BY <1>0, <1>1 DEF ExpectedFreshness, InFiles
<1>8. ASSUME NEW e \in DOMAIN d.evidence \ InFiles(d)
      PROVE p.identity[e] = Identity(d, e, world)
  BY <1>0 DEF Identity, Shaped
<1>9. (\A e \in InFiles(d) : p.identity[e] = Identity(d, e, world))
        <=> p.identity = Materialized(d, world)
  <2>1. p.identity = Materialized(d, world)
          => \A e \in InFiles(d) : p.identity[e] = Identity(d, e, world)
    BY <1>6 DEF Materialized
  <2>2. (\A e \in InFiles(d) : p.identity[e] = Identity(d, e, world))
          => \A e \in DOMAIN d.evidence : p.identity[e] = Identity(d, e, world)
    BY <1>8
  <2>3. p.identity = [e \in DOMAIN d.evidence |-> p.identity[e]]
    BY DEF Shaped
  <2> QED BY <2>1, <2>2, <2>3 DEF Materialized
<1>10. Resolved(d, world.map.elements)
         <=> \A k \in DOMAIN d.claims : d.claims[k].element \in world.map.elements
  BY <1>0 DEF Resolved
<1>11. Appendable(d, world) <=>
         /\ MapLoads(world)
         /\ \A k \in DOMAIN d.claims : d.claims[k].element \in world.map.elements
         /\ world.engine # Broken
         /\ \A e \in InFiles(d) : Usable(world, d.evidence[e].source)
  BY <1>0, <1>2, <1>10 DEF Appendable
<1>12. Built(d, world) = p <=>
         /\ p.identity = Materialized(d, world)
         /\ p.map = [id |-> world.map.id, file |-> world.map.file]
         /\ p.skill = world.skill /\ p.recorder = world.recorder /\ p.engine = world.engine
  BY <1>0, <1>2 DEF Built, Shaped
<1>13. Codes(p) = {} <=> RecorderCodes(p) = {} /\ MapCodes(p) = {} /\ EvidenceCodes(p) = {}
  BY DEF Codes
<1> QED BY <1>3, <1>4, <1>5, <1>7, <1>9, <1>11, <1>12, <1>13

-----------------------------------------------------------------------------
(* The invariant                                                           *)

LEMMA InitIInv == RecordsInit => IInv
BY DEF RecordsInit, IInv, RecordsMade, VerifierKnows, VerdictKnows

\* A change of the world is seen by who verifies.
LEMMA ChangedKnows ==
  ASSUME IInv, Changed PROVE (VerifierKnows /\ VerdictKnows)'
<1>1. VerifierKnows'
  BY DEF IInv, VerifierKnows, Changed, NoVerifier
<1>2. VerdictKnows'
  <2>1. CASE verdict = NoVerdict
    BY <2>1 DEF VerdictKnows, Changed
  <2>2. CASE verdict # NoVerdict
    <3>1. verdict = [payload |-> verdict.payload, steady |-> verdict.steady, codes |-> verdict.codes]
          /\ Shaped(verdict.payload) /\ Persisted(verdict.payload)
      BY <2>2 DEF IInv, VerdictKnows
    <3>2. verdict' = [verdict EXCEPT !.steady = FALSE]
      BY <2>2 DEF Changed
    <3>3. verdict' = [payload |-> verdict.payload, steady |-> FALSE, codes |-> verdict.codes]
      BY <3>1, <3>2
    <3> QED BY <3>1, <3>3 DEF VerdictKnows
  <2> QED BY <2>1, <2>2
<1> QED BY <1>1, <1>2

LEMMA AppendMakes ==
  ASSUME IInv, NEW reported \in BOOLEAN, Append(reported) PROVE RecordsMade'
<1> DEFINE id == Cardinality(DOMAIN records) + 1
           p  == Built(draft, world)
<1>1. Shaped(p) /\ Persisted(p)
  BY BuiltIsShaped, BuiltIsPersisted DEF Append
<1>2. records' = [i \in DOMAIN records \cup {id} |->
                   IF i = id THEN [payload |-> p, digest |-> p] ELSE records[i]]
  BY DEF Append
<1> HIDE DEF id, p
<1> QED BY <1>1, <1>2 DEF IInv, RecordsMade

LEMMA StepIInv == IInv /\ [RecordsNext]_recordVars => IInv'
<1> SUFFICES ASSUME IInv, [RecordsNext]_recordVars PROVE IInv'
  OBVIOUS
<1> USE DEF IInv
<1>1. ASSUME UNCHANGED records PROVE RecordsMade'
  BY <1>1 DEF RecordsMade
<1>2. ASSUME UNCHANGED <<world, verifier>> PROVE VerifierKnows'
  BY <1>2 DEF VerifierKnows, RecorderCodes, MapCodes, MapLoads
<1>3. ASSUME UNCHANGED <<world, verdict>> PROVE VerdictKnows'
  BY <1>3 DEF VerdictKnows, Codes, RecorderCodes, MapCodes, EvidenceCodes, MapLoads, Identity, Selected, Usable
<1>4. CASE InitDraft \/ AuthorDraft
  BY <1>4, <1>1, <1>2, <1>3 DEF InitDraft, AuthorDraft
<1>5. CASE \E reported \in BOOLEAN : Append(reported)
  BY <1>5, AppendMakes, <1>2, <1>3 DEF Append
<1>6. CASE WriteReport \/ AppendDies \/ \E i \in DOMAIN records : Render(i)
  BY <1>6, <1>1, <1>2, <1>3 DEF WriteReport, AppendDies, Render
<1>7. CASE \E i \in DOMAIN records : BeginVerify(i)
  <2> PICK i \in DOMAIN records : BeginVerify(i)
    BY <1>7
  <2>1. RecordsMade' /\ VerdictKnows'
    BY <1>1, <1>3 DEF BeginVerify
  <2>2. records[i].payload = records[i].digest /\ Shaped(records[i].payload) /\ Persisted(records[i].payload)
    BY DEF BeginVerify, Readable, Intact, RecordsMade
  <2> DEFINE q == records[i].payload
  <2>3. verifier' = [at |-> "map", id |-> i, payload |-> q, codes |-> RecorderCodes(q), steady |-> TRUE]
        /\ world' = world
    BY DEF BeginVerify
  <2>4. RecorderCodes(verifier.payload)' = RecorderCodes(q)
    BY <2>3 DEF RecorderCodes
  <2> HIDE DEF q
  <2>5. VerifierKnows'
    BY <2>2, <2>3, <2>4 DEF VerifierKnows, q
  <2> QED BY <2>1, <2>5
<1>8. CASE VerifyMap
  <2>1. RecordsMade' /\ VerdictKnows'
    BY <1>8, <1>1, <1>3 DEF VerifyMap
  <2>2. VerifierKnows'
    <3> DEFINE p == verifier.payload
    <3>1. /\ verifier = [at |-> "map", id |-> verifier.id, payload |-> p,
                         codes |-> verifier.codes, steady |-> verifier.steady]
          /\ Shaped(p) /\ Persisted(p)
          /\ verifier.steady => verifier.codes = RecorderCodes(p)
      BY <1>8 DEF VerifyMap, VerifierKnows, NoVerifier
    <3>2. verifier' = [verifier EXCEPT !.at = "evidence", !.codes = @ \cup MapCodes(p)]
          /\ world' = world
      BY <1>8 DEF VerifyMap
    <3>3. verifier' = [at |-> "evidence", id |-> verifier.id, payload |-> p,
                       codes |-> verifier.codes \cup MapCodes(p), steady |-> verifier.steady]
      BY <3>1, <3>2
    <3>4. /\ RecorderCodes(verifier.payload)' = RecorderCodes(p)
          /\ MapCodes(verifier.payload)' = MapCodes(p)
      BY <3>2, <3>3 DEF RecorderCodes, MapCodes, MapLoads
    <3> HIDE DEF p
    <3> QED BY <3>1, <3>3, <3>4 DEF VerifierKnows
  <2> QED BY <2>1, <2>2
<1>9. CASE \E reported \in BOOLEAN : ConcludeVerify(reported)
  <2> PICK reported \in BOOLEAN : ConcludeVerify(reported)
    BY <1>9
  <2>1. RecordsMade' /\ VerifierKnows'
    BY <1>1 DEF ConcludeVerify, VerifierKnows
  <2> DEFINE p == verifier.payload
             c == verifier.codes \cup EvidenceCodes(p)
                    \cup (IF reported THEN ReportCodes(verifier) ELSE {})
  <2>2. verdict' = [payload |-> p, steady |-> verifier.steady, codes |-> c] /\ world' = world
    BY DEF ConcludeVerify
  <2>3. /\ Shaped(p) /\ Persisted(p)
        /\ verifier.steady => verifier.codes = RecorderCodes(p) \cup MapCodes(p)
    BY DEF ConcludeVerify, VerifierKnows, NoVerifier
  <2>4. ReportCodes(verifier) \subseteq {"report"}
    BY DEF ReportCodes
  <2>5. "report" \notin RecorderCodes(p) \cup MapCodes(p) \cup EvidenceCodes(p)
    BY DEF RecorderCodes, MapCodes, EvidenceCodes
  <2>6. verifier.steady => c \ {"report"} = Codes(p)
    BY <2>3, <2>4, <2>5 DEF Codes
  <2>7. Codes(verdict.payload)' = Codes(p)
    BY <2>2 DEF Codes, RecorderCodes, MapCodes, EvidenceCodes, MapLoads, Identity, Selected, Usable
  <2> HIDE DEF p, c
  <2>8. VerdictKnows'
    BY <2>2, <2>3, <2>6, <2>7 DEF VerdictKnows
  <2> QED BY <2>1, <2>8
<1>10. CASE \E i \in DOMAIN records : EditRecord(i)
  <2> PICK i \in DOMAIN records : EditRecord(i)
    BY <1>10
  <2> PICK s : records' = [records EXCEPT ![i].payload.status = s]
    BY DEF EditRecord
  <2>1. RecordsMade'
    <3>1. DOMAIN records' = DOMAIN records
      OBVIOUS
    <3>2. ASSUME NEW j \in DOMAIN records
          PROVE /\ records[j] = [payload |-> records[j].payload, digest |-> records[j].digest]
                /\ records'[j] = [payload |-> records'[j].payload, digest |-> records[j].digest]
      BY DEF RecordsMade
    <3>3. records' = [j \in DOMAIN records |-> records'[j]]
      BY DEF RecordsMade
    <3>4. \A j \in DOMAIN records : records'[j].digest = records[j].digest
      BY <3>2
    <3> QED BY <3>1, <3>2, <3>3, <3>4 DEF RecordsMade
  <2>2. Changed
    BY DEF EditRecord
  <2> QED BY <2>1, <2>2, ChangedKnows
<1>11. CASE \/ \E i \in DOMAIN records : EditReport(i)
            \/ \E f \in Files, content \in FileContents \cup {Missing} : EditFile(f, content)
            \/ \E part \in {"skill", "recorder", "engine"} : Release(part)
            \/ BreakEngine \/ SpoilMapFile
            \/ \E elements \in MapElements : AcceptMap(elements)
  <2>1. Changed /\ UNCHANGED records
    BY <1>11 DEF EditReport, EditFile, Release, BreakEngine, SpoilMapFile, AcceptMap
  <2> QED BY <2>1, <1>1, ChangedKnows
<1>12. CASE UNCHANGED recordVars
  BY <1>12, <1>1, <1>2, <1>3 DEF recordVars
<1> QED BY <1>4, <1>5, <1>6, <1>7, <1>8, <1>9, <1>10, <1>11, <1>12 DEF RecordsNext

-----------------------------------------------------------------------------

\* Every record in the log, unless somebody edited it, passes the checks of
\* the persisted form: what _build_record derives, _validate_persisted_record
\* derives again.
THEOREM RecordsStayReadable == RecordsSpec => []RecordsReadable
<1>1. IInv => RecordsReadable
  BY DEF IInv, RecordsMade, RecordsReadable, Intact
<1> QED BY InitIInv, StepIInv, <1>1, PTL DEF RecordsSpec

\* A verification during which nothing changed finds no code exactly when the
\* draft, appended again, would make the same record on current evidence.
THEOREM VerdictsAreExact == RecordsSpec => []VerdictIsExact
<1>1. IInv => VerdictIsExact
  <2> SUFFICES ASSUME IInv, verdict # NoVerdict, verdict.steady
               PROVE LET p == verdict.payload IN
                     (verdict.codes \ {"report"} = {}) <=>
                       /\ Appendable(p.draft, world) /\ Built(p.draft, world) = p
                       /\ \A e \in DOMAIN p.freshness : p.freshness[e] \in Current
    BY DEF VerdictIsExact
  <2>1. /\ Shaped(verdict.payload) /\ Persisted(verdict.payload)
        /\ verdict.codes \ {"report"} = Codes(verdict.payload)
    BY DEF IInv, VerdictKnows
  <2> QED BY <2>1, Exact
<1> QED BY InitIInv, StepIInv, <1>1, PTL DEF RecordsSpec
=============================================================================
