----------------------- MODULE InstallationAnalytics -----------------------
(***************************************************************************)
(* Opt-in installation analytics: the client (installation_analytics.py),   *)
(* whose commands load the policy file, act and write their copy back, and  *)
(* the owner's service (analytics_service/server.py), which counts each     *)
(* installation once and erases it on request.                             *)
(***************************************************************************)
EXTENDS Naturals, Registry

CONSTANTS
  Clients,         \* processes running a command
  ClientToken,     \* [Clients -> bearer tokens]
  PackageVersions, \* a set of numbers; a package is only ever upgraded
  NoInstallation, NoVersion, NoEvent, NoCopy,
  MaxCommands      \* bound on the commands started

ASSUME AnalyticsAssumption == NoInstallation \notin Nat \ {0}

VARIABLES
  consent,     \* the policy file: [mode, prompted, installation, sent, pending]
  client,      \* [Clients -> [step, command, copy, event]]
  package,     \* the installed package's version
  minted,      \* installation ids made so far: 1 .. minted
  built,       \* event ids made so far: 1 .. built
  requests,    \* events on their way to the service: [from, event]
  installs,    \* the service's table: installation -> [principal, version, old]
  events,      \* its table of events: event id -> [installation, principal]
  recorded,    \* history: <<installation, version>> the service acknowledged or stored
  erased,      \* history: <<installation, token>> told to be deleted
  behind,      \* history: clients whose command was under way as an erase ended
  sealed,      \* history: 1 .. sealed are the events built before the last erase ended
  revived,     \* history: erased installations that one of these used again
  commands

serviceVars == <<requests, installs, events>>
fileVars == <<consent, package, minted, built>>
eraseHistory == <<erased, behind, sealed>>
analyticsHistory == <<recorded, eraseHistory, revived, commands>>
analyticsVars == <<fileVars, client, serviceVars, analyticsHistory>>

IdleClient == [step |-> "idle", command |-> "none", copy |-> NoCopy, event |-> NoEvent]
In(c, step) == client[c].step = step
Advance(c, step) == client' = [client EXCEPT ![c].step = step]
Done(c) == client' = [client EXCEPT ![c] = IdleClient]

\* default_policy
Unconfigured ==
  [mode |-> "unconfigured", prompted |-> FALSE, installation |-> NoInstallation,
   sent |-> NoVersion, pending |-> NoEvent]

-----------------------------------------------------------------------------
(* The client.  A command works on the copy it loaded.                     *)

\* The service has deleted an installation that the policy may still name.
BeingErased(i) == \E c \in Clients : In(c, "erased") /\ client[c].copy.installation = i

Erased(i) == \E x \in erased : x[1] = i

\* The whole policy is replaced by the copy of a command, which may have been
\* loaded before an erase.
WriteBack(c, copy) ==
  /\ consent' = copy
  /\ revived' = IF c \in behind /\ Erased(copy.installation)
                THEN revived \cup {copy.installation} ELSE revived

LoadPolicy(c, command) ==
  /\ In(c, "idle") /\ commands < MaxCommands /\ commands' = commands + 1
  /\ client' = [client EXCEPT ![c] =
       [IdleClient EXCEPT !.step = "loaded", !.command = command, !.copy = consent]]
  /\ behind' = behind \ {c}
  /\ UNCHANGED <<fileVars, serviceVars, recorded, erased, sealed, revived>>

Doing(c, command) == In(c, "loaded") /\ client[c].command = command

Prompt(c) ==
  /\ Doing(c, "prompt")
  /\ LET copy == client[c].copy IN
     IF copy.mode = "unconfigured" /\ ~copy.prompted
     THEN WriteBack(c, [copy EXCEPT !.prompted = TRUE])
     ELSE UNCHANGED <<consent, revived>>
  /\ Done(c)
  /\ UNCHANGED <<package, minted, built, serviceVars, recorded, eraseHistory, commands>>

\* enable keeps an installation id it finds and mints one otherwise.
EnableAnalytics(c) ==
  /\ Doing(c, "enable")
  /\ LET copy == client[c].copy
         fresh == copy.installation = NoInstallation
     IN /\ WriteBack(c, [copy EXCEPT !.mode = "on", !.prompted = TRUE,
                            !.installation = IF fresh THEN minted + 1 ELSE @])
        /\ minted' = IF fresh THEN minted + 1 ELSE minted
  /\ Done(c)
  /\ UNCHANGED <<package, built, serviceVars, recorded, eraseHistory, commands>>

DisableAnalytics(c) ==
  /\ Doing(c, "disable")
  /\ WriteBack(c, [client[c].copy EXCEPT !.mode = "off", !.prompted = TRUE, !.pending = NoEvent])
  /\ Done(c)
  /\ UNCHANGED <<package, minted, built, serviceVars, recorded, eraseHistory, commands>>

\* _next_event: the pending event again, or one for a version not yet sent.
NextEvent(copy) ==
  CASE copy.pending # NoEvent -> copy.pending
    [] copy.pending = NoEvent /\ copy.sent = package -> NoEvent
    [] OTHER -> [id |-> built + 1, installation |-> copy.installation, version |-> package]

\* check_in, until the event is saved as pending.
CheckIn(c) ==
  /\ Doing(c, "check-in")
  /\ LET copy == client[c].copy
         event == NextEvent(copy)
     IN IF copy.mode # "on" \/ event = NoEvent
        THEN Done(c) /\ UNCHANGED <<consent, built, revived>>
        ELSE /\ WriteBack(c, [copy EXCEPT !.pending = event])
             /\ built' = IF copy.pending = NoEvent THEN built + 1 ELSE built
             /\ client' = [client EXCEPT ![c].step = "send", ![c].copy = consent', ![c].event = event]
  /\ UNCHANGED <<package, minted, serviceVars, recorded, eraseHistory, commands>>

SendEvent(c) ==
  /\ In(c, "send") /\ Advance(c, "waiting")
  /\ requests' = requests \cup {[from |-> c, event |-> client[c].event]}
  /\ UNCHANGED <<fileVars, installs, events, analyticsHistory>>

EventGivesUp(c) ==
  /\ In(c, "waiting") /\ Advance(c, "failed")
  /\ UNCHANGED <<fileVars, serviceVars, analyticsHistory>>

EventFailed(c) ==
  /\ In(c, "failed") /\ WriteBack(c, client[c].copy) /\ Done(c)
  /\ UNCHANGED <<package, minted, built, serviceVars, recorded, eraseHistory, commands>>

\* Mutant: the package's version is entered, not the one the event carried.
SentVersionNow(event) == package
SentVersion(event) == event.version

EventRecorded(c) ==
  /\ In(c, "recorded") /\ Done(c)
  /\ WriteBack(c, [client[c].copy EXCEPT !.sent = SentVersion(client[c].event), !.pending = NoEvent])
  /\ UNCHANGED <<package, minted, built, serviceVars, recorded, eraseHistory, commands>>

\* The policy after a deletion: no identity is left.
\* Mutant: the identity stays for the next enable.
ForgottenKept(copy) == [Unconfigured EXCEPT !.mode = "off", !.prompted = TRUE, !.installation = copy.installation]
Forgotten(copy) == [Unconfigured EXCEPT !.mode = "off", !.prompted = TRUE]

\* erase: without an identity only the policy changes; else the service is
\* asked first.  It deletes what this token recorded, and says deleted either way.
Erase(c, reached, answered) ==
  /\ Doing(c, "erase")
  /\ answered => reached
  /\ LET i == client[c].copy.installation
         token == ClientToken[c]
         gone == i \in DOMAIN installs /\ installs[i].principal = token
     IN IF i = NoInstallation
        THEN /\ consent' = [client[c].copy EXCEPT !.mode = "off", !.prompted = TRUE]
             /\ Done(c) /\ UNCHANGED <<installs, events, erased>>
        ELSE /\ IF reached /\ gone
                THEN /\ installs' = Drop(installs, {i})
                     /\ events' = Restrict(events, {e \in DOMAIN events : events[e].installation # i})
                ELSE UNCHANGED <<installs, events>>
             /\ IF answered
                THEN erased' = erased \cup {<<i, token>>} /\ Advance(c, "erased")
                ELSE Done(c) /\ UNCHANGED erased
             /\ UNCHANGED consent
  /\ UNCHANGED <<package, minted, built, requests, recorded, behind, sealed, revived, commands>>

\* What is under way, and what was built, as an erase ends.
EraseOver(c) ==
  /\ behind' = behind \cup {d \in Clients \ {c} : ~In(d, "idle")}
  /\ sealed' = built

EraseSaved(c) ==
  /\ In(c, "erased") /\ consent' = Forgotten(client[c].copy) /\ Done(c) /\ EraseOver(c)
  /\ UNCHANGED <<package, minted, built, serviceVars, recorded, erased, revived, commands>>

\* A stopped erase leaves the identity in the policy after the deletion.
ClientDies(c) ==
  LET i == client[c].copy.installation IN
  /\ ~In(c, "idle") /\ Done(c)
  /\ IF In(c, "erased")
     THEN /\ EraseOver(c)
          /\ revived' = IF consent.installation = i THEN revived \cup {i} ELSE revived
     ELSE UNCHANGED <<behind, sealed, revived>>
  /\ UNCHANGED <<fileVars, serviceVars, recorded, erased, commands>>

Upgrade ==
  /\ \E v \in PackageVersions : v > package /\ package' = v
  /\ UNCHANGED <<consent, client, minted, built, serviceVars, analyticsHistory>>

-----------------------------------------------------------------------------
(* The service.                                                            *)

\* Installations within the retention; events go with their installation.
Retained == {i \in DOMAIN installs : ~installs[i].old}

\* submit: purge, then the event once, bound to its installation and principal.
Accepted(event, token) ==
  LET i == event.installation
      known == event.id \in DOMAIN events /\ events[event.id].installation \in Retained
  IN IF known THEN events[event.id] = [installation |-> i, principal |-> token]
     ELSE i \in Retained => installs[i].principal = token

HandleEvent(request, refused, delivered) ==
  LET event == request.event
      i == event.installation
      token == ClientToken[request.from]
      taken == ~refused /\ Accepted(event, token)
      known == event.id \in DOMAIN events /\ events[event.id].installation \in Retained
      row == [principal |-> token, version |-> event.version, old |-> FALSE]
      keptEvents == Restrict(events, {e \in DOMAIN events : events[e].installation \in Retained})
  IN
  /\ request \in requests /\ requests' = requests \ {request}
  /\ IF refused THEN UNCHANGED <<installs, events>>
     ELSE IF ~taken \/ known
     THEN installs' = Restrict(installs, Retained) /\ events' = keptEvents
     ELSE /\ installs' = Put(Restrict(installs, Retained), i, row)
          /\ events' = Put(keptEvents, event.id, [installation |-> i, principal |-> token])
  /\ recorded' = IF taken THEN recorded \cup {<<i, event.version>>} ELSE recorded
  /\ client' = IF In(request.from, "waiting") /\ client[request.from].event = event
               THEN [client EXCEPT ![request.from].step =
                       IF taken /\ delivered THEN "recorded" ELSE "failed"]
               ELSE client
  /\ revived' = IF /\ taken /\ ~known /\ <<i, token>> \in erased
                   /\ event.id <= sealed \/ BeingErased(i)
                THEN revived \cup {i} ELSE revived
  /\ UNCHANGED <<fileVars, eraseHistory, commands>>

EventLost(request) ==
  /\ request \in requests /\ requests' = requests \ {request}
  /\ UNCHANGED <<fileVars, client, installs, events, analyticsHistory>>

Outlived(i) ==
  /\ i \in DOMAIN installs /\ ~installs[i].old
  /\ installs' = [installs EXCEPT ![i].old = TRUE]
  /\ UNCHANGED <<fileVars, client, requests, events, analyticsHistory>>

AnalyticsInit ==
  /\ consent = Unconfigured /\ client = [c \in Clients |-> IdleClient]
  /\ package = CHOOSE v \in PackageVersions : \A w \in PackageVersions : v <= w
  /\ minted = 0 /\ built = 0 /\ requests = {} /\ installs = <<>> /\ events = <<>>
  /\ recorded = {} /\ erased = {} /\ behind = {} /\ sealed = 0 /\ revived = {} /\ commands = 0

AnalyticsNext ==
  \/ \E c \in Clients :
       \/ \E k \in {"prompt", "enable", "disable", "check-in", "erase"} : LoadPolicy(c, k)
       \/ Prompt(c) \/ EnableAnalytics(c) \/ DisableAnalytics(c) \/ CheckIn(c) \/ SendEvent(c)
       \/ EventGivesUp(c) \/ EventFailed(c) \/ EventRecorded(c)
       \/ \E reached, answered \in BOOLEAN : Erase(c, reached, answered)
       \/ EraseSaved(c) \/ ClientDies(c)
  \/ \E r \in requests :
       \/ EventLost(r)
       \/ \E refused, delivered \in BOOLEAN : HandleEvent(r, refused, delivered)
  \/ \E i \in DOMAIN installs : Outlived(i)
  \/ Upgrade

AnalyticsSpec == AnalyticsInit /\ [][AnalyticsNext]_analyticsVars

-----------------------------------------------------------------------------
\* Types; and what validate_policy refuses to load is never saved: enabled
\* without an identity, or a pending event of another identity.
AnalyticsTypeOK ==
  /\ consent.mode \in {"unconfigured", "on", "off"}
  /\ consent.mode = "on" => consent.installation \in 1 .. minted
  /\ consent.pending # NoEvent => consent.pending.installation = consent.installation
  /\ DOMAIN events \subseteq 1 .. built
  /\ \A e \in DOMAIN events :
       events[e].installation \in DOMAIN installs
       /\ events[e].principal = installs[events[e].installation].principal

\* A version the policy counts as sent was recorded for this installation,
\* across lost answers, retries of an event prepared before an upgrade, and
\* commands that write back what they loaded.
SentVersionRecorded ==
  consent.sent # NoVersion => <<consent.installation, consent.sent>> \in recorded

\* An installation its token erased comes back in three ways only: an event
\* built before the erase ended reaches the service after it, a command under
\* way as it ended writes its copy of the policy back, or the process that
\* erased it dies before it has written the policy.  Commands that begin
\* later, and those that held the identity and wrote nothing, bring nothing back.
ErasedStaysErased ==
  \A x \in erased :
    x[1] \in DOMAIN installs /\ installs[x[1]].principal = x[2] => x[1] \in revived
=============================================================================
