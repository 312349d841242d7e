---------------------------- MODULE UpdatePolicy ----------------------------
(***************************************************************************)
(* The update policy (update_policy.py): one policy file, a non-blocking    *)
(* lock, and any number of processes that run `maintain` or `check-now`     *)
(* while the owner enables, disables and changes the installation.  The     *)
(* replacement itself is GitHub CLI's (`gh skill update`): external.        *)
(***************************************************************************)
EXTENDS Naturals, FiniteSets

CONSTANTS
  Checks,          \* processes that run maintain or check-now
  Sources,         \* canonical repository URLs
  NoSource, NoCheck, NotSet,
  FreshFor, Backoff,  \* SUCCESS_LEASE_SECONDS, TRANSIENT_BACKOFF_SECONDS
  MaxNow,          \* bound on the clock
  MaxChanges,      \* bound on the changes the owner makes to the installation
  MaxChoices,      \* bound on the owner's enable and disable commands
  MaxDeaths        \* bound on the processes that die

ASSUME UpdateAssumption ==
  /\ NoCheck \notin Checks /\ NoSource \notin Sources /\ NotSet \notin Nat
  /\ {FreshFor, Backoff, MaxNow, MaxChanges, MaxChoices, MaxDeaths} \subseteq Nat

VARIABLES
  now,
  choice,      \* the policy file: [mode, prompted, bound, due, suspended]
  lock,        \* the process that holds the lock, or NoCheck
  check,       \* [Checks -> [step, force, seen, succeeded]]
  orphans,     \* native updates whose process died while they ran
  host,        \* the installed copy: [listing, source, eligible, files, manifest]
  distrusted,  \* history: an integrity failure suspended auto; no enable since
  changes, choices, deaths

updateBounds == <<changes, choices, deaths>>
updateVars == <<now, choice, lock, check, orphans, host, distrusted, updateBounds>>

PolicyModes == {"unconfigured", "off", "notify", "auto"}
Dues == 0..(MaxNow + FreshFor + Backoff) \cup {NotSet}
Choice == [mode : PolicyModes, prompted : BOOLEAN, bound : Sources \cup {NoSource},
           due : Dues, suspended : BOOLEAN]
Host == [listing : {"one", "unclear", "failed"}, source : Sources, eligible : BOOLEAN,
         files : 0..2, manifest : 1..2]
NoChoice == [mode |-> "unconfigured", prompted |-> FALSE, bound |-> NoSource,
             due |-> NotSet, suspended |-> FALSE]
IdleCheck == [step |-> "idle", force |-> FALSE, seen |-> NoChoice, succeeded |-> FALSE]

UpdateTypeOK ==
  /\ now \in 0..MaxNow
  /\ choice \in Choice
  /\ lock \in Checks \cup {NoCheck}
  /\ check \in [Checks -> [step : {"idle", "prompt", "due", "holding", "native", "ended"},
                           force : BOOLEAN, seen : Choice, succeeded : BOOLEAN]]
  /\ orphans \in 0..MaxDeaths
  /\ host \in Host
  /\ distrusted \in BOOLEAN
  /\ changes \in 0..MaxChanges /\ choices \in 0..MaxChoices /\ deaths \in 0..MaxDeaths

UpdateInit ==
  /\ now = 0 /\ choice = NoChoice /\ lock = NoCheck
  /\ check = [c \in Checks |-> IdleCheck]
  /\ orphans = 0 /\ distrusted = FALSE
  /\ host \in {h \in Host : h.listing = "one" /\ h.eligible /\ h.files = 1 /\ h.manifest = 1}
  /\ changes = 0 /\ choices = 0 /\ deaths = 0

-----------------------------------------------------------------------------
(* What a process finds on the device.                                     *)

\* discover_installation: GitHub CLI fails, or does not name exactly this copy.
Discovered == host.listing = "one"
Unavailable == host.listing = "failed"

\* verify_package_manifest; files = 0 stands for a locally modified or a
\* half-replaced tree, which no release manifest describes.
Verified == host.files = host.manifest

\* _bind compares what was enabled with what is installed.
BoundTo(policy) == policy.bound \in {NoSource, host.source}

\* effective_notify_only: check-now outside auto mode only looks.
ReadOnlyAlways(policy, force) == force
ReadOnly(policy, force) == force /\ policy.mode # "auto"

\* The tests maintain makes twice: before it tries the lock, and under it.
Proceeds(policy, force) ==
  \/ ReadOnly(policy, force)
  \/ /\ policy.mode \in {"notify", "auto"} /\ ~policy.suspended
     /\ force \/ policy.due = NotSet \/ now >= policy.due

CheckAt(c, step) == check[c].step = step
Leave(c) == check' = [check EXCEPT ![c] = IdleCheck]
Free(c) == lock' = IF lock = c THEN NoCheck ELSE lock

-----------------------------------------------------------------------------
(* maintain.                                                               *)

StartCheck(c, force) ==
  /\ CheckAt(c, "idle")
  /\ \/ /\ Proceeds(choice, force)
        /\ check' = [check EXCEPT ![c] = [IdleCheck EXCEPT !.step = "due", !.force = force, !.seen = choice]]
     \/ /\ ~force /\ choice.mode = "unconfigured" /\ ~choice.prompted /\ Discovered
        /\ check' = [check EXCEPT ![c] = [IdleCheck EXCEPT !.step = "prompt"]]
  /\ UNCHANGED <<now, choice, lock, orphans, host, distrusted, updateBounds>>

\* prompt: once, and only while nothing was chosen.
PromptOwner(c) ==
  /\ CheckAt(c, "prompt") /\ Leave(c)
  /\ choice' = IF lock = NoCheck /\ choice.mode = "unconfigured" /\ ~choice.prompted
               THEN [choice EXCEPT !.prompted = TRUE] ELSE choice
  /\ UNCHANGED <<now, lock, orphans, host, distrusted, updateBounds>>

\* Mutant: the policy read before the lock is good enough.
ReloadedEarly(c) == check[c].seen
Reloaded(c) == choice

\* Under the lock the policy is loaded and tested again.
TakeLock(c) ==
  /\ CheckAt(c, "due")
  /\ LET policy == Reloaded(c) IN
     IF lock = NoCheck /\ Proceeds(policy, check[c].force)
     THEN /\ lock' = c
          /\ check' = [check EXCEPT ![c].step = "holding", ![c].seen = policy]
     ELSE Leave(c) /\ UNCHANGED lock
  /\ UNCHANGED <<now, choice, orphans, host, distrusted, updateBounds>>

\* _save_outcome
Outcome(policy, success, suspend) ==
  [policy EXCEPT !.suspended = suspend, !.due = now + (IF success THEN FreshFor ELSE Backoff)]

\* The process writes its copy of the policy, releases the lock and ends.
Conclude(c, policy) ==
  /\ choice' = policy /\ Leave(c) /\ Free(c)
  /\ distrusted' = (distrusted \/ (policy.suspended /\ policy.mode = "auto"))
  /\ UNCHANGED <<now, orphans, host, updateBounds>>

\* The lock is released and nothing is written.
Withdraw(c) ==
  Leave(c) /\ Free(c) /\ UNCHANGED <<now, choice, orphans, host, distrusted, updateBounds>>

\* The package is the bound one, in auto mode, eligible and unmodified.
MayReplace(c) ==
  LET policy == check[c].seen IN
  /\ Discovered /\ BoundTo(policy) /\ ~ReadOnly(policy, check[c].force)
  /\ policy.mode = "auto" /\ host.eligible /\ Verified

\* Everything the locked part does short of starting a replacement.
Inspect(c) ==
  LET policy == check[c].seen
      looks == ReadOnly(policy, check[c].force)
  IN
  /\ CheckAt(c, "holding") /\ ~MayReplace(c)
  /\ CASE Unavailable -> Conclude(c, Outcome(policy, FALSE, FALSE))
       [] ~Unavailable /\ ~Discovered ->
            IF policy.mode = "auto" /\ ~looks
            THEN Conclude(c, Outcome(policy, FALSE, TRUE)) ELSE Withdraw(c)
       [] Discovered /\ ~BoundTo(policy) -> Conclude(c, Outcome(policy, FALSE, TRUE))
       [] Discovered /\ BoundTo(policy) /\ (looks \/ policy.mode = "notify") ->
            \E answered \in BOOLEAN : Conclude(c, Outcome(policy, answered, FALSE))
       [] Discovered /\ BoundTo(policy) /\ ~looks /\ policy.mode = "auto" ->
            IF ~host.eligible
            THEN Conclude(c, Outcome([policy EXCEPT !.mode = "notify"], TRUE, FALSE))
            ELSE Conclude(c, Outcome(policy, FALSE, TRUE))

StartNative(c) ==
  /\ CheckAt(c, "holding") /\ MayReplace(c)
  /\ check' = [check EXCEPT ![c].step = "native"]
  /\ UNCHANGED <<now, choice, lock, orphans, host, distrusted, updateBounds>>

\* `gh skill update --all`, external: it replaces the tree wholly, in part or
\* not at all, whatever its exit code says; a timeout kills it anywhere.
Replaced == {[host EXCEPT !.files = pair[1], !.manifest = pair[2]] :
               pair \in {<<2, 2>>, <<0, 2>>, <<0, host.manifest>>, <<host.files, host.manifest>>}}

NativeEnds(c) ==
  /\ CheckAt(c, "native") /\ host' \in Replaced
  /\ \E succeeded \in BOOLEAN :
       check' = [check EXCEPT ![c].step = "ended", ![c].succeeded = succeeded]
  /\ UNCHANGED <<now, choice, lock, orphans, distrusted, updateBounds>>

\* Whatever the exit code: what is installed now must be bound and verify.
CheckReplacement(c) ==
  LET sound == Discovered /\ Verified /\ BoundTo(check[c].seen) IN
  /\ CheckAt(c, "ended")
  /\ Conclude(c, Outcome(check[c].seen, sound /\ check[c].succeeded, ~sound))

-----------------------------------------------------------------------------
(* The owner and the device.                                               *)

\* enable, under the lock: auto is degraded to notify where it is unsafe.
EnableUpdates(mode) ==
  /\ lock = NoCheck /\ Discovered /\ choices < MaxChoices /\ choices' = choices + 1
  /\ choice' = [mode |-> IF mode = "auto" /\ host.eligible /\ Verified THEN "auto" ELSE "notify",
                prompted |-> TRUE, bound |-> host.source, due |-> now, suspended |-> FALSE]
  /\ distrusted' = FALSE
  /\ UNCHANGED <<now, lock, check, orphans, host, changes, deaths>>

\* disable, under the lock; what was bound stays bound.
DisableUpdates ==
  /\ lock = NoCheck /\ choices < MaxChoices /\ choices' = choices + 1
  /\ choice' = [choice EXCEPT !.mode = "off", !.prompted = TRUE, !.due = NotSet, !.suspended = FALSE]
  /\ UNCHANGED <<now, lock, check, orphans, host, distrusted, changes, deaths>>

\* The owner edits, pins, reinstalls or moves the copy; GitHub CLI comes and goes.
ChangeHost ==
  /\ changes < MaxChanges /\ changes' = changes + 1
  /\ \/ \E listing \in {"one", "unclear", "failed"} : host' = [host EXCEPT !.listing = listing]
     \/ \E source \in Sources : host' = [host EXCEPT !.source = source, !.listing = "one",
                                                     !.files = 2, !.manifest = 2]
     \/ \E eligible \in BOOLEAN : host' = [host EXCEPT !.eligible = eligible]
     \/ \E files \in {0, host.manifest} : host' = [host EXCEPT !.files = files]
  /\ host' # host
  /\ UNCHANGED <<now, choice, lock, check, orphans, distrusted, choices, deaths>>

\* A process dies.  The system frees its lock; a native update it started is a
\* process of its own, does not hold the lock, and goes on.
Die(c) ==
  /\ ~CheckAt(c, "idle") /\ deaths < MaxDeaths /\ deaths' = deaths + 1
  /\ Leave(c) /\ Free(c)
  /\ orphans' = IF CheckAt(c, "native") THEN orphans + 1 ELSE orphans
  /\ UNCHANGED <<now, choice, host, distrusted, changes, choices>>

OrphanEnds ==
  /\ orphans > 0 /\ orphans' = orphans - 1 /\ host' \in Replaced
  /\ UNCHANGED <<now, choice, lock, check, distrusted, updateBounds>>

Clock ==
  /\ now < MaxNow /\ now' = now + 1
  /\ UNCHANGED <<choice, lock, check, orphans, host, distrusted, updateBounds>>

CheckStep(c) ==
  \/ \E force \in BOOLEAN : StartCheck(c, force)
  \/ PromptOwner(c) \/ TakeLock(c) \/ Inspect(c)
  \/ StartNative(c) \/ NativeEnds(c) \/ CheckReplacement(c) \/ Die(c)

UpdateNext ==
  \/ \E c \in Checks : CheckStep(c)
  \/ \E mode \in {"auto", "notify"} : EnableUpdates(mode)
  \/ DisableUpdates \/ ChangeHost \/ OrphanEnds \/ Clock

UpdateSpec == UpdateInit /\ [][UpdateNext]_updateVars

-----------------------------------------------------------------------------
(* What the owner relies on.                                               *)

\* While a live process replaces the package, the policy on disk is the one
\* it was started under: auto, not suspended, and no second live process
\* replaces it too.  A disable between the two readings of the policy, or
\* while the native update runs, would break it.
ReplacesAsChosen ==
  \A c \in Checks : CheckAt(c, "native") =>
    /\ choice.mode = "auto" /\ ~choice.suspended
    /\ \A d \in Checks : CheckAt(d, "native") => d = c

\* After an integrity failure suspended automatic updates, nothing replaces
\* the package until the owner enables them again, whatever checks run in
\* between and even if the package verifies again meanwhile.
SuspensionSticks == distrusted => \A c \in Checks : ~CheckAt(c, "native")

=============================================================================
