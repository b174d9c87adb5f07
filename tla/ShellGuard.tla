----------------------------- MODULE ShellGuard ------------------------------
(***************************************************************************)
(* bloom-shell-guard and the runtime loop that calls it: the crash counter *)
(* of the shell and the Safe Mode latch.                                   *)
(*                                                                         *)
(* The guard's state is a file that every command reads, checks and        *)
(* replaces without a lock.  The runtime calls the guard in sequence; the  *)
(* ready marker, which it forks for each launch, calls it on its own.      *)
(***************************************************************************)
EXTENDS Naturals

CONSTANTS
  Threshold,   \* BLOOM_SHELL_FAILURE_THRESHOLD
  MaxFailures, \* at which the failure count stops (10)
  MaxId        \* after which launch numbers start again (2^31 - 1)

ASSUME ShellGuardAssumption ==
  /\ Threshold \in Nat \ {0} /\ MaxFailures \in Nat /\ Threshold <= MaxFailures
  /\ MaxId \in Nat \ {0}

VARIABLES
  st,       \* shell-state.json
  disk,     \* what of it is certain to survive a power loss
  runtime,  \* what the runtime does
  launch,   \* its launch_id, 0 when the guard gave none
  safe,     \* BLOOM_SAFE_MODE of the shell that was started
  forced,   \* BLOOM_RA_FORCE_DISABLED is exported
  waiting,  \* the launch's ready marker sleeps
  writing,  \* what that marker's ready command is about to publish
  orphan,   \* the same, of a marker whose shell has exited
  scripts,  \* what this boot did with startup scripts, until its first shell
  early,    \* the shell has not lived through the startup window
  streak,   \* starts in a row that failed early, counted to Threshold
  orderly   \* this card and timing: no publication is refused, a published state
            \* is durable at once, and no shell exits while its marker's command runs

fileVars == <<st, disk>>
shellVars == <<runtime, launch, safe, forced>>
markerVars == <<waiting, writing, orphan>>
vars == <<fileVars, shellVars, markerVars, scripts, early, streak, orderly>>

Phases == {"idle", "starting", "ready", "failed"}
States == [phase : Phases, id : 0..MaxId, failures : 0..MaxFailures, mode : {"normal", "safe"}]

\* A file that does not parse; also used where nothing is to be published.
NoState == [phase |-> "malformed", id |-> 0, failures |-> 0, mode |-> "normal"]

Init ==
  /\ st = [phase |-> "idle", id |-> 0, failures |-> 0, mode |-> "normal"]
  /\ disk = st
  /\ runtime = "boot" /\ launch = 0 /\ safe = FALSE /\ forced = FALSE
  /\ waiting = FALSE /\ writing = NoState /\ orphan = NoState
  /\ scripts = "later" /\ early = FALSE /\ streak = 0
  /\ orderly \in BOOLEAN

-----------------------------------------------------------------------------
(* The commands of the guard                                               *)

\* safe_mode of the next state: set at the threshold, and never taken back.
Latched(s, failures) ==
  IF s.mode = "safe" \/ failures >= Threshold THEN "safe" ELSE "normal"

Capped(n) == IF n <= MaxFailures THEN n ELSE MaxFailures

\* Mutant: a start that was interrupted is not counted.
BegunUncounted(s) ==
  [phase |-> "starting", id |-> IF s.id + 1 <= MaxId THEN s.id + 1 ELSE 1,
   failures |-> s.failures, mode |-> Latched(s, s.failures)]

\* Mutant: the latch follows the count.
BegunUnlatched(s) ==
  LET failures == Capped(s.failures + IF s.phase = "starting" THEN 1 ELSE 0) IN
  [phase |-> "starting", id |-> IF s.id + 1 <= MaxId THEN s.id + 1 ELSE 1,
   failures |-> failures, mode |-> IF failures >= Threshold THEN "safe" ELSE "normal"]

\* Mutant: the launch number does not start again.
BegunUnwrapped(s) ==
  LET failures == Capped(s.failures + IF s.phase = "starting" THEN 1 ELSE 0) IN
  [phase |-> "starting", id |-> s.id + 1,
   failures |-> failures, mode |-> Latched(s, failures)]

\* begin: a start that is still "starting" was interrupted.
Begun(s) ==
  LET failures == Capped(s.failures + IF s.phase = "starting" THEN 1 ELSE 0) IN
  [phase |-> "starting", id |-> IF s.id + 1 <= MaxId THEN s.id + 1 ELSE 1,
   failures |-> failures, mode |-> Latched(s, failures)]

IsActive(s) == s.phase \in {"starting", "ready"} /\ s.id = launch

MadeReady(s) == [phase |-> "ready", id |-> s.id, failures |-> 0, mode |-> s.mode]

Failed(s) ==
  LET failures == Capped(s.failures + 1) IN
  [phase |-> "failed", id |-> s.id, failures |-> failures, mode |-> Latched(s, failures)]

Completed(s) == [phase |-> "idle", id |-> s.id, failures |-> 0, mode |-> s.mode]

Cleared(s) == [phase |-> "idle", id |-> s.id, failures |-> 0, mode |-> "normal"]

\* The temporary file is renamed onto the state; nothing syncs the card.
Write(s) ==
  /\ st' = s
  /\ disk' = IF orderly THEN s ELSE disk

\* The card is full, or it refuses the rename: the command ends, the state is as it was.
Refused == ~orderly /\ UNCHANGED fileVars

-----------------------------------------------------------------------------
(* The runtime                                                             *)

\* Mutant: an interrupted start is not looked for.
PendingLatched == st = NoState \/ st.mode = "safe"

\* bloom_shell_safe_mode_pending: will the next shell be in Safe Mode?
Pending ==
  \/ st = NoState
  \/ st.mode = "safe"
  \/ st.phase = "starting" /\ st.failures + 1 >= Threshold

\* Startup scripts and the automatic resume: the state is read for each of
\* them, and nothing changes it in between.
Boot ==
  /\ runtime = "boot"
  /\ scripts' = IF Pending THEN "suppressed" ELSE "run"
  /\ runtime' = "main"
  /\ UNCHANGED <<fileVars, launch, safe, forced, markerVars, early, streak>>

\* launch_bloom_shell: begin, then the shell and its marker are started.  When
\* begin fails there is no launch number, no marker, and Safe Mode.
Begin ==
  /\ runtime = "main"
  /\ \/ /\ st # NoState /\ Write(Begun(st))
        /\ launch' = st'.id /\ safe' = (st'.mode = "safe") /\ waiting' = TRUE
     \/ /\ st = NoState \/ Refused
        /\ launch' = 0 /\ safe' = TRUE /\ waiting' = FALSE /\ UNCHANGED fileVars
  /\ forced' = (forced \/ safe')
  /\ runtime' = "up" /\ scripts' = "later" /\ early' = TRUE
  /\ UNCHANGED <<writing, orphan, streak>>

\* The startup window is over and the shell is there: ready has read the state
\* and found its launch.
MarkerReads ==
  /\ runtime = "up" /\ waiting
  /\ waiting' = FALSE
  /\ writing' = IF st.phase = "starting" /\ st.id = launch THEN MadeReady(st) ELSE NoState
  /\ early' = FALSE /\ streak' = 0
  /\ UNCHANGED <<fileVars, shellVars, orphan, scripts>>

MarkerWrites ==
  /\ writing # NoState
  /\ Write(writing) \/ Refused
  /\ writing' = NoState
  /\ UNCHANGED <<shellVars, waiting, orphan, scripts, early, streak>>

\* The shell exits.  The runtime kills the marker, which is a subshell: a
\* command it has started goes on.  Bound: one such command at a time.
ShellExits(how) ==
  /\ runtime = "up"
  /\ orderly => writing = NoState
  /\ orphan = NoState \/ writing = NoState
  /\ how = "restart" => safe
  /\ runtime' = how
  /\ waiting' = FALSE /\ writing' = NoState
  /\ orphan' = IF writing # NoState THEN writing ELSE orphan
  /\ streak' = IF how # "failure" THEN 0
               ELSE IF early /\ streak < Threshold THEN streak + 1 ELSE streak
  /\ UNCHANGED <<fileVars, launch, safe, forced, scripts, early>>

\* The marker's command publishes what it read while its shell was there.  It
\* does so before or after a command of the runtime, never within.
OrphanWrites ==
  /\ orphan # NoState
  /\ Write(orphan) \/ Refused
  /\ orphan' = NoState
  /\ UNCHANGED <<shellVars, waiting, writing, scripts, early, streak>>

\* Exit 20 with a staged command; the game is played before the next shell.
HandOff ==
  /\ runtime = "handoff"
  /\ IF launch # 0 /\ IsActive(st) THEN Write(Completed(st)) \/ Refused ELSE UNCHANGED fileVars
  /\ runtime' = "main"
  /\ UNCHANGED <<launch, safe, forced, markerVars, scripts, early, streak>>

\* Exit 21: "Restart normally" of the Safe Mode surface.
Restart ==
  /\ runtime = "restart"
  /\ \/ launch # 0 /\ st # NoState /\ Write(Cleared(st)) /\ forced' = FALSE
     \/ (launch = 0 \/ st = NoState \/ Refused) /\ UNCHANGED <<fileVars, forced>>
  /\ runtime' = "main"
  /\ UNCHANGED <<launch, safe, markerVars, scripts, early, streak>>

\* Every other exit.
Failure ==
  /\ runtime = "failure"
  /\ IF launch # 0 /\ IsActive(st) THEN Write(Failed(st)) \/ Refused ELSE UNCHANGED fileVars
  /\ runtime' = "main"
  /\ UNCHANGED <<launch, safe, forced, markerVars, scripts, early, streak>>

\* The runtime syncs the card as it goes round its loop.
Sync ==
  /\ runtime = "main" /\ disk # st
  /\ disk' = st
  /\ UNCHANGED <<st, shellVars, markerVars, scripts, early, streak>>

\* A state that is not yet on the card is lost, kept, or no longer parses.
PowerLoss ==
  /\ runtime # "boot"
  /\ st' \in IF st = disk THEN {st} ELSE {st, disk, NoState}
  /\ disk' = st'
  /\ runtime' = "boot" /\ launch' = 0 /\ safe' = FALSE /\ forced' = FALSE
  /\ waiting' = FALSE /\ writing' = NoState /\ orphan' = NoState
  /\ scripts' = "later" /\ early' = FALSE
  /\ streak' = IF runtime = "up" /\ early /\ streak < Threshold THEN streak + 1 ELSE streak

Step ==
  \/ Boot \/ Begin \/ MarkerReads \/ MarkerWrites \/ OrphanWrites
  \/ \E how \in {"handoff", "restart", "failure"} : ShellExits(how)
  \/ HandOff \/ Restart \/ Failure \/ Sync \/ PowerLoss

Next == Step /\ UNCHANGED orderly

Spec == Init /\ [][Next]_vars

-----------------------------------------------------------------------------
(* Properties                                                              *)

TypeOK ==
  /\ st \in States \cup {NoState} /\ disk \in States \cup {NoState}
  /\ runtime \in {"boot", "main", "up", "handoff", "restart", "failure"}
  /\ launch \in 0..MaxId /\ safe \in BOOLEAN /\ forced \in BOOLEAN
  /\ waiting \in BOOLEAN
  /\ writing \in States \cup {NoState} /\ orphan \in States \cup {NoState}
  /\ scripts \in {"later", "run", "suppressed"}
  /\ early \in BOOLEAN /\ streak \in 0..Threshold
  /\ orderly \in BOOLEAN

\* "Three consecutive early failures, including a start interrupted by power
\* loss, latch Safe Mode for the next shell launch": a shell that was started
\* normally never follows that many.  On an orderly card and timing only: a
\* refused or lost write, or a late marker, hides a failure from the count.
FailuresLatch == orderly /\ runtime = "up" /\ ~safe => streak < Threshold

\* The next shell is in Safe Mode whatever its start counts.
IsLatched(s) == s = NoState \/ s.mode = "safe"

\* "The latch is cleared only when runtime receives that dedicated restart
\* handoff" holds of the runtime's own commands, and on an orderly card and timing
\* of every step.  Off it two more steps take the latch back, and no third: a
\* ready command that read the state before the latch was set publishes after it,
\* and a power loss brings back the state that was last on the card.
LatchKept ==
  [][IsLatched(st) /\ ~IsLatched(st') =>
       \/ runtime = "restart" /\ launch # 0 /\ st' = Cleared(st)
       \/ ~orderly /\ st' \in {writing, orphan} /\ <<writing, orphan>>' # <<writing, orphan>>
       \/ ~orderly /\ st' = disk /\ runtime' = "boot"]_vars

\* What a boot suppresses is decided like the mode of the shell that follows:
\* startup scripts and the automatic resume run exactly before a normal shell, but
\* for a shell that is in Safe Mode because its begin could not publish.
BootAgreesWithShell ==
  [][/\ runtime = "main" /\ runtime' = "up"
     => /\ scripts = "run" => ~safe' \/ (st # NoState /\ launch' = 0)
        /\ scripts = "suppressed" => safe']_vars

\* RetroAchievements are forced off in Safe Mode, on any card.  They come back with
\* the normal shell where the card and the timing are orderly; elsewhere a shell may
\* be normal again without the restart that takes the order back.
ForcedOffInSafeMode ==
  runtime = "up" => (safe => forced) /\ (orderly => (forced => safe))
=============================================================================
