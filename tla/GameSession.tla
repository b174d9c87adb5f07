---------------------------- MODULE GameSession ----------------------------
(***************************************************************************)
(* One game at a time, from the menu to its flushed saves:                 *)
(*                                                                         *)
(*   bloom-session      the session state in /tmp, under a mkdir lock that *)
(*                      is tried once: a command that finds it taken fails *)
(*   bloom_shell_stage_game, runtime.sh, bloom-launch-run                  *)
(*                      the "runtime" actor: stages the session, runs the  *)
(*                      launcher, observes the exit, flushes, completes    *)
(*   bloom-game-smoke   the "probe" actor: a developer's run over SSH      *)
(*   bloom-session stop-retroarch, status   the "operator" actor           *)
(*   bloom-save-flush   run by flush-saves under the lock: one tree of the *)
(*                      game's core, then the other; it may fail half way  *)
(*                                                                         *)
(* A command of bloom-session is two steps, taking the lock and doing its  *)
(* work; stop-retroarch gives the lock up while it waits for the emulator. *)
(***************************************************************************)
EXTENDS Naturals

CONSTANTS
  MaxLaunches,  \* bound on the emulators started
  MaxFaults,    \* bound on power losses and kills by the power button
  Guests,       \* who uses the device over SSH: probe, operator, or nobody
  ClockFails    \* may the monotonic clock be unreadable or go backwards?

ASSUME GameSessionAssumption ==
  MaxLaunches \in Nat \ {0} /\ MaxFaults \in Nat
  /\ Guests \subseteq {"probe", "operator"} /\ ClockFails \in BOOLEAN

VARIABLES
  sess,      \* /tmp/bloom-session/state
  tracked,   \* .../pid: the emulator attached to the session, 0 for none
  result,    \* .../save_flush.json holds a flush result
  lock,      \* .../.lock: who made it
  cmd,       \* cmd_to_run.sh is on the card
  mainui,    \* the menu is MainUI (developer fallback), not Bloom Shell
  emu,       \* the retroarch process that runs, 0 for none
  launches,  \* emulators started so far, which also names them
  launcher,  \* the launcher script the runner waits for
  saves,     \* emulators whose save files may not be on the card yet ...
  states,    \* ... and those whose save states may not
  killed,    \* emulators ended by stop-retroarch's SIGKILL
  pc,        \* what each actor does next
  target,    \* the process each actor found, attached or is stopping
  faults

sessionVars == <<sess, tracked, result>>
gameVars    == <<emu, launches, launcher, saves, states, killed>>
guestVars  == <<target>>
vars == <<sessionVars, lock, cmd, mainui, gameVars, pc, guestVars, faults>>

Actors   == {"runtime", "probe", "operator"}
Active   == {"PREPARING", "STARTING", "RUNNING", "STOP_REQUESTED", "FLUSHING"}
Terminal == {"STOPPED", "FAILED"}
Idle     == {"IDLE"} \cup Terminal   \* a new session may start

\* The commands of bloom-session and the state each one insists on.
\* Mutant: the stop that was waiting does not look at the state again.
ExpectedWithoutRecheck ==
  [start |-> Idle, transition |-> {"PREPARING"}, attach |-> {"STARTING"},
   fail |-> Active, unstage |-> Active, stop |-> {"RUNNING"},
   stopCommit |-> Active \cup Terminal, stopFail |-> {"STOP_REQUESTED"},
   observe |-> {"RUNNING"}, flush |-> {"FLUSHING"}, complete |-> {"FLUSHING"},
   status |-> Active \cup Idle]

Expected ==
  [start |-> Idle, transition |-> {"PREPARING"}, attach |-> {"STARTING"},
   fail |-> Active, unstage |-> Active, stop |-> {"RUNNING"},
   stopCommit |-> {"STOP_REQUESTED"}, stopFail |-> {"STOP_REQUESTED"},
   observe |-> {"RUNNING"}, flush |-> {"FLUSHING"}, complete |-> {"FLUSHING"},
   status |-> Active \cup Idle]

Commands == DOMAIN Expected

\* Mutant: a launcher that fails is not reported to the session.
AfterLauncherUnreported == [ok |-> "observe", failed |-> "switch"]

\* What the runner does once the launcher has returned.
AfterLauncher == [ok |-> "observe", failed |-> "fail"]

\* Where an actor goes after a command that succeeded ("unstage" is the fail
\* command of a shell that could not stage; a smoke run always ends in "fail",
\* the trap that cleans up after it) ...
OnSuccess == [
  runtime  |-> [start |-> "write", transition |-> "check", unstage |-> "menu",
                attach |-> "play", observe |-> "flush", flush |-> "complete",
                complete |-> "switch", fail |-> "switch"],
  probe    |-> [start |-> "write", transition |-> "poll", attach |-> "soak",
                stop |-> "quit", stopCommit |-> "flush", stopFail |-> "fail",
                flush |-> "return", complete |-> "fail", fail |-> "idle"],
  operator |-> [stop |-> "quit", stopCommit |-> "idle", stopFail |-> "idle",
                status |-> "idle"]]

\* ... and after one that failed, or found the lock taken.
OnFailure == [
  runtime  |-> [start |-> "menu", transition |-> "unstage", unstage |-> "menu",
                attach |-> "drain", observe |-> "fail", flush |-> "switch",
                complete |-> "fail", fail |-> "switch"],
  probe    |-> [c \in {"start", "transition", "attach", "stop", "stopCommit",
                       "stopFail", "flush", "complete", "fail"} |->
                 IF c = "fail" THEN "idle" ELSE "fail"],
  operator |-> [c \in {"stop", "stopCommit", "stopFail", "status"} |-> "idle"]]

Init ==
  /\ sess = "IDLE" /\ tracked = 0 /\ result = FALSE
  /\ lock = "free" /\ cmd = FALSE /\ mainui \in BOOLEAN
  /\ emu = 0 /\ launches = 0 /\ launcher = "none" /\ saves = {} /\ states = {} /\ killed = {}
  /\ pc = [runtime |-> "menu", probe |-> "idle", operator |-> "idle"]
  /\ target = [a \in Actors |-> 0]
  /\ faults = 0

-----------------------------------------------------------------------------
(* Taking the lock.                                                        *)

Go(a, c) == pc' = [pc EXCEPT ![a] = c]

Lock(a) ==
  /\ pc[a] \in Commands /\ lock = "free"
  /\ lock' = a
  /\ UNCHANGED <<sessionVars, cmd, mainui, gameVars, pc, guestVars, faults>>

\* cmd_to_run.sh and the request are removed by a shell that could not stage.
Unstaged(c) == cmd' = (cmd /\ c # "unstage")

Busy(a) ==
  /\ pc[a] \in Commands /\ lock \notin {"free", a}
  /\ Go(a, OnFailure[a][pc[a]]) /\ Unstaged(OnFailure[a][pc[a]])
  /\ UNCHANGED <<sessionVars, lock, mainui, gameVars, guestVars, faults>>

Holds(a) == pc[a] \in Commands /\ lock = a

\* The commands as they release the lock.
Succeed(a) ==
  /\ Holds(a) /\ sess \in Expected[pc[a]]
  /\ lock' = "free" /\ Go(a, OnSuccess[a][pc[a]])
  /\ UNCHANGED <<cmd, mainui, faults>>

\* Refused by the state, by a service the command asked, or by the clock.
Refused(a) ==
  /\ Holds(a)
  /\ \/ sess \notin Expected[pc[a]]
     \/ pc[a] = "start"
     \/ pc[a] \in {"attach", "observe"} /\ ClockFails
     \/ pc[a] = "attach" /\ emu # target[a]
     \/ pc[a] = "stop" /\ emu # tracked
     \/ pc[a] = "observe" /\ emu = tracked
     \/ pc[a] = "complete" /\ ~result
  /\ lock' = "free"
  /\ Go(a, OnFailure[a][pc[a]]) /\ Unstaged(OnFailure[a][pc[a]])
  /\ UNCHANGED <<sessionVars, mainui, gameVars, guestVars, faults>>

-----------------------------------------------------------------------------
(* What the commands do.                                                   *)

Start(a) ==
  /\ pc[a] = "start" /\ Succeed(a)
  /\ sess' = "PREPARING" /\ tracked' = 0 /\ result' = FALSE
  /\ UNCHANGED <<gameVars, target>>

ToStarting(a) ==
  /\ pc[a] = "transition" /\ Succeed(a)
  /\ sess' = "STARTING"
  /\ UNCHANGED <<tracked, result, gameVars, guestVars>>

\* The process the actor found by name, if it still runs.
Attach(a) ==
  /\ pc[a] = "attach" /\ Succeed(a)
  /\ emu = target[a]
  /\ tracked' = target[a] /\ sess' = "RUNNING"
  /\ UNCHANGED <<result, gameVars, guestVars>>

\* Mutant: a state no other command knows.
FailUnknown(a) ==
  /\ pc[a] \in {"fail", "unstage", "stopFail"} /\ Succeed(a)
  /\ sess' = "ABORTED"
  /\ UNCHANGED <<tracked, result, gameVars, guestVars>>

Fail(a) ==
  /\ pc[a] \in {"fail", "unstage", "stopFail"} /\ Succeed(a)
  /\ sess' = "FAILED"
  /\ UNCHANGED <<tracked, result, gameVars, guestVars>>

\* Releases the lock; the waiting and the signals come after it.
RequestStop(a) ==
  /\ pc[a] = "stop" /\ Succeed(a)
  /\ emu = tracked
  /\ sess' = "STOP_REQUESTED" /\ target' = [target EXCEPT ![a] = tracked]
  /\ UNCHANGED <<tracked, result, gameVars>>

CommitStop(a) ==
  /\ pc[a] = "stopCommit" /\ Succeed(a)
  /\ sess' = "FLUSHING"
  /\ UNCHANGED <<tracked, result, gameVars, guestVars>>

ObserveExit(a) ==
  /\ pc[a] = "observe" /\ Succeed(a)
  /\ emu # tracked
  /\ sess' = "FLUSHING"
  /\ UNCHANGED <<tracked, result, gameVars, guestVars>>

\* bloom-save-flush, run by the holder of the lock: the files of the core's
\* save tree and its directories, one fsync after the other, ...
Flushing(a) == pc[a] = "flush" /\ lock = a /\ sess = "FLUSHING"

FlushSaveTree(a) ==
  /\ Flushing(a)
  /\ tracked \in saves
  /\ saves' = saves \ {tracked}
  /\ UNCHANGED <<sessionVars, lock, cmd, mainui, emu, launches, launcher, states, killed,
                 pc, guestVars, faults>>

\* ... then those of its state tree.
FlushStateTree(a) ==
  /\ Flushing(a)
  /\ tracked \in states \ saves
  /\ states' = states \ {tracked}
  /\ UNCHANGED <<sessionVars, lock, cmd, mainui, emu, launches, launcher, saves, killed,
                 pc, guestVars, faults>>

\* Mutant: the flush is over after the save tree.
FlushSavesWithoutStates(a) ==
  /\ pc[a] = "flush" /\ Succeed(a)
  /\ tracked \notin saves
  /\ result' = TRUE
  /\ UNCHANGED <<sess, tracked, gameVars, guestVars>>

\* bloom-save-flush is done and its result is committed.
FlushSaves(a) ==
  /\ pc[a] = "flush" /\ Succeed(a)
  /\ tracked \notin saves \cup states
  /\ result' = TRUE
  /\ UNCHANGED <<sess, tracked, gameVars, guestVars>>

\* It fails at any file or directory, or does not know the core: what it has
\* flushed until then stays flushed.
FlushFails(a) ==
  /\ Flushing(a)
  /\ sess' = "FAILED"
  /\ lock' = "free" /\ Go(a, OnFailure[a].flush)
  /\ UNCHANGED <<tracked, result, cmd, mainui, gameVars, guestVars, faults>>

Complete(a) ==
  /\ pc[a] = "complete" /\ Succeed(a)
  /\ result
  /\ sess' = "STOPPED"
  /\ UNCHANGED <<tracked, result, gameVars, guestVars>>

Status(a) ==
  /\ pc[a] = "status" /\ Succeed(a)
  /\ UNCHANGED <<sessionVars, gameVars, guestVars>>

Command(a) ==
  \/ Lock(a) \/ Busy(a) \/ Refused(a)
  \/ Start(a) \/ ToStarting(a) \/ Attach(a) \/ Fail(a)
  \/ RequestStop(a) \/ CommitStop(a) \/ ObserveExit(a)
  \/ FlushSaveTree(a) \/ FlushStateTree(a) \/ FlushSaves(a) \/ FlushFails(a)
  \/ Complete(a) \/ Status(a)

-----------------------------------------------------------------------------
(* Waiting for the emulator in stop-retroarch, without the lock.           *)

\* QUIT or SIGTERM was enough; the clock may still spoil the stop.
StopWaited(a) ==
  /\ pc[a] = "quit" /\ emu # target[a]
  /\ \/ Go(a, "stopCommit")
     \/ ClockFails /\ Go(a, "stopFail")
  /\ UNCHANGED <<sessionVars, lock, cmd, mainui, gameVars, guestVars, faults>>

\* Mutant: a forced kill counts as a stop.
ForceKillAccepted(a) ==
  /\ pc[a] = "quit" /\ emu = target[a]
  /\ emu' = 0 /\ killed' = killed \cup {target[a]} /\ launcher' = "closing"
  /\ Go(a, "stopCommit")
  /\ UNCHANGED <<sessionVars, lock, cmd, mainui, launches, saves, states, guestVars, faults>>

ForceKill(a) ==
  /\ pc[a] = "quit" /\ emu = target[a]
  /\ emu' = 0 /\ killed' = killed \cup {target[a]} /\ launcher' = "closing"
  /\ Go(a, "stopFail")
  /\ UNCHANGED <<sessionVars, lock, cmd, mainui, launches, saves, states, guestVars, faults>>

-----------------------------------------------------------------------------
(* Staging: a menu of Bloom Shell, or a probe that found MainUI.           *)

StageGame ==
  /\ pc.runtime = "menu" /\ ~mainui /\ ~cmd /\ launches < MaxLaunches
  /\ Go("runtime", "start")
  /\ UNCHANGED <<sessionVars, lock, cmd, mainui, gameVars, guestVars, faults>>

\* write-legacy puts the runner's command where the runtime looks for it.
WriteCommand(a) ==
  /\ pc[a] = "write"
  /\ \/ cmd' = TRUE /\ Go(a, "transition")
     \/ cmd' = (cmd /\ a = "probe") /\ Go(a, OnFailure[a].transition)
  /\ UNCHANGED <<sessionVars, lock, mainui, gameVars, guestVars, faults>>

\* MainUI ends, killed by the probe or left by the user, and finds a command.
MenuReturns ==
  /\ pc.runtime = "menu" /\ mainui /\ cmd
  /\ Go("runtime", "check")
  /\ UNCHANGED <<sessionVars, lock, cmd, mainui, gameVars, guestVars, faults>>

-----------------------------------------------------------------------------
(* bloom-launch-run.                                                       *)

\* No request, a bad append config, no temporary launcher, or RetroArch runs.
RunnerRefuses ==
  /\ pc.runtime = "check"
  /\ Go("runtime", "switch")
  /\ UNCHANGED <<sessionVars, lock, cmd, mainui, gameVars, guestVars, faults>>

RunnerLaunches ==
  /\ pc.runtime = "check"
  /\ sess # "IDLE" /\ emu = 0 /\ launches < MaxLaunches
  /\ launches' = launches + 1 /\ launcher' = "starting"
  /\ Go("runtime", "poll")
  /\ UNCHANGED <<sessionVars, lock, cmd, mainui, emu, saves, states, killed, guestVars, faults>>

\* retroarch_pid, tried fifteen times by the runner and sixty by the probe.
FindEmulator(a) ==
  /\ pc[a] = "poll" /\ emu # 0
  /\ target' = [target EXCEPT ![a] = emu]
  /\ Go(a, "attach")
  /\ UNCHANGED <<sessionVars, lock, cmd, mainui, gameVars, faults>>

NoEmulator(a) ==
  /\ pc[a] = "poll" /\ emu = 0
  /\ a = "runtime" => launcher # "closing"
  /\ Go(a, IF a = "runtime" THEN "drain" ELSE "fail")
  /\ UNCHANGED <<sessionVars, lock, cmd, mainui, gameVars, guestVars, faults>>

\* wait: for a launcher that failed to start a game or to be attached, ...
LauncherDrained ==
  /\ pc.runtime = "drain" /\ launcher \in {"ok", "failed"}
  /\ Go("runtime", "fail")
  /\ UNCHANGED <<sessionVars, lock, cmd, mainui, gameVars, guestVars, faults>>

\* ... and for the game that is being played.
LauncherDone ==
  /\ pc.runtime = "play" /\ launcher \in {"ok", "failed"}
  /\ Go("runtime", AfterLauncher[launcher])
  /\ UNCHANGED <<sessionVars, lock, cmd, mainui, gameVars, guestVars, faults>>

\* check_switcher: back to the menu.
RuntimeReturns ==
  /\ pc.runtime = "switch"
  /\ cmd' = FALSE /\ launcher' = "none"
  /\ Go("runtime", "menu")
  /\ UNCHANGED <<sessionVars, lock, mainui, emu, launches, saves, states, killed,
                 guestVars, faults>>

-----------------------------------------------------------------------------
(* The launcher script and RetroArch.                                      *)

EmulatorStarts ==
  /\ launcher = "starting"
  /\ launcher' = "playing" /\ emu' = launches /\ saves' = saves \cup {launches}
  /\ states' = states \cup {launches}
  /\ UNCHANGED <<sessionVars, lock, cmd, mainui, launches, killed, pc, guestVars, faults>>

EmulatorExits ==
  /\ emu # 0
  /\ emu' = 0 /\ launcher' = "closing"
  /\ UNCHANGED <<sessionVars, lock, cmd, mainui, launches, saves, states, killed, pc,
                 guestVars, faults>>

LauncherReturns ==
  /\ launcher \in {"starting", "closing"}
  /\ launcher' \in {"ok", "failed"}
  /\ UNCHANGED <<sessionVars, lock, cmd, mainui, emu, launches, saves, states, killed, pc,
                 guestVars, faults>>

-----------------------------------------------------------------------------
(* The guests.                                                             *)

GuestsIdle == pc.probe = "idle" /\ pc.operator = "idle"

\* A bad argument, no developer mode, a launch pending or running, no MainUI:
\* the run fails, and its trap is already set.
ProbeRefused ==
  /\ "probe" \in Guests /\ GuestsIdle
  /\ Go("probe", "fail")
  /\ UNCHANGED <<sessionVars, lock, cmd, mainui, gameVars, target, faults>>

ProbeBegins ==
  /\ "probe" \in Guests /\ GuestsIdle
  /\ ~cmd /\ emu = 0 /\ mainui /\ pc.runtime = "menu"
  /\ launches < MaxLaunches
  /\ Go("probe", "start")
  /\ UNCHANGED <<sessionVars, lock, cmd, mainui, gameVars, target, faults>>

\* The time to soak is over, or the emulator exited early.
ProbeSoaked ==
  /\ pc.probe = "soak"
  /\ Go("probe", IF emu = target.probe THEN "stop" ELSE "fail")
  /\ UNCHANGED <<sessionVars, lock, cmd, mainui, gameVars, guestVars, faults>>

\* MainUI is back and has consumed the command, or the wait for it is over.
ProbeReturned ==
  /\ pc.probe = "return"
  /\ \/ Go("probe", "fail")
     \/ pc.runtime = "menu" /\ ~cmd /\ Go("probe", "complete")
  /\ UNCHANGED <<sessionVars, lock, cmd, mainui, gameVars, guestVars, faults>>

OperatorCommand ==
  /\ "operator" \in Guests /\ GuestsIdle
  /\ Go("operator", "stop") \/ Go("operator", "status")
  /\ UNCHANGED <<sessionVars, lock, cmd, mainui, gameVars, guestVars, faults>>

-----------------------------------------------------------------------------
(* Faults.                                                                 *)

Staging == {"start", "write", "transition", "unstage"}

\* keymon, power button held while suspended: SIGKILL for everything but the
\* runtime, which goes on where the killed shell or runner returned to it.
KillAll ==
  /\ faults < MaxFaults /\ faults' = faults + 1
  /\ pc' = [runtime |-> IF pc.runtime \in {"menu"} \cup Staging THEN "menu" ELSE "switch",
            probe |-> "idle", operator |-> "idle"]
  /\ cmd' = (cmd /\ pc.runtime \notin Staging)
  /\ lock' = IF lock = "free" THEN "free" ELSE "orphan"
  /\ emu' = 0 /\ launcher' = "none"
  /\ UNCHANGED <<sessionVars, mainui, launches, saves, states, killed, target>>

\* /tmp is gone; a command left on the card is run by the next boot.
PowerLoss ==
  /\ faults < MaxFaults /\ faults' = faults + 1
  /\ sess' = "IDLE" /\ tracked' = 0 /\ result' = FALSE /\ lock' = "free"
  /\ emu' = 0 /\ launcher' = "none" /\ saves' = {} /\ states' = {} /\ killed' = {}
  /\ pc' = [runtime |-> IF cmd THEN "check" ELSE "menu",
            probe |-> "idle", operator |-> "idle"]
  /\ target' = [a \in Actors |-> 0]
  /\ UNCHANGED <<cmd, mainui, launches>>

-----------------------------------------------------------------------------
RuntimeStep ==
  \/ Command("runtime") \/ WriteCommand("runtime") \/ MenuReturns
  \/ RunnerRefuses \/ RunnerLaunches
  \/ FindEmulator("runtime") \/ NoEmulator("runtime")
  \/ LauncherDrained \/ LauncherDone \/ RuntimeReturns

GameStep == EmulatorStarts \/ EmulatorExits \/ LauncherReturns

ProbeStep ==
  \/ Command("probe") \/ WriteCommand("probe")
  \/ FindEmulator("probe") \/ NoEmulator("probe")
  \/ ProbeSoaked \/ StopWaited("probe") \/ ForceKill("probe") \/ ProbeReturned

OperatorStep == Command("operator") \/ StopWaited("operator") \/ ForceKill("operator")

Next ==
  \/ StageGame \/ RuntimeStep \/ GameStep
  \/ ProbeRefused \/ ProbeBegins \/ ProbeStep
  \/ OperatorCommand \/ OperatorStep
  \/ KillAll \/ PowerLoss

Spec == Init /\ [][Next]_vars

\* The runtime goes on by itself, and a game that is played ends some time.
FairSpec == Spec /\ WF_vars(RuntimeStep) /\ WF_vars(GameStep)

-----------------------------------------------------------------------------
(* Properties.                                                             *)

\* Where an actor can be: at a command or at a step between its commands.
Places == [
  runtime  |-> {"menu", "write", "check", "poll", "play", "drain", "switch"}
               \cup DOMAIN OnFailure.runtime,
  probe    |-> {"idle", "write", "poll", "soak", "quit", "return"}
               \cup DOMAIN OnFailure.probe,
  operator |-> {"idle", "quit"} \cup DOMAIN OnFailure.operator]

TypeOK ==
  /\ sess \in {"IDLE"} \cup Active \cup Terminal
  /\ tracked \in 0..MaxLaunches /\ result \in BOOLEAN
  /\ lock \in {"free", "orphan"} \cup Actors /\ cmd \in BOOLEAN /\ mainui \in BOOLEAN
  /\ emu \in 0..MaxLaunches /\ launches \in 0..MaxLaunches
  /\ launcher \in {"none", "starting", "playing", "closing", "ok", "failed"}
  /\ saves \subseteq 1..MaxLaunches /\ states \subseteq 1..MaxLaunches
  /\ killed \subseteq 1..MaxLaunches
  /\ DOMAIN pc = Actors /\ \A a \in Actors : pc[a] \in Places[a]
  /\ target \in [Actors -> 0..MaxLaunches]
  /\ faults \in 0..MaxFaults

\* "A clean exit can never be reported without save durability confirmation":
\* a stopped session's game has exited and both of its trees, the saves and the
\* states, are on the card.
StoppedMeansFlushed == sess = "STOPPED" => tracked # 0 /\ tracked \notin saves \cup states

\* Saves are only flushed, and a session only ends well, after the process it
\* tracks is gone: nothing can be written after the flush.
FlushOnlyAfterExit == sess \in {"FLUSHING", "STOPPED"} => emu # tracked

\* "A forced kill is a FAILED terminal session rather than successful
\* flushing", whichever of the runner and the stop reports first.
ForcedKillNeverSucceeds == sess \in {"FLUSHING", "STOPPED"} => tracked \notin killed

\* A session that has ended stays as it ended until a new one starts: no actor
\* that was waiting, or had lost a race, writes over the outcome.
OutcomeIsFinal ==
  [][sess' # sess /\ sess \in Terminal => sess' \in {"PREPARING", "IDLE"}]_vars

\* While nobody uses the device over SSH and nothing is killed, a game that was
\* attached ends its session.
RunningSessionEnds ==
  [](faults = 0 /\ GuestsIdle) => (sess = "RUNNING" ~> sess \in {"STOPPED", "FAILED", "IDLE"})

\* The runner gives control back only when the session it was given is over.
RunnerSettlesSession == pc.runtime = "switch" => sess \notin Active
=============================================================================
