---------------------------- MODULE BloomUpdate ----------------------------
(***************************************************************************)
(* The signed-update lifecycle of BloomOS on one SD card:                  *)
(*                                                                         *)
(*   bloom-update-state     the durable record (state.json) and the        *)
(*                          known-good record (known-good.json)            *)
(*   bloom-update-stage, -prepare   bring a release onto the card: a signed *)
(*                          archive, and the candidate unpacked from it    *)
(*   bloom-update-activate  publishes an installer for the armed release   *)
(*   bloom-update-rollback  publishes an installer for the known-good one  *)
(*   bloom-update-boot      counts boots, starts recovery, confirms        *)
(*   runtime.sh             check_installer, then the boot reconciliation  *)
(*   miyoo/app/MainUI, install.sh   the one-shot installer itself          *)
(*                                                                         *)
(* Every command is a shell script: each of its durable effects is a step  *)
(* of its own, and power may be lost between any two.  Archives, digests   *)
(* and signatures are abstracted to the release they belong to; a rename   *)
(* that has returned is durable (the scripts sync around it).              *)
(*                                                                         *)
(* A file operation that fails ends its command, except the writing of a   *)
(* record: atomic_json is the last command of a pipeline, its `fail` ends  *)
(* only that subshell, and the command goes on with the record as it was.  *)
(***************************************************************************)
EXTENDS Naturals, FiniteSets

CONSTANTS
  Releases,         \* versions a signed release archive exists for
  Factory,          \* the release installed when the card was prepared
  None,             \* no release
  MaxBootAttempts,  \* MAX_BOOT_ATTEMPTS, three unless overridden
  MaxFaults         \* bound on power losses and failed file operations

ASSUME ReleasesAssumption == Factory \in Releases /\ None \notin Releases
ASSUME BoundsAssumption   == MaxBootAttempts \in Nat \ {0} /\ MaxFaults \in Nat

VARIABLES
  \* state.json
  phase, operation, pending, attempts,
  \* known-good.json, and the staged/ and candidates/ directories
  knownGood, staged, candidates,
  \* the installer drop: app/.tmp_update (present?, release, entries left),
  \* RetroArch/retroarch.pak and the MainUI trigger script
  dropDir, drop, dropFiles, raPak, trigger,
  \* /mnt/SDCARD/.tmp_update: its entries, the onion.pak being unpacked and
  \* the release named by onionVersion/version.txt
  sysdir, corePak, version,
  \* where this boot is, and the command that is running
  boot, task, step, target,
  \* faults so far
  faults,
  \* history: the writing of a record has failed, unnoticed
  unrecorded

stateVars   == <<phase, operation, pending, attempts>>
recordVars  == <<knownGood, staged, candidates>>
dropVars    == <<dropDir, drop, dropFiles, raPak, trigger>>
systemVars  == <<sysdir, corePak, version>>
taskVars    == <<task, step, target>>
faultVars   == <<faults, unrecorded>>
vars == <<stateVars, recordVars, dropVars, systemVars, boot, taskVars, faultVars>>

Phases == {"idle", "armed", "activation_pending", "testing", "known_good",
           "recovery_required", "rollback_pending", "rollback_failed"}

\* Mutant: a candidate that has booted once is no longer counted.
AwaitingFirstBootOnly == {"activation_pending", "rollback_pending"}

\* A boot in one of these phases is a counted validation attempt.
Awaiting == {"activation_pending", "testing", "rollback_pending"}

\* Mutant: arm accepts a lifecycle that has failed for good.
ActiveWithoutFailure == {"armed", "recovery_required"} \cup Awaiting

\* arm refuses these: an update is under way or has ended for good.
Active == {"armed", "recovery_required", "rollback_failed"} \cup Awaiting

\* What MainUI moves, in the order of its glob.
DropFiles == {"install.sh", "onion.pak", "updater"}

\* "install" is the installer's updater, "updater" the runtime's.
SysEntries    == {"install", "updater", "runtime.sh", "bin"}
RuntimeEntries == SysEntries \ {"install"}

BootStages == {"off", "mainui", "wipe", "move", "install", "unzip", "retroarch",
               "cleanup", "reconcile", "recover", "up"}

Init ==
  /\ phase = "idle" /\ operation = "update" /\ pending = None /\ attempts = 0
  /\ knownGood = None /\ staged = {} /\ candidates = {}
  /\ dropDir = FALSE /\ drop = None /\ dropFiles = {}
  /\ raPak = None /\ trigger = None
  /\ sysdir = RuntimeEntries /\ corePak = None /\ version = Factory
  /\ boot = "off" /\ task = "none" /\ step = "start" /\ target = None
  /\ faults = 0 /\ unrecorded = FALSE

-----------------------------------------------------------------------------
(* Commands an operator runs on a device that is up: bloomctl update ...   *)

CommandReady == boot = "up" /\ task = "none" /\ "bin" \in sysdir

Begin(t, s, r) == task' = t /\ step' = s /\ target' = r
Finish         == task' = "none" /\ step' = "start" /\ target' = None
Goto(s)        == step' = s /\ UNCHANGED <<task, target>>

\* atomic_json: the record is replaced, or it cannot be written and is left as
\* it was; what follows in the script is the same.
Writes(record, content) ==
  \/ content /\ UNCHANGED faultVars
  \/ /\ faults < MaxFaults /\ faults' = faults + 1 /\ unrecorded' = TRUE
     /\ UNCHANGED record

\* bloom-update-stage: the triplet is verified, of a channel the device is on,
\* fits on the card and is not staged yet; it is copied beside its place, ...
Stage(r) ==
  /\ CommandReady
  /\ r \notin staged
  /\ Begin("stage", "publish", r)
  /\ UNCHANGED <<stateVars, recordVars, dropVars, systemVars, boot, faultVars>>

\* ... the copy is verified and published by one rename.
StagePublish ==
  /\ task = "stage"
  /\ staged' = staged \cup {target}
  /\ Finish
  /\ UNCHANGED <<stateVars, knownGood, candidates, dropVars, systemVars, boot, faultVars>>

\* bloom-update-prepare: the staged archive is verified again, its entries are
\* looked through and it is extracted beside its place, ...
Prepare(r) ==
  /\ CommandReady
  /\ r \in staged \ candidates
  /\ Begin("prepare", "publish", r)
  /\ UNCHANGED <<stateVars, recordVars, dropVars, systemVars, boot, faultVars>>

\* ... and the candidate published by one rename.
PreparePublish ==
  /\ task = "prepare"
  /\ candidates' = candidates \cup {target}
  /\ Finish
  /\ UNCHANGED <<stateVars, knownGood, staged, dropVars, systemVars, boot, faultVars>>

\* First write of bootstrap: the running release becomes known-good.
Bootstrap(r) ==
  /\ CommandReady
  /\ knownGood = None
  /\ phase = "idle"
  /\ version = r
  /\ r \in staged \cap candidates
  /\ Writes(knownGood, knownGood' = r)
  /\ Begin("bootstrap", "state", r)
  /\ UNCHANGED <<stateVars, staged, candidates, dropVars, systemVars, boot>>

\* The phase known_good drops every other field of state.json.
RecordKnownGood ==
  phase' = "known_good" /\ operation' = "update" /\ pending' = None /\ attempts' = 0

BootstrapState ==
  /\ task = "bootstrap"
  /\ Writes(stateVars, RecordKnownGood)
  /\ Finish
  /\ UNCHANGED <<recordVars, dropVars, systemVars, boot>>

Arm(r) ==
  /\ CommandReady
  /\ r \in staged \cap candidates
  /\ phase \notin Active
  /\ Writes(stateVars,
            phase' = "armed" /\ operation' = "update" /\ pending' = r /\ attempts' = 0)
  /\ UNCHANGED <<recordVars, dropVars, systemVars, boot, taskVars>>

\* No trigger script, no retroarch.pak, and app/.tmp_update absent or empty.
NoInstallerPending == trigger = None /\ raPak = None /\ dropFiles = {}

\* rmdir of an empty app/.tmp_update: the residue an installer leaves behind.
DropEmptyResidue ==
  dropDir' = FALSE /\ drop' = None /\ UNCHANGED <<dropFiles, raPak, trigger>>

\* Mutant: activation does not ask for a known-good release.
ActivateWithoutBaseline(r) ==
  /\ CommandReady
  /\ phase = "armed" /\ pending = r
  /\ r \in candidates
  /\ NoInstallerPending
  /\ DropEmptyResidue
  /\ Begin("activate", "snapshot", r)
  /\ UNCHANGED <<stateVars, recordVars, systemVars, boot, faultVars>>

Activate(r) ==
  /\ CommandReady
  /\ phase = "armed" /\ pending = r
  /\ knownGood \in staged
  /\ r \in candidates
  /\ NoInstallerPending
  /\ DropEmptyResidue
  /\ Begin("activate", "snapshot", r)
  /\ UNCHANGED <<stateVars, recordVars, systemVars, boot, faultVars>>

\* The pre-update snapshot succeeded; activation-start is to be recorded.
ActivationStart ==
  /\ task = "activate" /\ step = "snapshot"
  /\ phase = "armed" /\ pending = target
  /\ Writes(stateVars, /\ phase' = "activation_pending" /\ operation' = "update"
                       /\ UNCHANGED <<pending, attempts>>)
  /\ Goto("payload")
  /\ UNCHANGED <<recordVars, dropVars, systemVars, boot>>

-----------------------------------------------------------------------------
(* Recovery, started by an operator or by the boot reconciliation.         *)

RecoveryAvailable == phase = "recovery_required" /\ knownGood \in staged

Rollback ==
  /\ CommandReady
  /\ RecoveryAvailable
  /\ Begin("rollback", "replace", knownGood)
  /\ UNCHANGED <<stateVars, recordVars, dropVars, systemVars, boot, faultVars>>

\* prepare --replace: the cached candidate is moved away ...
RollbackDiscardCandidate ==
  /\ task = "rollback" /\ step = "replace"
  /\ candidates' = candidates \ {target}
  /\ Goto("rebuild")
  /\ UNCHANGED <<stateVars, knownGood, staged, dropVars, systemVars, boot, faultVars>>

\* ... and the one rebuilt from the signed archive is moved in.
RollbackRebuildCandidate ==
  /\ task = "rollback" /\ step = "rebuild"
  /\ candidates' = candidates \cup {target}
  /\ Goto("residue")
  /\ UNCHANGED <<stateVars, knownGood, staged, dropVars, systemVars, boot, faultVars>>

RollbackCheckResidue ==
  /\ task = "rollback" /\ step = "residue"
  /\ NoInstallerPending
  /\ DropEmptyResidue
  /\ Goto("snapshot")
  /\ UNCHANGED <<stateVars, recordVars, systemVars, boot, faultVars>>

RollbackStart ==
  /\ task = "rollback" /\ step = "snapshot"
  /\ phase = "recovery_required" /\ knownGood = target
  /\ Writes(stateVars, /\ phase' = "rollback_pending" /\ operation' = "rollback"
                       /\ pending' = target /\ attempts' = 0)
  /\ Goto("payload")
  /\ UNCHANGED <<recordVars, dropVars, systemVars, boot>>

\* An installer that is already pending stops the rollback before it records
\* anything: the command fails and a boot that started it goes on.
RollbackBlocked ==
  /\ task = "rollback" /\ step = "residue"
  /\ ~NoInstallerPending
  /\ boot' = "up"
  /\ Finish
  /\ UNCHANGED <<stateVars, recordVars, dropVars, systemVars, faultVars>>

-----------------------------------------------------------------------------
(* Publication, shared by activation and rollback: payload, RetroArch       *)
(* package, and last the trigger.                                           *)

PublishPayload ==
  /\ step = "payload"
  /\ dropDir' = TRUE /\ drop' = target /\ dropFiles' = DropFiles
  /\ Goto("retroarch")
  /\ UNCHANGED <<stateVars, recordVars, raPak, trigger, systemVars, boot, faultVars>>

PublishRetroArch ==
  /\ step = "retroarch"
  /\ raPak' = target
  /\ Goto("trigger")
  /\ UNCHANGED <<stateVars, recordVars, dropDir, drop, dropFiles, trigger,
                 systemVars, boot, faultVars>>

PublishTrigger ==
  /\ step = "trigger"
  /\ trigger' = target
  /\ IF boot = "recover" THEN Goto("reboot") ELSE Finish
  /\ UNCHANGED <<stateVars, recordVars, dropDir, drop, dropFiles, raPak,
                 systemVars, boot, faultVars>>

\* After an automatic rollback: bloom-power request reboot.
RecoveryReboot ==
  /\ step = "reboot"
  /\ boot' = "off"
  /\ Finish
  /\ UNCHANGED <<stateVars, recordVars, dropVars, systemVars, faultVars>>

\* A service or file operation of the running command fails; its trap removes
\* the temporary copies only.  runtime.sh logs a failed reconciliation and
\* goes on, so a boot that was recovering is up.
CommandFails ==
  /\ task \in {"stage", "prepare", "activate", "rollback"}
  /\ faults < MaxFaults
  /\ faults' = faults + 1 /\ UNCHANGED unrecorded
  /\ boot' = "up"
  /\ Finish
  /\ UNCHANGED <<stateVars, recordVars, dropVars, systemVars>>

-----------------------------------------------------------------------------
(* Confirmation: bloom-update-boot confirm, then mark-good.                 *)

\* The release is the pending one and the health checks pass.
Confirm ==
  /\ CommandReady
  /\ phase = "testing"
  /\ version = pending
  /\ Begin("confirm", IF operation = "rollback" THEN "state" ELSE "record", pending)
  /\ UNCHANGED <<stateVars, recordVars, dropVars, systemVars, boot, faultVars>>

MarkGoodRecord ==
  /\ task = "confirm" /\ step = "record"
  /\ phase = "testing" /\ pending = target /\ target \in staged
  /\ Writes(knownGood, knownGood' = target)
  /\ Goto("state")
  /\ UNCHANGED <<stateVars, staged, candidates, dropVars, systemVars, boot>>

MarkGoodState ==
  /\ task = "confirm" /\ step = "state"
  /\ operation = "rollback" => knownGood = target
  /\ Writes(stateVars, RecordKnownGood)
  /\ Finish
  /\ UNCHANGED <<recordVars, dropVars, systemVars, boot>>

-----------------------------------------------------------------------------
(* Booting.  The firmware runs .tmp_update/updater; without one it runs the *)
(* card's miyoo/app/MainUI, which is the installer while the trigger is     *)
(* there.                                                                   *)

\* The updater is the installer's: install.sh runs again from the start.
BootInstaller ==
  /\ boot = "off" /\ "install" \in sysdir
  /\ boot' = "install"
  /\ UNCHANGED <<stateVars, recordVars, dropVars, systemVars, taskVars, faultVars>>

\* The updater is the runtime's: check_installer comes before anything else.
BootRuntime ==
  /\ boot = "off" /\ {"updater", "runtime.sh"} \subseteq sysdir
  /\ boot' = IF dropDir /\ trigger # None THEN "mainui" ELSE "reconcile"
  /\ UNCHANGED <<stateVars, recordVars, dropVars, systemVars, taskVars, faultVars>>

BootTrigger ==
  /\ boot = "off" /\ sysdir \cap {"install", "updater"} = {}
  /\ trigger # None
  /\ boot' = "mainui"
  /\ UNCHANGED <<stateVars, recordVars, dropVars, systemVars, taskVars, faultVars>>

\* The trigger script gives up, and removes itself, without its payload.
InstallerCancelled ==
  /\ boot = "mainui"
  /\ ~(dropDir /\ {"install.sh", "onion.pak"} \subseteq dropFiles)
  /\ trigger' = None
  /\ boot' = "off"
  /\ UNCHANGED <<stateVars, recordVars, dropDir, drop, dropFiles, raPak,
                 systemVars, taskVars, faultVars>>

\* Mutant: the trigger script only looks for the directory.
InstallerAcceptsAnyDrop ==
  /\ boot = "mainui"
  /\ dropDir
  /\ boot' = "wipe"
  /\ UNCHANGED <<stateVars, recordVars, dropVars, systemVars, taskVars, faultVars>>

InstallerAccepted ==
  /\ boot = "mainui"
  /\ dropDir /\ {"install.sh", "onion.pak"} \subseteq dropFiles
  /\ boot' = "wipe"
  /\ UNCHANGED <<stateVars, recordVars, dropVars, systemVars, taskVars, faultVars>>

\* find -exec rm -rf: the entries go one at a time, in directory order.
WipeEntry(e) ==
  /\ boot = "wipe" /\ e \in sysdir
  /\ sysdir' = sysdir \ {e}
  /\ boot' = IF sysdir' = {} THEN "move" ELSE "wipe"
  /\ UNCHANGED <<stateVars, recordVars, dropVars, corePak, version, taskVars, faultVars>>

\* A wipe that was interrupted after its last entry has nothing to remove.
WipeNothing ==
  /\ boot = "wipe" /\ sysdir = {}
  /\ boot' = "move"
  /\ UNCHANGED <<stateVars, recordVars, dropVars, systemVars, taskVars, faultVars>>

\* mv .tmp_update/* $sysdir, a rename for each entry.
MoveScript ==
  /\ boot = "move" /\ "install.sh" \in dropFiles
  /\ dropFiles' = dropFiles \ {"install.sh"}
  /\ UNCHANGED <<stateVars, recordVars, dropDir, drop, raPak, trigger,
                 systemVars, boot, taskVars, faultVars>>

MovePackage ==
  /\ boot = "move" /\ "install.sh" \notin dropFiles /\ "onion.pak" \in dropFiles
  /\ dropFiles' = dropFiles \ {"onion.pak"}
  /\ corePak' = drop
  /\ UNCHANGED <<stateVars, recordVars, dropDir, drop, raPak, trigger,
                 sysdir, version, boot, taskVars, faultVars>>

MoveUpdater ==
  /\ boot = "move" /\ dropFiles = {"updater"}
  /\ dropFiles' = {} /\ drop' = None
  /\ sysdir' = sysdir \cup {"install"}
  /\ boot' = "install"
  /\ UNCHANGED <<stateVars, recordVars, dropDir, raPak, trigger,
                 corePak, version, taskVars, faultVars>>

\* install_core removes the updater, unpacks, and removes the package; the
\* order of the archive's entries is the packager's.
InstallCore ==
  /\ boot = "install"
  /\ sysdir' = sysdir \ {"install", "updater"}
  /\ boot' = "unzip"
  /\ UNCHANGED <<stateVars, recordVars, dropVars, corePak, version, taskVars, faultVars>>

UnzipEntry(e) ==
  /\ boot = "unzip" /\ e \in RuntimeEntries \ sysdir
  /\ sysdir' = sysdir \cup {e}
  /\ UNCHANGED <<stateVars, recordVars, dropVars, corePak, version,
                 boot, taskVars, faultVars>>

UnzipVersion ==
  /\ boot = "unzip" /\ version # corePak
  /\ version' = corePak
  /\ UNCHANGED <<stateVars, recordVars, dropVars, sysdir, corePak,
                 boot, taskVars, faultVars>>

UnzipDone ==
  /\ boot = "unzip" /\ sysdir = RuntimeEntries /\ version = corePak
  /\ corePak' = None
  /\ boot' = "retroarch"
  /\ UNCHANGED <<stateVars, recordVars, dropVars, sysdir, version, taskVars, faultVars>>

InstallRetroArch ==
  /\ boot = "retroarch"
  /\ raPak' = None
  /\ boot' = "cleanup"
  /\ UNCHANGED <<stateVars, recordVars, dropDir, drop, dropFiles, trigger,
                 systemVars, taskVars, faultVars>>

\* cleanup removes the trigger; MainUI and updater then reboot.
InstallCleanup ==
  /\ boot = "cleanup"
  /\ trigger' = None
  /\ boot' = "off"
  /\ UNCHANGED <<stateVars, recordVars, dropDir, drop, dropFiles, raPak,
                 systemVars, taskVars, faultVars>>

-----------------------------------------------------------------------------
(* bloom-update-boot begin, before the mutable services start.             *)

\* Other phases are only printed; without its binaries nothing is run.
BeginNothing ==
  /\ boot = "reconcile"
  /\ phase \notin Awaiting \/ "bin" \notin sysdir
  /\ boot' = "up"
  /\ UNCHANGED <<stateVars, recordVars, dropVars, systemVars, taskVars, faultVars>>

\* Mutant: one boot too many.
NextPhaseLate(n) ==
  IF n <= MaxBootAttempts THEN "testing"
  ELSE IF operation = "rollback" THEN "rollback_failed" ELSE "recovery_required"

NextPhase(n) ==
  IF n < MaxBootAttempts THEN "testing"
  ELSE IF operation = "rollback" THEN "rollback_failed" ELSE "recovery_required"

CountBoot ==
  /\ attempts' = attempts + 1 /\ phase' = NextPhase(attempts + 1)
  /\ UNCHANGED <<operation, pending>>

\* Mutant: the limit is recorded and nothing is done about it.
BootAttemptOnlyRecords ==
  /\ boot = "reconcile" /\ "bin" \in sysdir
  /\ phase \in Awaiting
  /\ Writes(stateVars, CountBoot)
  /\ boot' = "up"
  /\ UNCHANGED <<taskVars, recordVars, dropVars, systemVars>>

\* boot-attempt; at the limit of an update, the rollback is run at once.  The
\* phase that decides is the one that is read back.
BootAttempt ==
  /\ boot = "reconcile" /\ "bin" \in sysdir
  /\ phase \in Awaiting
  /\ Writes(stateVars, CountBoot)
  /\ IF phase' = "recovery_required"
       THEN boot' = "recover" /\ Begin("rollback", "recovery", None)
       ELSE boot' = "up" /\ UNCHANGED taskVars
  /\ UNCHANGED <<recordVars, dropVars, systemVars>>

\* The first thing the rollback does is to ask for the recovery source.
RecoverySource ==
  /\ task = "rollback" /\ step = "recovery"
  /\ RecoveryAvailable
  /\ target' = knownGood /\ step' = "replace" /\ UNCHANGED task
  /\ UNCHANGED <<stateVars, recordVars, dropVars, systemVars, boot, faultVars>>

\* The user restarts a device that is up and idle, or it hangs and is reset.
Restart ==
  /\ boot = "up" /\ task = "none"
  /\ boot' = "off"
  /\ UNCHANGED <<stateVars, recordVars, dropVars, systemVars, taskVars, faultVars>>

PowerLoss ==
  /\ boot # "off"
  /\ faults < MaxFaults
  /\ faults' = faults + 1 /\ UNCHANGED unrecorded
  /\ boot' = "off"
  /\ Finish
  /\ UNCHANGED <<stateVars, recordVars, dropVars, systemVars>>

-----------------------------------------------------------------------------
Commands ==
  \/ \E r \in Releases :
       Stage(r) \/ Prepare(r) \/ Bootstrap(r) \/ Arm(r) \/ Activate(r)
  \/ Rollback
  \/ Confirm

\* The steps of a command that is running.
TaskStep ==
  \/ StagePublish \/ PreparePublish
  \/ BootstrapState
  \/ ActivationStart
  \/ RecoverySource \/ RollbackDiscardCandidate \/ RollbackRebuildCandidate
  \/ RollbackCheckResidue \/ RollbackBlocked \/ RollbackStart
  \/ PublishPayload \/ PublishRetroArch \/ PublishTrigger \/ RecoveryReboot
  \/ MarkGoodRecord \/ MarkGoodState

\* The steps a boot takes by itself.
BootStep ==
  \/ BootInstaller \/ BootRuntime \/ BootTrigger
  \/ InstallerCancelled \/ InstallerAccepted
  \/ \E e \in SysEntries : WipeEntry(e) \/ UnzipEntry(e)
  \/ WipeNothing \/ MoveScript \/ MovePackage \/ MoveUpdater
  \/ InstallCore \/ UnzipVersion \/ UnzipDone \/ InstallRetroArch \/ InstallCleanup
  \/ BeginNothing \/ BootAttempt

Next == Commands \/ TaskStep \/ BootStep \/ Restart \/ CommandFails \/ PowerLoss

Spec == Init /\ [][Next]_vars

\* Scripts that have started and boots that have begun go on by themselves.
FairSpec == Spec /\ WF_vars(TaskStep) /\ WF_vars(BootStep)

\* A device whose candidate does not work is restarted again and again.
RestartedSpec == FairSpec /\ WF_vars(Restart)

-----------------------------------------------------------------------------
(* Properties.                                                             *)

TypeOK ==
  /\ phase \in Phases /\ operation \in {"update", "rollback"}
  /\ pending \in Releases \cup {None} /\ attempts \in 0..MaxBootAttempts
  /\ knownGood \in Releases \cup {None}
  /\ staged \subseteq Releases /\ candidates \subseteq Releases
  /\ dropDir \in BOOLEAN /\ drop \in Releases \cup {None}
  /\ dropFiles \subseteq DropFiles
  /\ raPak \in Releases \cup {None} /\ trigger \in Releases \cup {None}
  /\ sysdir \subseteq SysEntries
  /\ corePak \in Releases \cup {None} /\ version \in Releases
  /\ boot \in BootStages
  /\ task \in {"none", "stage", "prepare", "bootstrap", "activate", "rollback", "confirm"}
  /\ step \in {"start", "state", "snapshot", "payload", "retroarch", "trigger",
               "reboot", "recovery", "replace", "rebuild", "residue", "record", "publish"}
  /\ target \in Releases \cup {None}
  /\ faults \in 0..MaxFaults /\ unrecorded \in BOOLEAN

\* Once an installer has been published, and until its release is confirmed or
\* recovery has ended, there is a known-good release to go back to and its
\* signed archive is still staged ("the prior known-good staged payload
\* remains addressable as the recovery source").
RecoverySourceRetained ==
  /\ knownGood # None => knownGood \in staged
  /\ phase \in Awaiting \cup {"recovery_required", "rollback_failed"} => knownGood # None

\* The release the record works towards: the pending one, or the known-good one
\* while recovery is required.
Due == IF phase = "recovery_required" THEN knownGood ELSE pending

\* The installer wipes the system only when every part of one release is in
\* place, and that is the release the record works towards: payload, RetroArch
\* package and trigger never come from two publications, whatever was cut
\* before and whichever record could not be written.
WipesForWholeReleaseOnly ==
  boot = "wipe" =>
    /\ dropFiles = DropFiles
    /\ drop = Due /\ raPak = Due /\ trigger = Due

\* "Each unvalidated boot increments a durable attempt counter": a release other
\* than the known-good one runs only while state.json tracks it, so that its
\* boots are counted.  A refused write of activation-start breaks this: the
\* installer is published for a release whose record still says armed.
RunningReleaseTracked ==
  knownGood # None /\ phase \in {"idle", "armed", "known_good"} => version = knownGood

\* The same for as long as every write of a record has succeeded.
TrackedUntilUnrecorded == unrecorded \/ RunningReleaseTracked

\* A rollback only ever installs the known-good release, and the counter stays
\* below the limit for as long as boots are still being counted.
RecoveryTargetsKnownGood ==
  /\ operation = "rollback" => phase \in {"rollback_pending", "testing", "rollback_failed"}
                               /\ pending = knownGood
  /\ phase \in Awaiting => attempts < MaxBootAttempts

\* known-good.json changes only to the release that is running, from nothing
\* (bootstrap) or after a counted boot of that release as an update: never
\* while recovery is required or under way.
KnownGoodOnlyByConfirmation ==
  [][knownGood' # knownGood =>
       /\ knownGood' = version
       /\ \/ knownGood = None /\ phase = "idle"
          \/ phase = "testing" /\ operation = "update" /\ pending = version]_vars

\* rollback_failed ends the lifecycle: nothing the scripts do leaves it, so
\* recovery can never be attempted again ("a terminal state").
RollbackFailureIsTerminal ==
  [][phase = "rollback_failed" => phase' = "rollback_failed"]_vars

\* Arming before the baseline is bootstrapped cannot be undone: activation
\* needs a known-good release, bootstrap an idle state, and no command disarms.
ArmedWithoutBaselineIsStuck ==
  [][phase = "armed" /\ knownGood = None =>
       phase' = "armed" /\ knownGood' = None /\ pending' = pending]_vars

\* The boot reconciliation recovers by itself: recovery_required is left for
\* the published rollback without an operator having to run a command.
AutomaticRecovery == phase = "recovery_required" ~> phase # "recovery_required"

\* The same where no power is lost and no operation fails.
UndisturbedRecovery == [](faults = 0) => AutomaticRecovery

\* Undisturbed, an activated update that nobody confirms does not stay: after
\* enough restarts the known-good release runs again under a rollback record.
UnconfirmedUpdateRollsBack ==
  [](faults = 0) =>
    (phase = "activation_pending" ~>
       \/ phase = "known_good"
       \/ operation = "rollback" /\ version = knownGood)

\* The trial a record stands for.
TrialOf ==
  CASE phase = "rollback_failed"   -> "failed"
    [] phase = "recovery_required" -> "expired"
    [] phase \in Awaiting          -> IF operation = "rollback" THEN "back" ELSE "release"
    [] OTHER                       -> "none"
OnTrial(x, otherwise) == IF phase \in Awaiting THEN x ELSE otherwise

Promise == INSTANCE UpdatePromise WITH
  Limit <- MaxBootAttempts, running <- version, good <- knownGood, trial <- TrialOf,
  candidate <- OnTrial(pending, None), boots <- OnTrial(attempts, 0),
  lapsed <- unrecorded

\* Whatever is interrupted or fails, the scripts do what an updater promises: at
\* most one trial at a time, an end to it after the last boot that is counted,
\* confirmations only inside it, and no way out of a failed way back.  Until
\* the write of a record is refused, replacements too are only made inside a
\* trial; after that, exactly the exceptions the promise names are made.
KeepsPromise == Promise!Spec
=============================================================================
