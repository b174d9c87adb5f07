------------------------- MODULE BloomUpdate_proofs -------------------------
(***************************************************************************)
(* The safety of the update lifecycle, for every set of releases, attempt  *)
(* limit and number of faults.  The invariants of BloomUpdate are not      *)
(* inductive alone: what makes them so is what is known of the record      *)
(* while a command is between two of its steps (CommandInv), and what is   *)
(* known of the card while an installer is published or running            *)
(* (PublicationInv, InstallerInv).                                         *)
(***************************************************************************)
EXTENDS BloomUpdate, TLAPS

Installing == {"wipe", "move", "install", "unzip", "retroarch", "cleanup"}

\* The phases an installer is published in: the two that say so, and the two a
\* refused write of them leaves behind.
Published == phase \in {"activation_pending", "rollback_pending"}
             \/ (unrecorded /\ knownGood # None /\ phase \in {"armed", "recovery_required"})

\* A step that could not write its record.
Unwritten == faults < MaxFaults /\ faults' = faults + 1 /\ unrecorded' = TRUE

\* Where a command stands determines the phase, the release it works on and
\* the stage of the boot it runs in.
CommandInv ==
  /\ boot \notin {"up", "recover"} => task = "none"
  /\ boot = "recover" => task = "rollback"
  /\ task = "none" => step = "start"
  /\ task \in {"stage", "prepare"} => step = "publish" /\ target # None
  /\ task = "bootstrap" => step = "state" /\ phase = "idle"
                           /\ (knownGood = version \/ (unrecorded /\ knownGood = None))
  /\ task = "activate" =>
       /\ knownGood # None /\ target = pending /\ target # None
       /\ \/ step = "snapshot" /\ phase = "armed"
          \/ step \in {"payload", "retroarch", "trigger"}
             /\ (phase = "activation_pending" \/ (unrecorded /\ phase = "armed"))
  /\ task = "rollback" =>
       /\ step # "recovery" => target = knownGood /\ target # None
       /\ \/ step \in {"recovery", "replace", "rebuild", "residue", "snapshot"}
             /\ phase = "recovery_required"
          \/ step \in {"payload", "retroarch", "trigger", "reboot"}
             /\ (phase = "rollback_pending" \/ (unrecorded /\ phase = "recovery_required"))
             /\ target = Due
  /\ task = "confirm" =>
       /\ phase = "testing" /\ pending = version /\ target = version
       /\ \/ step = "record" /\ operation = "update"
          \/ step = "state" /\ (knownGood = version \/ (unrecorded /\ operation = "update"))

\* The trigger is the last thing to appear, over a whole drop of the release
\* that is due, and a publication starts from an empty drop.
PublicationInv ==
  /\ trigger # None => Published /\ dropDir /\ trigger = Due
  /\ trigger # None /\ "install.sh" \in dropFiles =>
       dropFiles = DropFiles /\ drop = Due /\ raPak = Due
  /\ task \in {"activate", "rollback"} /\ step \in {"snapshot", "payload"} =>
       NoInstallerPending
  /\ step \in {"retroarch", "trigger"} =>
       dropDir /\ dropFiles = DropFiles /\ drop = target /\ trigger = None
  /\ step = "trigger" => raPak = target

\* A running installer works for the release that is due, and the device can only
\* be back in the runtime once the installer's updater is gone.
InstallerInv ==
  /\ boot \in Installing => Published
  /\ boot = "mainui" => trigger # None
  /\ boot = "wipe" => dropFiles = DropFiles /\ drop = Due
                      /\ raPak = Due /\ trigger = Due
  /\ boot = "move" => sysdir = {} /\ (dropFiles # {} => drop = Due)
                      /\ ("onion.pak" \notin dropFiles => corePak = Due)
  /\ boot \in {"install", "unzip"} => corePak = Due
  /\ boot \in {"install", "unzip", "retroarch", "cleanup"} => dropFiles = {}
  /\ "install" \in sysdir => sysdir = {"install"} /\ boot \in {"off", "install"}
                             /\ corePak = Due /\ Published
                             /\ dropFiles = {}
  /\ boot = "install" => sysdir = {"install"}
  /\ boot = "reconcile" => trigger = None

IInv ==
  /\ TypeOK
  /\ RecoverySourceRetained /\ TrackedUntilUnrecorded /\ RecoveryTargetsKnownGood
  /\ CommandInv /\ PublicationInv /\ InstallerInv
  /\ pending = None <=> phase \in {"idle", "known_good"}
  /\ phase = "armed" => attempts = 0
  /\ phase = "testing" => attempts > 0

-----------------------------------------------------------------------------
LEMMA InitInv == Init => IInv
<1> USE ReleasesAssumption, BoundsAssumption
<1>1. Init => TypeOK
  <2>1. 0 \in 0..MaxBootAttempts /\ 0 \in 0..MaxFaults
    OBVIOUS
  <2>2. QED
    BY <2>1 DEF Init, TypeOK, Phases, RuntimeEntries, SysEntries, BootStages
<1>2. Init => RecoverySourceRetained /\ TrackedUntilUnrecorded /\ RecoveryTargetsKnownGood
  BY DEF Init, RecoverySourceRetained, TrackedUntilUnrecorded, RunningReleaseTracked, RecoveryTargetsKnownGood, Awaiting
<1>3. Init => CommandInv /\ PublicationInv
  BY DEF Init, CommandInv, PublicationInv
<1>4. Init => InstallerInv
  BY DEF Init, InstallerInv, Installing, RuntimeEntries, SysEntries
<1>5. QED BY <1>1, <1>2, <1>3, <1>4 DEF IInv, Init

LEMMA StepInv == IInv /\ [Next]_vars => IInv'
<1> SUFFICES ASSUME IInv, [Next]_vars PROVE IInv'
  OBVIOUS
<1> USE ReleasesAssumption, BoundsAssumption
    DEF IInv, TypeOK, Phases, BootStages, RecoverySourceRetained, TrackedUntilUnrecorded,
        RunningReleaseTracked, RecoveryTargetsKnownGood, Due, Writes, CountBoot, faultVars, CommandInv, PublicationInv, InstallerInv, Awaiting,
        Published, Installing, NoInstallerPending, DropFiles, SysEntries, RuntimeEntries,
        vars, stateVars, recordVars, dropVars, systemVars, taskVars,
        CommandReady, Begin, Goto, Finish, DropEmptyResidue, RecordKnownGood,
        RecoveryAvailable, Active, NextPhase
<1>1. ASSUME NEW r \in Releases, Stage(r) PROVE IInv'
  BY <1>1 DEF Stage
<1>2. ASSUME NEW r \in Releases, Prepare(r) PROVE IInv'
  BY <1>2 DEF Prepare
<1>3. ASSUME NEW r \in Releases, Bootstrap(r) PROVE IInv'
  <2>1. CASE UNCHANGED faultVars
    BY <1>3, <2>1 DEF Bootstrap
  <2>2. CASE Unwritten /\ UNCHANGED knownGood
    BY <1>3, <2>2 DEF Bootstrap, Unwritten
  <2>3. QED
    BY <1>3, <2>1, <2>2 DEF Bootstrap, Unwritten
<1>4. ASSUME NEW r \in Releases, Arm(r) PROVE IInv'
  <2>1. CASE UNCHANGED faultVars
    BY <1>4, <2>1 DEF Arm
  <2>2. CASE Unwritten /\ UNCHANGED stateVars
    BY <1>4, <2>2 DEF Arm, Unwritten
  <2>3. QED
    BY <1>4, <2>1, <2>2 DEF Arm, Unwritten
<1>5. ASSUME NEW r \in Releases, Activate(r) PROVE IInv'
  BY <1>5 DEF Activate
<1>6. ASSUME NEW e \in SysEntries, WipeEntry(e) PROVE IInv'
  BY <1>6 DEF WipeEntry
<1>7. ASSUME NEW e \in SysEntries, UnzipEntry(e) PROVE IInv'
  BY <1>7 DEF UnzipEntry
<1>8. CASE Rollback
  BY <1>8 DEF Rollback
<1>9. CASE Confirm
  BY <1>9 DEF Confirm
<1>10. CASE BootstrapState
  <2>1. CASE UNCHANGED faultVars
    BY <1>10, <2>1 DEF BootstrapState
  <2>2. CASE Unwritten /\ UNCHANGED stateVars
    BY <1>10, <2>2 DEF BootstrapState, Unwritten
  <2>3. QED
    BY <1>10, <2>1, <2>2 DEF BootstrapState, Unwritten
<1>11. CASE ActivationStart
  <2>1. CASE UNCHANGED faultVars
    BY <1>11, <2>1 DEF ActivationStart
  <2>2. CASE Unwritten /\ UNCHANGED stateVars
    BY <1>11, <2>2 DEF ActivationStart, Unwritten
  <2>3. QED
    BY <1>11, <2>1, <2>2 DEF ActivationStart, Unwritten
<1>12. CASE RecoverySource
  BY <1>12 DEF RecoverySource
<1>13. CASE RollbackDiscardCandidate
  BY <1>13 DEF RollbackDiscardCandidate
<1>14. CASE RollbackRebuildCandidate
  BY <1>14 DEF RollbackRebuildCandidate
<1>15. CASE RollbackCheckResidue
  BY <1>15 DEF RollbackCheckResidue
<1>16. CASE RollbackBlocked
  BY <1>16 DEF RollbackBlocked
<1>17. CASE RollbackStart
  <2>1. CASE UNCHANGED faultVars
    BY <1>17, <2>1 DEF RollbackStart
  <2>2. CASE Unwritten /\ UNCHANGED stateVars
    BY <1>17, <2>2 DEF RollbackStart, Unwritten
  <2>3. QED
    BY <1>17, <2>1, <2>2 DEF RollbackStart, Unwritten
<1>18. CASE PublishPayload
  BY <1>18 DEF PublishPayload
<1>19. CASE PublishRetroArch
  BY <1>19 DEF PublishRetroArch
<1>20. CASE PublishTrigger
  BY <1>20 DEF PublishTrigger
<1>21. CASE RecoveryReboot
  BY <1>21 DEF RecoveryReboot
<1>22. CASE MarkGoodRecord
  <2>1. CASE UNCHANGED faultVars
    BY <1>22, <2>1 DEF MarkGoodRecord
  <2>2. CASE Unwritten /\ UNCHANGED knownGood
    BY <1>22, <2>2 DEF MarkGoodRecord, Unwritten
  <2>3. QED
    BY <1>22, <2>1, <2>2 DEF MarkGoodRecord, Unwritten
<1>23. CASE MarkGoodState
  <2>1. CASE UNCHANGED faultVars
    BY <1>23, <2>1 DEF MarkGoodState
  <2>2. CASE Unwritten /\ UNCHANGED stateVars
    BY <1>23, <2>2 DEF MarkGoodState, Unwritten
  <2>3. QED
    BY <1>23, <2>1, <2>2 DEF MarkGoodState, Unwritten
<1>24. CASE BootInstaller
  BY <1>24 DEF BootInstaller
<1>25. CASE BootRuntime
  BY <1>25 DEF BootRuntime
<1>26. CASE BootTrigger
  BY <1>26 DEF BootTrigger
<1>27. CASE InstallerCancelled
  BY <1>27 DEF InstallerCancelled
<1>28. CASE InstallerAccepted
  BY <1>28 DEF InstallerAccepted
<1>29. CASE WipeNothing
  BY <1>29 DEF WipeNothing
<1>30. CASE MoveScript
  BY <1>30 DEF MoveScript
<1>31. CASE MovePackage
  BY <1>31 DEF MovePackage
<1>32. CASE MoveUpdater
  <2>1. sysdir = {} /\ corePak = Due /\ Published /\ corePak' = corePak /\ Due' = Due
    BY <1>32 DEF MoveUpdater
  <2>2. QED
    BY <1>32, <2>1 DEF MoveUpdater
<1>33. CASE InstallCore
  BY <1>33 DEF InstallCore
<1>34. CASE UnzipVersion
  BY <1>34 DEF UnzipVersion
<1>35. CASE UnzipDone
  BY <1>35 DEF UnzipDone
<1>36. CASE InstallRetroArch
  BY <1>36 DEF InstallRetroArch
<1>37. CASE InstallCleanup
  BY <1>37 DEF InstallCleanup
<1>38. CASE BeginNothing
  BY <1>38 DEF BeginNothing
<1>39. CASE BootAttempt
  <2>1. CASE UNCHANGED faultVars
    BY <1>39, <2>1 DEF BootAttempt
  <2>2. CASE Unwritten /\ UNCHANGED stateVars
    BY <1>39, <2>2 DEF BootAttempt, Unwritten
  <2>3. QED
    BY <1>39, <2>1, <2>2 DEF BootAttempt, Unwritten
<1>40. CASE Restart
  BY <1>40 DEF Restart
<1>41. CASE CommandFails
  BY <1>41 DEF CommandFails
<1>42. CASE PowerLoss
  BY <1>42 DEF PowerLoss
<1>43. CASE StagePublish
  BY <1>43 DEF StagePublish
<1>44. CASE PreparePublish
  BY <1>44 DEF PreparePublish
<1>45. CASE UNCHANGED vars
  BY <1>45
<1>46. QED
  BY <1>1, <1>2, <1>3, <1>4, <1>5, <1>6, <1>7, <1>8, <1>9, <1>10, <1>11, <1>12, <1>13,
     <1>14, <1>15, <1>16, <1>17, <1>18, <1>19, <1>20, <1>21, <1>22, <1>23, <1>24, <1>25,
     <1>26, <1>27, <1>28, <1>29, <1>30, <1>31, <1>32, <1>33, <1>34, <1>35, <1>36, <1>37,
     <1>38, <1>39, <1>40, <1>41, <1>42, <1>43, <1>44, <1>45
     DEF Next, Commands, TaskStep, BootStep

-----------------------------------------------------------------------------
THEOREM Invariance == Spec => []IInv
  BY InitInv, StepInv, PTL DEF Spec

\* Every variable keeps its type, whatever is interrupted.
THEOREM TypeCorrect == Spec => []TypeOK
<1>1. IInv => TypeOK
  BY DEF IInv
<1>2. QED
  BY <1>1, Invariance, PTL

\* An installer is never under way without a staged known-good release.
THEOREM SourceRetained == Spec => []RecoverySourceRetained
<1>1. IInv => RecoverySourceRetained
  BY DEF IInv
<1>2. QED
  BY <1>1, Invariance, PTL

\* The system directory is only wiped for one whole release, the one the record
\* works towards, also where a write of the record was refused.
THEOREM WholeRelease == Spec => []WipesForWholeReleaseOnly
<1>1. IInv => WipesForWholeReleaseOnly
  BY DEF IInv, InstallerInv, WipesForWholeReleaseOnly
<1>2. QED
  BY <1>1, Invariance, PTL

\* As long as every write of a record has succeeded, an unconfirmed release
\* never runs outside a tracked update.
THEOREM Tracked == Spec => []TrackedUntilUnrecorded
<1>1. IInv => TrackedUntilUnrecorded
  BY DEF IInv
<1>2. QED
  BY <1>1, Invariance, PTL

\* A rollback only ever works towards the known-good release, and counting
\* stops at the limit.
THEOREM RecoveryTarget == Spec => []RecoveryTargetsKnownGood
<1>1. IInv => RecoveryTargetsKnownGood
  BY DEF IInv
<1>2. QED
  BY <1>1, Invariance, PTL

-----------------------------------------------------------------------------
(* What a step may never do.  The steps that write a record are few; each   *)
(* is shown harmless from the part of IInv that says when it is taken.      *)

\* The steps of a command, and the phases they are taken in.
LEMMA RecordSteps ==
  ASSUME IInv, [Next]_vars
  PROVE  /\ knownGood' # knownGood =>
              (\E r \in Releases : Bootstrap(r)) \/ MarkGoodRecord
         /\ (phase' # phase \/ pending' # pending \/ operation' # operation \/ attempts' # attempts) =>
              \/ \E r \in Releases : Arm(r)
              \/ BootstrapState \/ ActivationStart \/ RollbackStart
              \/ MarkGoodState \/ BootAttempt
         /\ version' # version => UnzipVersion
         /\ unrecorded' # unrecorded =>
              unrecorded' = TRUE /\ UNCHANGED <<stateVars, knownGood, version>>
<1> USE DEF vars, stateVars, recordVars, systemVars, faultVars, Writes
<1>1. CASE Commands
  BY <1>1 DEF Commands, Stage, Prepare, Activate, Rollback, Confirm, Bootstrap, Arm
<1>2. CASE TaskStep
  BY <1>2 DEF TaskStep, StagePublish, PreparePublish, BootstrapState, ActivationStart, RecoverySource,
              RollbackDiscardCandidate, RollbackRebuildCandidate, RollbackCheckResidue,
              RollbackBlocked, RollbackStart, PublishPayload, PublishRetroArch,
              PublishTrigger, RecoveryReboot, MarkGoodRecord, MarkGoodState
<1>3. CASE BootStep
  BY <1>3 DEF BootStep, BootInstaller, BootRuntime, BootTrigger, InstallerCancelled,
              InstallerAccepted, WipeEntry, UnzipEntry, WipeNothing, MoveScript,
              MovePackage, MoveUpdater, InstallCore, UnzipVersion, UnzipDone,
              InstallRetroArch, InstallCleanup, BeginNothing, BootAttempt
<1>4. CASE Restart \/ CommandFails \/ PowerLoss \/ UNCHANGED vars
  BY <1>4 DEF Restart, CommandFails, PowerLoss
<1>5. QED
  BY <1>1, <1>2, <1>3, <1>4 DEF Next

\* known-good.json changes only to the running release, after a counted boot.
THEOREM Confirmation == Spec => KnownGoodOnlyByConfirmation
<1> DEFINE Gate == knownGood' # knownGood =>
       /\ knownGood' = version
       /\ \/ knownGood = None /\ phase = "idle"
          \/ phase = "testing" /\ operation = "update" /\ pending = version
<1>1. IInv /\ [Next]_vars => [Gate]_vars
  <2> SUFFICES ASSUME IInv, [Next]_vars, knownGood' # knownGood PROVE Gate
    OBVIOUS
  <2>1. CASE \E r \in Releases : Bootstrap(r)
    BY <2>1 DEF Bootstrap, Writes
  <2>2. CASE MarkGoodRecord
    BY <2>2 DEF MarkGoodRecord, Writes, IInv, CommandInv
  <2>3. QED
    BY <2>1, <2>2, RecordSteps
<1>2. QED
  BY <1>1, Invariance, PTL DEF Spec, KnownGoodOnlyByConfirmation

\* No step leaves rollback_failed.
THEOREM FailureTerminal == Spec => RollbackFailureIsTerminal
<1>1. IInv /\ [Next]_vars =>
        [phase = "rollback_failed" => phase' = "rollback_failed"]_vars
  <2> SUFFICES ASSUME IInv, [Next]_vars, phase = "rollback_failed", phase' # phase
               PROVE FALSE
    OBVIOUS
  <2>1. CASE \E r \in Releases : Arm(r)
    BY <2>1 DEF Arm, Active
  <2>2. CASE BootAttempt
    BY <2>2 DEF BootAttempt, Awaiting
  <2>3. CASE BootstrapState \/ ActivationStart \/ RollbackStart
    BY <2>3 DEF BootstrapState, ActivationStart, RollbackStart, IInv, CommandInv
  <2>4. CASE MarkGoodState
    BY <2>4 DEF MarkGoodState, IInv, CommandInv
  <2>5. QED
    BY <2>1, <2>2, <2>3, <2>4, RecordSteps
<1>2. QED
  BY <1>1, Invariance, PTL DEF Spec, RollbackFailureIsTerminal

\* Nothing disarms, activates or gives a baseline to a release that was armed
\* before there was a known-good one.
THEOREM ArmedStuck == Spec => ArmedWithoutBaselineIsStuck
<1> DEFINE Same == phase' = "armed" /\ knownGood' = None /\ pending' = pending
<1>1. IInv /\ [Next]_vars => [phase = "armed" /\ knownGood = None => Same]_vars
  <2> SUFFICES ASSUME IInv, [Next]_vars, phase = "armed", knownGood = None
               PROVE Same
    OBVIOUS
  <2>1. knownGood' = knownGood
    <3>1. CASE \E r \in Releases : Bootstrap(r)
      BY <3>1 DEF Bootstrap, IInv, CommandInv
    <3>2. CASE MarkGoodRecord
      BY <3>2 DEF MarkGoodRecord, IInv, CommandInv
    <3>3. QED
      BY <3>1, <3>2, RecordSteps
  <2>2. phase' = phase /\ pending' = pending
    <3>1. ~(\E r \in Releases : Arm(r))
      BY DEF Arm, Active
    <3>2. ~BootAttempt
      BY DEF BootAttempt, Awaiting
    <3>3. ~BootstrapState /\ ~ActivationStart /\ ~RollbackStart /\ ~MarkGoodState
      BY DEF BootstrapState, ActivationStart, RollbackStart, MarkGoodState, IInv, CommandInv
    <3>4. QED
      BY <3>1, <3>2, <3>3, RecordSteps
  <2>3. QED
    BY <2>1, <2>2
<1>2. QED
  BY <1>1, Invariance, PTL DEF Spec, ArmedWithoutBaselineIsStuck
\* The scripts implement what an updater promises: each step is one of the
\* promise's, or invisible in it.
THEOREM PromiseKept == Spec => KeepsPromise
<1> DEFINE pvars == <<version, knownGood, TrialOf, OnTrial(pending, None),
                      OnTrial(attempts, 0), unrecorded>>
<1> USE DEF TrialOf, OnTrial, Awaiting
<1>1. Init => Promise!Init
  BY DEF Init, Promise!Init
<1>2. IInv /\ [Next]_vars => [Promise!Next]_pvars
  <2> SUFFICES ASSUME IInv, [Next]_vars, pvars' # pvars
               PROVE Promise!Next
    OBVIOUS
  <2> USE DEF IInv, CommandInv, stateVars, recordVars, systemVars
  <2>0. CASE unrecorded' # unrecorded
    BY <2>0, RecordSteps DEF Promise!Next, Promise!Lapse
  <2> SUFFICES ASSUME unrecorded' = unrecorded PROVE Promise!Next
    BY <2>0
  <2>1. ASSUME NEW r \in Releases, Bootstrap(r) PROVE Promise!Next
    BY <2>1 DEF Bootstrap, Writes, Promise!Next, Promise!Adopt
  <2>2. CASE MarkGoodRecord
    BY <2>2, ReleasesAssumption DEF MarkGoodRecord, Writes, Promise!Next, Promise!Keep
  <2>3. ASSUME NEW r \in Releases, Arm(r) PROVE FALSE
    BY <2>3 DEF Arm, Writes, Active
  <2>4. CASE BootstrapState
    BY <2>4 DEF BootstrapState, Writes, RecordKnownGood
  <2>5. CASE ActivationStart
    <3>1. pending \in Releases /\ (version = knownGood \/ unrecorded)
      BY <2>5 DEF ActivationStart, TypeOK, TrackedUntilUnrecorded, RunningReleaseTracked
    <3>2. Promise!Try(pending)
      BY <2>5, <3>1 DEF ActivationStart, Writes, Promise!Try, RecoveryTargetsKnownGood
    <3>3. QED
      BY <3>1, <3>2 DEF Promise!Next
  <2>6. CASE RollbackStart
    BY <2>6 DEF RollbackStart, Writes, Promise!Next, Promise!GoBack
  <2>7. CASE MarkGoodState
    <3>1. Promise!Settle
      BY <2>7 DEF MarkGoodState, Writes, RecordKnownGood, Promise!Settle, Promise!Open
    <3>2. QED
      BY <3>1 DEF Promise!Next
  <2>8. CASE BootAttempt
    <3>1. CASE attempts + 1 < MaxBootAttempts
      BY <2>8, <3>1 DEF BootAttempt, Writes, CountBoot, NextPhase, Promise!Next,
                        Promise!Boot, Promise!Open
    <3>2. CASE ~(attempts + 1 < MaxBootAttempts)
      <4>1. attempts + 1 >= MaxBootAttempts
        BY <3>2, BoundsAssumption DEF TypeOK
      <4>2. Promise!LastBoot
        BY <2>8, <3>2, <4>1 DEF BootAttempt, Writes, CountBoot, NextPhase,
                                Promise!LastBoot, Promise!Open
      <4>3. QED
        BY <4>2 DEF Promise!Next
    <3>3. QED
      BY <3>1, <3>2
  <2>9. CASE UnzipVersion
    <3>1. corePak = Due /\ Published /\ Due \in Releases /\ knownGood # None
      BY <2>9, ReleasesAssumption
         DEF UnzipVersion, InstallerInv, Installing, Published, Due, TypeOK, RecoverySourceRetained
    <3>2. CASE phase \in {"activation_pending", "rollback_pending"}
      <4>1. Promise!Install
        BY <2>9, <3>1, <3>2 DEF UnzipVersion, Due, Promise!Install, Promise!Open
      <4>2. QED
        BY <4>1 DEF Promise!Next
    <3>3. CASE unrecorded /\ phase = "armed"
      <4>1. Promise!Stray(Due)
        BY <2>9, <3>1, <3>3 DEF UnzipVersion, Promise!Stray
      <4>2. QED
        BY <3>1, <4>1 DEF Promise!Next
    <3>4. CASE unrecorded /\ phase = "recovery_required"
      <4>1. Promise!StrayBack
        BY <2>9, <3>1, <3>4 DEF UnzipVersion, Due, Promise!StrayBack
      <4>2. QED
        BY <4>1 DEF Promise!Next
    <3>5. QED
      BY <3>1, <3>2, <3>3, <3>4 DEF Published
  <2>10. QED
    BY <2>1, <2>2, <2>3, <2>4, <2>5, <2>6, <2>7, <2>8, <2>9, RecordSteps
<1>3. QED
  BY <1>1, <1>2, Invariance, PTL DEF Spec, KeepsPromise, Promise!Spec, Promise!vars
=============================================================================
