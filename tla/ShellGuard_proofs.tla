------------------------- MODULE ShellGuard_proofs --------------------------
(***************************************************************************)
(* The Safe Mode latch, for every threshold and every bound of the counts: *)
(* on any card, and where the card and the timing are orderly.             *)
(*                                                                         *)
(* FailuresLatch speaks of what happened (streak), the code only knows its *)
(* file.  The inductive invariant ties the two: the failures in the file,  *)
(* with one more while the last start is still "starting", are never fewer *)
(* than the starts that failed in a row, unless the latch is set already.  *)
(***************************************************************************)
EXTENDS ShellGuard, TLAPS

\* What the next begin will count.
Counted == st.failures + IF st.phase = "starting" THEN 1 ELSE 0

StreakInv ==
  /\ runtime \in {"boot", "main"} => st.mode = "safe" \/ streak <= Counted
  /\ runtime = "up" => IF early THEN st.mode = "safe" \/ streak <= st.failures ELSE streak = 0
  /\ runtime = "failure" =>
       IF st.phase = "starting" THEN st.mode = "safe" \/ streak <= Counted ELSE streak = 0
  /\ runtime \in {"handoff", "restart"} => streak = 0

LaunchInv ==
  /\ runtime \notin {"boot", "main"} =>
       /\ launch = st.id /\ launch # 0 /\ safe = (st.mode = "safe")
       /\ st.phase \in {"starting", "ready"}
  /\ runtime = "up" /\ st.phase = "starting" => st.mode = "safe" \/ st.failures < Threshold
  /\ runtime = "up" /\ early => waiting /\ st.phase = "starting"
  /\ waiting => runtime = "up" /\ early

MarkerInv ==
  /\ orphan = NoState
  /\ writing # NoState =>
       /\ runtime = "up" /\ ~waiting /\ st.phase = "starting"
       /\ writing = MadeReady(st)
  /\ runtime = "up" /\ st.phase = "starting" /\ ~waiting => writing # NoState

FileInv == st \in States /\ disk = st

ForcedInv == forced => st.mode = "safe"

\* TypeOK in two halves, for the two provers.
FlagsOK == /\ safe \in BOOLEAN /\ forced \in BOOLEAN
           /\ waiting \in BOOLEAN /\ early \in BOOLEAN /\ orderly \in BOOLEAN

ValuesOK ==
  /\ st \in States \cup {NoState} /\ disk \in States \cup {NoState}
  /\ runtime \in {"boot", "main", "up", "handoff", "restart", "failure"}
  /\ launch \in 0..MaxId
  /\ writing \in States \cup {NoState} /\ orphan \in States \cup {NoState}
  /\ scripts \in {"later", "run", "suppressed"}
  /\ streak \in 0..Threshold

OrderlyInv == FileInv /\ StreakInv /\ LaunchInv /\ MarkerInv /\ ForcedInv

\* On any card: whoever starts a shell in Safe Mode forces the sessions off.
ForcesOff == runtime = "up" /\ safe => forced

IInv == ValuesOK /\ FlagsOK /\ ForcesOff /\ (orderly => OrderlyInv)

LEMMA NoStateIsNone == NoState \notin States
  BY DEF NoState, States, Phases

LEMMA StateFields ==
  ASSUME NEW s \in States
  PROVE  /\ s.phase \in {"idle", "starting", "ready", "failed"}
         /\ s.id \in 0..MaxId /\ s.failures \in 0..MaxFailures
         /\ s.mode \in {"normal", "safe"}
  BY DEF States, Phases

\* What begin writes is a state that names the launch; it has counted the
\* interrupted start, and where the count reaches the threshold it is latched.
LEMMA BegunCounts ==
  ASSUME NEW s \in States
  PROVE  /\ Begun(s) \in States /\ Begun(s).phase = "starting" /\ Begun(s).id # 0
         /\ s.mode = "safe" => Begun(s).mode = "safe"
         /\ \/ Begun(s).mode = "safe"
            \/ /\ Begun(s).failures < Threshold
               /\ Begun(s).failures = s.failures + IF s.phase = "starting" THEN 1 ELSE 0
  BY ShellGuardAssumption DEF Begun, Capped, Latched, States, Phases

\* The same of a failure.
LEMMA FailedCounts ==
  ASSUME NEW s \in States
  PROVE  /\ Failed(s) \in States /\ Failed(s).phase = "failed"
         /\ s.mode = "safe" => Failed(s).mode = "safe"
         /\ \/ Failed(s).mode = "safe"
            \/ Failed(s).failures = s.failures + 1
  BY ShellGuardAssumption DEF Failed, Capped, Latched, States, Phases

\* The other commands change the phase and forget the failures; only one
\* clears the latch.
LEMMA OtherCommands ==
  ASSUME NEW s \in States
  PROVE  /\ MadeReady(s) \in States /\ MadeReady(s).phase = "ready"
         /\ MadeReady(s).id = s.id /\ MadeReady(s).mode = s.mode
         /\ Completed(s) \in States /\ Completed(s).mode = s.mode
         /\ Cleared(s) \in States /\ Cleared(s).mode = "normal"
  BY ShellGuardAssumption DEF MadeReady, Completed, Cleared, States, Phases

LEMMA InitInv == Init => IInv
<1> SUFFICES ASSUME Init PROVE IInv
  OBVIOUS
<1>1. st \in States
  BY ShellGuardAssumption DEF Init, States, Phases
<1>2. ValuesOK
  BY ShellGuardAssumption, <1>1 DEF Init, ValuesOK
<1>3. FlagsOK
  BY DEF Init, FlagsOK
<1> QED
  BY ShellGuardAssumption, NoStateIsNone, <1>1, <1>2, <1>3
  DEF Init, IInv, ForcesOff, OrderlyInv, FileInv, StreakInv, LaunchInv, MarkerInv, ForcedInv, Counted

LEMMA FlagsStep == FlagsOK /\ [Next]_vars => FlagsOK'
  BY DEF FlagsOK, Next, Step, vars, shellVars, markerVars, Boot, Begin, MarkerReads, MarkerWrites,
         OrphanWrites, ShellExits, HandOff, Restart, Failure, Sync, PowerLoss

\* The order to force the sessions off precedes the shell.
LEMMA ForcesStep == FlagsOK /\ ForcesOff /\ [Next]_vars => ForcesOff'
  BY DEF FlagsOK, ForcesOff, Next, Step, vars, shellVars, markerVars, Boot, Begin, MarkerReads,
         MarkerWrites, OrphanWrites, ShellExits, HandOff, Restart, Failure, Sync, PowerLoss

\* The types are kept whether or not the card is orderly.
LEMMA ValuesStep == ValuesOK /\ FlagsOK /\ [Next]_vars => ValuesOK'
<1> SUFFICES ASSUME ValuesOK, FlagsOK, [Next]_vars PROVE ValuesOK'
  OBVIOUS
<1> USE ShellGuardAssumption, NoStateIsNone, StateFields DEF ValuesOK, fileVars, shellVars, markerVars
<1>1. CASE Boot
  BY <1>1 DEF Boot
<1>2. CASE Begin
  <2>1. CASE launch' = 0 /\ UNCHANGED fileVars
    BY <1>2, <2>1 DEF Begin
  <2>2. CASE st # NoState /\ Write(Begun(st)) /\ launch' = st'.id
    <3>1. st' = Begun(st) /\ disk' \in {st', disk} /\ launch' = st'.id
      BY <1>2, <2>2 DEF Write
    <3> QED
      BY <1>2, <2>2, <3>1, BegunCounts DEF Begin
  <2> QED
    BY <1>2, <2>1, <2>2 DEF Begin
<1>3. CASE MarkerReads
  BY <1>3, OtherCommands DEF MarkerReads, NoState
<1>4. CASE MarkerWrites
  BY <1>4 DEF MarkerWrites, Write, Refused
<1>5. CASE OrphanWrites
  BY <1>5 DEF OrphanWrites, Write, Refused
<1>6. ASSUME NEW how \in {"handoff", "restart", "failure"}, ShellExits(how)
      PROVE  ValuesOK'
  BY <1>6 DEF ShellExits
<1>7. CASE HandOff
  BY <1>7, OtherCommands DEF HandOff, Write, Refused, IsActive, NoState
<1>8. CASE Restart
  BY <1>8, OtherCommands DEF Restart, Write
<1>9. CASE Failure
  BY <1>9, FailedCounts DEF Failure, Write, Refused, IsActive, NoState
<1>10. CASE Sync
  BY <1>10 DEF Sync
<1>11. CASE PowerLoss
  BY <1>11 DEF PowerLoss
<1>12. CASE UNCHANGED vars
  BY <1>12 DEF vars
<1> QED
  BY <1>1, <1>2, <1>3, <1>4, <1>5, <1>6, <1>7, <1>8, <1>9, <1>10, <1>11, <1>12 DEF Next, Step

LEMMA OrderlyStep == IInv /\ orderly /\ [Next]_vars => OrderlyInv'
<1> SUFFICES ASSUME IInv, orderly, [Next]_vars PROVE OrderlyInv'
  OBVIOUS
<1> USE ShellGuardAssumption, NoStateIsNone, StateFields
    DEF IInv, OrderlyInv, ValuesOK, FileInv, StreakInv, LaunchInv, MarkerInv, ForcedInv, Counted,
        fileVars, shellVars, markerVars
<1>0. FlagsOK /\ FlagsOK'
  BY FlagsStep
<1>1. CASE Boot
  BY <1>0, <1>1 DEF Boot
<1>2. CASE Begin
  <2>1. st \in States /\ st # NoState
    OBVIOUS
  <2>2. st' = Begun(st) /\ disk' = Begun(st) /\ launch' = st'.id /\ safe' = (st'.mode = "safe")
    BY <1>0, <1>2, <2>1 DEF Begin, Write, Refused
  <2>3. writing = NoState /\ orphan = NoState
    BY <1>0, <1>2 DEF Begin
  <2> QED
    BY <1>0, <1>2, <2>1, <2>2, <2>3, BegunCounts DEF Begin
<1>3. CASE MarkerReads
  BY <1>0, <1>3, OtherCommands DEF MarkerReads
<1>4. CASE MarkerWrites
  BY <1>0, <1>4, OtherCommands DEF MarkerWrites, Write, Refused
<1>5. CASE OrphanWrites
  BY <1>0, <1>5 DEF OrphanWrites
<1>6. ASSUME NEW how \in {"handoff", "restart", "failure"}, ShellExits(how)
      PROVE  OrderlyInv'
  BY <1>0, <1>6 DEF ShellExits
<1>7. CASE HandOff
  BY <1>0, <1>7, OtherCommands DEF HandOff, Write, Refused
<1>8. CASE Restart
  BY <1>0, <1>8, OtherCommands DEF Restart, Write, Refused
<1>9. CASE Failure
  <2>1. st' = Failed(st) /\ disk' = Failed(st)
    BY <1>0, <1>9 DEF Failure, IsActive, Write, Refused
  <2> QED
    BY <1>0, <1>9, <2>1, FailedCounts DEF Failure
<1>10. CASE Sync
  BY <1>0, <1>10 DEF Sync
<1>11. CASE PowerLoss
  BY <1>0, <1>11 DEF PowerLoss
<1>12. CASE UNCHANGED vars
  BY <1>0, <1>12 DEF vars
<1> QED
  BY <1>1, <1>2, <1>3, <1>4, <1>5, <1>6, <1>7, <1>8, <1>9, <1>10, <1>11, <1>12 DEF Next, Step

LEMMA StepInv == IInv /\ [Next]_vars => IInv'
<1> SUFFICES ASSUME IInv, [Next]_vars PROVE IInv'
  OBVIOUS
<1>1. ValuesOK' /\ FlagsOK' /\ ForcesOff'
  BY FlagsStep, ForcesStep, ValuesStep DEF IInv
<1>2. orderly' = orderly
  BY DEF Next, vars
<1> QED
  BY <1>1, <1>2, OrderlyStep DEF IInv

\* Every value has its type: in particular the counts stay in their bounds, and
\* the file always parses.
THEOREM Typed == Spec => []TypeOK
<1>1. IInv => TypeOK
  BY DEF IInv, ValuesOK, FlagsOK, TypeOK
<1> QED
  BY <1>1, InitInv, StepInv, PTL DEF Spec

\* However launches fail, hand off, restart and lose power, a shell in normal
\* mode never follows Threshold starts in a row that failed early.
THEOREM FailuresLatched == Spec => []FailuresLatch
<1>1. IInv => FailuresLatch
  BY ShellGuardAssumption, StateFields
  DEF IInv, OrderlyInv, FileInv, FlagsOK, StreakInv, LaunchInv, ValuesOK, FailuresLatch
<1> QED
  BY <1>1, InitInv, StepInv, PTL DEF Spec

\* RetroAchievements are forced off whenever a shell is in Safe Mode, on any card;
\* with an orderly card and timing only then.
THEOREM ForcedOff == Spec => []ForcedOffInSafeMode
<1>1. IInv => ForcedOffInSafeMode
  BY DEF IInv, OrderlyInv, FlagsOK, ForcesOff, LaunchInv, ForcedInv, ForcedOffInSafeMode
<1> QED
  BY <1>1, InitInv, StepInv, PTL DEF Spec

\* The three ways in which the latch goes.
LatchGoes ==
  \/ runtime = "restart" /\ launch # 0 /\ st' = Cleared(st)
  \/ ~orderly /\ st' \in {writing, orphan} /\ <<writing, orphan>>' # <<writing, orphan>>
  \/ ~orderly /\ st' = disk /\ runtime' = "boot"

LEMMA LatchStep ==
  ASSUME IInv, [Next]_vars, IsLatched(st), ~IsLatched(st')
  PROVE  LatchGoes
<1> USE DEF IInv, ValuesOK, FlagsOK, IsLatched
<1>0. /\ NoState \notin States /\ st \in States \cup {NoState}
      /\ st # NoState => st \in States /\ st.mode = "safe"
  BY NoStateIsNone
<1>1. CASE Begin
  BY <1>0, <1>1, BegunCounts DEF Begin, Write, fileVars
<1>2. CASE MarkerWrites
  <2>1. st' = writing /\ writing # NoState /\ writing' = NoState
    BY <1>2 DEF MarkerWrites, Write, Refused, fileVars
  <2>2. CASE orderly
    <3>1. st \in States /\ writing = MadeReady(st)
      BY <2>1, <2>2 DEF OrderlyInv, FileInv, MarkerInv
    <3> QED
      BY <1>0, <2>1, <3>1, OtherCommands
  <2>3. CASE ~orderly
    BY <2>1, <2>3 DEF LatchGoes
  <2> QED
    BY <2>2, <2>3
<1>3. CASE OrphanWrites
  <2>1. st' = orphan /\ orphan # NoState /\ orphan' = NoState
    BY <1>3 DEF OrphanWrites, Write, Refused, fileVars
  <2>2. ~orderly
    BY <2>1 DEF OrderlyInv, MarkerInv
  <2> QED
    BY <2>1, <2>2 DEF LatchGoes
<1>4. CASE HandOff
  BY <1>0, <1>4, OtherCommands DEF HandOff, Write, Refused, IsActive, NoState, fileVars
<1>5. CASE Failure
  BY <1>0, <1>5, FailedCounts DEF Failure, Write, Refused, IsActive, NoState, fileVars
<1>6. CASE PowerLoss
  <2>1. runtime' = "boot" /\ st' \in {st, disk, NoState}
    BY <1>6 DEF PowerLoss
  <2>2. st' = disk /\ st' # st
    BY <2>1
  <2>3. ~orderly
    BY <2>2 DEF OrderlyInv, FileInv
  <2> QED
    BY <2>1, <2>2, <2>3 DEF LatchGoes
<1>7. CASE Restart
  BY <1>7 DEF Restart, Write, fileVars, LatchGoes
<1>8. st' # st
  OBVIOUS
<1> QED
  BY <1>1, <1>2, <1>3, <1>4, <1>5, <1>6, <1>7, <1>8
  DEF Next, Step, vars, fileVars, Boot, MarkerReads, ShellExits, Sync

\* On any card and with any timing, the latch goes with the dedicated restart, with a
\* ready command that publishes what it read before the latch was set, or with a power
\* loss that brings back the state on the card - the last two never where the card and
\* the timing are orderly.
THEOREM LatchIsKept == Spec => LatchKept
<1>1. IInv /\ [Next]_vars => [IsLatched(st) /\ ~IsLatched(st') => LatchGoes]_vars
  BY LatchStep
<1>2. IInv /\ [Next]_vars =>
        [IsLatched(st) /\ ~IsLatched(st') =>
           \/ runtime = "restart" /\ launch # 0 /\ st' = Cleared(st)
           \/ ~orderly /\ st' \in {writing, orphan} /\ <<writing, orphan>>' # <<writing, orphan>>
           \/ ~orderly /\ st' = disk /\ runtime' = "boot"]_vars
  BY <1>1 DEF LatchGoes
<1> QED
  BY <1>2, InitInv, StepInv, PTL DEF Spec, LatchKept

-----------------------------------------------------------------------------
(* The boot, on any card                                                   *)

\* Whoever counts to the threshold latches.
Honest(s) == s.failures >= Threshold => s.mode = "safe"

\* Between what a boot decides and its first shell no marker is there to publish.
BootInv ==
  /\ Honest(st) /\ Honest(disk) /\ Honest(writing) /\ Honest(orphan)
  /\ runtime = "boot" \/ scripts # "later" => writing = NoState /\ orphan = NoState
  /\ scripts # "later" => runtime = "main"
  /\ scripts = "run" => ~Pending
  /\ scripts = "suppressed" => Pending

LEMMA CommandsHonest ==
  /\ Honest(NoState)
  /\ \A s \in States :
       /\ Honest(Begun(s)) /\ Honest(Failed(s)) /\ Honest(MadeReady(s))
       /\ Honest(Completed(s)) /\ Honest(Cleared(s))
  BY ShellGuardAssumption
  DEF Honest, NoState, Begun, Failed, MadeReady, Completed, Cleared, Latched, States

LEMMA BootStep ==
  ASSUME IInv, BootInv, [Next]_vars
  PROVE  BootInv'
<1> USE CommandsHonest DEF BootInv, fileVars, shellVars, markerVars
<1>0. /\ st \in States \cup {NoState} /\ writing \in States \cup {NoState}
      /\ scripts \in {"later", "run", "suppressed"}
      /\ \A s \in States : s # NoState
  BY NoStateIsNone DEF IInv, ValuesOK
<1>1. CASE Boot
  BY <1>1 DEF Boot, Pending
<1>2. CASE Begin
  BY <1>0, <1>2 DEF Begin, Write
<1>3. CASE MarkerReads
  BY <1>0, <1>3 DEF MarkerReads, NoState
<1>4. CASE MarkerWrites
  <2>1. scripts' = "later" /\ runtime' # "boot" BY <1>0, <1>4 DEF MarkerWrites
  <2> QED BY <1>4, <2>1 DEF MarkerWrites, Write, Refused
<1>5. CASE OrphanWrites
  <2>1. scripts' = "later" /\ runtime' # "boot" BY <1>0, <1>5 DEF OrphanWrites
  <2> QED BY <1>5, <2>1 DEF OrphanWrites, Write, Refused
<1>6. ASSUME NEW how \in {"handoff", "restart", "failure"}, ShellExits(how)
      PROVE  BootInv'
  BY <1>0, <1>6 DEF ShellExits
<1>7. CASE HandOff
  <2>1. scripts' = "later" /\ runtime' = "main" /\ UNCHANGED markerVars BY <1>0, <1>7 DEF HandOff
  <2>2. Honest(st') /\ Honest(disk')
    BY <1>0, <1>7 DEF HandOff, Write, Refused, IsActive, NoState
  <2> QED BY <2>1, <2>2
<1>8. CASE Restart
  <2>1. scripts' = "later" /\ runtime' = "main" /\ UNCHANGED markerVars BY <1>0, <1>8 DEF Restart
  <2>2. Honest(st') /\ Honest(disk') BY <1>0, <1>8 DEF Restart, Write
  <2> QED BY <2>1, <2>2
<1>9. CASE Failure
  <2>1. scripts' = "later" /\ runtime' = "main" /\ UNCHANGED markerVars BY <1>0, <1>9 DEF Failure
  <2>2. Honest(st') /\ Honest(disk')
    BY <1>0, <1>9 DEF Failure, Write, Refused, IsActive, NoState
  <2> QED BY <2>1, <2>2
<1>10. CASE Sync
  BY <1>10 DEF Sync, Pending
<1>11. CASE PowerLoss
  BY <1>11 DEF PowerLoss
<1>12. CASE UNCHANGED vars
  BY <1>12 DEF vars, Pending
<1> QED
  BY <1>1, <1>2, <1>3, <1>4, <1>5, <1>6, <1>7, <1>8, <1>9, <1>10, <1>11, <1>12 DEF Next, Step

\* What the boot foresees is what begin then decides, if it can publish.
LEMMA BeginsAsBooted ==
  ASSUME IInv, BootInv, [Next]_vars, runtime = "main", runtime' = "up"
  PROVE  /\ scripts = "run" => ~safe' \/ (st # NoState /\ launch' = 0)
         /\ scripts = "suppressed" => safe'
<1>1. Begin
  BY DEF Next, Step, vars, shellVars, Boot, Begin, MarkerReads, MarkerWrites, OrphanWrites,
         ShellExits, HandOff, Restart, Failure, Sync, PowerLoss
<1>2. CASE launch' = 0 /\ safe' = TRUE
  <2>1. st = NoState => Pending BY DEF Pending
  <2> QED BY <1>2, <2>1 DEF BootInv
<1>3. CASE st # NoState /\ Write(Begun(st)) /\ safe' = (st'.mode = "safe")
  <2>1. st \in States /\ safe' = (Begun(st).mode = "safe")
    BY <1>3 DEF Write, IInv, ValuesOK
  <2>2. Honest(st) BY DEF BootInv
  <2>3. Begun(st).mode = "safe" <=> Pending
    BY <1>3, <2>1, <2>2, ShellGuardAssumption
    DEF Begun, Capped, Latched, Pending, Honest, States, Phases
  <2> QED BY <2>1, <2>3 DEF BootInv
<1> QED BY <1>1, <1>2, <1>3 DEF Begin

\* A boot runs startup scripts exactly before a normal shell, whatever was lost or torn
\* before it and however late a marker was, but for a begin that cannot publish.
THEOREM BootAgrees == Spec => BootAgreesWithShell
<1>1. Init => BootInv
  BY ShellGuardAssumption DEF Init, BootInv, Honest, NoState
<1>2. IInv /\ BootInv /\ [Next]_vars => BootInv'
  BY BootStep
<1>3. IInv /\ BootInv /\ [Next]_vars =>
        [/\ runtime = "main" /\ runtime' = "up"
         => /\ scripts = "run" => ~safe' \/ (st # NoState /\ launch' = 0)
            /\ scripts = "suppressed" => safe']_vars
  BY BeginsAsBooted
<1> QED
  BY <1>1, <1>2, <1>3, InitInv, StepInv, PTL DEF Spec, BootAgreesWithShell
=============================================================================
