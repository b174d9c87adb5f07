------------------------- MODULE SettingsAuthority --------------------------
(***************************************************************************)
(* bloom-settings: the canonical settings, which of Bloom and Onion owns   *)
(* them, and the Onion files that are projected from them or read back.    *)
(*                                                                         *)
(* Each command is a sequence of sections.  A section holds the kernel     *)
(* lock, reads the canonical file when it enters, and releases the lock as *)
(* it commits or gives up; between sections of one command others may run. *)
(* Onion's own writers (keymon, the boot) take no lock.                    *)
(*                                                                         *)
(* Two settings stand for all: one that lives in system.json and one that  *)
(* lives in a file of its own under config/.                               *)
(***************************************************************************)
EXTENDS Naturals

Commands == {"import", "reconcile", "sync", "activate", "rollback", "set", "reset", "materialize"}

CONSTANTS
  Clients,       \* processes that run bloom-settings (the shell, bloomctl)
  Requests,      \* the commands they run
  MaxGeneration, \* bound on generations: no command starts, no setting changes there
  MaxFaults,     \* bound on writes that fail
  MaxPresses,    \* bound on settings changed with the keys
  Outages        \* may the power fail while commands run?

ASSUME SettingsAssumption ==
  /\ Requests \subseteq Commands
  /\ Clients # {} /\ "runtime" \notin Clients /\ "nobody" \notin Clients /\ Outages \in BOOLEAN
  /\ MaxGeneration \in Nat /\ MaxFaults \in Nat /\ MaxPresses \in Nat

Procs == Clients \union {"runtime"}  \* "runtime": the boot, then keymon
Fields == {"system", "config"}
Values == {0, 1}
Default == 0
Unset == 2      \* no system.json was imported, or no profile was saved
Nobody == "nobody"
Missing == [authority |-> "missing", generation |-> 0,
            values |-> [f \in Fields |-> Default], image |-> Unset]

VARIABLES
  canonical, \* settings.json; image: the system.json it keeps for compatibility
  backup,    \* the backup of reset-defaults
  onion,     \* Onion's files
  profile,   \* the device's copy of system.json under config/system
  lock,      \* who holds settings.json.lock
  job,       \* what each process does
  keymon,    \* keymon's settings: memory, loaded copy, reload is due
  power,     \* "off", "booting", "on"
  faults, presses,
  last       \* section of the last commit

fileVars == <<canonical, backup, onion, profile, last>>
boundVars == <<faults, presses>>
vars == <<fileVars, boundVars, lock, job, keymon, power>>

Settings == [authority : {"missing", "legacy", "bloom"}, generation : Nat,
             values : [Fields -> Values], image : Values \union {Unset}]
Sections == {"import", "reconcile", "sync", "cutover", "undo", "retract", "set", "reset", "materialize"}

Jobs == [cmd : Commands \union {"none", "boot", "keymon"}, at : Sections \union {"idle", "status", "save"},
         field : Fields, value : Values, seen : Settings, left : SUBSET Fields,
         found : [Fields -> Values], mark : Nat,
         told : {"none", "done", "failed", "materialized"}]

Idle(told) ==
  [cmd |-> "none", at |-> "idle", field |-> "system", value |-> Default, seen |-> Missing,
   left |-> {}, found |-> [f \in Fields |-> Default], mark |-> 0, told |-> told]

Init ==
  /\ canonical = Missing /\ backup = Missing /\ profile = Unset /\ last = "none"
  /\ onion \in [Fields -> Values]
  /\ lock = Nobody /\ job = [p \in Procs |-> Idle("none")]
  /\ keymon = [memory |-> onion, loaded |-> onion, reload |-> FALSE]
  /\ power = "off" /\ faults = 0 /\ presses = 0

-----------------------------------------------------------------------------
(* The sections                                                            *)

\* system.json is read and written before the files under config/.
NextFile(left) == IF "system" \in left THEN "system" ELSE "config"

\* Where a command goes when its section has done its work.
Continues(p, to) == /\ lock' = Nobody
                    /\ job' = [job EXCEPT ![p] = [job[p] EXCEPT !.at = to, !.left = {}, !.seen = Missing]]

Ends(p, told) == /\ lock' = Nobody
                 /\ job' = [job EXCEPT ![p] = Idle(told)]

\* Mutant: the projection uses what the commit of the same command had read.
EnterWithoutReading(p) ==
  /\ job[p].at \in Sections /\ lock = Nobody
  /\ lock' = p
  /\ job' = [job EXCEPT ![p] = [job[p] EXCEPT !.left = Fields,
       !.seen = IF job[p].at = "materialize" /\ job[p].cmd = "set"
                THEN [canonical EXCEPT !.values = [job[p].found EXCEPT ![job[p].field] = job[p].value]]
                ELSE canonical]]
  /\ UNCHANGED <<fileVars, boundVars, keymon, power>>

Enter(p) ==
  /\ job[p].at \in Sections /\ lock = Nobody
  /\ lock' = p
  /\ job' = [job EXCEPT ![p] = [job[p] EXCEPT !.seen = canonical, !.left = Fields]]
  /\ UNCHANGED <<fileVars, boundVars, keymon, power>>

\* Mutant: the reconciler takes a canonical file that is not there.
PermittedUnvalidated(j) ==
  CASE j.at \in {"import", "reconcile"} -> TRUE
    [] j.at = "sync" -> j.seen.authority = "legacy"
    [] j.at = "cutover" -> j.seen.authority = "legacy" /\ j.seen.generation = j.mark
    [] j.at = "undo" -> j.seen.authority = "bloom" /\ j.seen.generation = j.mark
    [] OTHER -> j.seen.authority = "bloom"

\* Mutant: the rollback of an activation does not look at the generation.
PermittedAnyGeneration(j) ==
  CASE j.at = "import" -> TRUE
    [] j.at = "reconcile" -> j.seen # Missing
    [] j.at = "sync" -> j.seen.authority = "legacy"
    [] j.at = "cutover" -> j.seen.authority = "legacy" /\ j.seen.generation = j.mark
    [] OTHER -> j.seen.authority = "bloom"

Permitted(j) ==
  CASE j.at = "import" -> TRUE
    [] j.at = "reconcile" -> j.seen # Missing
    [] j.at = "sync" -> j.seen.authority = "legacy"
    [] j.at = "cutover" -> j.seen.authority = "legacy" /\ j.seen.generation = j.mark
    [] j.at = "undo" -> j.seen.authority = "bloom" /\ j.seen.generation = j.mark
    [] OTHER -> j.seen.authority = "bloom"

\* A section that is not permitted, or whose write fails, ends the command;
\* a failed projection of an activation is rolled back, a boot goes on.
GivesUp(p) ==
  IF job[p].cmd = "activate" /\ job[p].at = "materialize" /\ job[p].mark # 0
  THEN Continues(p, "undo")
  ELSE IF job[p].cmd = "boot" /\ job[p].at = "import" THEN Continues(p, "reconcile")
  ELSE Ends(p, "failed")

Refused(p) ==
  /\ lock = p /\ ~Permitted(job[p])
  /\ GivesUp(p)
  /\ UNCHANGED <<fileVars, boundVars, keymon, power>>

Fails(p) ==
  /\ lock = p /\ Permitted(job[p]) /\ faults < MaxFaults
  /\ faults' = faults + 1
  /\ GivesUp(p)
  /\ UNCHANGED <<fileVars, presses, keymon, power>>

Working(p, section) == lock = p /\ job[p].at = section /\ Permitted(job[p])

Publish(p, new) == canonical' = new /\ last' = job[p].at

\* build_settings over Onion's files: they are read one after the other.
ReadOnion(p) ==
  /\ \E s \in {"import", "reconcile", "sync"} : Working(p, s)
  /\ job[p].left # {}
  /\ LET f == NextFile(job[p].left) IN
       job' = [job EXCEPT ![p] = [job[p] EXCEPT !.found = [job[p].found EXCEPT ![f] = onion[f]], !.left = job[p].left \ {f}]]
  /\ UNCHANGED <<fileVars, boundVars, lock, keymon, power>>

Import(p) ==
  /\ Working(p, "import")
  /\ \/ job[p].seen # Missing /\ UNCHANGED <<canonical, last>>
     \/ /\ job[p].seen = Missing /\ job[p].left = {}
        /\ Publish(p, [authority |-> "legacy", generation |-> 1,
                       values |-> job[p].found, image |-> job[p].found["system"]])
  /\ IF job[p].cmd = "boot" THEN Continues(p, "reconcile") ELSE Ends(p, "done")
  /\ UNCHANGED <<backup, onion, profile, boundVars, keymon, power>>

\* reconcile_onion_for_authority: Onion's values replace the canonical ones.
Adopt(p) ==
  /\ \/ Working(p, "reconcile")
     \/ Working(p, "sync")
  /\ job[p].left = {}
  /\ LET old == job[p].seen
         same == old.values = job[p].found /\ old.image = job[p].found["system"]
         gen == IF same THEN old.generation ELSE old.generation + 1
     IN /\ IF same THEN UNCHANGED <<canonical, last>>
           ELSE Publish(p, [old EXCEPT !.generation = gen, !.values = job[p].found,
                                       !.image = job[p].found["system"]])
        /\ lock' = Nobody
        /\ job' = [job EXCEPT ![p] =
             IF @.cmd = "activate" THEN [Idle("none") EXCEPT !.cmd = "activate", !.at = "cutover", !.mark = gen]
             ELSE Idle("done")]
  /\ UNCHANGED <<backup, onion, profile, boundVars, keymon, power>>

Cutover(p) ==
  /\ Working(p, "cutover")
  /\ LET gen == job[p].seen.generation + 1 IN
       /\ Publish(p, [job[p].seen EXCEPT !.authority = "bloom", !.generation = gen])
       /\ job' = [job EXCEPT ![p] = [job[p] EXCEPT !.at = "materialize", !.left = {}, !.mark = gen]]
       /\ lock' = Nobody
  /\ UNCHANGED <<backup, onion, profile, boundVars, keymon, power>>

\* transition_authority back: by an activation that failed, or on request.
Retract(p) ==
  /\ \/ Working(p, "undo")
     \/ Working(p, "retract")
  /\ Publish(p, [job[p].seen EXCEPT !.authority = "legacy", !.generation = @ + 1])
  /\ Ends(p, IF job[p].at = "undo" THEN "failed" ELSE "done")
  /\ UNCHANGED <<backup, onion, profile, boundVars, keymon, power>>

\* set of the value that is there: reported as materialized, nothing is done.
SetSame(p) ==
  /\ Working(p, "set") /\ job[p].seen.values[job[p].field] = job[p].value
  /\ Ends(p, "materialized")
  /\ UNCHANGED <<fileVars, boundVars, keymon, power>>

Set(p) ==
  /\ Working(p, "set") /\ job[p].seen.values[job[p].field] # job[p].value
  /\ Publish(p, [job[p].seen EXCEPT !.values[job[p].field] = job[p].value, !.generation = @ + 1])
  /\ lock' = Nobody
  /\ job' = [job EXCEPT ![p] = [job[p] EXCEPT !.at = "materialize", !.left = {}, !.found = job[p].seen.values]]
  /\ UNCHANGED <<backup, onion, profile, boundVars, keymon, power>>

SaveBackup(p) ==
  /\ Working(p, "reset") /\ job[p].left # {}
  /\ backup' = job[p].seen
  /\ job' = [job EXCEPT ![p] = [job[p] EXCEPT !.left = {}]]
  /\ UNCHANGED <<canonical, onion, profile, last, boundVars, lock, keymon, power>>

\* Mutant: the defaults are published before the backup is complete.
ResetUnsaved(p) ==
  /\ Working(p, "reset")
  /\ Publish(p, [authority |-> "bloom", generation |-> job[p].seen.generation + 1,
                 values |-> [f \in Fields |-> Default], image |-> Unset])
  /\ Continues(p, "materialize")
  /\ UNCHANGED <<backup, onion, profile, boundVars, keymon, power>>

\* Mutant: the defaults are made from nothing, generation included.
ResetFromScratch(p) ==
  /\ Working(p, "reset") /\ job[p].left = {}
  /\ Publish(p, [authority |-> "bloom", generation |-> 1,
                 values |-> [f \in Fields |-> Default], image |-> Unset])
  /\ Continues(p, "materialize")
  /\ UNCHANGED <<backup, onion, profile, boundVars, keymon, power>>

Reset(p) ==
  /\ Working(p, "reset") /\ job[p].left = {}
  /\ Publish(p, [authority |-> "bloom", generation |-> job[p].seen.generation + 1,
                 values |-> [f \in Fields |-> Default], image |-> Unset])
  /\ Continues(p, "materialize")
  /\ UNCHANGED <<backup, onion, profile, boundVars, keymon, power>>

\* materialize-onion writes one file after the other.
Project(p) ==
  /\ Working(p, "materialize") /\ job[p].left # {}
  /\ LET f == NextFile(job[p].left) IN
       /\ onion' = [onion EXCEPT ![f] = job[p].seen.values[f]]
       /\ job' = [job EXCEPT ![p] = [job[p] EXCEPT !.left = job[p].left \ {f}]]
  /\ UNCHANGED <<canonical, backup, profile, last, boundVars, lock, keymon, power>>

Projected(p) ==
  /\ Working(p, "materialize") /\ job[p].left = {}
  /\ Ends(p, "materialized")
  /\ UNCHANGED <<fileVars, boundVars, keymon, power>>

-----------------------------------------------------------------------------
(* Requests                                                                *)

Request(p, cmd, f, v) ==
  /\ power = "on" /\ job[p].at = "idle" /\ canonical.generation < MaxGeneration
  /\ cmd = "set" \/ (f = "system" /\ v = Default)
  /\ job' = [job EXCEPT ![p] = [Idle("none") EXCEPT
       !.cmd = cmd, !.field = f, !.value = v,
       !.at = IF cmd \in {"activate", "rollback"} THEN "status" ELSE cmd]]
  /\ UNCHANGED <<fileVars, boundVars, lock, keymon, power>>

\* activate and rollback look at the authority without the lock.
Status(p) ==
  /\ job[p].at = "status"
  /\ job' = [job EXCEPT ![p] =
       IF @.cmd = "activate"
       THEN [@ EXCEPT !.at = IF canonical.authority = "bloom" THEN "materialize" ELSE "sync"]
       ELSE IF canonical.authority = "legacy" THEN Idle("done") ELSE [@ EXCEPT !.at = "retract"]]
  /\ UNCHANGED <<fileVars, boundVars, lock, keymon, power>>

-----------------------------------------------------------------------------
(* Onion: the boot, keymon, and the launch of a game                       *)

\* load_settings: the device's profile replaces system.json, unless the model forces a value
\* (volume, mute) or the device has a default volume: then the setting is that (`forced`).
LoadSettings(forced) ==
  /\ power = "off" /\ (forced # Unset => canonical.generation < MaxGeneration)
  /\ power' = "booting"
  /\ onion' = [onion EXCEPT !["system"] =
       CASE forced # Unset -> forced
         [] forced = Unset /\ profile # Unset -> profile
         [] OTHER -> @]
  /\ job' = [job EXCEPT !["runtime"] = [Idle("none") EXCEPT !.cmd = "boot", !.at = "import"]]
  /\ UNCHANGED <<canonical, backup, profile, last, boundVars, lock, keymon>>

\* keymon starts and loads Onion's files.
BootEnds ==
  /\ power = "booting" /\ job["runtime"].at = "idle"
  /\ power' = "on"
  /\ keymon' = [memory |-> onion, loaded |-> onion, reload |-> FALSE]
  /\ UNCHANGED <<fileVars, boundVars, lock, job>>

\* A setting is changed with the keys; settings that were saved are reloaded.
KeyPress(f, v) ==
  /\ power = "on" /\ job["runtime"].at = "idle" /\ presses < MaxPresses
  /\ canonical.generation < MaxGeneration
  /\ LET base == IF keymon.reload THEN onion ELSE keymon.memory IN
       /\ base[f] # v
       /\ keymon' = [memory |-> [base EXCEPT ![f] = v],
                     loaded |-> IF keymon.reload THEN onion ELSE keymon.loaded, reload |-> FALSE]
  /\ presses' = presses + 1
  /\ job' = [job EXCEPT !["runtime"] = [Idle("none") EXCEPT !.cmd = "keymon", !.at = "save", !.left = Fields]]
  /\ UNCHANGED <<fileVars, faults, lock, power>>

\* settings_save: the files under config/ always, system.json when it differs
\* from what was loaded; then the reconciler.
KeymonSaves ==
  /\ job["runtime"].at = "save"
  /\ IF "config" \in job["runtime"].left
     THEN /\ onion' = [onion EXCEPT !["config"] = keymon.memory["config"]]
          /\ job' = [job EXCEPT !["runtime"] = [@ EXCEPT !.left = {"system"}]]
          /\ UNCHANGED keymon
     ELSE /\ onion' = [onion EXCEPT !["system"] =
               IF keymon.memory["system"] # keymon.loaded["system"] THEN keymon.memory["system"] ELSE @]
          /\ job' = [job EXCEPT !["runtime"] = [@ EXCEPT !.at = "reconcile", !.left = {}]]
          /\ keymon' = [keymon EXCEPT !.reload = TRUE]
  /\ UNCHANGED <<canonical, backup, profile, last, boundVars, lock, power>>

\* launch_game keeps system.json as the device's profile.
SaveSettings ==
  /\ power = "on" /\ profile' = onion["system"]
  /\ UNCHANGED <<canonical, backup, onion, last, boundVars, lock, job, keymon, power>>

PowerLoss ==
  /\ power # "off" /\ (Outages \/ \A p \in Procs : job[p].at = "idle")
  /\ power' = "off" /\ lock' = Nobody /\ job' = [p \in Procs |-> Idle("none")]
  /\ UNCHANGED <<fileVars, boundVars, keymon>>

Command(p) ==
  \/ Enter(p)
  \/ Refused(p)
  \/ Fails(p)
  \/ ReadOnion(p)
  \/ Import(p)
  \/ Adopt(p)
  \/ Cutover(p)
  \/ Retract(p)
  \/ SetSame(p)
  \/ Set(p)
  \/ SaveBackup(p)
  \/ Reset(p)
  \/ Project(p)
  \/ Projected(p)
  \/ Status(p)

Next ==
  \/ \E p \in Procs : Command(p)
  \/ \E p \in Clients, cmd \in Requests, f \in Fields, v \in Values : Request(p, cmd, f, v)
  \/ \E forced \in Values \union {Unset} : LoadSettings(forced)
  \/ BootEnds
  \/ \E f \in Fields, v \in Values : KeyPress(f, v)
  \/ KeymonSaves
  \/ SaveSettings
  \/ PowerLoss

Spec == Init /\ [][Next]_vars

-----------------------------------------------------------------------------
(* Properties                                                              *)

\* The files always hold complete, valid settings (load_settings_root,
\* validate_settings_root), whoever was interrupted.
TypeOK ==
  /\ canonical \in Settings /\ backup \in Settings
  /\ canonical.authority = "missing" \/ canonical.generation = 0 => canonical = Missing
  /\ onion \in [Fields -> Values] /\ profile \in Values \union {Unset}
  /\ lock \in Procs \union {Nobody} /\ power \in {"off", "booting", "on"}
  /\ job \in [Procs -> Jobs]
  /\ keymon \in [memory : [Fields -> Values], loaded : [Fields -> Values], reload : BOOLEAN]

\* No commit is lost: each commit, by whichever process, builds on the
\* settings that are there and is one generation later.
CommitsInOrder ==
  [][canonical' # canonical => canonical'.generation = canonical.generation + 1]_canonical

\* An activation that could not project takes Bloom's authority back only
\* while nothing was committed after its own cutover.
RollbackSparesCommits ==
  [][canonical' # canonical /\ last' = "undo" => last = "cutover"]_<<canonical, last>>

\* reset-defaults replaces settings only when the backup holds exactly them.
ResetKeepsBackup == [][canonical' # canonical /\ last' = "reset" => backup = canonical]_<<canonical, last>>

\* Unless keys were pressed meanwhile (keymon takes no lock), a projection that
\* completes leaves Onion's files equal to the canonical settings, whoever
\* committed in between.
ProjectionConverges ==
  [][\A p \in Clients :
       presses = 0 /\ lock = p /\ job[p].at = "materialize" /\ job'[p].told = "materialized"
         => onion = canonical.values]_job
=============================================================================
