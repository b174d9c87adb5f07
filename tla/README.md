# BloomOS: specifications, model checks and proofs

BloomOS turns the Miyoo Mini into an appliance: a shell starts games, saves
survive power cuts, updates install or roll back by themselves. The logic that
makes this true is a set of small services: POSIX shell scripts under
`static/build/.tmp_update/bin` and C programs under `src/bloom*`, called by
`runtime.sh`, by the shell's user interface and by `bloomctl`. They share files
on an SD card and in `/tmp`, run in separate processes, and may lose power
between any two steps. The modules here say what those services do, and what
must hold in spite of that.

Paths below are relative to the repository's root (`src/` in `PROJECT.json`).

## 1. Inventory

| Component | State it keeps | Operations | Interacts with | What is hard | What makes it correct |
|---|---|---|---|---|---|
| Update lifecycle (`bloom-update-state`, `-activate`, `-rollback`, `-boot`) | `state.json` (phase, releases, attempts), `known-good.json` | bootstrap, arm, activate, boot-attempt, confirm, rollback | runtime at boot, installer, snapshots | a power loss between any two file operations; attempts counted over several boots | recovery source kept; nothing unconfirmed becomes known-good; an unconfirmed release rolls back |
| One-shot installer (`dist/miyoo/app`) | the drop directory, `.tmp_update`, RetroArch | wipe, move, unpack, clean up | firmware's start of `MainUI` | runs again after a cut; wipes what is running | wipes only for a whole release |
| Update staging (`-stage`, `-prepare`, `-verify`, `-channel`) | the staging slot, a signed manifest | verify, stage, prepare, replace | activation | cuts while copying; a manifest for another device | only verified releases are staged |
| Game session (`bloom-session`, `bloom-launch-run`) | `/tmp` session: state, PID, launch id; lock directory | start, attach, observe-exit, stop, flush, complete, fail | runtime, runner, probe, operator, RetroArch | stop and natural exit race; lock tried once; runner killed | a session that ended well has its saves on the card; an outcome is final |
| Launch staging and request (`bloomShell`, `bloomLaunch`) | `cmd_to_run.sh` | validate, stage, undo | session, runtime | staged but not run; failure between the two writes | a staged command has a session |
| Save flush (`bloomSaveFlush`) | none | sync a game's saves | session | fails half way | nothing reported flushed that is not |
| Save snapshots (`bloom-save-snapshot`) | archives, live `saves`/`states`, lock directory | create, prune, restore, verify | update activation and rollback, session | restore of two trees by renames; retention against updates; clock set back | no tree lost; a restore is all or nothing; retention keeps what updates need |
| Shell guard (`bloom-shell-guard`) | `shell-state.json` | begin, ready, failed, complete, clear | runtime loop, ready marker | no lock; marker outlives its shell; unsynced rename | three early failures latch Safe Mode, only a restart clears it |
| Runtime loop (`runtime.sh`) | which of shell, game, boot is running | boot, launch shell, launch game | all services | everything above | boot and shell agree on Safe Mode |
| Settings authority (`bloomSettings`, `common/system/settings.h`) | `settings.json`, its owner and generation; Onion's files | import, sync, reconcile, activate, rollback, set, reset, materialize | keymon, shell, runtime at boot | commit and projection are two sections; Onion takes no lock | no commit lost; rollback guarded by generation; projections converge |
| Library (`bloomLibrary`) | SQLite catalogue: entries, games, favorites, recents, generation, schema | open and migrate, import, scan, adopt Onion's lists, favorite, unfavorite, promote, forget, query | shell, session, switcher, Onion's lists, card | what is read before a transaction is stale in it; migrations by two processes; positions that shift | a scanned system is what the card holds; the generation tells every change; lists keep their order |
| Game identity (`bloomGameId`) | none | path to id | library, session, play activity | case and Unicode of paths | one game, one id |
| RetroAchievements (`bloomRa`, `bloom-ra-*`) | catalogue, rows of files, lock and cancel files in `/tmp`; account; log | import, scan, scan of one game, status, cancel; login, prepare a session | card, runtime, remote service | the lock is cleared in steps; files change while hashed; cancelled and killed scans | a row is true of the file it was made from; a completed scan misses nothing but what it counted as errors |
| Platform, power, lid, controls, volume, health | the hardware's | read, request | shell, keymon | request while another is pending | bounded requests |
| Network, Wi-Fi, time | daemons' | enable, reconcile | firmware | daemon restarts, clock jumps | reconcile is idempotent |
| Developer access, diagnostics, test runner | one daemon, exports | start, stop, export | operator | behind a marker | nothing runs without the marker |
| Shell UI (`bloomShell`, `bloomUi`) | copies of the library's lists, focus of each list, search, dialogs | load, navigate, search, favorite, launch | all services | lists read in pages while they change; pointers into arrays that move; layers of dialogs | focus on an entry in view; what is shown is stored; A starts what is shown |
| Inherited Onion (keymon, Play Activity, batmon, Tweaks, ...) | config files, SQLite | keys, play records | settings, session | no locks | out of the core here |
| Release and build tooling | none on the device | build, sign | - | - | not a running system |

The hazards, each at its line, are listed in `PROJECT.json`.

## 2. Plan

Order: what can brick a device or lose a save comes first.

Done:

1. `BloomUpdate`, `UpdatePromise`, `BloomUpdate_proofs`: update lifecycle with
   installer and boots, shown to implement what an updater promises.
2. `GameSession`, `GameSession_proofs`: session, runner, probe and operator.
3. `SaveSnapshot`, `SaveSnapshot_proofs`: create, prune, restore.
4. `ShellGuard`, `ShellGuard_proofs`: the crash counter.
5. `SettingsAuthority`, `MCSettingsAuthority`, `SettingsAuthority_proofs`: owner, commits and projections.
6. `BloomLibrary`, `GameLists`, `BloomLibrary_proofs`: the catalogue, and its lists
   shown to implement two ordered sets.
7. `BloomUi`, `BloomShell`, `BloomShell_proofs`: focus, and the shell around it.
8. `AchievementIndex`, `AchievementIndex_proofs`: the scanner of RetroAchievements.

Next, in this order:

9. `UpdateStaging`: the selected channel, and two update commands at a time, which
   nothing excludes: the positions of `BloomUpdate`'s scripts per command.
10. `LaunchRequest`: validation, core override, achievement policy, as operators
    checked against a table of the documented cases; with it the launch scan of
    `AchievementIndex` and the session of `GameSession` in one composition.
11. The account store and the unlock log of RetroAchievements.
12. Play Activity: records that a power loss leaves open.
13. Network and time: reconcile against daemons that restart and clocks that jump.
14. keymon: suspend and power key against a running command.

## 3. Modules and code

Every definition's source lines are in `PROJECT.json` under `map`.

**`BloomUpdate`** - `phase`, releases and attempt counter are the fields of
`state.json` and `known-good.json`; the card's state is which release each of the
system directory, the drop directory and the staging slot holds, and how far
the installer is. One action per durable effect of each script, in the script's
order, so that `PowerLoss` may come between any two; `CommandFails` ends a
command at an operation that can fail. The writing of a record is the exception
(`Writes`): `atomic_json` ends a pipeline, its `fail` leaves only that subshell,
and the command goes on with the record as it was; `unrecorded` remembers that it happened. `BootTrigger`, `BootInstaller` and
`BootRuntime` are the three things the firmware's start may find. Staging and preparing
copy beside their place and publish by a rename (`StagePublish`, `PreparePublish`): what a cut
copy leaves is never read under a release's name, so it is no state here; a manifest that
does not verify, a channel the device is not on and a full card are refusals.

**`UpdatePromise`** - the promise without records, installers or power: at most one
trial, of a release or of the way back. Once it has `lapsed` (a record could not be
written) it names what may happen besides: the release that was to go on trial, or the good one that was to
come back, is installed without a trial, and a trial is settled without its release becoming the good one. `KeepsPromise` in `BloomUpdate` maps the
phases of `state.json` to trials; every write of a record and every unpacked release
is a step of the promise, a refused write lapses it, everything else stutters.

**`GameSession`** - `sess` and its fields are the files of `/tmp/bloom-session`;
`emu` and `launcher` are the processes; `pc` says where each guest is: the runtime
with its runner, the smoke probe and the operator's `bloomctl`. Each command
that needs the lock tries it once and is refused when it is taken, as in the
code; `stop-retroarch` waits without it. `saves` and `states` are what of each game is not on the
card yet: `bloom-save-flush` clears one after the other and may fail or be killed between them. `Places` lists the positions of each guest.

**`SaveSnapshot`** - a tree's contents is the number of the game write it holds.
`pc` goes through the renames of restore one by one, `stage` is what it extracted,
`aside` the rollback directories; prune is the loop of the
code over the inventory it listed. `EXIT` traps are steps.

**`ShellGuard`** - `st` is `shell-state.json` as a record and `disk` what of it is
certain to survive. `begin` and the exit handling of `runtime.sh` are the
runtime's; the ready marker is a process of its own that reads, and later
writes. A marker's guard command that outlives its shell is `orphan`. `orderly`,
chosen once, tells a card and a timing where this does not happen, no publication is
refused (`Refused`) and a published state is durable at once from one where all three may go
wrong.

**`SettingsAuthority`** - a command is a sequence of sections under the kernel
lock: `Enter` reads `settings.json`, the section's actions work on what was
read, and the last one publishes and releases. `set`, `reset-defaults` and
`activate-bloom` continue with further sections after the release, where
others may come in. keymon and the boot write Onion's files without the
lock; the boot copies the device's profile over `system.json`, and then puts in what the model
forces (volume and mute) or the device's default volume (`forced`). Two settings
stand for some forty: one kept in `system.json` and one in a file of its own. keymon saves
all of them (`settings_save`), also the brightness: `settings_saveSystemProperty`, which would read
and rewrite `system.json` for one property, is called only by `settings_setBrightness(.., true)`,
which nobody calls so.

**`MCSettingsAuthority`** adds the symmetry of clients for TLC (safety runs only).

**`BloomLibrary`** - tables are functions from entries and games to what their rows
hold; a stamp stands for the size, time and content of a file. A writing transaction is
`BEGIN IMMEDIATE` and one step; what a command reads before it (the systems
present, the lines of Onion's lists, the schema) is a step before, with other commands and the
card in between. `generation` is one bit: does it move or not.

**`GameLists`** - favorites and recents as ordered sets, without positions. `ListsKept`
in `BloomLibrary` is the refinement. **`MCBloomLibrary`** is its small catalogue.

**`BloomUi`** - the focus operators of `bloom_ui_core.c` on records.

**`BloomShell`** - `Load*` read the library page by page, as games come and go;
then one action per button and what is on top: dialogs, actions, search, page. Favorites
are written through and only then changed on the screen. `layers` is the set of
open overlays, `Priority` the order in which the code asks for them. `LoadSystems` takes the systems
that have games, up to `SystemCapacity` (64; the library may hold 128): `queried`. **`MCBloomShell`** has
three systems, of which the shell reads two, and the constraint described below.

**`AchievementIndex`** - `do[p]` is a `bloom-ra` process: its job, the files it has still
to walk, and what it read of the current one before the seconds it takes to hash it. The lock is a
directory with a pid file, taken and cleared in single steps. `failed` are the entries the process
counted in `stats.errors`: the scan goes on and completes without them, so it answers for the rest
only (`AnswersFor`). `MCFew` in
**`MCAchievementIndex`** bounds what is looked at together.

## 4. Runs

Passing runs:

| Run | Question | Bounds, and why they suffice |
|---|---|---|
| `update_lifecycle` | safety of updates with faults anywhere; do they implement `UpdatePromise`; does an unconfirmed update roll back when nothing fails | three releases (one to leave, one to try, one that replaces it), 3 attempts as in the code, 3 faults: one to break an operation, one its repair, one the repair's boot |
| `session_lifecycle` | safety of sessions with all guests; and does a played game end its session when nobody interferes | two launches (the earlier session's leftovers meet the later one), one power loss or kill |
| `snapshots` | trees, restores and retention | one actor; 2 writes, 4 clock ticks, retention 2 and keep 1, so that prune has something to remove and something to keep; one fault. One actor: the lock that `snapshot_unlock` sees taken away would let two operations run into each other, and nothing would hold of both |
| `shell_guard` | does every streak of failures latch (orderly cards), in which ways may the latch go, and does a boot agree with the shell it starts (any card) | threshold 3 as in the code; cap and wrap at 4 (10 and 2^31-1 in the code), reached here in a few launches |
| `settings_commits` | commits, rollbacks, resets, projections | two clients besides the runtime, one failed write, one key press, outages anywhere; no command starts and no setting changes at generation 3, which is past a cutover and a commit between it and its rollback |
| `library` | scans against edits, imports, adoptions and migrations; do positions implement ordered sets | two systems with three games, one of them found by one of two configs only, one application, two stamps; two scans at once (a third could only repeat what one of them does); recents limited to 2 of 3 games, so that one is pushed off; 3 changes of the card: a file that comes, changes and goes; two processes that open an old database (`MCFew`: nothing changes before they are done, as no command reads it then) |
| `shell` | load, focus, search and favorites through any sequence of buttons | five games in three systems, pages of one, arrays of three games and two systems, windows of two: every array is at its limit (the third system with empty lists, as it only matters to the load); queries of one letter; 2 writes, one game that comes or goes. The constraint `MCFew` keeps states where at most two of the parts that outlast a destination differ from the start, an applied search among them: interactions of any two are covered. The proofs have none of these bounds |
| `achievement_index` | what rows say, what a completed scan promises | a playlist and a cue sheet (the two kinds of files whose contents lie elsewhere), two contents, two processes, one event (change, import, kill or cut). `MCFew`: two commands at once share one file, and in a session nothing else happens; sessions and cancellations meet scans in which no entry has failed. The proofs have none of these bounds |

Runs that expect a violation check one sentence of the documentation each, and
TLC refutes it; `PROJECT.json` quotes the sentence under `findings`:

- `update_unrecorded`: activation-start is not recorded, the installer is published all the
  same, and the release runs without being counted or rolled back;
- `session_unsettled`: a runner that refuses early leaves the session STARTING;
- `snapshot_unlock`: prune removes the lock twice, the second time somebody else's;
- `shell_plays`: with a search that finds nothing on the screen, A starts a game that is not shown.

Met while modelling, without a run of their own (those with a switch can be seen by giving the
named constant the other value). In the models:

- updates: a power loss before the rollback is published leaves an automatic
  recovery that later boots do not retry (`bloom-update-boot:23`; this is why
  `UndisturbedRecovery` assumes no fault); a rollback whose publication failed is
  counted as if it were installed;
- sessions: a natural exit goes from RUNNING to FLUSHING, not through the
  states the document lists; a refused probe marks the session it was refused for as failed;
- snapshots: the snapshot just taken is pruned as the oldest after the clock went back
  (`ClockRegresses`); a lock on the card outlives a power loss and keeps the
  service busy; a game may start after restore looked at the session (`GamesAnyTime`);
- guard: "The latch is cleared only when runtime receives that dedicated restart handoff"
  (`docs/ARCHITECTURE.md:167-169`) is not so. A ready command that read the state before its
  shell exited and publishes after `failed` has latched takes the latch back, and a power loss
  may bring back a state from before it. `LatchKept` says that these two are all; where
  `orderly`, only the restart is left. Sessions forced off by a begin that could not publish stay
  off in the normal shell that follows;
- settings: a repeated set reports materialized for a projection that had
  failed; keymon saves what it had loaded before a projection; a boot restores
  an old profile over settings Bloom owns;
- library: a scan that read its systems before an import, and commits after another scan that
  read them later, puts the old view back until the next scan; a game promoted from the middle of recents leaves a gap, and later
  promotions shift games past the limit of 100 while fewer are shown; a favorite whose game
  is absent cannot be removed;
- shell: the library accepts 128 systems, the shell reads the first 64 (`main.c:245`) and
  says nothing of the games of the others, however few it holds (`Unqueried`);
- RetroAchievements: a scan is complete although entries failed, whose rows it left as they were; the lock is looked at, cleared and taken in separate steps, so two scanners
  may run although it is documented as preventing that; a cancel asked for while a scan starts is
  erased by it and still answered as requested; rows of unmatched files are
  looked up again by `--all` only; tracks of a cue sheet may change unnoticed;
  a scan for a launch is refused while a full scan holds the lock.

Only read, outside the models: a `jq` that fails in front of `atomic_json` would leave an empty
record (`bloom-update-state:122`); a stop while the runner is between two of its looks ends
the session by the runner's report or its own, in one of several ways that all leave
an outcome (`bloom-launch-run:76`); rows of games that are gone are never deleted from
the achievement database; an import marks rows stale in a statement after its commit; the account
store writes credentials and settings one after the other, without a lock.

Deadlock is not checked where the system really may stop: a wiped card has nothing
to boot (`BloomUpdate.cfg`); snapshots stop at the bounds on the clock and on writes
(`SaveSnapshot*.cfg`), single sessions at the bound on launches
(`GameSessionUnsettled.cfg`), a library without a catalogue at the bound on changes of the card
(`BloomLibrary.cfg`); a shell that has left, or could not load, is over (`BloomShell*.cfg`).
Elsewhere it is, and none is found.

## 5. Fairness

- `BloomUpdate` (`RestartedSpec`, of `update_lifecycle`): the scripts' own steps are
  weakly fair, as a script that runs goes on, and the device is restarted again and
  again. Nobody is assumed to confirm. Its two liveness properties speak of
  behaviours without faults: `UndisturbedRecovery` and `UnconfirmedUpdateRollsBack` are
  implications with `[](faults = 0)` on the left: one fault may leave a recovery that nobody
  retries.
- `GameSession` (`FairSpec`): weak fairness of the runner's and the runtime's steps,
  which are sequential scripts, and of `EmulatorExits`: the player quits at some
  time. `RunningSessionEnds` speaks of sessions that were attached while no guest
  acts and nothing fails.

Nothing else assumes fairness: the other services and the shell act when they are called, and
promise no progress by themselves.

## 6. Proofs

TLAPS proves these for every value of the constants that satisfies the modules'
assumptions.

- **`BloomUpdate_proofs`**: the type invariant, all safety properties of
  `update_lifecycle`, and `PromiseKept`, the refinement of `UpdatePromise`. The inductive
  invariant adds which entry of the drop directory, and which staging slot, each position of a
  script or of the installer implies: `RecoverySourceRetained` is not inductive alone,
  as a published payload is a promise about a release that was armed earlier. The refinement
  needs no more than that, step by step. All of it holds with record writes that fail unnoticed;
  only that an unconfirmed release is always tracked does not (`Tracked` proves it until such a
  write, `update_unrecorded` refutes it after).
- **`GameSession_proofs`**: the type invariant, that a session that ended well is flushed, that a
  flush follows the exit, that a killed game never ends well, that an outcome is final. An
  emulator runs only while the runner waits for its launcher, so it cannot be taken for an earlier
  one (`GameInv`); what a session has recorded fits its state (`SessionInv`); and a stop, which
  waits without the lock, still owns the session for as long as its emulator runs (`StopInv`).
- **`SaveSnapshot_proofs`**: types, and that no tree is ever lost, for any number of operations at
  once, though the lock is removed under them: whoever displaced a tree is at a step that can
  put it back, or is gone (`Guarded`). The rest assumes one actor (`Alone`), as two operations
  that get past the lock can break it: a restore puts in both trees or puts back both
  (`Put`; with games that wait, `~GamesAnyTime`), the snapshot an update recorded is there
  (`Asked`: it is the newest until prune has passed it; with a clock that is not set back), and
  retention counts right (`Passed`: what a prune kept is above everything it has
  not looked at).
- **`ShellGuard_proofs`**: types, a normal shell never follows `Threshold` early failures in a
  row (where `orderly`; TLC refutes it elsewhere), the ways in which the latch goes (three on any
  card, the restart alone where `orderly`), achievements are forced off in Safe Mode (on any card) and
  only there (where `orderly`). The
  invariant ties the failure count to the streak of failed starts through the phase:
  the file's count is behind by the start that is under way.
  That the boot scripts agree with the shell they precede needs no orderly card
  (`BootInv`: whoever counts to the threshold latches, and no marker falls between a boot's
  decision and its first shell).
- **`SettingsAuthority_proofs`**: the type invariant, and that no commit is lost, that
  an activation takes back only its own cutover, and that a reset replaces only what
  its backup holds; for any clients, requests and bounds, with outages and failed
  writes. The inductive invariant has two ideas. Who holds the lock has read what is
  canonical (`HolderInv`), because nobody publishes without it: that gives the order of
  commits, and with `BackupInv` the reset. And a generation is never used twice, so an
  activation whose mark is the current generation looks at its own cutover
  (`ClaimInv`): the property of the rollback is not inductive without it, as it speaks of
  the last commit and the guard in the code of a number. A projection that converges
  needs the lock once more: while no key was pressed only a projection under the lock writes
  Onion's files, and what it wrote equals what it read (`ProjectInv`).
- **`BloomLibrary_proofs`**: all properties of `library`, the refinement of `GameLists` included,
  for any catalogue, card and processes. The positions of favorites fill 0..n-1 (`Packed`), so
  MAX + 1 is n and a shift never meets a taken position; recent games share no position
  (`Distinct`), which is all that is left once a promotion has made a gap; whichever of several scans
  commits, it settles a system if the row it went by is still there (`ScanInv` says only that scans
  go by systems).
- **`BloomShell_proofs`**: all properties of `shell`, for any library, pages, capacities, windows, games
  that come and go, and buttons. It begins with the focus of `bloom_ui_core.c` (`reveal_selection`
  repairs every focus and changes none that is in order; steps and pages keep it in order, and a page moves it unless it is at the end) and
  with what a query keeps of a list (`KeptFacts`: the members, their order, no one twice). Then
  `IInv`, in four groups. *Reading*: what is ready at the end says nothing about how it came to be,
  so `NoneLost` keeps the books: every game that was there all the time is in the catalogue, among what was
  taken of the current system, still `Ahead` (behind the cursor, or of a system left to
  read), or `Beyond` a full array of games or a full query of systems; `PagesInOrder` puts the cursor at or after all that was taken, which
  is why the next page, a query of its own on a library that has changed, neither repeats nor skips.
  *Lists*: `FavoritesKept` holds from the moment the favorites are loaded. *Screen*: `FocusShown` and
  `ResultsAreOfList` are inductive only with what is open (`LayersFit`: the actions are for a game)
  and what is searched (`SearchFits`: an applied search is of the list of its destination, or was carried to
  Settings), and because `SettingsListed` keeps all rows of Settings. *Types* of the sequences and
  records. From the same invariant, `ShellPlays`: the two situations of `shell_plays` (a search that
  finds nothing, or carried to Settings) are the only ones in which a game is launched that
  the screen does not show. Assumed of the constants: an order of the queries names every system and every
  game once (they are keys of their tables); a stored list holds no game twice; ids of
  systems are none of the shell's own pages, and ids of games no other outcome; Settings begin with a heading and a row, and the window
  has two rows.
- **`AchievementIndex_proofs`**: all properties of `achievement_index`, for any card, processes and
  events. No stat is above events + 1 (`Stamped`), so a change is told from all that was read
  before; a scan's promise covers what is behind it (`Covered`, `Resolved`) and whatever any process is
  about to store (`Carried`), but for the entries it counted as errors; once two scans run at once nobody owes anything, as neither completes.

Not provable here and left to TLC: liveness (`UndisturbedRecovery`,
`UnconfirmedUpdateRollsBack`, `RunningSessionEnds`), since it needs fairness and
`ENABLED`. Every other property of a passing run is a theorem. Recursion is written as functions, and what
they compute is proved by induction on the length of a list: `SetInduction` in `BloomShell_proofs` states
it of a set of numbers, not of a predicate. The sentences that runs refute (section 4) are of
course not theorems, and the proofs say nothing of the code that section 7 leaves out.

## 7. Abstractions and limits

- A rename that completed is durable in `BloomUpdate`, `SaveSnapshot` and
  `SettingsAuthority` (the settings service syncs; the scripts call `sync` at their
  ends). Only `ShellGuard` has a card that loses it.
- Updates: one operator command at a time; signature checks, download and
  channels are a choice of release; `previous_version`, `failed_version` and
  `snapshot_id` are not kept; interactive choices of the installer and its
  fresh-install branch are not modelled.
- Sessions: games that are not started through the runner have no session and are
  left out; the quick switcher's rewriting of the command, automatic resume (the
  runner refuses it) and durations are left out.
- Snapshots: an archive gets corrupt only outside prune; signals to the service
  are not modelled.
- Library: parsing of configs, maps and lists is what it accepts; SQLite is external, its
  transactions atomic; the database starts new or up to date but for the schema of one that is opened.
- Shell: a row of the root page that the code remembers, and rows of the Safe Mode menu, are a choice; a held key may
  repeat or not; values of Settings, the keyboard's cursor, the typed account and drawing are not
  modelled; which systems are present is part of which games are listed.
- RetroAchievements: a file's stat is never used again (FAT keeps two seconds, and a
  change of the same size within them is not seen); process numbers are not reused; a game id is "identified" or
  not; unreadable directories are left out; two stats and the query of a row are one step.
- Guard: theme, hostname and network duties of the runtime are not modelled.
- Settings: Onion's writers replace a file in one step and keymon loads its files
  in one step; Onion's other writers (`settings_shm_read`, Tweaks, the theme switcher), the
  first-import snapshot and the first-run marker are left out.
- Everything with status `not_modelled` in `PROJECT.json`, with its reason there.
