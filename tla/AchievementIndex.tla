------------------------- MODULE AchievementIndex --------------------------
(***************************************************************************)
(* bloom-ra: which games on the card have achievements.                    *)
(*                                                                         *)
(* Scans hash the ROM files and look the hashes up in an imported          *)
(* catalogue; one row of library_games holds what was found and the file   *)
(* it was found in.  Commands are processes of their own.  Those that scan *)
(* take a lock in /tmp: a directory with the process number in a file,     *)
(* which whoever finds its owner gone clears away, in several steps.       *)
(*                                                                         *)
(* A file is its stat (size and mtime: a number no earlier contents had, 0 *)
(* for a missing file) and its image, which decides the hash.  The image   *)
(* of a playlist depends on the file of its first disc too.  That of a cue *)
(* sheet depends on tracks whose stat nobody looks at.                     *)
(***************************************************************************)
EXTENDS Naturals

CONSTANTS
  Files, Playlists, Sheets,  \* ROM files; those with a first disc, with tracks
  Images,                    \* contents that differ in hash
  Procs,                     \* bloom-ra processes
  None, Gone,                \* no value; an owner that does not run any more
  MaxEvents                  \* bound on changes, imports, kills and power losses

\* What is stored of a file: its stats, the hash (None if hashing failed), and if
\* the catalogue knew it; and what is in the lock.
Row == [own : 1..MaxEvents + 1, disc : 0..MaxEvents + 1,
        image : Images \cup {None}, identified : BOOLEAN]
PidFile == [owner : Procs \cup {Gone}, written : BOOLEAN]

ASSUME AchievementIndexAssumption ==
  /\ Playlists \subseteq Files /\ Sheets \subseteq Files
  /\ None \notin Row \cup PidFile \cup Images \cup Procs /\ Gone \notin Procs \cup {None}
  /\ MaxEvents \in Nat

VARIABLES
  own, disc,    \* stat of each file, and of its first disc (0: none to be read)
  image,        \* what each file contains
  catalog,      \* ra_hashes: the images that are a game with achievements
  rows,         \* library_games: what was found, or None
  lockDir,      \* /tmp/bloom-ra-scan.lock exists
  pidFile,      \* the file in it: whose it is, and if the number is in it yet
  cancel,       \* the marker of scan --cancel exists
  session,      \* a session is active
  do,           \* each process: its command and where it is in it
  events        \* changes, imports, kills and power losses so far

card    == <<own, disc, image>>
lock    == <<lockDir, pidFile>>
vars    == <<card, catalog, rows, lock, cancel, session, do, events>>

Blank == [own |-> 1, disc |-> 0, image |-> None, identified |-> FALSE]

(* A process: what it does next (pc), its command (job), whether unchanged *)
(* files are scanned too (force), entries not reached yet (todo), the one  *)
(* in hand (file), the row about to be stored for it (seen), the entries   *)
(* counted among stats.errors (failed); and, as history, the entries it    *)
(* was asked for that nobody changed since (owed).                         *)
Idle == [pc |-> "idle", job |-> "status", force |-> FALSE, todo |-> {}, file |-> None,
         seen |-> Blank, failed |-> {}, owed |-> {}]

Init ==
  /\ own = [f \in Files |-> 1]
  /\ disc = [f \in Files |-> IF f \in Playlists THEN 1 ELSE 0]
  /\ image \in [Files -> Images]
  /\ catalog \in SUBSET Images
  /\ rows = [f \in Files |-> None]
  /\ lockDir = FALSE /\ pidFile = None /\ cancel = FALSE /\ session = FALSE
  /\ do = [p \in Procs |-> Idle]
  /\ events = 0

At(p, step) == do[p].pc = step
Scanning(p) == do[p].pc \in {"walk", "stat", "identify", "store"}

Go(p, step) == do' = [do EXCEPT ![p] = IF step = "idle" THEN Idle ELSE [@ EXCEPT !.pc = step]]
Leave(p)    == do' = [do EXCEPT ![p] = [Idle EXCEPT !.pc = "releasePid"]]

-----------------------------------------------------------------------------
(* Commands: scan --changed, --all and --system, the scan of one game that *)
(* is about to be launched without a row, and scan --status.               *)

Begin(p, j, forced, entries) ==
  /\ At(p, "idle")
  /\ do' = [do EXCEPT ![p] = [Idle EXCEPT !.pc = "look", !.job = j, !.force = forced,
                                          !.todo = entries]]
  /\ UNCHANGED <<card, catalog, rows, lock, cancel, session, events>>

BeginScan(p, entries) == entries # {} /\ Begin(p, "scan", FALSE, entries)
BeginAll(p)           == Begin(p, "scan", TRUE, Files)
BeginGame(p, f)       == ~session /\ rows[f] = None /\ Begin(p, "game", FALSE, {f})
BeginStatus(p)        == Begin(p, "status", FALSE, {})

-----------------------------------------------------------------------------
(* The scan lock                                                           *)

Acquired(p) == IF do[p].job = "status" THEN "idle" ELSE "mkdir"

\* A directory without the number of a running process is nobody's.
Held == lockDir /\ pidFile # None /\ pidFile.written /\ pidFile.owner # Gone

\* scan_lock_active; for scan --status that is all.
Look(p) ==
  /\ At(p, "look")
  /\ Go(p, IF Held THEN "idle" ELSE IF lockDir THEN "clearPid" ELSE Acquired(p))
  /\ UNCHANGED <<card, catalog, rows, lock, cancel, session, events>>

\* The file is removed whosever it is by now, then the directory if it is empty.
Unlink(p, from, to) ==
  /\ At(p, from) /\ Go(p, to)
  /\ pidFile' = None
  /\ UNCHANGED <<card, catalog, rows, lockDir, cancel, session, events>>

Rmdir(p, from, to) ==
  /\ At(p, from) /\ Go(p, to)
  /\ lockDir' = (lockDir /\ pidFile # None)
  /\ UNCHANGED <<card, catalog, rows, pidFile, cancel, session, events>>

Clear(p) == Unlink(p, "clearPid", "clearDir") \/ Rmdir(p, "clearDir", Acquired(p))

Mkdir(p) ==
  /\ At(p, "mkdir")
  /\ Go(p, IF lockDir THEN "idle" ELSE "create")
  /\ lockDir' = TRUE
  /\ UNCHANGED <<card, catalog, rows, pidFile, cancel, session, events>>

\* Mutant: the file is created without looking for its directory.
CreateAnyway(p) ==
  /\ At(p, "create")
  /\ IF pidFile = None
       THEN Go(p, "write") /\ pidFile' = [owner |-> p, written |-> FALSE]
       ELSE Go(p, "abandon") /\ UNCHANGED pidFile
  /\ UNCHANGED <<card, catalog, rows, lockDir, cancel, session, events>>

\* open(O_CREAT | O_EXCL); the directory may have been cleared, or be another's.
Create(p) ==
  /\ At(p, "create")
  /\ IF lockDir /\ pidFile = None
       THEN Go(p, "write") /\ pidFile' = [owner |-> p, written |-> FALSE]
       ELSE Go(p, "abandon") /\ UNCHANGED pidFile
  /\ UNCHANGED <<card, catalog, rows, lockDir, cancel, session, events>>

Abandon(p) == Rmdir(p, "abandon", "idle")

\* Into its own file, which may have been unlinked meanwhile.
Write(p) ==
  /\ At(p, "write") /\ Go(p, "open")
  /\ pidFile' = IF pidFile = [owner |-> p, written |-> FALSE]
                  THEN [owner |-> p, written |-> TRUE] ELSE pidFile
  /\ UNCHANGED <<card, catalog, rows, lockDir, cancel, session, events>>

Release(p) == Unlink(p, "releasePid", "releaseDir") \/ Rmdir(p, "releaseDir", "idle")

\* The number cannot be written, or the database not be opened.
GiveUp(p) ==
  /\ do[p].pc \in {"write", "open"} /\ Leave(p)
  /\ UNCHANGED <<card, catalog, rows, lock, cancel, session, events>>

-----------------------------------------------------------------------------
(* Scanning                                                                *)

\* Scans that run at once answer for nothing.
Owing(p, next) ==
  IF \E q \in Procs : Scanning(q)
    THEN [q \in Procs |-> [(IF q = p THEN next ELSE do[q]) EXCEPT !.owed = {}]]
    ELSE [do EXCEPT ![p] = [next EXCEPT !.owed = next.todo]]

\* A scan removes the marker of a cancellation as it starts, an old one or not.
OpenScan(p) ==
  /\ At(p, "open") /\ do[p].job = "scan"
  /\ do' = Owing(p, [do[p] EXCEPT !.pc = "walk"])
  /\ cancel' = FALSE
  /\ UNCHANGED <<card, catalog, rows, lock, session, events>>

OpenGame(p) ==
  /\ At(p, "open") /\ do[p].job = "game"
  /\ \E f \in do[p].todo :
       do' = Owing(p, [do[p] EXCEPT !.pc = "stat", !.file = f, !.todo = {}])
  /\ UNCHANGED <<card, catalog, rows, lock, cancel, session, events>>

\* Before each entry: is the scan cancelled, is a game being played?
Walk(p) ==
  /\ At(p, "walk") /\ ~cancel /\ ~session
  /\ \E f \in do[p].todo :
       LET d == do[p] IN
         do' = [do EXCEPT ![p] = [d EXCEPT !.pc = "stat", !.file = f, !.todo = d.todo \ {f}]]
  /\ UNCHANGED <<card, catalog, rows, lock, cancel, session, events>>

\* It may be noticed as a directory is opened, too, with no entry left.
Stop(p) ==
  /\ At(p, "walk") /\ (cancel \/ session)
  /\ Go(p, "end")
  /\ UNCHANGED <<card, catalog, rows, lock, cancel, session, events>>

Complete(p) ==
  /\ At(p, "walk") /\ do[p].todo = {}
  /\ Go(p, "complete")
  /\ UNCHANGED <<card, catalog, rows, lock, cancel, session, events>>

\* The marker goes with the scan, even one set after its last look.
Finish(p) ==
  /\ do[p].pc \in {"end", "complete"} /\ Leave(p)
  /\ cancel' = FALSE
  /\ UNCHANGED <<card, catalog, rows, lock, session, events>>

\* The next entry; the scan of one game has none.
Onward(p, d) ==
  do' = [do EXCEPT ![p] = IF d.job = "scan"
                            THEN [d EXCEPT !.pc = "walk", !.file = None, !.seen = Blank]
                            ELSE [Idle EXCEPT !.pc = "releasePid"]]

\* Mutant: a playlist is compared by its own stat alone.
UnchangedBySelf(f, stat) == rows[f] # None /\ rows[f].own = stat.own

\* The row was stored for these stats, whatever it says and whatever catalogue
\* it was looked up in.
Unchanged(f, stat) ==
  /\ rows[f] # None
  /\ rows[f].own = stat.own /\ rows[f].disc = stat.disc

\* Mutant: what --all asks for is not passed on to the files.
CompareNeverForced(p) ==
  /\ At(p, "stat") /\ own[do[p].file] # 0
  /\ LET f    == do[p].file
         stat == [Blank EXCEPT !.own = own[f], !.disc = disc[f]]
     IN IF (f \in Playlists => disc[f] # 0) /\ Unchanged(f, stat)
          THEN Onward(p, do[p])
          ELSE do' = [do EXCEPT ![p] = [@ EXCEPT !.pc = "identify", !.seen = stat]]
  /\ UNCHANGED <<card, catalog, rows, lock, cancel, session, events>>

\* The file's own stat and its disc's, and the row there is.
Compare(p) ==
  /\ At(p, "stat") /\ own[do[p].file] # 0
  /\ LET f    == do[p].file
         stat == [Blank EXCEPT !.own = own[f], !.disc = disc[f]]
     IN IF ~do[p].force /\ (f \in Playlists => disc[f] # 0) /\ Unchanged(f, stat)
          THEN Onward(p, do[p])
          ELSE do' = [do EXCEPT ![p] = [@ EXCEPT !.pc = "identify", !.seen = stat]]
  /\ UNCHANGED <<card, catalog, rows, lock, cancel, session, events>>

Readable(f) == own[f] # 0 /\ (f \in Playlists => disc[f] # 0)

\* The file is hashed, which may fail, and the hash is looked up.
Identify(p) ==
  /\ At(p, "identify")
  /\ \E i \in (IF Readable(do[p].file) THEN {image[do[p].file]} ELSE {}) \cup {None} :
       LET d == do[p] IN
         do' = [do EXCEPT ![p] =
                  [d EXCEPT !.pc = "store",
                            !.seen = [d.seen EXCEPT !.image = i, !.identified = i \in catalog]]]
  /\ UNCHANGED <<card, catalog, rows, lock, cancel, session, events>>

\* Mutant: the row is stored with the stat the file has by now.
StoreRestamped(p) ==
  /\ At(p, "store")
  /\ LET f == do[p].file IN
       rows' = [rows EXCEPT ![f] = [do[p].seen EXCEPT !.own = IF own[f] = 0 THEN @ ELSE own[f]]]
  /\ Onward(p, do[p])
  /\ UNCHANGED <<card, catalog, lock, cancel, session, events>>

Store(p) ==
  /\ At(p, "store")
  /\ rows' = [rows EXCEPT ![do[p].file] = do[p].seen]
  /\ Onward(p, do[p])
  /\ UNCHANGED <<card, catalog, lock, cancel, session, events>>

\* The file is gone, the database busy, or an import has dropped the game since:
\* the scan counts an error, leaves the row as it was and goes on.
EntryFails(p) ==
  /\ do[p].pc \in {"stat", "identify", "store"}
  /\ Onward(p, [do[p] EXCEPT !.failed = @ \cup {do[p].file}])
  /\ UNCHANGED <<card, catalog, rows, lock, cancel, session, events>>

-----------------------------------------------------------------------------
(* Around the scans                                                        *)

Happens == events < MaxEvents /\ events' = events + 1

\* A console's catalogue replaces the last one, in one transaction.  A game that
\* loses its hashes stays as long as a row refers to it.
Import(known) ==
  /\ known # {} /\ Happens
  /\ catalog' = known
  /\ do' = [p \in Procs |-> [do[p] EXCEPT !.owed = IF do[p].force THEN {} ELSE @]]
  /\ UNCHANGED <<card, rows, lock, cancel, session>>

ScanCancel ==
  /\ ~cancel /\ cancel' = TRUE
  /\ UNCHANGED <<card, catalog, rows, lock, session, do, events>>

SessionStarts ==
  /\ ~session /\ session' = TRUE
  /\ UNCHANGED <<card, catalog, rows, lock, cancel, do, events>>

SessionEnds ==
  /\ session /\ session' = FALSE
  /\ UNCHANGED <<card, catalog, rows, lock, cancel, do, events>>

\* What is on the card changes: a file, its first disc, or its tracks.
Changed(f) == do' = [p \in Procs |-> [do[p] EXCEPT !.owed = @ \ {f}]]

FileChanges(f, i) ==
  /\ Happens
  /\ own' = [own EXCEPT ![f] = events + 2] /\ image' = [image EXCEPT ![f] = i]
  /\ Changed(f)
  /\ UNCHANGED <<disc, catalog, rows, lock, cancel, session>>

FileRemoved(f) ==
  /\ own[f] # 0 /\ Happens /\ own' = [own EXCEPT ![f] = 0]
  /\ Changed(f)
  /\ UNCHANGED <<disc, image, catalog, rows, lock, cancel, session>>

DiscChanges(f, i) ==
  /\ f \in Playlists /\ Happens
  /\ disc' = [disc EXCEPT ![f] = events + 2] /\ image' = [image EXCEPT ![f] = i]
  /\ Changed(f)
  /\ UNCHANGED <<own, catalog, rows, lock, cancel, session>>

DiscRemoved(f) ==
  /\ disc[f] # 0 /\ Happens /\ disc' = [disc EXCEPT ![f] = 0]
  /\ Changed(f)
  /\ UNCHANGED <<own, image, catalog, rows, lock, cancel, session>>

TracksChange(f, i) ==
  /\ f \in Sheets /\ Happens /\ image' = [image EXCEPT ![f] = i]
  /\ UNCHANGED <<own, disc, catalog, rows, lock, cancel, session, do>>

\* A process is killed; the lock it holds stays.
Kill(p) ==
  /\ ~At(p, "idle") /\ Happens
  /\ Go(p, "idle")
  /\ pidFile' = IF pidFile # None /\ pidFile.owner = p THEN [pidFile EXCEPT !.owner = Gone]
                ELSE pidFile
  /\ UNCHANGED <<card, catalog, rows, lockDir, cancel, session>>

\* /tmp and the processes go; database and marker are on the card.
PowerLoss ==
  /\ Happens
  /\ do' = [p \in Procs |-> Idle]
  /\ lockDir' = FALSE /\ pidFile' = None /\ session' = FALSE
  /\ UNCHANGED <<card, catalog, rows, cancel>>

-----------------------------------------------------------------------------
LockStep(p) ==
  Look(p) \/ Clear(p) \/ Mkdir(p) \/ Create(p) \/ Abandon(p) \/ Write(p) \/ Release(p) \/ GiveUp(p)
ScanStep(p) ==
  \/ OpenScan(p) \/ OpenGame(p) \/ Walk(p) \/ Stop(p) \/ Complete(p) \/ Finish(p)
  \/ Compare(p) \/ Identify(p) \/ Store(p) \/ EntryFails(p)
Step(p) == LockStep(p) \/ ScanStep(p)

Starts(p) ==
  \/ \E entries \in SUBSET Files : BeginScan(p, entries)
  \/ \E f \in Files : BeginGame(p, f)
  \/ BeginAll(p) \/ BeginStatus(p)

Around ==
  \/ \E known \in SUBSET Images : Import(known)
  \/ ScanCancel \/ SessionStarts \/ SessionEnds
  \/ \E f \in Files : FileRemoved(f) \/ DiscRemoved(f)
  \/ \E f \in Files, i \in Images : FileChanges(f, i) \/ DiscChanges(f, i) \/ TracksChange(f, i)
  \/ PowerLoss

Next == Around \/ \E p \in Procs : Starts(p) \/ Step(p) \/ Kill(p)

Spec == Init /\ [][Next]_vars

-----------------------------------------------------------------------------
(* Properties                                                              *)

Steps == {"idle", "look", "clearPid", "clearDir", "mkdir", "create", "abandon", "write",
          "open", "walk", "stat", "identify", "store", "end", "complete",
          "releasePid", "releaseDir"}

Process == [pc : Steps, job : {"scan", "game", "status"}, force : BOOLEAN,
            todo : SUBSET Files, file : Files \cup {None}, seen : Row,
            failed : SUBSET Files, owed : SUBSET Files]

TypeOK ==
  /\ own \in [Files -> 0..MaxEvents + 1] /\ disc \in [Files -> 0..MaxEvents + 1]
  /\ image \in [Files -> Images]
  /\ catalog \subseteq Images
  /\ rows \in [Files -> Row \cup {None}]
  /\ lockDir \in BOOLEAN
  /\ pidFile \in PidFile \cup {None}
  /\ pidFile # None => lockDir
  /\ cancel \in BOOLEAN /\ session \in BOOLEAN
  /\ do \in [Procs -> Process]
  /\ \A p \in Procs : Scanning(p) /\ ~At(p, "walk") => do[p].file \in Files
  /\ events \in 0..MaxEvents

\* A row that is stored for the file as it is holds the file's hash: a change
\* while the file was read shows in the stat.  Not so for cue sheets, whose
\* tracks have a stat of their own that is not kept, nor for a playlist whose
\* disc is missing, which is hashed again by each scan.
RowsTell ==
  \A f \in Files \ Sheets :
    rows[f] # None /\ Readable(f) /\ rows[f].own = own[f] /\ rows[f].disc = disc[f] =>
      rows[f].image \in {image[f], None}

\* The files whose row a scan answers for: those it was asked for that nobody
\* changed since it started, except for those it counted as errors, which a scan
\* that completes may have left as they were.
AnswersFor(d) == d.owed \ d.failed

\* A scan that has gone through leaves a row for every file it answers for, as the
\* file is, whatever earlier scans left behind when they were cancelled, paused or
\* killed.  If two scans ran at once neither answers for any.
CompletedScanIndexes ==
  \A p \in Procs : At(p, "complete") =>
    \A f \in AnswersFor(do[p]) :
      own[f] # 0 => rows[f] # None /\ rows[f].own = own[f] /\ rows[f].disc = disc[f]

\* After an import only scan --all looks unchanged files up again: when it has gone
\* through, each row it answers for says what the catalogue imported last says,
\* unless that import came after the scan had started.
AllResolves ==
  \A p \in Procs : At(p, "complete") /\ do[p].force =>
    \A f \in AnswersFor(do[p]) :
      rows[f] # None => (rows[f].identified <=> rows[f].image \in catalog)
=============================================================================
