---------------------- MODULE AchievementIndex_proofs ----------------------
(***************************************************************************)
(* What the rows of bloom-ra say is proved of any card, any number of      *)
(* processes and any number of events.                                     *)
(*                                                                         *)
(* Every stat there has been is at most events + 1 (Stamped), so a change  *)
(* of a file is told from all that was read before it.  A scan answers for *)
(* the entries behind it (Covered, Resolved), except those it counted as   *)
(* errors, and for whatever any process is about to store of them          *)
(* (Carried): nobody answers for anything once two scans run at once.      *)
(***************************************************************************)
EXTENDS AchievementIndex, TLAPS

Active(p)     == do[p].pc \in {"walk", "stat", "identify", "store", "complete"}
Carries(p)    == do[p].pc \in {"identify", "store"}
Current(f, r) == r.own = own[f] /\ r.disc = disc[f]
Told(r)       == r.identified <=> r.image \in catalog

\* An entry of the scan that lies behind it.
Behind(d, f) ==
  f \in AnswersFor(d) \ d.todo /\ ~(d.pc \in {"stat", "identify", "store"} /\ f = d.file)

Stamped ==
  /\ \A f \in Files : own[f] <= events + 1 /\ disc[f] <= events + 1
  /\ \A f \in Files : rows[f] # None => rows[f].own <= events + 1 /\ rows[f].disc <= events + 1
  /\ \A p \in Procs : Carries(p) => do[p].seen.own <= events + 1 /\ do[p].seen.disc <= events + 1

SeenTells ==
  \A p \in Procs :
    /\ At(p, "store") /\ do[p].file \notin Sheets /\ Readable(do[p].file)
    /\ Current(do[p].file, do[p].seen)
    => do[p].seen.image \in {image[do[p].file], None}

Carried ==
  \A p, q \in Procs : Active(p) /\ Carries(q) /\ do[q].file \in AnswersFor(do[p]) =>
    /\ Current(do[q].file, do[q].seen)
    /\ do[p].force /\ At(q, "store") => Told(do[q].seen)

Covered ==
  \A p \in Procs, f \in Files : Active(p) /\ Behind(do[p], f) /\ own[f] # 0 =>
    rows[f] # None /\ Current(f, rows[f])

Resolved ==
  \A p \in Procs, f \in Files :
    Active(p) /\ do[p].force /\ Behind(do[p], f) /\ rows[f] # None => Told(rows[f])

\* A scan completes with its last entry.
Through == \A p \in Procs : At(p, "complete") => do[p].todo = {}

\* Only playlists have a first disc.
Plain == \A f \in Files \ Playlists : disc[f] = 0

Promised == Plain /\ Through /\ Stamped /\ SeenTells /\ RowsTell /\ Carried /\ Covered /\ Resolved

\* The type invariant in two halves: the lock and the markers, and the rest.
LockOK ==
  /\ lockDir \in BOOLEAN
  /\ pidFile \in PidFile \cup {None}
  /\ pidFile # None => lockDir
  /\ cancel \in BOOLEAN /\ session \in BOOLEAN

DataOK ==
  /\ own \in [Files -> 0..MaxEvents + 1] /\ disc \in [Files -> 0..MaxEvents + 1]
  /\ image \in [Files -> Images]
  /\ catalog \subseteq Images
  /\ rows \in [Files -> Row \cup {None}]
  /\ do \in [Procs -> Process]
  /\ \A p \in Procs : Scanning(p) /\ ~At(p, "walk") => do[p].file \in Files
  /\ events \in 0..MaxEvents

IInv == DataOK /\ Promised

-----------------------------------------------------------------------------
(* The lock                                                                *)

\* A directory holds the file with the number as long as the file is there: no
\* step of any process removes one from under the other.
LEMMA LockKept ==
  ASSUME TypeOK, [Next]_vars
  PROVE  LockOK'
<1>0. LockOK BY DEF TypeOK, LockOK
<1> USE <1>0 DEF LockOK, PidFile, lock
<1>1. ASSUME NEW p \in Procs, LockStep(p) PROVE LockOK'
  <2>1. CASE Look(p) BY <2>1 DEF Look
  <2>2. CASE Clear(p) 
    <3>1. CASE Unlink(p, "clearPid", "clearDir") BY <3>1 DEF Unlink
    <3>2. CASE Rmdir(p, "clearDir", Acquired(p))
      <4>1. UNCHANGED <<pidFile, cancel, session>> /\ lockDir' = (lockDir /\ pidFile # None)
        BY <3>2, Zenon DEF Rmdir
      <4> QED BY <4>1
    <3> QED BY <2>2, <3>1, <3>2 DEF Clear
  <2>3. CASE Mkdir(p) BY <2>3 DEF Mkdir
  <2>4. CASE Create(p)
    <3>1. CASE lockDir /\ pidFile = None
      <4>1. UNCHANGED <<lockDir, cancel, session>> BY <2>4 DEF Create
      <4>2. pidFile' = [owner |-> p, written |-> FALSE] BY <2>4, <3>1 DEF Create
      <4>3. lockDir' BY <3>1, <4>1, Zenon
      <4> QED BY <4>1, <4>2, <4>3
    <3>2. CASE ~(lockDir /\ pidFile = None) BY <2>4, <3>2 DEF Create
    <3> QED BY <3>1, <3>2
  <2>5. CASE Abandon(p) BY <2>5 DEF Abandon, Rmdir
  <2>6. CASE Write(p)
    <3>1. pidFile' = IF pidFile = [owner |-> p, written |-> FALSE]
                       THEN [owner |-> p, written |-> TRUE] ELSE pidFile
      BY <2>6 DEF Write
    <3>2. UNCHANGED <<lockDir, cancel, session>> BY <2>6 DEF Write
    <3>3. [owner |-> p, written |-> FALSE] # None /\ [owner |-> p, written |-> TRUE] \in PidFile
      <4>1. [owner |-> p, written |-> FALSE] \in PidFile OBVIOUS
      <4>2. [owner |-> p, written |-> TRUE] \in PidFile OBVIOUS
      <4> QED BY <4>1, <4>2, AchievementIndexAssumption
    <3>4. CASE pidFile = [owner |-> p, written |-> FALSE]
      <4>1. lockDir BY <3>3, <3>4
      <4>2. pidFile' = [owner |-> p, written |-> TRUE] BY <3>1, <3>4
      <4> QED BY <3>2, <3>3, <4>1, <4>2
    <3>5. CASE pidFile # [owner |-> p, written |-> FALSE]
      BY <3>1, <3>2, <3>5
    <3> QED BY <3>4, <3>5
  <2>7. CASE Release(p) BY <2>7 DEF Release, Unlink, Rmdir
  <2>8. CASE GiveUp(p) BY <2>8 DEF GiveUp
  <2> QED BY <1>1, <2>1, <2>2, <2>3, <2>4, <2>5, <2>6, <2>7, <2>8 DEF LockStep
<1>2. ASSUME NEW p \in Procs, ScanStep(p) \/ Starts(p) PROVE LockOK'
  BY <1>2 DEF ScanStep, OpenScan, OpenGame, Walk, Stop, Complete, Finish, Compare, Identify, Store,
    EntryFails, Starts, BeginScan, BeginAll, BeginGame, BeginStatus, Begin
<1>3. ASSUME NEW p \in Procs, Kill(p) PROVE LockOK'
  BY <1>3, AchievementIndexAssumption DEF Kill
<1>4. CASE Around
  BY <1>4 DEF Around, Import, ScanCancel, SessionStarts, SessionEnds, FileRemoved, DiscRemoved,
    FileChanges, DiscChanges, TracksChange, PowerLoss
<1>5. CASE UNCHANGED vars BY <1>5 DEF vars
<1> QED BY <1>1, <1>2, <1>3, <1>4, <1>5 DEF Next, Step
-----------------------------------------------------------------------------
(* One process moves on                                                    *)

\* A step of p that changes nothing of the card, the catalogue and the rows.
Moves(p, d) ==
  /\ do' = [do EXCEPT ![p] = d]
  /\ UNCHANGED <<own, disc, image, catalog, rows>>
  /\ events' \in Nat /\ events <= events' /\ events' <= MaxEvents

\* What p may be after it, so that nobody's promise breaks.
FitsType(d) ==
  /\ d \in Process
  /\ d.pc \in {"stat", "identify", "store"} => d.file \in Files
  /\ d.pc = "complete" => d.todo = {}

FitsSeen(d) ==
  /\ d.pc \in {"identify", "store"} =>
       d.seen.own <= events + 1 /\ d.seen.disc <= events + 1
  /\ d.pc = "store" /\ d.file \notin Sheets /\ Readable(d.file) /\ Current(d.file, d.seen) =>
       d.seen.image \in {image[d.file], None}

\* What c carries can be trusted by the scan d.
Trusted(d, c) ==
  d.pc \in {"walk", "stat", "identify", "store", "complete"} /\ c.pc \in {"identify", "store"}
    /\ c.file \in AnswersFor(d) =>
  /\ Current(c.file, c.seen)
  /\ d.force /\ c.pc = "store" => Told(c.seen)

FitsOthers(p, d) ==
  /\ Trusted(d, d)
  /\ \A q \in Procs \ {p} : Trusted(do[q], d) /\ Trusted(d, do[q])

FitsRows(d) ==
  d.pc \in {"walk", "stat", "identify", "store", "complete"} =>
    \A f \in Files : Behind(d, f) =>
      /\ own[f] # 0 => rows[f] # None /\ Current(f, rows[f])
      /\ d.force /\ rows[f] # None => Told(rows[f])

Fits(p, d) == FitsType(d) /\ FitsSeen(d) /\ FitsOthers(p, d) /\ FitsRows(d)

\* Whatever p becomes, if it fits the invariant is kept.
LEMMA MovesKeep ==
  ASSUME IInv, NEW p \in Procs, NEW d, Moves(p, d), Fits(p, d)
  PROVE  IInv'
<1>1. /\ do' \in [Procs -> Process] /\ do'[p] = d
      /\ \A q \in Procs \ {p} : do'[q] = do[q]
      /\ \A q \in Procs : do'[q] = d \/ do'[q] = do[q]
  BY DEF IInv, DataOK, Moves, Fits, FitsType
<1>2. /\ UNCHANGED <<own, disc, image, catalog, rows>>
      /\ events \in Nat /\ events' \in 0..MaxEvents /\ events <= events'
  BY AchievementIndexAssumption DEF Moves, IInv, DataOK
<1>3. DataOK'
  BY <1>1, <1>2 DEF IInv, DataOK, Fits, FitsType, Scanning, At
<1>4. Through' BY <1>1 DEF IInv, Promised, Through, At, Fits, FitsType
<1>5. Stamped'
  <2>1. \A f \in Files : own[f] \in Nat /\ disc[f] \in Nat
    BY AchievementIndexAssumption DEF IInv, DataOK
  <2>2. \A f \in Files : own'[f] <= events' + 1 /\ disc'[f] <= events' + 1
    BY <1>2, <2>1 DEF IInv, Promised, Stamped
  <2>3. \A f \in Files : rows'[f] # None => rows'[f].own <= events' + 1 /\ rows'[f].disc <= events' + 1
    <3> SUFFICES ASSUME NEW f \in Files, rows[f] # None
                 PROVE  rows[f].own <= events' + 1 /\ rows[f].disc <= events' + 1
      BY <1>2
    <3>1. rows[f].own \in Nat /\ rows[f].disc \in Nat
      BY AchievementIndexAssumption DEF IInv, DataOK, Row
    <3> QED BY <1>2, <3>1 DEF IInv, Promised, Stamped
  <2>4. ASSUME NEW q \in Procs, Carries(q)'
        PROVE  do'[q].seen.own <= events' + 1 /\ do'[q].seen.disc <= events' + 1
    <3>1. do'[q].seen.own \in Nat /\ do'[q].seen.disc \in Nat
      BY <1>1, AchievementIndexAssumption DEF Process, Row
    <3>2. do'[q].seen.own <= events + 1 /\ do'[q].seen.disc <= events + 1
      BY <1>1, <2>4 DEF Carries, IInv, Promised, Stamped, Fits, FitsSeen
    <3> QED BY <1>2, <3>1, <3>2
  <2> QED BY <2>2, <2>3, <2>4 DEF Stamped
<1>6. SeenTells'
  BY <1>1, <1>2 DEF IInv, Promised, SeenTells, At, Readable, Current, Fits, FitsSeen
<1>7. RowsTell' BY <1>2 DEF IInv, Promised, RowsTell, Readable
<1>8. Carried'
  <2> SUFFICES ASSUME NEW r \in Procs, NEW q \in Procs
               PROVE  Trusted(do'[r], do'[q])
    BY <1>2 DEF Carried, Trusted, Active, Carries, At, Current, Told
  <2>1. Trusted(do[r], do[q])
    BY DEF IInv, Promised, Carried, Trusted, Active, Carries, At
  <2>2. Trusted(d, d) /\ (r # p => Trusted(do[r], d)) /\ (q # p => Trusted(d, do[q]))
    BY DEF Fits, FitsOthers
  <2> QED BY <1>1, <2>1, <2>2
<1>9. Covered' /\ Resolved'
  <2>1. ASSUME NEW q \in Procs, NEW f \in Files, Active(q)', Behind(do'[q], f)
        PROVE  /\ own[f] # 0 => rows[f] # None /\ Current(f, rows[f])
               /\ do'[q].force /\ rows[f] # None => Told(rows[f])
    <3>1. CASE q = p
      BY <1>1, <2>1, <3>1 DEF Fits, FitsRows, Active
    <3>2. CASE q # p
      BY <1>1, <2>1, <3>2 DEF IInv, Promised, Covered, Resolved, Active
    <3> QED BY <3>1, <3>2
  <2> QED BY <1>2, <2>1 DEF Covered, Resolved, Current, Told
<1>10. Plain' BY <1>2 DEF IInv, Promised, Plain
<1> QED BY <1>3, <1>4, <1>5, <1>6, <1>7, <1>8, <1>9, <1>10 DEF IInv, Promised

\* What was read before an event is older than what comes after it.
LEMMA RowsBehind ==
  ASSUME IInv
  PROVE  /\ \A f \in Files : own[f] <= events + 2 /\ disc[f] <= events + 2
         /\ \A f \in Files : rows[f] # None => rows[f].own <= events + 2 /\ rows[f].disc <= events + 2
         /\ \A p \in Procs : Carries(p) => do[p].seen.own <= events + 2 /\ do[p].seen.disc <= events + 2
<1>1. /\ events \in Nat /\ own \in [Files -> 0..MaxEvents + 1]
      /\ disc \in [Files -> 0..MaxEvents + 1] /\ rows \in [Files -> Row \cup {None}]
      /\ do \in [Procs -> Process] /\ Stamped
  BY AchievementIndexAssumption DEF IInv, DataOK, Promised
<1>2. ASSUME NEW n \in 0..MaxEvents + 1, n <= events + 1 PROVE n <= events + 2
  BY <1>1, <1>2, AchievementIndexAssumption
<1>3. \A f \in Files : own[f] <= events + 2 /\ disc[f] <= events + 2
  BY <1>1, <1>2 DEF Stamped
<1>4. \A f \in Files : rows[f] # None => rows[f].own <= events + 2 /\ rows[f].disc <= events + 2
  <2>1. \A r \in Row : r.own \in 0..MaxEvents + 1 /\ r.disc \in 0..MaxEvents + 1
    BY AchievementIndexAssumption DEF Row
  <2> QED BY <1>1, <1>2, <2>1 DEF Stamped
<1>5. \A p \in Procs : Carries(p) => do[p].seen.own <= events + 2 /\ do[p].seen.disc <= events + 2
  <2>1. \A p \in Procs : do[p].seen.own \in 0..MaxEvents + 1 /\ do[p].seen.disc \in 0..MaxEvents + 1
    BY <1>1, AchievementIndexAssumption DEF Row, Process
  <2> QED BY <1>1, <1>2, <2>1 DEF Stamped
<1> QED BY <1>3, <1>4, <1>5

\* Outside a scan nothing is promised.
LEMMA QuietFits ==
  ASSUME NEW p \in Procs, NEW d \in Process,
         d.pc \notin {"walk", "stat", "identify", "store", "complete"}
  PROVE  Fits(p, d)
BY DEF Fits, FitsType, FitsSeen, FitsOthers, FitsRows, Trusted

LEMMA IdleTyped == Idle \in Process
<1>1. 1 \in 1..MaxEvents + 1 /\ 0 \in 0..MaxEvents + 1 BY AchievementIndexAssumption
<1>2. Blank \in Row BY <1>1 DEF Blank, Row
<1> QED BY <1>2 DEF Idle, Process, Steps

\* A step that only moves p outside a scan.
Apart(p) ==
  /\ \E d \in Process : /\ d.pc \notin {"walk", "stat", "identify", "store", "complete"}
                       /\ do' = [do EXCEPT ![p] = d]
  /\ UNCHANGED <<own, disc, image, catalog, rows>>
  /\ events' = events \/ Happens

LEMMA ApartKeeps ==
  ASSUME IInv, NEW p \in Procs, Apart(p)
  PROVE  IInv'
<1>1. PICK d \in Process : /\ d.pc \notin {"walk", "stat", "identify", "store", "complete"}
                          /\ do' = [do EXCEPT ![p] = d]
  BY DEF Apart
<1>2. events' \in Nat /\ events <= events' /\ events' <= MaxEvents
  BY AchievementIndexAssumption DEF Apart, Happens, IInv, DataOK
<1>3. Moves(p, d) BY <1>1, <1>2 DEF Apart, Moves
<1>4. Fits(p, d) BY <1>1, QuietFits
<1> QED BY <1>3, <1>4, MovesKeep

LEMMA GoApart ==
  ASSUME IInv, NEW p \in Procs,
         NEW step \in Steps \ {"walk", "stat", "identify", "store", "complete"}, Go(p, step),
         UNCHANGED <<own, disc, image, catalog, rows>>, events' = events \/ Happens
  PROVE  IInv'
<1>1. CASE step = "idle" BY <1>1, IdleTyped, ApartKeeps DEF Go, Apart, Idle
<1>2. CASE step # "idle"
  <2> DEFINE d == [do[p] EXCEPT !.pc = step]
  <2>1. d \in Process /\ d.pc = step BY DEF IInv, DataOK, Process
  <2>2. do' = [do EXCEPT ![p] = d] BY <1>2 DEF Go
  <2> HIDE DEF d
  <2> QED BY <2>1, <2>2, ApartKeeps DEF Apart
<1> QED BY <1>1, <1>2

LEMMA LeaveApart ==
  ASSUME IInv, NEW p \in Procs, Leave(p),
         UNCHANGED <<own, disc, image, catalog, rows>>, events' = events
  PROVE  IInv'
<1> DEFINE d == [Idle EXCEPT !.pc = "releasePid"]
<1>1. d \in Process /\ d.pc = "releasePid" BY IdleTyped DEF Process, Steps
<1>2. do' = [do EXCEPT ![p] = d] BY DEF Leave
<1> HIDE DEF d
<1> QED BY <1>1, <1>2, ApartKeeps DEF Apart

LEMMA LockStepKeeps ==
  ASSUME IInv, NEW p \in Procs, LockStep(p)
  PROVE  IInv'
<1> USE DEF Steps, card, lock
<1>0. Acquired(p) \in {"idle", "mkdir"} BY DEF Acquired
<1>1. CASE Look(p)
  <2>1. PICK step \in {"idle", "clearPid", "mkdir"} : Go(p, step)
    BY <1>0, <1>1 DEF Look
  <2> QED BY <1>1, <2>1, GoApart DEF Look
<1>2. CASE Clear(p)
  <2>1. CASE Unlink(p, "clearPid", "clearDir") BY <2>1, GoApart DEF Unlink
  <2>2. CASE Rmdir(p, "clearDir", Acquired(p)) BY <1>0, <2>2, GoApart DEF Rmdir
  <2> QED BY <1>2, <2>1, <2>2 DEF Clear
<1>3. CASE Mkdir(p)
  <2>1. Go(p, "idle") \/ Go(p, "create") BY <1>3 DEF Mkdir
  <2> QED BY <1>3, <2>1, GoApart DEF Mkdir
<1>4. CASE Create(p)
  <2>1. Go(p, "write") \/ Go(p, "abandon") BY <1>4 DEF Create
  <2> QED BY <1>4, <2>1, GoApart DEF Create
<1>5. CASE Abandon(p) BY <1>5, GoApart DEF Abandon, Rmdir
<1>6. CASE Write(p) BY <1>6, GoApart DEF Write
<1>7. CASE Release(p)
  <2>1. CASE Unlink(p, "releasePid", "releaseDir") BY <2>1, GoApart DEF Unlink
  <2>2. CASE Rmdir(p, "releaseDir", "idle") BY <2>2, GoApart DEF Rmdir
  <2> QED BY <1>7, <2>1, <2>2 DEF Release
<1>8. CASE GiveUp(p) BY <1>8, LeaveApart DEF GiveUp
<1> QED BY <1>1, <1>2, <1>3, <1>4, <1>5, <1>6, <1>7, <1>8 DEF LockStep

\* A command starts without a promise.
LEMMA StartsKeep ==
  ASSUME IInv, NEW p \in Procs, Starts(p)
  PROVE  IInv'
<1>1. PICK j \in {"scan", "game", "status"}, forced \in BOOLEAN, entries \in SUBSET Files :
        Begin(p, j, forced, entries)
  BY DEF Starts, BeginScan, BeginAll, BeginGame, BeginStatus
<1> DEFINE d == [Idle EXCEPT !.pc = "look", !.job = j, !.force = forced, !.todo = entries]
<1>2. d \in Process /\ d.pc = "look" BY <1>1, IdleTyped DEF Process, Steps
<1>3. do' = [do EXCEPT ![p] = d] BY <1>1 DEF Begin
<1> HIDE DEF d
<1> QED BY <1>1, <1>2, <1>3, ApartKeeps DEF Apart, Begin, card

-----------------------------------------------------------------------------
(* Scanning                                                                *)

\* A scan goes on to its next entry, or to nothing, with what it owes or less.
LEMMA WalkKeeps ==
  ASSUME IInv, NEW p \in Procs, Walk(p)
  PROVE  IInv'
<1>1. PICK f \in do[p].todo :
        do' = [do EXCEPT ![p] = [do[p] EXCEPT !.pc = "stat", !.file = f,
                                              !.todo = do[p].todo \ {f}]]
  BY DEF Walk
<1> DEFINE d == [do[p] EXCEPT !.pc = "stat", !.file = f, !.todo = do[p].todo \ {f}]
<1>2. do[p] \in Process BY DEF IInv, DataOK
<1>3. /\ d \in Process /\ d.pc = "stat" /\ d.file = f /\ d.todo = do[p].todo \ {f}
      /\ AnswersFor(d) = AnswersFor(do[p]) /\ d.force = do[p].force /\ f \in Files
  BY <1>2 DEF AnswersFor, Process, Steps
<1>4. do' = [do EXCEPT ![p] = d] BY <1>1
<1> HIDE DEF d
<1>5. At(p, "walk") /\ Active(p) BY DEF Walk, At, Active
<1>6. FitsType(d) /\ FitsSeen(d) BY <1>3 DEF FitsType, FitsSeen
<1>7. FitsOthers(p, d)
  BY <1>3, <1>5 DEF FitsOthers, Trusted, IInv, Promised, Carried, Active, Carries, At
<1>8. FitsRows(d)
  <2> SUFFICES ASSUME NEW g \in Files, Behind(d, g)
               PROVE  /\ own[g] # 0 => rows[g] # None /\ Current(g, rows[g])
                      /\ d.force /\ rows[g] # None => Told(rows[g])
    BY DEF FitsRows
  <2>1. Behind(do[p], g) BY <1>3, <1>5 DEF Behind, At
  <2> QED BY <1>3, <1>5, <2>1 DEF IInv, Promised, Covered, Resolved
<1>9. UNCHANGED <<own, disc, image, catalog, rows, events>> BY Zenon DEF Walk, card
<1>10. Moves(p, d) BY <1>4, <1>9, AchievementIndexAssumption DEF Moves, IInv, DataOK
<1> QED BY <1>6, <1>7, <1>8, <1>10, MovesKeep DEF Fits

LEMMA CompleteKeeps ==
  ASSUME IInv, NEW p \in Procs, Complete(p)
  PROVE  IInv'
<1> DEFINE d == [do[p] EXCEPT !.pc = "complete"]
<1>2. do[p] \in Process BY DEF IInv, DataOK
<1>3. /\ d \in Process /\ d.pc = "complete" /\ d.todo = {} /\ do[p].todo = {}
      /\ AnswersFor(d) = AnswersFor(do[p]) /\ d.force = do[p].force
  BY <1>2 DEF AnswersFor, Process, Steps, Complete
<1>4. do' = [do EXCEPT ![p] = d] BY DEF Complete, Go
<1> HIDE DEF d
<1>5. At(p, "walk") /\ Active(p) BY DEF Complete, At, Active
<1>6. FitsType(d) /\ FitsSeen(d) BY <1>3 DEF FitsType, FitsSeen
<1>7. FitsOthers(p, d)
  BY <1>3, <1>5 DEF FitsOthers, Trusted, IInv, Promised, Carried, Active, Carries, At
<1>8. FitsRows(d)
  <2> SUFFICES ASSUME NEW g \in Files, Behind(d, g)
               PROVE  /\ own[g] # 0 => rows[g] # None /\ Current(g, rows[g])
                      /\ d.force /\ rows[g] # None => Told(rows[g])
    BY DEF FitsRows
  <2>1. Behind(do[p], g) BY <1>3, <1>5 DEF Behind, At
  <2> QED BY <1>3, <1>5, <2>1 DEF IInv, Promised, Covered, Resolved
<1>9. Moves(p, d) BY <1>4, AchievementIndexAssumption DEF Complete, Moves, card, IInv, DataOK
<1> QED BY <1>6, <1>7, <1>8, <1>9, MovesKeep DEF Fits

\* An entry is left behind with a row that tells it, or the scan does not
\* answer for it.
LEMMA OnwardKeeps ==
  ASSUME IInv, NEW p \in Procs, NEW e \in Process, Onward(p, e),
         Active(p), e.todo = do[p].todo, AnswersFor(e) \subseteq AnswersFor(do[p]),
         e.force = do[p].force,
         Scanning(p), ~At(p, "walk"),
         do[p].file \in AnswersFor(e) =>
           /\ own[do[p].file] # 0 =>
                rows[do[p].file] # None /\ Current(do[p].file, rows[do[p].file])
           /\ e.force /\ rows[do[p].file] # None => Told(rows[do[p].file]),
         UNCHANGED <<own, disc, image, catalog, rows, events>>
  PROVE  IInv'
<1>1. CASE e.job # "scan"
  <2> DEFINE d == [Idle EXCEPT !.pc = "releasePid"]
  <2>1. d \in Process /\ d.pc = "releasePid" BY IdleTyped DEF Process, Steps
  <2>2. do' = [do EXCEPT ![p] = d] BY <1>1 DEF Onward
  <2> HIDE DEF d
  <2> QED BY <2>1, <2>2, ApartKeeps DEF Apart
<1>2. CASE e.job = "scan"
  <2> DEFINE d == [e EXCEPT !.pc = "walk", !.file = None, !.seen = Blank]
  <2>1. Blank \in Row BY IdleTyped DEF Idle, Process
  <2>2. /\ d \in Process /\ d.pc = "walk" /\ d.todo = do[p].todo
        /\ AnswersFor(d) = AnswersFor(e) /\ d.force = do[p].force
    BY <2>1 DEF AnswersFor, Process, Steps
  <2>3. do' = [do EXCEPT ![p] = d] BY <1>2 DEF Onward
  <2> HIDE DEF d
  <2>4. FitsType(d) /\ FitsSeen(d) BY <2>2 DEF FitsType, FitsSeen
  <2>5. FitsOthers(p, d)
    BY <2>2 DEF FitsOthers, Trusted, IInv, Promised, Carried, Active, Carries, At
  <2>6. FitsRows(d)
    <3> SUFFICES ASSUME NEW g \in Files, Behind(d, g)
                 PROVE  /\ own[g] # 0 => rows[g] # None /\ Current(g, rows[g])
                        /\ d.force /\ rows[g] # None => Told(rows[g])
      BY DEF FitsRows
    <3>1. CASE g = do[p].file BY <2>2, <3>1 DEF Behind
    <3>2. CASE g # do[p].file
      <4>1. Behind(do[p], g) BY <2>2, <3>2 DEF Behind
      <4> QED BY <2>2, <4>1 DEF IInv, Promised, Covered, Resolved
    <3> QED BY <3>1, <3>2
  <2>7. Moves(p, d) BY <2>3, AchievementIndexAssumption DEF Moves, IInv, DataOK
  <2> QED BY <2>4, <2>5, <2>6, <2>7, MovesKeep DEF Fits
<1> QED BY <1>1, <1>2

\* The entry's stats are read; an unchanged one is behind the scan with its row.
LEMMA CompareKeeps ==
  ASSUME IInv, NEW p \in Procs, Compare(p)
  PROVE  IInv'
<1> DEFINE f    == do[p].file
           stat == [Blank EXCEPT !.own = own[f], !.disc = disc[f]]
           skip == ~do[p].force /\ (f \in Playlists => disc[f] # 0) /\ Unchanged(f, stat)
<1>1. At(p, "stat") /\ own[f] # 0 /\ UNCHANGED <<own, disc, image, catalog, rows, events>>
  BY DEF Compare, card
<1>2. (skip /\ Onward(p, do[p]))
        \/ do' = [do EXCEPT ![p] = [do[p] EXCEPT !.pc = "identify", !.seen = stat]]
  BY DEF Compare
<1>3. f \in Files /\ do[p] \in Process /\ Active(p) /\ Scanning(p) /\ ~At(p, "walk")
  BY <1>1 DEF IInv, DataOK, At, Active, Scanning
<1>4. stat.own = own[f] /\ stat.disc = disc[f] BY DEF Blank
<1>5. stat \in Row
  <2>1. Blank \in Row BY IdleTyped DEF Idle, Process
  <2>2. own[f] \in 1..MaxEvents + 1 /\ disc[f] \in 0..MaxEvents + 1
    BY <1>1, <1>3, AchievementIndexAssumption DEF IInv, DataOK
  <2> QED BY <2>1, <2>2 DEF Row
<1> HIDE DEF stat
<1>6. CASE skip /\ Onward(p, do[p])
  <2>1. Current(f, rows[f]) /\ rows[f] # None /\ ~do[p].force
    BY <1>4, <1>6 DEF Unchanged, Current
  <2> HIDE DEF skip
  <2> QED BY <1>1, <1>3, <1>6, <2>1, OnwardKeeps
<1>7. CASE do' = [do EXCEPT ![p] = [do[p] EXCEPT !.pc = "identify", !.seen = stat]]
  <2> DEFINE d == [do[p] EXCEPT !.pc = "identify", !.seen = stat]
  <2>1. /\ d \in Process /\ d.pc = "identify" /\ d.seen = stat /\ d.file = f
        /\ d.todo = do[p].todo /\ AnswersFor(d) = AnswersFor(do[p]) /\ d.force = do[p].force
    BY <1>3, <1>5 DEF AnswersFor, Process, Steps
  <2>2. Moves(p, d) BY <1>1, <1>7, AchievementIndexAssumption DEF Moves, IInv, DataOK
  <2> HIDE DEF d, f, skip
  <2>3. FitsType(d) BY <1>3, <2>1 DEF FitsType
  <2>4. FitsSeen(d)
    <3>1. own[f] <= events + 1 /\ disc[f] <= events + 1 BY <1>3 DEF IInv, Promised, Stamped
    <3> QED BY <1>4, <2>1, <3>1 DEF FitsSeen
  <2>5. FitsOthers(p, d)
    BY <1>3, <1>4, <2>1 DEF FitsOthers, Trusted, Current, IInv, Promised, Carried, Active, Carries, At
  <2>6. FitsRows(d)
    <3> SUFFICES ASSUME NEW g \in Files, Behind(d, g)
                 PROVE  /\ own[g] # 0 => rows[g] # None /\ Current(g, rows[g])
                        /\ d.force /\ rows[g] # None => Told(rows[g])
      BY DEF FitsRows
    <3>1. Behind(do[p], g) BY <1>1, <2>1 DEF Behind, At, f
    <3> QED BY <1>3, <2>1, <3>1 DEF IInv, Promised, Covered, Resolved
  <2> QED BY <2>2, <2>3, <2>4, <2>5, <2>6, MovesKeep DEF Fits
<1> QED BY <1>2, <1>6, <1>7

\* The contents are read: they are those of the stats, or the stats are old.
LEMMA IdentifyKeeps ==
  ASSUME IInv, NEW p \in Procs, Identify(p)
  PROVE  IInv'
<1> DEFINE f == do[p].file
<1>1. At(p, "identify") /\ UNCHANGED <<own, disc, image, catalog, rows, events>>
  BY DEF Identify, card
<1>2. PICK i \in (IF Readable(f) THEN {image[f]} ELSE {}) \cup {None} :
        do' = [do EXCEPT ![p] = [do[p] EXCEPT !.pc = "store",
                 !.seen = [do[p].seen EXCEPT !.image = i, !.identified = i \in catalog]]]
  BY DEF Identify
<1>3. f \in Files /\ do[p] \in Process /\ Active(p) /\ Carries(p)
  BY <1>1 DEF IInv, DataOK, At, Active, Scanning, Carries
<1> DEFINE seen == [do[p].seen EXCEPT !.image = i, !.identified = i \in catalog]
           d    == [do[p] EXCEPT !.pc = "store", !.seen = seen]
<1>4. i \in {image[f], None} /\ image[f] \in Images BY <1>3 DEF IInv, DataOK
<1>5. do[p].seen \in Row BY <1>3 DEF Process
<1>6. /\ seen \in Row /\ seen.own = do[p].seen.own /\ seen.disc = do[p].seen.disc
      /\ seen.image = i
  <2>1. (i \in catalog) \in BOOLEAN OBVIOUS
  <2> QED BY <1>4, <1>5, <2>1 DEF Row
<1>7. seen.identified <=> i \in catalog BY <1>5 DEF Row
<1> HIDE DEF seen
<1>8. /\ d \in Process /\ d.pc = "store" /\ d.seen = seen /\ d.file = f
      /\ d.todo = do[p].todo /\ AnswersFor(d) = AnswersFor(do[p]) /\ d.force = do[p].force
  BY <1>3, <1>6 DEF AnswersFor, Process, Steps
<1>9. Moves(p, d) BY <1>1, <1>2, AchievementIndexAssumption DEF Moves, IInv, DataOK, seen
<1> HIDE DEF d, f
<1>10. FitsType(d) BY <1>3, <1>8 DEF FitsType
<1>11. FitsSeen(d)
  BY <1>3, <1>4, <1>6, <1>8 DEF FitsSeen, IInv, Promised, Stamped
<1>12. FitsOthers(p, d)
  <2>1. ASSUME NEW q \in Procs, Active(q), f \in AnswersFor(do[q])
        PROVE  Current(f, seen)
    BY <1>3, <1>6, <2>1 DEF f, IInv, Promised, Carried, Current
  <2>2. Told(seen) BY <1>6, <1>7 DEF Told
  <2>3. Trusted(d, d) BY <1>3, <1>8, <2>1, <2>2 DEF Trusted
  <2>4. ASSUME NEW q \in Procs \ {p} PROVE Trusted(do[q], d) /\ Trusted(d, do[q])
    <3>1. Trusted(do[q], d) BY <1>8, <2>1, <2>2 DEF Trusted, Active
    <3>2. Trusted(d, do[q])
      BY <1>3, <1>8 DEF Trusted, IInv, Promised, Carried, Active, Carries, At
    <3> QED BY <3>1, <3>2
  <2> QED BY <2>3, <2>4 DEF FitsOthers
<1>13. FitsRows(d)
  <2> SUFFICES ASSUME NEW g \in Files, Behind(d, g)
               PROVE  /\ own[g] # 0 => rows[g] # None /\ Current(g, rows[g])
                      /\ d.force /\ rows[g] # None => Told(rows[g])
    BY DEF FitsRows
  <2>1. Behind(do[p], g) BY <1>1, <1>8 DEF Behind, At, f
  <2> QED BY <1>3, <1>8, <2>1 DEF IInv, Promised, Covered, Resolved
<1> QED BY <1>9, <1>10, <1>11, <1>12, <1>13, MovesKeep DEF Fits

LEMMA EntryFailsKeeps ==
  ASSUME IInv, NEW p \in Procs, EntryFails(p)
  PROVE  IInv'
<1> DEFINE e == [do[p] EXCEPT !.failed = do[p].failed \cup {do[p].file}]
<1>1. do[p] \in Process /\ Active(p) /\ Scanning(p) /\ ~At(p, "walk")
  BY DEF EntryFails, IInv, DataOK, Active, Scanning, At
<1>2. /\ e \in Process /\ e.todo = do[p].todo /\ e.force = do[p].force
      /\ AnswersFor(e) \subseteq AnswersFor(do[p]) /\ do[p].file \notin AnswersFor(e)
  <2>1. do[p].file \in Files BY <1>1 DEF IInv, DataOK
  <2> QED BY <1>1, <2>1 DEF AnswersFor, Process
<1>3. Onward(p, e) BY Zenon DEF EntryFails
<1>4. UNCHANGED <<own, disc, image, catalog, rows, events>>
  BY Zenon DEF EntryFails, card
<1> HIDE DEF e
<1> QED BY <1>1, <1>2, <1>3, <1>4, OnwardKeeps

\* The row is stored, which everybody who owes the file can trust.
LEMMA StoreKeeps ==
  ASSUME IInv, NEW p \in Procs, Store(p)
  PROVE  IInv'
<1> DEFINE f == do[p].file
           r == do[p].seen
<1>1. At(p, "store") /\ UNCHANGED <<own, disc, image, catalog, events>> /\ Onward(p, do[p])
  BY DEF Store, card
<1>2. f \in Files /\ do[p] \in Process /\ Active(p) /\ Carries(p) /\ r \in Row
  BY <1>1 DEF IInv, DataOK, At, Active, Scanning, Carries, Process
<1>3. /\ rows' \in [Files -> Row \cup {None}] /\ rows'[f] = r /\ r # None
      /\ \A g \in Files \ {f} : rows'[g] = rows[g]
  BY <1>2, AchievementIndexAssumption DEF Store, IInv, DataOK
<1>4. PICK d \in Process :
        /\ do' = [do EXCEPT ![p] = d] /\ d.pc \in {"walk", "releasePid"}
        /\ d.pc = "walk" =>
             AnswersFor(d) = AnswersFor(do[p]) /\ d.todo = do[p].todo /\ d.force = do[p].force
  <2>1. CASE do[p].job # "scan"
    <3> DEFINE d == [Idle EXCEPT !.pc = "releasePid"]
    <3>1. d \in Process /\ d.pc = "releasePid" BY IdleTyped DEF Process, Steps
    <3>2. do' = [do EXCEPT ![p] = d] BY <1>1, <2>1 DEF Onward
    <3> HIDE DEF d
    <3> QED BY <3>1, <3>2
  <2>2. CASE do[p].job = "scan"
    <3> DEFINE d == [do[p] EXCEPT !.pc = "walk", !.file = None, !.seen = Blank]
    <3>1. Blank \in Row BY IdleTyped DEF Idle, Process
    <3>2. /\ d \in Process /\ d.pc = "walk" /\ d.todo = do[p].todo
          /\ AnswersFor(d) = AnswersFor(do[p]) /\ d.force = do[p].force
      BY <1>2, <3>1 DEF AnswersFor, Process, Steps
    <3>3. do' = [do EXCEPT ![p] = d] BY <1>1, <2>2 DEF Onward
    <3> HIDE DEF d
    <3> QED BY <3>2, <3>3
  <2> QED BY <2>1, <2>2
<1>5. /\ do' \in [Procs -> Process] /\ do'[p] = d
      /\ \A q \in Procs \ {p} : do'[q] = do[q]
  BY <1>4 DEF IInv, DataOK
<1>6. \A q \in Procs : Active(q) /\ f \in AnswersFor(do[q]) =>
        Current(f, r) /\ (do[q].force => Told(r))
  BY <1>1, <1>2 DEF IInv, Promised, Carried
<1> HIDE DEF f, r
<1>7. DataOK' BY <1>1, <1>3, <1>4, <1>5 DEF IInv, DataOK, Scanning, At
<1>8. Through' BY <1>4, <1>5 DEF IInv, Promised, Through, At
<1>9. Stamped'
  BY <1>1, <1>2, <1>3, <1>4, <1>5 DEF IInv, Promised, Stamped, Carries, r
<1>10. SeenTells'
  BY <1>1, <1>4, <1>5 DEF IInv, Promised, SeenTells, At, Readable, Current
<1>11. RowsTell'
  <2>1. f \notin Sheets /\ Readable(f) /\ Current(f, r) => r.image \in {image[f], None}
    BY <1>1 DEF IInv, Promised, SeenTells, f, r
  <2> QED BY <1>1, <1>3, <2>1 DEF IInv, Promised, RowsTell, Readable, Current
<1>12. Carried'
  BY <1>1, <1>2, <1>4, <1>5 DEF IInv, Promised, Carried, Active, Carries, At, Current, Told
<1>13. Covered' /\ Resolved'
  <2>1. ASSUME NEW q \in Procs, NEW g \in Files, Active(q)', Behind(do'[q], g)
        PROVE  /\ own[g] # 0 => rows'[g] # None /\ Current(g, rows'[g])
               /\ do'[q].force /\ rows'[g] # None => Told(rows'[g])
    <3>1. Active(q) /\ g \in AnswersFor(do[q]) /\ do'[q].force = do[q].force
      BY <1>2, <1>4, <1>5, <2>1 DEF Active, Behind
    <3>2. CASE g = f BY <1>3, <1>6, <3>1, <3>2
    <3>3. CASE g # f
      <4>1. Behind(do[q], g) BY <1>4, <1>5, <2>1, <3>3 DEF Behind, Active, f
      <4> QED BY <1>3, <3>1, <3>3, <4>1 DEF IInv, Promised, Covered, Resolved
    <3> QED BY <3>2, <3>3
  <2> QED BY <1>1, <2>1 DEF Covered, Resolved, Current, Told
<1>14. Plain' BY <1>1 DEF IInv, Promised, Plain
<1> QED BY <1>7, <1>8, <1>9, <1>10, <1>11, <1>12, <1>13, <1>14 DEF IInv, Promised

\* A scan that starts alone owes what it has before it; beside another, both
\* promise nothing.
LEMMA OwingKeeps ==
  ASSUME IInv, NEW p \in Procs, NEW n \in Process, n.pc \in {"walk", "stat"},
         n.pc = "stat" => n.file \in Files, do' = Owing(p, n),
         UNCHANGED <<own, disc, image, catalog, rows, events>>
  PROVE  IInv'
<1>1. CASE \E q \in Procs : Scanning(q)
  <2>1. do' = [q \in Procs |-> [(IF q = p THEN n ELSE do[q]) EXCEPT !.owed = {}]]
    BY <1>1 DEF Owing
  <2>2. ASSUME NEW q \in Procs
        PROVE  /\ do'[q] \in Process /\ AnswersFor(do'[q]) = {}
               /\ q = p => do'[q].pc = n.pc /\ do'[q].file = n.file
               /\ q # p => /\ do'[q].pc = do[q].pc /\ do'[q].file = do[q].file
                          /\ do'[q].seen = do[q].seen /\ do'[q].todo = do[q].todo
    <3>1. CASE q = p
      <4>1. do'[q] = [n EXCEPT !.owed = {}] BY <2>1, <3>1
      <4> QED BY <3>1, <4>1 DEF AnswersFor, Process
    <3>2. CASE q # p
      <4>1. do'[q] = [do[q] EXCEPT !.owed = {}] BY <2>1, <3>2
      <4>2. do[q] \in Process BY DEF IInv, DataOK
      <4> QED BY <3>2, <4>1, <4>2 DEF AnswersFor, Process
    <3> QED BY <3>1, <3>2
  <2>3. do' \in [Procs -> Process] BY <2>1, <2>2
  <2>4. DataOK' BY <2>2, <2>3 DEF IInv, DataOK, Scanning, At
  <2>5. Through' /\ Plain' BY <2>2 DEF IInv, Promised, Through, Plain, At
  <2>6. Stamped' BY <2>2 DEF IInv, Promised, Stamped, Carries
  <2>7. SeenTells' BY <2>2 DEF IInv, Promised, SeenTells, At, Readable, Current
  <2>8. RowsTell' BY DEF IInv, Promised, RowsTell, Readable
  <2>9. Carried' /\ Covered' /\ Resolved'
    BY <2>2 DEF Carried, Covered, Resolved, Behind
  <2> QED BY <2>4, <2>5, <2>6, <2>7, <2>8, <2>9 DEF IInv, Promised
<1>2. CASE ~\E q \in Procs : Scanning(q)
  <2> DEFINE d == [n EXCEPT !.owed = n.todo]
  <2>1. do' = [do EXCEPT ![p] = d] BY <1>2 DEF Owing
  <2>2. d \in Process /\ d.pc = n.pc /\ d.file = n.file /\ AnswersFor(d) \subseteq d.todo
    BY DEF AnswersFor, Process
  <2> HIDE DEF d
  <2>3. FitsType(d) /\ FitsSeen(d) BY <2>2 DEF FitsType, FitsSeen
  <2>4. FitsOthers(p, d)
    BY <1>2, <2>2 DEF FitsOthers, Trusted, Scanning
  <2>5. FitsRows(d) BY <2>2 DEF FitsRows, Behind
  <2>6. Moves(p, d) BY <2>1, AchievementIndexAssumption DEF Moves, IInv, DataOK
  <2> QED BY <2>3, <2>4, <2>5, <2>6, MovesKeep DEF Fits
<1> QED BY <1>1, <1>2

LEMMA OpenKeeps ==
  ASSUME IInv, NEW p \in Procs, OpenScan(p) \/ OpenGame(p)
  PROVE  IInv'
<1>1. do[p] \in Process /\ UNCHANGED <<own, disc, image, catalog, rows, events>>
  BY DEF OpenScan, OpenGame, card, IInv, DataOK
<1>2. CASE OpenScan(p)
  <2> DEFINE n == [do[p] EXCEPT !.pc = "walk"]
  <2>1. n \in Process /\ n.pc = "walk" BY <1>1 DEF Process, Steps
  <2>2. do' = Owing(p, n) BY <1>2 DEF OpenScan
  <2> HIDE DEF n
  <2> QED BY <1>1, <2>1, <2>2, OwingKeeps
<1>3. CASE OpenGame(p)
  <2>1. PICK f \in do[p].todo :
          do' = Owing(p, [do[p] EXCEPT !.pc = "stat", !.file = f, !.todo = {}])
    BY <1>3 DEF OpenGame
  <2> DEFINE n == [do[p] EXCEPT !.pc = "stat", !.file = f, !.todo = {}]
  <2>2. n \in Process /\ n.pc = "stat" /\ n.file \in Files BY <1>1 DEF Process, Steps
  <2>3. do' = Owing(p, n) BY <2>1
  <2> HIDE DEF n
  <2> QED BY <1>1, <2>2, <2>3, OwingKeeps
<1> QED BY <1>2, <1>3

LEMMA ScanStepKeeps ==
  ASSUME IInv, NEW p \in Procs, ScanStep(p)
  PROVE  IInv'
<1>1. CASE Stop(p) BY <1>1, GoApart DEF Stop, Steps, card
<1>2. CASE Finish(p) BY <1>2, LeaveApart DEF Finish, card
<1> QED BY <1>1, <1>2, OpenKeeps, WalkKeeps, CompleteKeeps, CompareKeeps, IdentifyKeeps, StoreKeeps,
       EntryFailsKeeps DEF ScanStep

-----------------------------------------------------------------------------
(* Around the scans                                                        *)

\* A change of the card is told from every stat there has been, and no scan
\* answers for the file any more.
LEMMA CardKeeps ==
  ASSUME IInv, NEW f \in Files, Changed(f), Happens, UNCHANGED <<catalog, rows>>,
         own' \in [Files -> 0..MaxEvents + 1], disc' \in [Files -> 0..MaxEvents + 1],
         image' \in [Files -> Images], Plain',
         \A g \in Files \ {f} : own'[g] = own[g] /\ disc'[g] = disc[g] /\ image'[g] = image[g],
         own'[f] <= events + 2, disc'[f] <= events + 2,
         ~Readable(f)' \/ own'[f] = events + 2 \/ disc'[f] = events + 2
  PROVE  IInv'
<1>1. events \in Nat /\ events' = events + 1 /\ events' \in 0..MaxEvents
  BY AchievementIndexAssumption DEF Happens, IInv, DataOK
<1>2. ASSUME NEW q \in Procs
      PROVE  /\ do'[q] \in Process /\ AnswersFor(do'[q]) = AnswersFor(do[q]) \ {f}
             /\ do'[q].pc = do[q].pc /\ do'[q].file = do[q].file /\ do'[q].seen = do[q].seen
             /\ do'[q].todo = do[q].todo /\ do'[q].force = do[q].force
  <2>1. do'[q] = [do[q] EXCEPT !.owed = do[q].owed \ {f}] BY DEF Changed
  <2>2. do[q] \in Process BY DEF IInv, DataOK
  <2> QED BY <2>1, <2>2 DEF AnswersFor, Process
<1>3. do' \in [Procs -> Process] BY <1>2 DEF Changed
<1>4. DataOK' BY <1>1, <1>2, <1>3 DEF IInv, DataOK, Scanning, At
<1>5. Through' BY <1>2 DEF IInv, Promised, Through, At
<1>6. \A g \in Files : rows[g] # None =>
        rows[g].own \in Nat /\ rows[g].disc \in Nat /\ rows[g].own <= events + 1 /\ rows[g].disc <= events + 1
  <2>1. \A g \in Files : rows[g] # None => rows[g].own \in Nat /\ rows[g].disc \in Nat
    BY AchievementIndexAssumption DEF IInv, DataOK, Row
  <2> QED BY <2>1 DEF IInv, Promised, Stamped
<1>7. \A q \in Procs : Carries(q) =>
        /\ do[q].seen.own \in Nat /\ do[q].seen.disc \in Nat
        /\ do[q].seen.own <= events + 1 /\ do[q].seen.disc <= events + 1
  <2>1. \A q \in Procs : do[q].seen.own \in Nat /\ do[q].seen.disc \in Nat
    BY AchievementIndexAssumption DEF IInv, DataOK, Process, Row
  <2> QED BY <2>1 DEF IInv, Promised, Stamped
<1>8. Stamped'
  <2>1. ASSUME NEW g \in Files PROVE own'[g] <= events' + 1 /\ disc'[g] <= events' + 1
    <3>1. own[g] \in Nat /\ disc[g] \in Nat BY AchievementIndexAssumption DEF IInv, DataOK
    <3>2. own[g] <= events + 1 /\ disc[g] <= events + 1 BY DEF IInv, Promised, Stamped
    <3> QED BY <1>1, <3>1, <3>2
  <2>2. \A g \in Files : rows'[g] # None => rows'[g].own <= events' + 1 /\ rows'[g].disc <= events' + 1
    BY <1>1, <1>6
  <2>3. \A q \in Procs : Carries(q)' => do'[q].seen.own <= events' + 1 /\ do'[q].seen.disc <= events' + 1
    BY <1>1, <1>2, <1>7 DEF Carries
  <2> QED BY <2>1, <2>2, <2>3 DEF Stamped
<1>9. ASSUME NEW r, r.own \in Nat, r.disc \in Nat, r.own <= events + 1, r.disc <= events + 1,
             Readable(f)'
      PROVE  ~(r.own = own'[f] /\ r.disc = disc'[f])
  BY <1>1, <1>9
<1>10. SeenTells'
  <2> SUFFICES ASSUME NEW q \in Procs, At(q, "store"), do[q].file \notin Sheets,
                      Readable(do[q].file)', Current(do[q].file, do[q].seen)'
               PROVE  do[q].seen.image \in {image'[do[q].file], None}
    BY <1>2 DEF SeenTells, At, Readable, Current
  <2>1. Carries(q) /\ do[q].file \in Files BY DEF At, Carries, IInv, DataOK, Scanning
  <2>2. CASE do[q].file = f
    <3>1. do'[q].seen = do[q].seen /\ do'[q].file = f BY <1>2, <2>2
    <3>2. do[q].seen.own = own'[f] /\ do[q].seen.disc = disc'[f] /\ Readable(f)'
      BY <3>1 DEF Current
    <3>3. Carries(q) BY <2>1
    <3>4. ~(do[q].seen.own = own'[f] /\ do[q].seen.disc = disc'[f])
      BY <1>7, <1>9, <3>2, <3>3
    <3> QED BY <3>2, <3>4
  <2>3. CASE do[q].file # f
    BY <1>2, <2>1, <2>3 DEF IInv, Promised, SeenTells, Readable, Current
  <2> QED BY <2>2, <2>3
<1>11. RowsTell'
  <2> SUFFICES ASSUME NEW g \in Files \ Sheets, rows[g] # None, Readable(g)',
                      rows[g].own = own'[g], rows[g].disc = disc'[g]
               PROVE  rows[g].image \in {image'[g], None}
    BY DEF RowsTell
  <2>1. g # f BY <1>6, <1>9
  <2> QED BY <2>1 DEF IInv, Promised, RowsTell, Readable
<1>12. Carried'
  BY <1>2 DEF IInv, Promised, Carried, DataOK, Scanning, Active, Carries, At, Current, Told
<1>13. Covered' /\ Resolved'
  <2>1. ASSUME NEW q \in Procs, NEW g \in Files, Active(q)', Behind(do'[q], g)
        PROVE  /\ own'[g] # 0 => rows[g] # None /\ Current(g, rows[g])'
               /\ do'[q].force /\ rows[g] # None => Told(rows[g])
    <3>1. g # f /\ Active(q) /\ Behind(do[q], g) BY <1>2, <2>1 DEF Behind, Active
    <3> QED BY <1>2, <3>1 DEF IInv, Promised, Covered, Resolved, Current
  <2> QED BY <2>1 DEF Covered, Resolved, Told
<1> QED BY <1>4, <1>5, <1>8, <1>10, <1>11, <1>12, <1>13 DEF IInv, Promised

\* Only a scan that is forced answers for the catalogue, and an import excuses it.
LEMMA ImportKeeps ==
  ASSUME IInv, NEW known \in SUBSET Images, Import(known)
  PROVE  IInv'
<1>1. /\ UNCHANGED <<own, disc, image, rows>> /\ catalog' = known
      /\ events \in Nat /\ events' = events + 1 /\ events' \in 0..MaxEvents
  BY AchievementIndexAssumption DEF Import, Happens, card, IInv, DataOK
<1>2. ASSUME NEW q \in Procs
      PROVE  /\ do'[q] \in Process /\ AnswersFor(do'[q]) \subseteq AnswersFor(do[q])
             /\ do'[q].force => AnswersFor(do'[q]) = {}
             /\ do'[q].pc = do[q].pc /\ do'[q].file = do[q].file /\ do'[q].seen = do[q].seen
             /\ do'[q].todo = do[q].todo /\ do'[q].force = do[q].force
  <2>1. do'[q] = [do[q] EXCEPT !.owed = IF do[q].force THEN {} ELSE do[q].owed]
    BY Zenon DEF Import
  <2>2. do[q] \in Process BY DEF IInv, DataOK
  <2>3. CASE do[q].force
    <3>1. do'[q] = [do[q] EXCEPT !.owed = {}] BY <2>1, <2>3, Zenon
    <3> QED BY <2>2, <3>1 DEF AnswersFor, Process
  <2>4. CASE ~do[q].force
    <3>1. do'[q] = [do[q] EXCEPT !.owed = do[q].owed] BY <2>1, <2>4, Zenon
    <3> QED BY <2>2, <2>4, <3>1 DEF AnswersFor, Process
  <2> QED BY <2>3, <2>4
<1>3. do' \in [Procs -> Process]
  <2>1. do' = [q \in Procs |-> [do[q] EXCEPT !.owed = IF do[q].force THEN {} ELSE do[q].owed]]
    BY Zenon DEF Import
  <2> HIDE DEF Import
  <2> QED BY <1>2, <2>1
<1>4. DataOK' BY <1>1, <1>2, <1>3 DEF IInv, DataOK, Scanning, At
<1>5. Through' /\ Plain' BY <1>1, <1>2 DEF IInv, Promised, Through, Plain, At
<1>6. Stamped' BY <1>1, <1>2, RowsBehind DEF Stamped, Carries
<1>7. SeenTells' BY <1>1, <1>2 DEF IInv, Promised, SeenTells, At, Readable, Current
<1>8. RowsTell' BY <1>1 DEF IInv, Promised, RowsTell, Readable
<1>9. Carried'
  BY <1>1, <1>2 DEF IInv, Promised, Carried, Active, Carries, At, Current
<1>10. Covered' /\ Resolved'
  <2>1. ASSUME NEW q \in Procs, NEW g \in Files, Active(q)', Behind(do'[q], g)
        PROVE  /\ own[g] # 0 => rows[g] # None /\ Current(g, rows[g])
               /\ ~do'[q].force
    <3>1. Active(q) /\ Behind(do[q], g) BY <1>2, <2>1 DEF Behind, Active
    <3>2. ~do'[q].force BY <1>2, <2>1 DEF Behind
    <3> QED BY <3>1, <3>2 DEF IInv, Promised, Covered
  <2> QED BY <1>1, <2>1 DEF Covered, Resolved, Current
<1> QED BY <1>4, <1>5, <1>6, <1>7, <1>8, <1>9, <1>10 DEF IInv, Promised

LEMMA AroundKeeps ==
  ASSUME IInv, Around
  PROVE  IInv'
<1>0. events \in Nat /\ \A f \in Files : own[f] <= events + 1 /\ disc[f] <= events + 1
  BY AchievementIndexAssumption DEF IInv, DataOK, Promised, Stamped
<1>1. ASSUME NEW known \in SUBSET Images, Import(known) PROVE IInv'
  BY <1>1, ImportKeeps
<1>2. CASE ScanCancel \/ SessionStarts \/ SessionEnds
  <2>1. UNCHANGED <<own, disc, image, catalog, rows, do, events>>
    BY <1>2 DEF ScanCancel, SessionStarts, SessionEnds, card
  <2> QED BY <2>1 DEF IInv, DataOK, Promised, Plain, Through, Stamped, SeenTells, RowsTell, Carried,
             Covered, Resolved, Scanning, At, Active, Carries, Current, Told, Readable
<1>3. ASSUME NEW f \in Files, FileRemoved(f) PROVE IInv'
  <2>1. /\ UNCHANGED <<disc, image, catalog, rows>> /\ own' = [own EXCEPT ![f] = 0]
        /\ Changed(f) /\ Happens
    BY <1>3 DEF FileRemoved
  <2>2. own' \in [Files -> 0..MaxEvents + 1] /\ own'[f] = 0
    BY <2>1, AchievementIndexAssumption DEF IInv, DataOK
  <2>3. Plain' BY <2>1 DEF IInv, Promised, Plain
  <2>4. disc[f] \in Nat BY AchievementIndexAssumption DEF IInv, DataOK
  <2>5. own'[f] <= events + 2 /\ disc'[f] <= events + 2 BY <1>0, <2>1, <2>2, <2>4
  <2>6. ~Readable(f)' BY <2>2 DEF Readable
  <2> QED BY <2>1, <2>2, <2>3, <2>5, <2>6, CardKeeps DEF IInv, DataOK
<1>4. ASSUME NEW f \in Files, DiscRemoved(f) PROVE IInv'
  <2>1. /\ UNCHANGED <<own, image, catalog, rows>> /\ disc' = [disc EXCEPT ![f] = 0]
        /\ Changed(f) /\ Happens /\ disc[f] # 0
    BY <1>4 DEF DiscRemoved
  <2>2. disc' \in [Files -> 0..MaxEvents + 1] /\ disc'[f] = 0
    BY <2>1, AchievementIndexAssumption DEF IInv, DataOK
  <2>3. Plain' /\ f \in Playlists BY <2>1 DEF IInv, DataOK, Promised, Plain
  <2>4. own[f] \in Nat BY AchievementIndexAssumption DEF IInv, DataOK
  <2>5. own'[f] <= events + 2 /\ disc'[f] <= events + 2 BY <1>0, <2>1, <2>2, <2>4
  <2>6. ~Readable(f)' BY <2>2, <2>3 DEF Readable
  <2> QED BY <2>1, <2>2, <2>3, <2>5, <2>6, CardKeeps DEF IInv, DataOK
<1>5. ASSUME NEW f \in Files, NEW i \in Images, FileChanges(f, i) PROVE IInv'
  <2>1. /\ UNCHANGED <<disc, catalog, rows>> /\ own' = [own EXCEPT ![f] = events + 2]
        /\ image' = [image EXCEPT ![f] = i] /\ Changed(f) /\ Happens
    BY <1>5 DEF FileChanges
  <2>2. events + 2 \in 0..MaxEvents + 1 BY <1>0, <2>1, AchievementIndexAssumption DEF Happens
  <2>3. own' \in [Files -> 0..MaxEvents + 1] /\ own'[f] = events + 2
    BY <2>1, <2>2 DEF IInv, DataOK
  <2>4. image' \in [Files -> Images] BY <2>1 DEF IInv, DataOK
  <2>5. Plain' BY <2>1 DEF IInv, Promised, Plain
  <2>6. disc[f] \in Nat BY AchievementIndexAssumption DEF IInv, DataOK
  <2>7. own'[f] <= events + 2 /\ disc'[f] <= events + 2 BY <1>0, <2>1, <2>3, <2>6
  <2> QED BY <2>1, <2>3, <2>4, <2>5, <2>7, CardKeeps DEF IInv, DataOK
<1>6. ASSUME NEW f \in Files, NEW i \in Images, DiscChanges(f, i) PROVE IInv'
  <2>1. /\ UNCHANGED <<own, catalog, rows>> /\ disc' = [disc EXCEPT ![f] = events + 2]
        /\ image' = [image EXCEPT ![f] = i] /\ Changed(f) /\ Happens /\ f \in Playlists
    BY <1>6 DEF DiscChanges
  <2>2. events + 2 \in 0..MaxEvents + 1 BY <1>0, <2>1, AchievementIndexAssumption DEF Happens
  <2>3. disc' \in [Files -> 0..MaxEvents + 1] /\ disc'[f] = events + 2
    BY <2>1, <2>2 DEF IInv, DataOK
  <2>4. image' \in [Files -> Images] BY <2>1 DEF IInv, DataOK
  <2>5. Plain' BY <2>1 DEF IInv, DataOK, Promised, Plain
  <2>6. own[f] \in Nat BY AchievementIndexAssumption DEF IInv, DataOK
  <2>7. own'[f] <= events + 2 /\ disc'[f] <= events + 2 BY <1>0, <2>1, <2>3, <2>6
  <2> QED BY <2>1, <2>3, <2>4, <2>5, <2>7, CardKeeps DEF IInv, DataOK
<1>7. ASSUME NEW f \in Files, NEW i \in Images, TracksChange(f, i) PROVE IInv'
  <2>1. /\ UNCHANGED <<own, disc, catalog, rows, do>> /\ image' = [image EXCEPT ![f] = i]
        /\ events' = events + 1 /\ events' \in 0..MaxEvents /\ f \in Sheets
    BY <1>0, <1>7, AchievementIndexAssumption DEF TracksChange, Happens
  <2>2. DataOK' BY <2>1 DEF IInv, DataOK, Scanning, At
  <2>3. Plain' /\ Through' /\ Carried' /\ Covered' /\ Resolved'
    BY <2>1 DEF IInv, Promised, Plain, Through, Carried, Covered, Resolved, At, Active, Carries,
      Current, Told
  <2>4. \A g \in Files \ {f} : image'[g] = image[g] BY <2>1 DEF IInv, DataOK
  <2>5. RowsTell' BY <2>1, <2>4 DEF IInv, Promised, RowsTell, Readable
  <2>6. SeenTells'
    <3>1. \A p \in Procs : At(p, "store") => do[p].file \in Files
      BY DEF IInv, DataOK, At, Scanning
    <3> QED BY <2>1, <2>4, <3>1 DEF IInv, Promised, SeenTells, Readable, Current, At
  <2>7. Stamped' BY <1>0, <2>1, RowsBehind DEF Stamped, Carries
  <2> QED BY <2>2, <2>3, <2>5, <2>6, <2>7 DEF IInv, Promised
<1>8. CASE PowerLoss
  <2>1. /\ UNCHANGED <<own, disc, image, catalog, rows>> /\ do' = [p \in Procs |-> Idle]
        /\ events' = events + 1 /\ events' \in 0..MaxEvents
    BY <1>0, <1>8, AchievementIndexAssumption DEF PowerLoss, Happens, card
  <2>2. \A p \in Procs : do'[p].pc = "idle" BY <2>1 DEF Idle
  <2>3. DataOK' BY <2>1, <2>2, IdleTyped DEF IInv, DataOK, Scanning, At
  <2>4. Plain' /\ RowsTell' BY <2>1 DEF IInv, Promised, Plain, RowsTell, Readable
  <2>5. Through' /\ SeenTells' /\ Carried' /\ Covered' /\ Resolved'
    BY <2>2 DEF Through, SeenTells, Carried, Covered, Resolved, At, Active, Carries
  <2>6. Stamped' BY <1>0, <2>1, <2>2, RowsBehind DEF Stamped, Carries
  <2> QED BY <2>3, <2>4, <2>5, <2>6 DEF IInv, Promised
<1> QED BY <1>1, <1>2, <1>3, <1>4, <1>5, <1>6, <1>7, <1>8 DEF Around

-----------------------------------------------------------------------------
(* The theorems                                                            *)

LEMMA InitHolds == Init => LockOK /\ IInv
<1> SUFFICES ASSUME Init PROVE LockOK /\ IInv OBVIOUS
<1>1. LockOK BY DEF Init, LockOK
<1>2. 1 \in 0..MaxEvents + 1 /\ 0 \in 0..MaxEvents + 1 /\ 0 \in 0..MaxEvents
  BY AchievementIndexAssumption
<1>3. \A p \in Procs : do[p] = Idle BY DEF Init
<1>4. \A p \in Procs : do[p].pc = "idle" BY <1>3 DEF Idle
<1>5. DataOK
  <2>1. own \in [Files -> 0..MaxEvents + 1] /\ disc \in [Files -> 0..MaxEvents + 1]
    BY <1>2 DEF Init
  <2>2. image \in [Files -> Images] /\ catalog \subseteq Images /\ events \in 0..MaxEvents
    BY <1>2 DEF Init
  <2>3. rows \in [Files -> Row \cup {None}] BY DEF Init
  <2>4. do \in [Procs -> Process] BY IdleTyped DEF Init
  <2> QED BY <2>1, <2>2, <2>3, <2>4, <1>4 DEF DataOK, Scanning, At
<1>6. \A f \in Files : rows[f] = None BY DEF Init
<1>7. Plain BY DEF Init, Plain
<1>8. Stamped
  <2>1. events = 0 /\ \A f \in Files : own[f] = 1 /\ disc[f] \in {0, 1} BY DEF Init
  <2> QED BY <2>1, <1>4, <1>6 DEF Stamped, Carries
<1>9. RowsTell BY <1>6 DEF RowsTell
<1>10. Through /\ SeenTells /\ Carried /\ Covered /\ Resolved
  BY <1>4 DEF Through, SeenTells, Carried, Covered, Resolved, At, Active, Carries
<1> QED BY <1>1, <1>5, <1>7, <1>8, <1>9, <1>10 DEF IInv, Promised

LEMMA KillKeeps ==
  ASSUME IInv, NEW p \in Procs, Kill(p)
  PROVE  IInv'
<1>1. /\ Go(p, "idle") /\ UNCHANGED <<own, disc, image, catalog, rows>>
      /\ "idle" \in Steps \ {"walk", "stat", "identify", "store", "complete"}
      /\ events' = events \/ Happens
  BY DEF Kill, card, Steps
<1> QED BY <1>1, GoApart

LEMMA NextKeeps ==
  ASSUME IInv, [Next]_vars
  PROVE  IInv'
<1>1. CASE Around BY <1>1, AroundKeeps
<1>2. ASSUME NEW p \in Procs, Starts(p) PROVE IInv' BY <1>2, StartsKeep
<1>3. ASSUME NEW p \in Procs, LockStep(p) PROVE IInv' BY <1>3, LockStepKeeps
<1>4. ASSUME NEW p \in Procs, ScanStep(p) PROVE IInv' BY <1>4, ScanStepKeeps
<1>5. ASSUME NEW p \in Procs, Kill(p) PROVE IInv' BY <1>5, KillKeeps
<1>6. CASE UNCHANGED vars
  BY <1>6 DEF vars, card, IInv, DataOK, Promised, Plain, Through, Stamped, SeenTells, RowsTell,
    Carried, Covered, Resolved, Scanning, At, Active, Carries, Current, Told, Readable
<1> QED BY <1>1, <1>2, <1>3, <1>4, <1>5, <1>6 DEF Next, Step

\* What is kept at each step.
Kept == LockOK /\ IInv

LEMMA KeptTyped == Kept => TypeOK
BY DEF Kept, LockOK, IInv, DataOK, TypeOK

LEMMA KeptAlways == Spec => []Kept
<1>1. Init => Kept BY InitHolds DEF Kept
<1>2. Kept /\ [Next]_vars => Kept'
  BY KeptTyped, LockKept, NextKeeps DEF Kept
<1> QED BY <1>1, <1>2, PTL DEF Spec

\* The state stays of its type; in particular the file with the number is never
\* in a directory that is not there, whoever clears the lock.
THEOREM TypeCorrect == Spec => []TypeOK
BY KeptAlways, KeptTyped, PTL

\* A row stored for a file as it is holds the hash of what the file contains,
\* whatever changed while it was read and whoever scanned at the same time.
THEOREM RowsAreTrue == Spec => []RowsTell
<1>1. Kept => RowsTell BY DEF Kept, IInv, Promised
<1> QED BY <1>1, KeptAlways, PTL

\* A scan that completes without another beside it has a row for each file it was
\* asked for and nobody changed, but for those it counted as errors.
THEOREM ScansIndex == Spec => []CompletedScanIndexes
<1>1. ASSUME Kept, NEW p \in Procs, At(p, "complete"), NEW f \in AnswersFor(do[p]),
             own[f] # 0
      PROVE  rows[f] # None /\ rows[f].own = own[f] /\ rows[f].disc = disc[f]
  <2>1. f \in Files BY <1>1 DEF AnswersFor, Kept, IInv, DataOK, Process
  <2>2. Active(p) /\ Behind(do[p], f)
    BY <1>1 DEF Kept, IInv, Promised, Through, Active, Behind, At
  <2> QED BY <1>1, <2>1, <2>2 DEF Kept, IInv, Promised, Covered, Current
<1>2. Kept => CompletedScanIndexes BY <1>1 DEF CompletedScanIndexes
<1> QED BY <1>2, KeptAlways, PTL

\* When scan --all completes, the rows of the files nobody changed say what the
\* catalogue says, but for those it counted as errors.
THEOREM AllIsResolved == Spec => []AllResolves
<1>1. ASSUME Kept, NEW p \in Procs, At(p, "complete"), do[p].force, NEW f \in AnswersFor(do[p]),
             rows[f] # None
      PROVE  rows[f].identified <=> rows[f].image \in catalog
  <2>1. f \in Files BY <1>1 DEF AnswersFor, Kept, IInv, DataOK, Process
  <2>2. Active(p) /\ Behind(do[p], f)
    BY <1>1 DEF Kept, IInv, Promised, Through, Active, Behind, At
  <2> QED BY <1>1, <2>1, <2>2 DEF Kept, IInv, Promised, Resolved, Told
<1>2. Kept => AllResolves BY <1>1 DEF AllResolves
<1> QED BY <1>2, KeptAlways, PTL
=============================================================================
