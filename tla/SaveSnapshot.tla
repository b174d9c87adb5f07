--------------------------- MODULE SaveSnapshot ----------------------------
(***************************************************************************)
(* bloom-save-snapshot: copies of the save and state trees on the card.    *)
(*                                                                         *)
(* Operations run under a lock directory that is on the card as well; it   *)
(* names nobody, is tried once, and outlives a power loss.  A snapshot is  *)
(* identified by the second it was taken in (the trigger and the process   *)
(* number that follow never decide the order).  A tree's contents are the  *)
(* number of times the game has written it.                                *)
(***************************************************************************)
EXTENDS Naturals, FiniteSets

CONSTANTS
  Actors,          \* processes that run the service
  MaxTime,         \* bound on the clock
  MaxWrites,       \* bound on what games write
  MaxFaults,       \* bound on power losses and failed renames
  Retention,       \* snapshots kept by create
  Keep,            \* the limit an operator gives to prune
  ClockRegresses,  \* may the clock be set back?
  GamesAnyTime     \* may a game start between two steps of an operation?

ASSUME SaveSnapshotAssumption ==
  /\ Retention \in Nat \ {0} /\ Keep \in Nat \ {0}
  /\ MaxTime \in Nat \ {0} /\ MaxWrites \in Nat \ {0} /\ MaxFaults \in Nat
  /\ "nobody" \notin Actors
  /\ ClockRegresses \in BOOLEAN /\ GamesAnyTime \in BOOLEAN

VARIABLES
  lock,     \* BloomSnapshots/.lock exists
  snaps,    \* the published snapshots: identifier and the trees in it
  bad,      \* identifiers of those that no longer verify
  ref,      \* snapshot_id of the update state, 0 for none
  now,      \* the clock
  live,     \* CurrentProfile/saves and states, 0 for a tree that is missing
  aside,    \* trees in .bloom-rollback directories, and whose those are
  playing,  \* the session is active
  pc, id,   \* what each actor does next, and the snapshot it works on
  prior,    \* the live trees when the actor's restore displaced them
  stage,    \* the trees it has extracted
  limit,    \* the actor's retention limit
  listed,   \* verified snapshots its prune has not yet looked at
  kept,     \* how many its prune has kept
  update,   \* the actor creates for an update, which records the result
  writes, faults

pruneVars == <<limit, listed, kept, update>>
restoreVars == <<prior, stage>>
actorVars == <<pc, id, restoreVars, pruneVars>>
vars == <<lock, snaps, bad, ref, now, live, aside, playing, actorVars, writes, faults>>

Trees  == {"saves", "states"}
Ids    == {s.id : s \in snaps}
Good   == Ids \ bad
Stored(i) == (CHOOSE s \in snaps : s.id = i).trees

Init ==
  /\ lock = FALSE /\ snaps = {} /\ bad = {} /\ ref = 0 /\ now = 1
  /\ live = [t \in Trees |-> 1] /\ aside = {} /\ playing = FALSE
  /\ pc = [a \in Actors |-> "idle"] /\ id = [a \in Actors |-> 0]
  /\ prior = [a \in Actors |-> live] /\ stage = [a \in Actors |-> live]
  /\ limit = [a \in Actors |-> Retention]
  /\ listed = [a \in Actors |-> {}] /\ kept = [a \in Actors |-> 0]
  /\ update = [a \in Actors |-> FALSE]
  /\ writes = 1 /\ faults = 0

Go(a, p) == pc' = [pc EXCEPT ![a] = p]
At(a, p) == pc[a] = p

-----------------------------------------------------------------------------
(* create                                                                  *)

Create(a, u) ==
  /\ At(a, "idle") /\ ~lock
  /\ \A t \in Trees : live[t] # 0
  /\ lock' = TRUE
  /\ Go(a, "time") /\ update' = [update EXCEPT ![a] = u]
  /\ limit' = [limit EXCEPT ![a] = Retention]
  /\ UNCHANGED <<snaps, bad, ref, now, live, aside, playing, id, restoreVars, listed, kept,
                 writes, faults>>

\* Waits for a second no snapshot was published in.
TakeTime(a) ==
  /\ At(a, "time") /\ now \notin Ids
  /\ id' = [id EXCEPT ![a] = now]
  /\ Go(a, "archive")
  /\ UNCHANGED <<lock, snaps, bad, ref, now, live, aside, playing, restoreVars,
                 pruneVars, writes, faults>>

\* What prune_locked is about to look at: all snapshots that verify.
Inventory(a) ==
  /\ listed' = [listed EXCEPT ![a] = {s.id : s \in snaps'} \ bad]
  /\ kept' = [kept EXCEPT ![a] = 0]

\* The staged archive, verified and published by one rename.  A snapshot of
\* that name, or a tree that has gone, makes create fail.
Publish(a) ==
  /\ At(a, "archive")
  /\ IF id[a] \in Ids \/ \E t \in Trees : live[t] = 0
       THEN /\ lock' = FALSE /\ Go(a, "idle")
            /\ UNCHANGED <<snaps, listed, kept>>
       ELSE /\ snaps' = snaps \cup {[id |-> id[a], trees |-> live]}
            /\ Inventory(a) /\ Go(a, "prune")
            /\ UNCHANGED lock
  /\ UNCHANGED <<bad, ref, now, live, aside, playing, id, restoreVars, limit, update,
                 writes, faults>>

\* bloom-update-activate and -rollback record the snapshot they asked for.
Record(a) ==
  /\ At(a, "record")
  /\ ref' = id[a]
  /\ Go(a, "idle")
  /\ UNCHANGED <<lock, snaps, bad, now, live, aside, playing, id, restoreVars,
                 pruneVars, writes, faults>>

\* The update is confirmed: its state no longer names a snapshot.
UpdateConfirmed ==
  /\ ref # 0 /\ ref' = 0
  /\ UNCHANGED <<lock, snaps, bad, now, live, aside, playing, actorVars, writes, faults>>

-----------------------------------------------------------------------------
(* prune, by itself or at the end of create                                *)

Prune(a) ==
  /\ At(a, "idle") /\ ~lock
  /\ lock' = TRUE
  /\ Go(a, "prune") /\ update' = [update EXCEPT ![a] = FALSE]
  /\ limit' = [limit EXCEPT ![a] = Keep]
  /\ UNCHANGED snaps /\ Inventory(a)
  /\ UNCHANGED <<bad, ref, now, live, aside, playing, id, restoreVars, writes, faults>>

Newest(i, ids) == \A j \in ids : j <= i

\* prune_locked runs in a command substitution and sets the EXIT trap in it:
\* the subshell removes the lock as it ends ...
PruneExits(a) == lock' = FALSE /\ Go(a, "unlock")

\* What happens to a listed snapshot: skipped (skip), kept (room), removed, or
\* found to have changed, which makes the command fail.
Retain(a, i, skip, room) ==
  /\ listed' = [listed EXCEPT ![a] = @ \ {i}]
  /\ IF skip \/ room \/ i \notin Good
       THEN UNCHANGED snaps ELSE snaps' = {s \in snaps : s.id # i}
  /\ kept' = [kept EXCEPT ![a] = IF ~skip /\ room THEN @ + 1 ELSE @]
  /\ IF skip \/ room \/ i \in Good
       THEN UNCHANGED <<lock, pc, update>>
       ELSE PruneExits(a) /\ update' = [update EXCEPT ![a] = FALSE]
  /\ UNCHANGED <<bad, ref, now, live, aside, playing, id, restoreVars, limit, writes, faults>>

\* Mutant: one snapshot too few is kept.
PruneNextTooFew(a) ==
  /\ At(a, "prune")
  /\ \E i \in listed[a] : Newest(i, listed[a]) /\ Retain(a, i, i = ref, kept[a] + 1 < limit[a])

\* Mutant: one snapshot too many is kept.
PruneNextTooMany(a) ==
  /\ At(a, "prune")
  /\ \E i \in listed[a] : Newest(i, listed[a]) /\ Retain(a, i, i = ref, kept[a] <= limit[a])

\* Mutant: the update's snapshot is treated like any other.
PruneNextReferenced(a) ==
  /\ At(a, "prune")
  /\ \E i \in listed[a] : Newest(i, listed[a]) /\ Retain(a, i, FALSE, kept[a] < limit[a])

\* The newest snapshot that is left: the update's own is skipped, the first
\* ones are kept up to the limit.
PruneNext(a) ==
  /\ At(a, "prune")
  /\ \E i \in listed[a] : Newest(i, listed[a]) /\ Retain(a, i, i = ref, kept[a] < limit[a])

PruneEnds(a) ==
  /\ At(a, "prune") /\ listed[a] = {}
  /\ PruneExits(a)
  /\ UNCHANGED <<snaps, bad, ref, now, live, aside, playing, id, restoreVars, pruneVars,
                 writes, faults>>

\* ... and the caller removes it once more.
Unlock(a) ==
  /\ At(a, "unlock")
  /\ lock' = FALSE
  /\ Go(a, IF update[a] THEN "record" ELSE "idle")
  /\ UNCHANGED <<snaps, bad, ref, now, live, aside, playing, id, restoreVars,
                 pruneVars, writes, faults>>

-----------------------------------------------------------------------------
(* restore                                                                 *)

\* The session is looked at first; the lock is taken later.
Restore(a, i) ==
  /\ At(a, "idle") /\ ~playing
  /\ id' = [id EXCEPT ![a] = i]
  /\ Go(a, "restore")
  /\ UNCHANGED <<lock, snaps, bad, ref, now, live, aside, playing, restoreVars,
                 pruneVars, writes, faults>>

\* Verified, and extracted next to the trees it will replace; or busy.
StageRestore(a) ==
  /\ At(a, "restore")
  /\ IF ~lock /\ id[a] \in Good
       THEN /\ lock' = TRUE /\ Go(a, "asideSaves")
            /\ prior' = [prior EXCEPT ![a] = live]
            /\ stage' = [stage EXCEPT ![a] = Stored(id[a])]
       ELSE Go(a, "idle") /\ UNCHANGED <<lock, restoreVars>>
  /\ UNCHANGED <<snaps, bad, ref, now, live, aside, playing, id,
                 pruneVars, writes, faults>>

\* Mutant: the profile's trees are removed before their replacement is in.
MoveAsideDiscarding(a, t, next) ==
  /\ live[t] # 0
  /\ live' = [live EXCEPT ![t] = 0] /\ UNCHANGED aside
  /\ Go(a, next)
  /\ UNCHANGED <<lock, snaps, bad, ref, now, playing, id, restoreVars,
                 pruneVars, writes, faults>>

MoveAside(a, t, next) ==
  /\ live[t] # 0
  /\ live' = [live EXCEPT ![t] = 0]
  /\ aside' = aside \cup {[by |-> a, tree |-> t, data |-> live[t]]}
  /\ Go(a, next)
  /\ UNCHANGED <<lock, snaps, bad, ref, now, playing, id, restoreVars,
                 pruneVars, writes, faults>>

\* mv of a directory onto one that exists moves it inside.
Install(a, t, next) ==
  /\ live' = [live EXCEPT ![t] = IF @ = 0 THEN stage[a][t] ELSE @]
  /\ Go(a, next)
  /\ UNCHANGED <<lock, snaps, bad, ref, now, aside, playing, id, restoreVars,
                 pruneVars, writes, faults>>

MoveSavesAside(a)  == At(a, "asideSaves") /\ MoveAside(a, "saves", "asideStates")
MoveStatesAside(a) == At(a, "asideStates") /\ MoveAside(a, "states", "installSaves")
InstallSaves(a)    == At(a, "installSaves") /\ Install(a, "saves", "installStates")
InstallStates(a)   == At(a, "installStates") /\ Install(a, "states", "cleanup")

MovedAside(a, t) == {x \in aside : x.by = a /\ x.tree = t}

\* A tree is moved back, once what was put in has been removed; before anything
\* is put in, into the tree if there is one again.
MoveBack(a, t) ==
  IF MovedAside(a, t) = {} \/ (At(a, "asideStates") /\ live[t] # 0) THEN live[t]
  ELSE (CHOOSE x \in MovedAside(a, t) : TRUE).data

\* Mutant: only the first tree is moved back.
RestoreFailsHalfway(a) ==
  /\ pc[a] \in {"asideSaves", "asideStates", "installSaves", "installStates"}
  /\ faults < MaxFaults /\ faults' = faults + 1
  /\ live' = [live EXCEPT !["saves"] = MoveBack(a, "saves")]
  /\ aside' = aside \ MovedAside(a, "saves")
  /\ lock' = FALSE /\ Go(a, "failed")
  /\ UNCHANGED <<snaps, bad, ref, now, playing, id, restoreVars, pruneVars,
                 writes>>

\* A rename fails: what was moved aside goes back.
RestoreFails(a) ==
  /\ pc[a] \in {"asideSaves", "asideStates", "installSaves", "installStates"}
  /\ faults < MaxFaults /\ faults' = faults + 1
  /\ live' = [t \in Trees |-> MoveBack(a, t)]
  /\ aside' = {x \in aside : x.by # a}
  /\ lock' = FALSE /\ Go(a, "failed")
  /\ UNCHANGED <<snaps, bad, ref, now, playing, id, restoreVars, pruneVars,
                 writes>>

\* The displaced trees are removed and the restore reports success.
RestoreEnds(a) ==
  /\ At(a, "cleanup")
  /\ aside' = {x \in aside : x.by # a}
  /\ lock' = FALSE /\ Go(a, "restored")
  /\ UNCHANGED <<snaps, bad, ref, now, live, playing, id, restoreVars,
                 pruneVars, writes, faults>>

Exit(a) ==
  /\ pc[a] \in {"failed", "restored"}
  /\ Go(a, "idle")
  /\ UNCHANGED <<lock, snaps, bad, ref, now, live, aside, playing, id, restoreVars,
                 pruneVars, writes, faults>>

-----------------------------------------------------------------------------
(* Around the service                                                      *)

AllIdle == \A a \in Actors : At(a, "idle")

GameStarts ==
  /\ ~playing
  /\ GamesAnyTime \/ AllIdle
  /\ playing' = TRUE
  /\ UNCHANGED <<lock, snaps, bad, ref, now, live, aside, actorVars, writes, faults>>

\* RetroArch makes a directory it does not find.
GameWrites(t) ==
  /\ playing /\ writes < MaxWrites
  /\ writes' = writes + 1 /\ live' = [live EXCEPT ![t] = writes']
  /\ UNCHANGED <<lock, snaps, bad, ref, now, aside, playing, actorVars, faults>>

GameEnds ==
  /\ playing /\ playing' = FALSE
  /\ UNCHANGED <<lock, snaps, bad, ref, now, live, aside, actorVars, writes, faults>>

ClockMoves ==
  /\ now' \in 1..MaxTime /\ now' # now
  /\ ClockRegresses \/ now' = now + 1
  /\ UNCHANGED <<lock, snaps, bad, ref, live, aside, playing, actorVars, writes, faults>>

\* An archive on the card no longer matches its checksum; not while a prune is
\* between its two looks at it.
Corrupt(i) ==
  /\ faults < MaxFaults /\ faults' = faults + 1
  /\ \A a \in Actors : ~At(a, "prune")
  /\ i \in Good /\ bad' = bad \cup {i}
  /\ UNCHANGED <<lock, snaps, ref, now, live, aside, playing, actorVars, writes>>

\* The lock directory and the rollback directories stay on the card.
PowerLoss ==
  /\ ~AllIdle \/ playing
  /\ faults < MaxFaults /\ faults' = faults + 1
  /\ aside' = {[x EXCEPT !.by = "nobody"] : x \in aside}
  /\ pc' = [a \in Actors |-> "idle"] /\ playing' = FALSE
  /\ UNCHANGED <<lock, snaps, bad, ref, now, live, id, restoreVars, pruneVars,
                 writes>>

-----------------------------------------------------------------------------
CreateStep(a)  == TakeTime(a) \/ Publish(a) \/ Record(a)
PruneStep(a)   == PruneNext(a) \/ PruneEnds(a) \/ Unlock(a)
RestoreStep(a) ==
  \/ StageRestore(a) \/ MoveSavesAside(a) \/ MoveStatesAside(a)
  \/ InstallSaves(a) \/ InstallStates(a) \/ RestoreFails(a) \/ RestoreEnds(a) \/ Exit(a)

Next ==
  \/ \E a \in Actors :
       \/ \E u \in BOOLEAN : Create(a, u)
       \/ Prune(a)
       \/ \E i \in Ids : Restore(a, i)
       \/ CreateStep(a) \/ PruneStep(a) \/ RestoreStep(a)
  \/ UpdateConfirmed \/ ClockMoves
  \/ GameStarts \/ GameEnds \/ \E t \in Trees : GameWrites(t)
  \/ \E i \in Ids : Corrupt(i)
  \/ PowerLoss

Spec == Init /\ [][Next]_vars

-----------------------------------------------------------------------------
(* Properties                                                              *)

Steps == {"idle", "time", "archive", "record", "prune", "unlock", "restore",
          "asideSaves", "asideStates", "installSaves", "installStates",
          "cleanup", "failed", "restored"}

TypeOK ==
  /\ lock \in BOOLEAN /\ playing \in BOOLEAN
  /\ snaps \subseteq [id : 1..MaxTime, trees : [Trees -> 1..MaxWrites]]
  /\ \A r, s \in snaps : r.id = s.id => r = s
  /\ bad \subseteq Ids /\ ref \in 0..MaxTime /\ now \in 1..MaxTime
  /\ live \in [Trees -> 0..MaxWrites]
  /\ pc \in [Actors -> Steps] /\ id \in [Actors -> 0..MaxTime]
  /\ prior \in [Actors -> [Trees -> 0..MaxWrites]]
  /\ stage \in [Actors -> [Trees -> 1..MaxWrites]]
  /\ limit \in [Actors -> {Retention, Keep}] /\ update \in [Actors -> BOOLEAN]
  /\ listed \in [Actors -> SUBSET (1..MaxTime)] /\ kept \in [Actors -> Nat]
  /\ \A a \in Actors : At(a, "prune") => kept[a] <= limit[a]
  /\ aside \subseteq [by : Actors \cup {"nobody"}, tree : Trees, data : 1..MaxWrites]
  /\ writes \in 1..MaxWrites /\ faults \in 0..MaxFaults

\* "An interrupted restore leaves the prior trees recoverable": a tree that is
\* missing from the profile is in a rollback directory, whatever happened.
TreesRecoverable == \A t \in Trees : live[t] = 0 => \E x \in aside : x.tree = t

\* A restore that says it succeeded has put both trees of the snapshot in, and
\* one that failed has left both trees as they were.
RestoreAllOrNothing ==
  \A a \in Actors :
    /\ pc[a] = "restored" => live = Stored(id[a])
    /\ pc[a] = "failed" => live = prior[a]

\* Retention removes only verified snapshots the update does not need, and only
\* if enough newer ones of those stay.
RetentionKeepsNewest ==
  [][\A s \in snaps \ snaps' :
       /\ s.id \notin bad \cup {ref}
       /\ \E n \in {Retention, Keep} :
            Cardinality({i \in Good \ {ref} : i > s.id}) >= n]_vars

\* The snapshot an update was recorded with can be restored.
UpdateSnapshotKept == ref # 0 => ref \in Ids

\* Operations that change snapshots or trees exclude each other.
Working(a) == pc[a] \notin {"idle", "restore", "unlock", "record", "failed", "restored"}
OneOperationAtATime ==
  \A a, b \in Actors : Working(a) /\ Working(b) => a = b
=============================================================================
