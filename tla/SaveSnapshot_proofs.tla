------------------------- MODULE SaveSnapshot_proofs -------------------------
(***************************************************************************)
(* What bloom-save-snapshot keeps is proved for any retention, clock,      *)
(* games and faults.  That no tree is lost holds whoever runs at once;     *)
(* what restore and retention promise holds of operations that run alone,  *)
(* as the lock means them to.                                              *)
(***************************************************************************)
EXTENDS SaveSnapshot, FiniteSetTheorems, TLAPS

Restoring == {"asideSaves", "asideStates", "installSaves", "installStates", "cleanup"}

\* A displaced tree whose restore can still fail, or is over without having ended.
Guarded(x) ==
  \/ x.by = "nobody"
  \/ /\ x.by \in Actors
     /\ x.tree = "saves" => pc[x.by] \in {"asideStates", "installSaves"}
     /\ x.tree = "states" => pc[x.by] \in {"installSaves", "installStates"}

Recoverable == \A t \in Trees : live[t] = 0 => \E x \in aside : x.tree = t /\ Guarded(x)

\* What is archived has a time.
Archived == \A a \in Actors : At(a, "archive") => id[a] \in 1..MaxTime

IInv == TypeOK /\ Archived /\ Recoverable

-----------------------------------------------------------------------------
(* Types                                                                   *)

SnapsOK ==
  /\ snaps \subseteq [id : 1..MaxTime, trees : [Trees -> 1..MaxWrites]]
  /\ \A r, s \in snaps : r.id = s.id => r = s
  /\ bad \subseteq Ids

LEMMA SnapsKept ==
  ASSUME IInv, [Next]_vars
  PROVE  SnapsOK'
<1> USE DEF SnapsOK, vars
<1>0. SnapsOK BY DEF IInv, TypeOK, Archived
<1>1. ASSUME NEW a \in Actors, Publish(a) PROVE SnapsOK'
  <2> DEFINE s == [id |-> id[a], trees |-> live]
  <2>1. UNCHANGED bad BY <1>1 DEF Publish
  <2>2. CASE id[a] \in Ids \/ \E t \in Trees : live[t] = 0
    <3>1. UNCHANGED snaps BY <1>1, <2>2 DEF Publish
    <3> QED BY <1>0, <2>1, <3>1 DEF Ids
  <2>3. CASE ~(id[a] \in Ids \/ \E t \in Trees : live[t] = 0)
    <3>1. snaps' = snaps \cup {s} BY <1>1, <2>3 DEF Publish
    <3>2. s \in [id : 1..MaxTime, trees : [Trees -> 1..MaxWrites]]
      <4>1. id[a] \in 1..MaxTime BY <1>1 DEF IInv, Archived, Publish
      <4>2. live \in [Trees -> 1..MaxWrites]
        BY <2>3, SaveSnapshotAssumption DEF IInv, TypeOK
      <4> QED BY <4>1, <4>2
    <3>3. \A r \in snaps : r.id # s.id BY <2>3 DEF Ids
    <3> HIDE DEF s
    <3> QED BY <1>0, <2>1, <3>1, <3>2, <3>3 DEF Ids
  <2> QED BY <2>2, <2>3
<1>2. ASSUME NEW a \in Actors, PruneNext(a) PROVE SnapsOK'
  <2>1. PICK i \in listed[a] :
          UNCHANGED bad /\ (snaps' = snaps \/ (i \in Good /\ snaps' = {s \in snaps : s.id # i}))
    BY <1>2, Zenon DEF PruneNext, Retain
  <2>2. CASE snaps' = snaps BY <1>0, <2>1, <2>2 DEF Ids
  <2>3. CASE i \in Good /\ snaps' = {s \in snaps : s.id # i}
    <3>1. \A j \in bad : j # i BY <2>3 DEF Good
    <3> QED BY <1>0, <2>1, <2>3, <3>1 DEF Ids
  <2> QED BY <2>1, <2>2, <2>3
<1>3. ASSUME NEW i \in Ids, Corrupt(i) PROVE SnapsOK'
  BY <1>0, <1>3 DEF Corrupt, Ids
<1>4. CASE UNCHANGED <<snaps, bad>> BY <1>0, <1>4 DEF Ids
<1>5. ASSUME NEW a \in Actors, \/ \E u \in BOOLEAN : Create(a, u)
                               \/ Prune(a) \/ \E i \in Ids : Restore(a, i)
                               \/ TakeTime(a) \/ Record(a) \/ PruneEnds(a) \/ Unlock(a) \/ RestoreStep(a)
      PROVE UNCHANGED <<snaps, bad>>
  BY <1>5 DEF Create, Prune, Restore, TakeTime, Record, PruneEnds, Unlock, RestoreStep, StageRestore,
    MoveSavesAside, MoveStatesAside, MoveAside, InstallSaves, InstallStates, Install, RestoreFails,
    RestoreEnds, Exit
<1>6. CASE UpdateConfirmed \/ ClockMoves \/ GameStarts \/ GameEnds \/ (\E t \in Trees : GameWrites(t)) \/ PowerLoss
  BY <1>4, <1>6 DEF UpdateConfirmed, ClockMoves, GameStarts, GameEnds, GameWrites, PowerLoss
<1> QED BY <1>1, <1>2, <1>3, <1>4, <1>5, <1>6 DEF Next, CreateStep, PruneStep

ServiceOK ==
  /\ lock \in BOOLEAN /\ playing \in BOOLEAN
  /\ ref \in 0..MaxTime /\ now \in 1..MaxTime
  /\ writes \in 1..MaxWrites /\ faults \in 0..MaxFaults

LEMMA IdsTyped ==
  ASSUME IInv
  PROVE  Ids \subseteq 1..MaxTime
BY DEF IInv, TypeOK, Ids

LEMMA ServiceKept ==
  ASSUME IInv, [Next]_vars
  PROVE  ServiceOK'
<1> USE SaveSnapshotAssumption DEF ServiceOK, vars
<1>0. ServiceOK BY DEF IInv, TypeOK
<1>1. ASSUME NEW a \in Actors, Create(a, TRUE) \/ Create(a, FALSE) \/ Prune(a) PROVE ServiceOK'
  BY <1>0, <1>1 DEF Create, Prune
<1>2. ASSUME NEW a \in Actors, NEW i \in Ids, Restore(a, i) PROVE ServiceOK'
  BY <1>0, <1>2 DEF Restore
<1>3. ASSUME NEW a \in Actors, TakeTime(a) \/ Publish(a) \/ Record(a) PROVE ServiceOK'
  <2>1. id[a] \in 0..MaxTime BY DEF IInv, TypeOK
  <2> QED BY <1>0, <1>3, <2>1 DEF TakeTime, Publish, Record
<1>4. ASSUME NEW a \in Actors, PruneStep(a) PROVE ServiceOK'
  BY <1>0, <1>4 DEF PruneStep, PruneNext, Retain, PruneEnds, PruneExits, Unlock
<1>5. ASSUME NEW a \in Actors, RestoreStep(a) PROVE ServiceOK'
  <2>1. UNCHANGED <<ref, now, playing, writes>>
    BY <1>5 DEF RestoreStep, StageRestore, MoveSavesAside, MoveStatesAside, MoveAside,
      InstallSaves, InstallStates, Install, RestoreFails, RestoreEnds, Exit
  <2>2. lock' = lock \/ lock' = TRUE \/ lock' = FALSE
    BY <1>5 DEF RestoreStep, StageRestore, MoveSavesAside, MoveStatesAside, MoveAside,
      InstallSaves, InstallStates, Install, RestoreFails, RestoreEnds, Exit
  <2>3. UNCHANGED faults \/ (faults < MaxFaults /\ faults' = faults + 1)
    BY <1>5 DEF RestoreStep, StageRestore, MoveSavesAside, MoveStatesAside, MoveAside,
      InstallSaves, InstallStates, Install, RestoreFails, RestoreEnds, Exit
  <2>4. lock' \in BOOLEAN /\ playing' \in BOOLEAN BY <1>0, <2>1, <2>2, Zenon
  <2>5. faults' \in 0..MaxFaults BY <1>0, <2>3
  <2> QED BY <1>0, <2>1, <2>4, <2>5
<1>6. CASE UpdateConfirmed \/ ClockMoves \/ GameStarts \/ GameEnds \/ PowerLoss
  <2>1. CASE PowerLoss
    <3>1. /\ UNCHANGED <<lock, ref, now, writes>> /\ playing' = FALSE
          /\ faults < MaxFaults /\ faults' = faults + 1
      BY <2>1 DEF PowerLoss
    <3>2. lock' \in BOOLEAN /\ playing' \in BOOLEAN BY <1>0, <3>1, Zenon
    <3>3. faults' \in 0..MaxFaults BY <1>0, <3>1
    <3> QED BY <1>0, <3>1, <3>2, <3>3
  <2>2. CASE UpdateConfirmed \/ ClockMoves
    <3>1. UNCHANGED <<lock, playing, writes, faults>> /\ ref' \in {0, ref} /\ now' \in {now} \cup 1..MaxTime
      BY <2>2 DEF UpdateConfirmed, ClockMoves
    <3>2. lock' \in BOOLEAN /\ playing' \in BOOLEAN BY <1>0, <3>1, Zenon
    <3> QED BY <1>0, <3>1, <3>2
  <2>3. CASE GameStarts \/ GameEnds
    <3>1. UNCHANGED <<lock, ref, now, writes, faults>> /\ (playing' = TRUE \/ playing' = FALSE)
      BY <2>3 DEF GameStarts, GameEnds
    <3>2. lock' \in BOOLEAN /\ playing' \in BOOLEAN BY <1>0, <3>1, Zenon
    <3> QED BY <1>0, <3>1, <3>2
  <2> QED BY <1>6, <2>1, <2>2, <2>3
<1>7. ASSUME NEW t \in Trees, GameWrites(t) PROVE ServiceOK' BY <1>0, <1>7 DEF GameWrites
<1>8. ASSUME NEW i \in Ids, Corrupt(i) PROVE ServiceOK' BY <1>0, <1>8 DEF Corrupt
<1>9. CASE UNCHANGED vars BY <1>0, <1>9
<1> QED BY <1>1, <1>2, <1>3, <1>4, <1>5, <1>6, <1>7, <1>8, <1>9 DEF Next, CreateStep

Displaced == [by : Actors \cup {"nobody"}, tree : Trees, data : 1..MaxWrites]

TreesOK ==
  /\ live \in [Trees -> 0..MaxWrites]
  /\ prior \in [Actors -> [Trees -> 0..MaxWrites]]
  /\ stage \in [Actors -> [Trees -> 1..MaxWrites]]
  /\ aside \subseteq Displaced

\* What a restore moves back is there.
LEMMA BackTyped ==
  ASSUME IInv, NEW a \in Actors, NEW t \in Trees
  PROVE  /\ MoveBack(a, t) \in 0..MaxWrites
         /\ MoveBack(a, t) = 0 => live[t] = 0 /\ MovedAside(a, t) = {}
<1>1. live[t] \in 0..MaxWrites /\ \A x \in aside : x.data \in 1..MaxWrites
  BY DEF IInv, TypeOK
<1>2. CASE MovedAside(a, t) = {} \/ (At(a, "asideStates") /\ live[t] # 0)
  <2>1. MoveBack(a, t) = live[t] BY <1>2 DEF MoveBack
  <2> QED BY <1>1, <1>2, <2>1
<1>3. CASE ~(MovedAside(a, t) = {} \/ (At(a, "asideStates") /\ live[t] # 0))
  <2> DEFINE x == CHOOSE x \in MovedAside(a, t) : TRUE
  <2>1. MoveBack(a, t) = x.data BY <1>3 DEF MoveBack
  <2>2. x \in MovedAside(a, t) BY <1>3
  <2>3. x.data \in 1..MaxWrites BY <1>1, <2>2 DEF MovedAside
  <2> HIDE DEF x
  <2> QED BY <2>1, <2>3, SaveSnapshotAssumption
<1> QED BY <1>2, <1>3

LEMMA TreesKept ==
  ASSUME IInv, [Next]_vars
  PROVE  TreesOK'
<1> USE SaveSnapshotAssumption DEF TreesOK
<1>0. TreesOK BY DEF IInv, TypeOK, Displaced
<1>1. ASSUME NEW a \in Actors, StageRestore(a) PROVE TreesOK'
  <2>1. UNCHANGED <<live, aside>> BY <1>1 DEF StageRestore
  <2>2. CASE ~lock /\ id[a] \in Good
    <3>1. /\ prior' = [prior EXCEPT ![a] = live]
          /\ stage' = [stage EXCEPT ![a] = Stored(id[a])]
      BY <1>1, <2>2 DEF StageRestore
    <3>2. Stored(id[a]) \in [Trees -> 1..MaxWrites]
      <4>1. \E s \in snaps : s.id = id[a] BY <2>2 DEF Good, Ids
      <4> DEFINE s == CHOOSE s \in snaps : s.id = id[a]
      <4>2. s \in snaps BY <4>1
      <4>3. s.trees \in [Trees -> 1..MaxWrites] BY <4>2 DEF IInv, TypeOK
      <4> QED BY <4>3 DEF Stored
    <3> QED BY <1>0, <2>1, <3>1, <3>2
  <2>3. CASE ~(~lock /\ id[a] \in Good)
    <3>1. UNCHANGED <<prior, stage>> BY <1>1, <2>3 DEF StageRestore, restoreVars
    <3> QED BY <1>0, <2>1, <3>1
  <2> QED BY <2>2, <2>3
<1>2. ASSUME NEW a \in Actors, NEW t \in Trees, NEW next, MoveAside(a, t, next) PROVE TreesOK'
  <2>1. /\ UNCHANGED <<prior, stage>> /\ live[t] # 0
        /\ live' = [live EXCEPT ![t] = 0]
        /\ aside' = aside \cup {[by |-> a, tree |-> t, data |-> live[t]]}
    BY <1>2 DEF MoveAside, restoreVars
  <2>2. live[t] \in 1..MaxWrites BY <1>0, <2>1
  <2>3. [by |-> a, tree |-> t, data |-> live[t]] \in Displaced BY <2>2 DEF Displaced
  <2> QED BY <1>0, <2>1, <2>3
<1>3. ASSUME NEW a \in Actors, NEW t \in Trees, NEW next, Install(a, t, next) PROVE TreesOK'
  <2>1. /\ UNCHANGED <<prior, stage, aside>>
        /\ live' = [live EXCEPT ![t] = IF live[t] = 0 THEN stage[a][t] ELSE live[t]]
    BY <1>3 DEF Install, restoreVars
  <2>2. stage[a][t] \in 0..MaxWrites /\ live[t] \in 0..MaxWrites BY <1>0
  <2> QED BY <1>0, <2>1, <2>2
<1>4. ASSUME NEW a \in Actors, RestoreFails(a) PROVE TreesOK'
  <2>1. /\ UNCHANGED <<prior, stage>> /\ aside' \subseteq aside
        /\ live' = [t \in Trees |-> MoveBack(a, t)]
    BY <1>4 DEF RestoreFails, restoreVars
  <2>2. \A t \in Trees : MoveBack(a, t) \in 0..MaxWrites BY BackTyped
  <2> QED BY <1>0, <2>1, <2>2
<1>5. ASSUME NEW t \in Trees, GameWrites(t) PROVE TreesOK'
  <2>1. /\ UNCHANGED <<prior, stage, aside>> /\ live' = [live EXCEPT ![t] = writes + 1]
        /\ writes < MaxWrites /\ writes \in 1..MaxWrites
    BY <1>5 DEF GameWrites, actorVars, restoreVars, IInv, TypeOK
  <2>2. writes + 1 \in 0..MaxWrites BY <2>1
  <2> QED BY <1>0, <2>1, <2>2
<1>6. CASE PowerLoss
  <2>1. UNCHANGED <<live, prior, stage>> /\ aside' = {[x EXCEPT !.by = "nobody"] : x \in aside}
    BY <1>6 DEF PowerLoss, restoreVars
  <2>2. ASSUME NEW x \in Displaced PROVE [x EXCEPT !.by = "nobody"] \in Displaced
    BY DEF Displaced
  <2>3. aside' \subseteq Displaced
    <3>1. ASSUME NEW y \in aside' PROVE y \in Displaced
      <4>1. PICK x \in aside : y = [x EXCEPT !.by = "nobody"] BY <2>1, Zenon
      <4> QED BY <1>0, <2>2, <4>1
    <3> QED BY <3>1
  <2> QED BY <1>0, <2>1, <2>3
<1>7. CASE UNCHANGED <<live, prior, stage, aside>> BY <1>0, <1>7
<1>8. ASSUME NEW a \in Actors, RestoreEnds(a) PROVE TreesOK'
  <2>1. UNCHANGED <<live, prior, stage>> /\ aside' \subseteq aside
    BY <1>8 DEF RestoreEnds, restoreVars
  <2> QED BY <1>0, <2>1
<1>9. ASSUME NEW a \in Actors,
             \/ \E u \in BOOLEAN : Create(a, u)
             \/ Prune(a) \/ \E i \in Ids : Restore(a, i)
             \/ CreateStep(a) \/ PruneStep(a) \/ Exit(a)
      PROVE UNCHANGED <<live, prior, stage, aside>>
  BY <1>9 DEF Create, Prune, Restore, CreateStep, TakeTime, Publish, Record, PruneStep, PruneNext,
    Retain, PruneEnds, Unlock, Exit, restoreVars
<1>10. CASE \/ UpdateConfirmed \/ ClockMoves \/ GameStarts \/ GameEnds
            \/ (\E i \in Ids : Corrupt(i)) \/ UNCHANGED vars
  BY <1>7, <1>10 DEF UpdateConfirmed, ClockMoves, GameStarts, GameEnds, Corrupt, vars, actorVars, restoreVars
<1> QED BY <1>1, <1>2, <1>3, <1>4, <1>5, <1>6, <1>7, <1>8, <1>9, <1>10
      DEF Next, RestoreStep, MoveSavesAside, MoveStatesAside, InstallSaves, InstallStates, Trees

ActorsOK ==
  /\ pc \in [Actors -> Steps] /\ id \in [Actors -> 0..MaxTime]
  /\ limit \in [Actors -> {Retention, Keep}] /\ update \in [Actors -> BOOLEAN]
  /\ listed \in [Actors -> SUBSET (1..MaxTime)] /\ kept \in [Actors -> Nat]
  /\ \A a \in Actors : At(a, "prune") => kept[a] <= limit[a]
  /\ \A a \in Actors : At(a, "archive") => id[a] \in 1..MaxTime

\* A step that only moves a, and not to where something is promised.
LEMMA MovesOn ==
  ASSUME ActorsOK, NEW a \in Actors, NEW p \in Steps \ {"prune", "archive"}, Go(a, p),
         UNCHANGED <<id, limit, update, listed, kept>>
  PROVE  ActorsOK'
BY DEF ActorsOK, Go, At

LEMMA ActorsKept ==
  ASSUME IInv, [Next]_vars
  PROVE  ActorsOK'
<1> USE SaveSnapshotAssumption DEF pruneVars
<1>0. ActorsOK BY DEF IInv, TypeOK, Archived, ActorsOK
<1>1. ASSUME NEW a \in Actors, NEW u \in BOOLEAN, Create(a, u) PROVE ActorsOK'
  BY <1>0, <1>1 DEF Create, ActorsOK, Go, At, Steps
<1>2. ASSUME NEW a \in Actors, Prune(a) \/ Publish(a) PROVE ActorsOK'
  <2>1. CASE Prune(a)
    <3>1. /\ Go(a, "prune") /\ update' = [update EXCEPT ![a] = FALSE]
          /\ limit' = [limit EXCEPT ![a] = Keep] /\ UNCHANGED <<id, snaps>>
          /\ listed' = [listed EXCEPT ![a] = {s.id : s \in snaps'} \ bad]
          /\ kept' = [kept EXCEPT ![a] = 0]
      BY <2>1 DEF Prune, Inventory
    <3>2. {s.id : s \in snaps'} \subseteq 1..MaxTime BY <3>1, IdsTyped DEF Ids
    <3> QED BY <1>0, <3>1, <3>2 DEF ActorsOK, Go, At, Steps
  <2>2. CASE Publish(a)
    <3>1. At(a, "archive") /\ UNCHANGED <<id, limit, update>> BY <2>2 DEF Publish
    <3>2. CASE id[a] \in Ids \/ \E t \in Trees : live[t] = 0
      <4>1. Go(a, "idle") /\ UNCHANGED <<listed, kept>> BY <2>2, <3>2 DEF Publish
      <4> QED BY <1>0, <3>1, <4>1, MovesOn DEF Steps
    <3>3. CASE ~(id[a] \in Ids \/ \E t \in Trees : live[t] = 0)
      <4>1. /\ Go(a, "prune") /\ snaps' = snaps \cup {[id |-> id[a], trees |-> live]}
            /\ listed' = [listed EXCEPT ![a] = {s.id : s \in snaps'} \ bad]
            /\ kept' = [kept EXCEPT ![a] = 0]
        BY <2>2, <3>3 DEF Publish, Inventory
      <4>2. id[a] \in 1..MaxTime BY <1>0, <3>1 DEF ActorsOK
      <4>3. {s.id : s \in snaps'} \subseteq 1..MaxTime BY <4>1, <4>2, IdsTyped DEF Ids
      <4> QED BY <1>0, <3>1, <4>1, <4>3 DEF ActorsOK, Go, At, Steps
    <3> QED BY <3>2, <3>3
  <2> QED BY <1>2, <2>1, <2>2
<1>3. ASSUME NEW a \in Actors, PruneNext(a) PROVE ActorsOK'
  <2>1. PICK i \in listed[a] :
        /\ At(a, "prune") /\ UNCHANGED <<id, limit>>
        /\ listed' = [listed EXCEPT ![a] = listed[a] \ {i}]
        /\ kept' = [kept EXCEPT ![a] = IF i # ref /\ kept[a] < limit[a] THEN kept[a] + 1 ELSE kept[a]]
        /\ \/ UNCHANGED <<pc, update>>
           \/ Go(a, "unlock") /\ update' = [update EXCEPT ![a] = FALSE]
    BY <1>3, Zenon DEF PruneNext, Retain, PruneExits
  <2>2. kept' \in [Actors -> Nat] /\ kept'[a] <= limit[a]
    BY <1>0, <2>1 DEF ActorsOK
  <2>3. \A b \in Actors \ {a} : kept'[b] = kept[b] BY <1>0, <2>1 DEF ActorsOK
  <2>4. listed' \in [Actors -> SUBSET (1..MaxTime)] BY <1>0, <2>1 DEF ActorsOK
  <2>5. CASE UNCHANGED <<pc, update>>
    BY <1>0, <2>1, <2>2, <2>3, <2>4, <2>5 DEF ActorsOK, At
  <2>6. CASE Go(a, "unlock") /\ update' = [update EXCEPT ![a] = FALSE]
    BY <1>0, <2>1, <2>2, <2>3, <2>4, <2>6 DEF ActorsOK, At, Go, Steps
  <2> QED BY <2>1, <2>5, <2>6
<1>4. ASSUME NEW a \in Actors, TakeTime(a) PROVE ActorsOK'
  <2>1. now \in 1..MaxTime BY DEF IInv, TypeOK
  <2>2. id' = [id EXCEPT ![a] = now] /\ Go(a, "archive") /\ UNCHANGED <<limit, update, listed, kept>>
    BY <1>4 DEF TakeTime
  <2> QED BY <1>0, <2>1, <2>2 DEF ActorsOK, Go, At, Steps
<1>5. ASSUME NEW a \in Actors, NEW i \in Ids, Restore(a, i) PROVE ActorsOK'
  <2>1. i \in 1..MaxTime BY IdsTyped
  <2>2. id' = [id EXCEPT ![a] = i] /\ Go(a, "restore") /\ UNCHANGED <<limit, update, listed, kept>>
    BY <1>5 DEF Restore
  <2> QED BY <1>0, <2>1, <2>2 DEF ActorsOK, Go, At, Steps
<1>6. ASSUME NEW a \in Actors,
             \/ Record(a) \/ PruneEnds(a) \/ Unlock(a) \/ RestoreStep(a)
      PROVE ActorsOK'
  <2>1. UNCHANGED <<id, limit, update, listed, kept>>
    BY <1>6 DEF Record, PruneEnds, Unlock, RestoreStep, StageRestore, MoveSavesAside,
      MoveStatesAside, MoveAside, InstallSaves, InstallStates, Install, RestoreFails, RestoreEnds, Exit
  <2>2. \E p \in Steps \ {"prune", "archive"} : Go(a, p)
    BY <1>6 DEF Record, PruneEnds, PruneExits, Unlock, RestoreStep, StageRestore, MoveSavesAside,
      MoveStatesAside, MoveAside, InstallSaves, InstallStates, Install, RestoreFails, RestoreEnds, Exit, Steps
  <2> QED BY <1>0, <2>1, <2>2, MovesOn
<1>7. CASE PowerLoss
  <2>1. pc' = [a \in Actors |-> "idle"] /\ UNCHANGED <<id, limit, update, listed, kept>>
    BY <1>7 DEF PowerLoss
  <2> QED BY <1>0, <2>1 DEF ActorsOK, At, Steps
<1>8. CASE UNCHANGED actorVars BY <1>0, <1>8 DEF ActorsOK, actorVars, At
<1>9. CASE \/ UpdateConfirmed \/ ClockMoves \/ GameStarts \/ GameEnds
           \/ (\E t \in Trees : GameWrites(t)) \/ (\E i \in Ids : Corrupt(i)) \/ UNCHANGED vars
  BY <1>8, <1>9 DEF UpdateConfirmed, ClockMoves, GameStarts, GameEnds, GameWrites, Corrupt, vars
<1> QED BY <1>1, <1>2, <1>3, <1>4, <1>5, <1>6, <1>7, <1>8, <1>9 DEF Next, CreateStep, PruneStep

LEMMA TypesKept ==
  ASSUME IInv, [Next]_vars
  PROVE  TypeOK' /\ Archived'
<1>1. SnapsOK' /\ ServiceOK' /\ TreesOK' /\ ActorsOK'
  BY SnapsKept, ServiceKept, TreesKept, ActorsKept
<1>2. TypeOK' BY <1>1, Zenon DEF SnapsOK, ServiceOK, TreesOK, ActorsOK, TypeOK, Displaced
<1>3. Archived' BY <1>1, Zenon DEF SnapsOK, ActorsOK, Archived
<1> QED BY <1>2, <1>3

-----------------------------------------------------------------------------
(* Trees                                                                   *)

\* A step that leaves the trees alone, of an actor that has displaced none.
LEMMA StaysRecoverable ==
  ASSUME IInv, live' = live, aside' = aside,
         \A a \in Actors : pc'[a] = pc[a] \/
           pc[a] \notin {"asideStates", "installSaves", "installStates"}
  PROVE  Recoverable'
BY DEF IInv, Recoverable, Guarded

LEMMA RecoverableKept ==
  ASSUME IInv, [Next]_vars
  PROVE  Recoverable'
<1>0. /\ pc \in [Actors -> Steps] /\ live \in [Trees -> 0..MaxWrites]
      /\ stage \in [Actors -> [Trees -> 1..MaxWrites]] /\ Recoverable
      /\ \A x \in aside : x.tree \in Trees
  BY DEF IInv, TypeOK
<1>1. ASSUME NEW a \in Actors, NEW p \in Steps, Go(a, p),
             pc[a] \notin {"asideStates", "installSaves", "installStates"},
             UNCHANGED <<live, aside>>
      PROVE Recoverable'
  BY <1>0, <1>1, StaysRecoverable DEF Go
<1>2. ASSUME NEW a \in Actors,
             \/ \E u \in BOOLEAN : Create(a, u)
             \/ Prune(a) \/ \E i \in Ids : Restore(a, i)
             \/ TakeTime(a) \/ Record(a) \/ PruneEnds(a) \/ Unlock(a) \/ Exit(a)
      PROVE Recoverable'
  <2>1. UNCHANGED <<live, aside>>
    BY <1>2 DEF Create, Prune, Restore, TakeTime, Record, PruneEnds, Unlock, Exit
  <2>2. \E p \in Steps : Go(a, p)
    BY <1>2 DEF Create, Prune, Restore, TakeTime, Record, PruneEnds, PruneExits, Unlock, Exit, Steps
  <2>3. pc[a] \notin {"asideStates", "installSaves", "installStates"}
    BY <1>2 DEF Create, Prune, Restore, TakeTime, Record, PruneEnds, Unlock, Exit, At
  <2> QED BY <1>1, <2>1, <2>2, <2>3
<1>3. ASSUME NEW a \in Actors, Publish(a) \/ PruneNext(a) \/ StageRestore(a) PROVE Recoverable'
  <2>1. UNCHANGED <<live, aside>> BY <1>3, Zenon DEF Publish, PruneNext, Retain, StageRestore
  <2>2. UNCHANGED pc \/ \E p \in Steps : Go(a, p)
    <3>1. {"idle", "prune", "unlock", "asideSaves"} \subseteq Steps BY DEF Steps
    <3>2. UNCHANGED pc \/ \E p \in {"idle", "prune", "unlock", "asideSaves"} : Go(a, p)
      BY <1>3, Zenon DEF Publish, PruneNext, Retain, PruneExits, StageRestore
    <3> QED BY <3>1, <3>2
  <2>3. pc[a] \notin {"asideStates", "installSaves", "installStates"}
    BY <1>3 DEF Publish, PruneNext, StageRestore, At
  <2>4. CASE UNCHANGED pc BY <2>1, <2>4, StaysRecoverable
  <2> QED BY <1>1, <2>1, <2>2, <2>3, <2>4
<1>4. ASSUME NEW a \in Actors, MoveSavesAside(a) PROVE Recoverable'
  <2>0. PICK y : y = [by |-> a, tree |-> "saves", data |-> live["saves"]] OBVIOUS
  <2>1. /\ At(a, "asideSaves") /\ live' = [live EXCEPT !["saves"] = 0]
        /\ aside' = aside \cup {y} /\ Go(a, "asideStates")
    BY <1>4, <2>0 DEF MoveSavesAside, MoveAside
  <2>2. Guarded(y)' /\ y.tree = "saves" BY <1>0, <2>0, <2>1 DEF Guarded, Go
  <2>3. \A x \in aside : Guarded(x) => Guarded(x)' BY <1>0, <2>1 DEF Guarded, Go, At, Trees
  <2>4. ASSUME NEW t \in Trees, live'[t] = 0 PROVE \E x \in aside' : x.tree = t /\ Guarded(x)'
    <3>1. CASE t = y.tree BY <2>1, <2>2, <3>1
    <3>2. CASE t # y.tree
      <4>1. live[t] = 0 BY <1>0, <2>1, <2>2, <2>4, <3>2 DEF Trees
      <4> QED BY <1>0, <2>1, <2>3, <4>1 DEF Recoverable
    <3> QED BY <3>1, <3>2
  <2> QED BY <2>4 DEF Recoverable
<1>5. ASSUME NEW a \in Actors, MoveStatesAside(a) PROVE Recoverable'
  <2>0. PICK y : y = [by |-> a, tree |-> "states", data |-> live["states"]] OBVIOUS
  <2>1. /\ At(a, "asideStates") /\ live' = [live EXCEPT !["states"] = 0]
        /\ aside' = aside \cup {y} /\ Go(a, "installSaves")
    BY <1>5, <2>0 DEF MoveStatesAside, MoveAside
  <2>2. Guarded(y)' /\ y.tree = "states" BY <1>0, <2>0, <2>1 DEF Guarded, Go
  <2>3. \A x \in aside : Guarded(x) => Guarded(x)' BY <1>0, <2>1 DEF Guarded, Go, At, Trees
  <2>4. ASSUME NEW t \in Trees, live'[t] = 0 PROVE \E x \in aside' : x.tree = t /\ Guarded(x)'
    <3>1. CASE t = y.tree BY <2>1, <2>2, <3>1
    <3>2. CASE t # y.tree
      <4>1. live[t] = 0 BY <1>0, <2>1, <2>2, <2>4, <3>2 DEF Trees
      <4> QED BY <1>0, <2>1, <2>3, <4>1 DEF Recoverable
    <3> QED BY <3>1, <3>2
  <2> QED BY <2>4 DEF Recoverable
<1>6. ASSUME NEW a \in Actors, NEW t \in Trees, NEW next, Install(a, t, next),
             \/ t = "saves" /\ At(a, "installSaves") /\ next = "installStates"
             \/ t = "states" /\ At(a, "installStates") /\ next = "cleanup"
      PROVE Recoverable'
  <2>1. /\ live' = [live EXCEPT ![t] = IF live[t] = 0 THEN stage[a][t] ELSE live[t]]
        /\ UNCHANGED aside /\ Go(a, next)
    BY <1>6 DEF Install
  <2>2. live'[t] # 0 /\ \A s \in Trees \ {t} : live'[s] = live[s]
    BY <1>0, <2>1, SaveSnapshotAssumption
  <2>3. \A x \in aside : x.tree # t /\ Guarded(x) => Guarded(x)'
    BY <1>0, <1>6, <2>1 DEF Guarded, Go, At, Trees
  <2> QED BY <1>0, <2>1, <2>2, <2>3 DEF Recoverable
<1>7. ASSUME NEW a \in Actors, RestoreFails(a) \/ RestoreEnds(a) PROVE Recoverable'
  <2>1. /\ aside' = {x \in aside : x.by # a} /\ a # "nobody"
        /\ \A b \in Actors \ {a} : pc'[b] = pc[b]
    BY <1>0, <1>7, SaveSnapshotAssumption DEF RestoreFails, RestoreEnds, Go
  <2>2. ASSUME NEW t \in Trees, live'[t] = 0
        PROVE live[t] = 0 /\ \A x \in aside : x.tree = t /\ Guarded(x) => x.by # a
    <3>1. CASE RestoreFails(a)
      <4>1. MoveBack(a, t) = 0 BY <2>2, <3>1 DEF RestoreFails
      <4> QED BY <4>1, BackTyped DEF MovedAside
    <3>2. CASE RestoreEnds(a)
      BY <2>1, <2>2, <3>2 DEF RestoreEnds, At, Guarded, Trees
    <3> QED BY <1>7, <3>1, <3>2
  <2>3. \A x \in aside : x.by # a /\ Guarded(x) => Guarded(x)' BY <2>1 DEF Guarded
  <2> QED BY <1>0, <2>1, <2>2, <2>3 DEF Recoverable
<1>8. CASE PowerLoss
  <2>1. UNCHANGED live /\ aside' = {[x EXCEPT !.by = "nobody"] : x \in aside}
    BY <1>8 DEF PowerLoss
  <2>2. ASSUME NEW x \in aside PROVE \E y \in aside' : y.tree = x.tree /\ y.by = "nobody"
    <3>1. x \in Displaced BY DEF IInv, TypeOK, Displaced
    <3>2. [x EXCEPT !.by = "nobody"] \in aside' BY <2>1, Zenon
    <3>3. [x EXCEPT !.by = "nobody"].tree = x.tree /\ [x EXCEPT !.by = "nobody"].by = "nobody"
      BY <3>1 DEF Displaced
    <3> QED BY <3>2, <3>3
  <2>3. \A t \in Trees : live[t] = 0 => \E x \in aside : x.tree = t
    BY <1>0 DEF Recoverable
  <2>4. \A y : y.by = "nobody" => Guarded(y)' BY DEF Guarded
  <2> QED BY <2>1, <2>2, <2>3, <2>4 DEF Recoverable
<1>9. ASSUME NEW t \in Trees, GameWrites(t) PROVE Recoverable'
  <2>1. UNCHANGED <<aside, pc>> /\ live' = [live EXCEPT ![t] = writes'] /\ writes' = writes + 1
    BY <1>9 DEF GameWrites, actorVars
  <2>2. writes' # 0 BY <2>1, SaveSnapshotAssumption DEF IInv, TypeOK
  <2> QED BY <1>0, <2>1, <2>2 DEF Recoverable, Guarded
<1>10. CASE \/ UpdateConfirmed \/ ClockMoves \/ GameStarts \/ GameEnds
            \/ (\E i \in Ids : Corrupt(i)) \/ UNCHANGED vars
  <2>1. UNCHANGED <<live, aside, pc>>
    BY <1>10 DEF UpdateConfirmed, ClockMoves, GameStarts, GameEnds, Corrupt, vars, actorVars
  <2> QED BY <2>1, StaysRecoverable
<1> QED BY <1>2, <1>3, <1>4, <1>5, <1>6, <1>7, <1>8, <1>9, <1>10
      DEF Next, CreateStep, PruneStep, RestoreStep, InstallSaves, InstallStates, Trees

LEMMA InitHolds == Init => IInv
<1> SUFFICES ASSUME Init PROVE IInv OBVIOUS
<1> USE SaveSnapshotAssumption DEF Init
<1>1. TypeOK
  <2>1. live \in [Trees -> 1..MaxWrites] /\ live \in [Trees -> 0..MaxWrites]
    BY 1 \in 1..MaxWrites /\ 1 \in 0..MaxWrites
  <2>2. prior \in [Actors -> [Trees -> 0..MaxWrites]] /\ stage \in [Actors -> [Trees -> 1..MaxWrites]]
    BY <2>1, Zenon
  <2>3. lock \in BOOLEAN /\ playing \in BOOLEAN /\ update \in [Actors -> BOOLEAN] OBVIOUS
  <2>4. /\ pc \in [Actors -> Steps] /\ id \in [Actors -> 0..MaxTime]
        /\ limit \in [Actors -> {Retention, Keep}]
        /\ listed \in [Actors -> SUBSET (1..MaxTime)] /\ kept \in [Actors -> Nat]
    BY DEF Steps
  <2>5. \A a \in Actors : ~At(a, "prune") BY DEF At
  <2>6. snaps = {} /\ bad = {} /\ aside = {} /\ ref = 0 /\ now = 1 /\ writes = 1 /\ faults = 0
    OBVIOUS
  <2> QED BY <2>1, <2>2, <2>3, <2>4, <2>5, <2>6 DEF TypeOK
<1>2. Archived BY DEF Archived, At
<1>3. Recoverable BY DEF Recoverable
<1> QED BY <1>1, <1>2, <1>3 DEF IInv

LEMMA Invariant == Spec => []IInv
<1>1. IInv /\ [Next]_vars => IInv' BY TypesKept, RecoverableKept DEF IInv
<1> QED BY <1>1, InitHolds, PTL DEF Spec

\* Every part of the state keeps to its values, however many operations run at once,
\* with the clock set back and games played at any time.
THEOREM TypeCorrect == Spec => []TypeOK
<1>1. IInv => TypeOK BY DEF IInv
<1> QED BY <1>1, Invariant, PTL

\* No tree is ever lost: a tree that is not in the profile has been moved aside, even
\* if the lock has failed to keep operations apart.
THEOREM NoTreeLost == Spec => []TreesRecoverable
<1>1. IInv => TreesRecoverable BY DEF IInv, Recoverable, TreesRecoverable
<1> QED BY <1>1, Invariant, PTL

-----------------------------------------------------------------------------
(* Restore: both trees or none                                             *)

\* The lock keeps operations apart.
Alone == \A a, b \in Actors : a = b

Busy == Restoring \cup {"restore", "failed", "restored"}

Gone(a, t) ==
  MovedAside(a, t) # {} /\ \A x \in MovedAside(a, t) : x.data = prior[a][t]
Left(a, t) == MovedAside(a, t) = {}

\* What a restore has done so far.
Put(a) ==
  /\ pc[a] \in Busy => ~playing
  /\ pc[a] \in {"asideSaves", "failed"} => live = prior[a]
  /\ At(a, "asideStates") =>
       live["saves"] = 0 /\ live["states"] = prior[a]["states"] /\ Gone(a, "saves")
  /\ At(a, "installSaves") =>
       live["saves"] = 0 /\ live["states"] = 0 /\ Gone(a, "saves") /\ Gone(a, "states")
  /\ At(a, "installStates") =>
       live["saves"] = stage[a]["saves"] /\ live["states"] = 0 /\ Gone(a, "saves") /\ Gone(a, "states")
  /\ pc[a] \in {"cleanup", "restored"} => live = stage[a]
  /\ pc[a] \in Restoring \cup {"restored"} => stage[a] = Stored(id[a])
  /\ pc[a] \notin Restoring \ {"asideSaves"} => Left(a, "saves") /\ Left(a, "states")
  /\ At(a, "asideStates") => Left(a, "states")

RestoreInv == \A a \in Actors : Put(a)

\* An operation that is no restore.
LEMMA OthersPut ==
  ASSUME Alone, NEW a \in Actors, Put(a), aside' = aside,
         pc[a] \notin Restoring \cup {"failed"}, pc'[a] \notin Busy
  PROVE  RestoreInv'
<1>1. Put(a)' BY DEF Put, Busy, Restoring, At, Left, MovedAside
<1> QED BY <1>1 DEF Alone, RestoreInv

\* Nothing a restore has to do with changes.
LEMMA SamePut ==
  ASSUME RestoreInv,
         UNCHANGED <<snaps, live, aside, pc, id, prior, stage>>,
         playing' => \A a \in Actors : pc[a] \notin Busy
  PROVE  RestoreInv'
BY DEF RestoreInv, Put, At, Gone, Left, MovedAside, Stored

LEMMA RestoreStepPuts ==
  ASSUME Alone, IInv, RestoreInv, NEW a \in Actors, RestoreStep(a)
  PROVE  RestoreInv'
<1>0. /\ pc \in [Actors -> Steps] /\ live \in [Trees -> 0..MaxWrites] /\ Put(a)
      /\ prior \in [Actors -> [Trees -> 0..MaxWrites]]
      /\ stage \in [Actors -> [Trees -> 1..MaxWrites]]
      /\ UNCHANGED <<snaps, id, playing>>
  BY DEF IInv, TypeOK, RestoreInv, RestoreStep, StageRestore, MoveSavesAside, MoveStatesAside,
    MoveAside, InstallSaves, InstallStates, Install, RestoreFails, RestoreEnds, Exit
<1> SUFFICES Put(a)' BY DEF Alone, RestoreInv
<1> USE DEF Put, Busy, Restoring, At, Go
<1>1. CASE StageRestore(a)
  <2>1. UNCHANGED <<live, aside>> /\ At(a, "restore") BY <1>1 DEF StageRestore
  <2>2. CASE ~lock /\ id[a] \in Good
    <3>1. /\ Go(a, "asideSaves") /\ prior' = [prior EXCEPT ![a] = live]
          /\ stage' = [stage EXCEPT ![a] = Stored(id[a])]
      BY <1>1, <2>2 DEF StageRestore
    <3>2. pc'[a] = "asideSaves" /\ prior'[a] = live /\ stage'[a] = Stored(id[a])
      BY <1>0, <3>1
    <3>3. Stored(id[a])' = Stored(id[a]) BY <1>0 DEF Stored
    <3> QED BY <1>0, <2>1, <3>2, <3>3 DEF Left, MovedAside
  <2>3. CASE ~(~lock /\ id[a] \in Good)
    <3>1. pc'[a] = "idle" BY <1>0, <1>1, <2>3 DEF StageRestore
    <3> QED BY <1>0, <2>1, <3>1 DEF Left, MovedAside
  <2> QED BY <2>2, <2>3
<1>2. ASSUME NEW t \in Trees, NEW next \in Steps, MoveAside(a, t, next), Left(a, t)
      PROVE  /\ pc'[a] = next /\ UNCHANGED <<prior, stage>>
             /\ live'[t] = 0 /\ \A s \in Trees \ {t} : live'[s] = live[s]
             /\ Gone(a, t)' <=> live[t] = prior[a][t]
             /\ \A s \in Trees \ {t} : MovedAside(a, s)' = MovedAside(a, s)
  <2>1. /\ live' = [live EXCEPT ![t] = 0] /\ Go(a, next) /\ UNCHANGED <<prior, stage>>
        /\ aside' = aside \cup {[by |-> a, tree |-> t, data |-> live[t]]}
    BY <1>2 DEF MoveAside, restoreVars
  <2>2. PICK y : y = [by |-> a, tree |-> t, data |-> live[t]] OBVIOUS
  <2>3. MovedAside(a, t)' = {y}
    BY <1>2, <2>1, <2>2 DEF MovedAside, Left
  <2>4. Gone(a, t)' <=> live[t] = prior[a][t]
    <3>1. y.data = live[t] BY <2>2
    <3>2. Gone(a, t)' <=> y.data = prior'[a][t] BY <2>3, Zenon DEF Gone
    <3> QED BY <2>1, <3>1, <3>2
  <2> QED BY <1>0, <1>2, <2>1, <2>4 DEF MovedAside, Left
<1>3. CASE MoveSavesAside(a)
  <2>1. At(a, "asideSaves") /\ MoveAside(a, "saves", "asideStates") BY <1>3 DEF MoveSavesAside
  <2>2. "asideStates" \in Steps /\ "saves" \in Trees /\ "states" \in Trees \ {"saves"}
    BY DEF Steps, Trees
  <2>3. Left(a, "saves") /\ Left(a, "states") /\ live = prior[a] /\ stage[a] = Stored(id[a]) /\ ~playing
    BY <1>0, <2>1
  <2>4. /\ pc'[a] = "asideStates" /\ UNCHANGED <<prior, stage>>
        /\ live'["saves"] = 0 /\ live'["states"] = live["states"]
        /\ Gone(a, "saves")' <=> live["saves"] = prior[a]["saves"]
        /\ MovedAside(a, "states")' = MovedAside(a, "states")
    BY <1>2, <2>1, <2>2, <2>3
  <2>5. Gone(a, "saves")' BY <2>3, <2>4
  <2>6. Left(a, "states")' BY <2>3, <2>4 DEF Left
  <2>7. Stored(id[a])' = Stored(id[a]) BY <1>0 DEF Stored
  <2> QED BY <1>0, <2>3, <2>4, <2>5, <2>6, <2>7
<1>4. CASE MoveStatesAside(a)
  <2>1. At(a, "asideStates") /\ MoveAside(a, "states", "installSaves") BY <1>4 DEF MoveStatesAside
  <2>2. "installSaves" \in Steps /\ "states" \in Trees /\ "saves" \in Trees \ {"states"}
    BY DEF Steps, Trees
  <2>3. /\ Left(a, "states") /\ Gone(a, "saves") /\ live["saves"] = 0
        /\ live["states"] = prior[a]["states"] /\ stage[a] = Stored(id[a]) /\ ~playing
    BY <1>0, <2>1
  <2>4. /\ pc'[a] = "installSaves" /\ UNCHANGED <<prior, stage>>
        /\ live'["states"] = 0 /\ live'["saves"] = live["saves"]
        /\ Gone(a, "states")' <=> live["states"] = prior[a]["states"]
        /\ MovedAside(a, "saves")' = MovedAside(a, "saves")
    BY <1>2, <2>1, <2>2, <2>3
  <2>5. Gone(a, "states")' BY <2>3, <2>4
  <2>6. Gone(a, "saves")' BY <2>3, <2>4 DEF Gone
  <2>7. Stored(id[a])' = Stored(id[a]) BY <1>0 DEF Stored
  <2> QED BY <1>0, <2>3, <2>4, <2>5, <2>6, <2>7
<1>5. ASSUME NEW t \in Trees, NEW next \in Steps, Install(a, t, next), live[t] = 0
      PROVE  /\ pc'[a] = next /\ UNCHANGED <<prior, stage, aside>>
             /\ live' \in [Trees -> 0..MaxWrites]
             /\ live'[t] = stage[a][t] /\ \A s \in Trees \ {t} : live'[s] = live[s]
  <2>1. stage[a][t] \in 0..MaxWrites BY <1>0, SaveSnapshotAssumption
  <2> QED BY <1>0, <1>5, <2>1 DEF Install, restoreVars
<1>6. CASE InstallSaves(a)
  <2>1. At(a, "installSaves") /\ Install(a, "saves", "installStates") BY <1>6 DEF InstallSaves
  <2>2. "installStates" \in Steps /\ "saves" \in Trees /\ "states" \in Trees \ {"saves"}
    BY DEF Steps, Trees
  <2>3. /\ Gone(a, "states") /\ Gone(a, "saves") /\ live["saves"] = 0 /\ live["states"] = 0
        /\ stage[a] = Stored(id[a]) /\ ~playing
    BY <1>0, <2>1
  <2>4. /\ pc'[a] = "installStates" /\ UNCHANGED <<prior, stage, aside>>
        /\ live'["saves"] = stage[a]["saves"] /\ live'["states"] = 0
    BY <1>5, <2>1, <2>2, <2>3
  <2>5. Gone(a, "saves")' /\ Gone(a, "states")' BY <2>3, <2>4 DEF Gone, MovedAside
  <2>6. Stored(id[a])' = Stored(id[a]) BY <1>0 DEF Stored
  <2> QED BY <1>0, <2>3, <2>4, <2>5, <2>6
<1>7. CASE InstallStates(a)
  <2>1. At(a, "installStates") /\ Install(a, "states", "cleanup") BY <1>7 DEF InstallStates
  <2>2. "cleanup" \in Steps /\ "states" \in Trees /\ "saves" \in Trees \ {"states"}
    BY DEF Steps, Trees
  <2>3. /\ live["saves"] = stage[a]["saves"] /\ live["states"] = 0
        /\ stage[a] = Stored(id[a]) /\ ~playing
    BY <1>0, <2>1
  <2>4. /\ pc'[a] = "cleanup" /\ UNCHANGED <<prior, stage, aside>>
        /\ live' \in [Trees -> 0..MaxWrites]
        /\ live'["saves"] = stage[a]["saves"] /\ live'["states"] = stage[a]["states"]
    BY <1>5, <2>1, <2>2, <2>3
  <2>5. live' = stage[a] BY <1>0, <2>4 DEF Trees
  <2>6. Stored(id[a])' = Stored(id[a]) BY <1>0 DEF Stored
  <2> QED BY <1>0, <2>3, <2>4, <2>5, <2>6
<1>8. CASE RestoreFails(a)
  <2>1. /\ pc'[a] = "failed" /\ UNCHANGED <<prior, stage>>
        /\ live' = [t \in Trees |-> MoveBack(a, t)] /\ aside' = {x \in aside : x.by # a}
        /\ pc[a] \in {"asideSaves", "asideStates", "installSaves", "installStates"}
    BY <1>0, <1>8 DEF RestoreFails, restoreVars
  <2>2. ASSUME NEW t \in Trees PROVE MoveBack(a, t) = prior[a][t]
    <3>1. ASSUME Gone(a, t), ~At(a, "asideStates") \/ live[t] = 0
          PROVE MoveBack(a, t) = prior[a][t]
      <4>1. MoveBack(a, t) = (CHOOSE x \in MovedAside(a, t) : TRUE).data
        BY <3>1 DEF MoveBack, Gone
      <4> QED BY <3>1, <4>1 DEF Gone
    <3>2. ASSUME Left(a, t), live[t] = prior[a][t] PROVE MoveBack(a, t) = prior[a][t]
      BY <3>2 DEF MoveBack, Left
    <3>3. CASE At(a, "asideSaves") BY <1>0, <3>2, <3>3 DEF Trees
    <3>4. CASE At(a, "asideStates")
      <4>1. t = "saves" \/ t = "states" BY DEF Trees
      <4> QED BY <1>0, <3>1, <3>2, <3>4, <4>1
    <3>5. CASE pc[a] \in {"installSaves", "installStates"}
      <4>1. t = "saves" \/ t = "states" BY DEF Trees
      <4>2. Gone(a, t) BY <1>0, <3>5, <4>1
      <4> QED BY <3>1, <3>5, <4>2
    <3> QED BY <2>1, <3>3, <3>4, <3>5
  <2>3. live' = prior'[a] BY <1>0, <2>1, <2>2
  <2>4. Left(a, "saves")' /\ Left(a, "states")' BY <2>1 DEF Left, MovedAside
  <2> QED BY <1>0, <2>1, <2>3, <2>4
<1>9. CASE RestoreEnds(a)
  <2>1. /\ pc'[a] = "restored" /\ UNCHANGED <<prior, stage, live>> /\ pc[a] = "cleanup"
        /\ aside' = {x \in aside : x.by # a}
    BY <1>0, <1>9 DEF RestoreEnds, restoreVars
  <2>2. Left(a, "saves")' /\ Left(a, "states")' BY <2>1 DEF Left, MovedAside
  <2>3. Stored(id[a])' = Stored(id[a]) BY <1>0 DEF Stored
  <2> QED BY <1>0, <2>1, <2>2, <2>3
<1>10. CASE Exit(a)
  <2>1. pc'[a] = "idle" /\ UNCHANGED aside /\ pc[a] \in {"failed", "restored"}
    BY <1>0, <1>10 DEF Exit
  <2> QED BY <1>0, <2>1 DEF Left, MovedAside
<1> QED BY <1>1, <1>3, <1>4, <1>6, <1>7, <1>8, <1>9, <1>10 DEF RestoreStep

LEMMA RestoreKept ==
  ASSUME Alone, ~GamesAnyTime, IInv, RestoreInv, [Next]_vars
  PROVE  RestoreInv'
<1>0. pc \in [Actors -> Steps] BY DEF IInv, TypeOK
<1>1. ASSUME NEW a \in Actors,
             \/ \E u \in BOOLEAN : Create(a, u)
             \/ Prune(a) \/ TakeTime(a) \/ Publish(a) \/ Record(a) \/ PruneEnds(a) \/ Unlock(a)
      PROVE RestoreInv'
  <2>1. /\ UNCHANGED aside /\ pc[a] \in {"idle", "time", "archive", "record", "prune", "unlock"}
        /\ \E p \in {"idle", "time", "archive", "prune", "record", "unlock"} : Go(a, p)
    BY <1>1 DEF Create, Prune, TakeTime, Publish, Record, PruneEnds, PruneExits, Unlock, At
  <2>2. pc'[a] \notin Busy BY <1>0, <2>1 DEF Go, Busy, Restoring
  <2> QED BY <2>1, <2>2, OthersPut DEF RestoreInv, Restoring
<1>2. ASSUME NEW a \in Actors, PruneNext(a) PROVE RestoreInv'
  <2>1. /\ UNCHANGED aside /\ pc[a] = "prune" /\ (UNCHANGED pc \/ Go(a, "unlock"))
    BY <1>2, Zenon DEF PruneNext, Retain, PruneExits, At
  <2>2. pc'[a] \notin Busy BY <1>0, <2>1 DEF Go, Busy, Restoring
  <2> QED BY <2>1, <2>2, OthersPut DEF RestoreInv, Restoring
<1>3. ASSUME NEW a \in Actors, NEW i \in Ids, Restore(a, i) PROVE RestoreInv'
  <2>1. pc[a] = "idle" /\ pc'[a] = "restore" /\ ~playing' /\ UNCHANGED aside
    BY <1>0, <1>3 DEF Restore, At, Go
  <2>2. Left(a, "saves") /\ Left(a, "states") BY <2>1 DEF RestoreInv, Put, Restoring
  <2>3. Put(a)' BY <2>1, <2>2 DEF Put, At, Restoring, Left, MovedAside
  <2> QED BY <2>3 DEF Alone, RestoreInv
<1>4. ASSUME NEW a \in Actors, RestoreStep(a) PROVE RestoreInv' BY <1>4, RestoreStepPuts
<1>5. CASE \/ UpdateConfirmed \/ ClockMoves \/ GameStarts \/ GameEnds
           \/ (\E i \in Ids : Corrupt(i)) \/ UNCHANGED vars
  <2>1. UNCHANGED <<snaps, live, aside, pc, id, prior, stage>>
    BY <1>5 DEF UpdateConfirmed, ClockMoves, GameStarts, GameEnds, Corrupt, vars, actorVars, restoreVars
  <2>2. ASSUME playing', NEW a \in Actors PROVE pc[a] \notin Busy
    <3>1. CASE playing BY <3>1 DEF RestoreInv, Put
    <3>2. CASE ~playing
      <4>1. AllIdle
        BY <1>5, <2>2, <3>2 DEF UpdateConfirmed, ClockMoves, GameStarts, GameEnds, Corrupt, vars
      <4> QED BY <4>1 DEF AllIdle, At, Busy, Restoring
    <3> QED BY <3>1, <3>2
  <2> QED BY <2>1, <2>2, SamePut
<1>6. ASSUME NEW t \in Trees, GameWrites(t) PROVE RestoreInv'
  <2>1. playing /\ UNCHANGED <<aside, pc>> BY <1>6 DEF GameWrites, actorVars
  <2>2. ASSUME NEW a \in Actors PROVE Put(a)'
    <3>1. Put(a) /\ pc[a] \notin Busy BY <2>1 DEF RestoreInv, Put
    <3>2. Left(a, "saves")' /\ Left(a, "states")' BY <2>1, <3>1 DEF Put, Left, MovedAside, Busy
    <3> QED BY <2>1, <3>1, <3>2 DEF Put, At, Busy, Restoring
  <2> QED BY <2>2 DEF RestoreInv
<1>7. CASE PowerLoss
  <2>1. /\ pc' = [a \in Actors |-> "idle"]
        /\ aside' = {[x EXCEPT !.by = "nobody"] : x \in aside}
    BY <1>7 DEF PowerLoss
  <2>2. ASSUME NEW a \in Actors, NEW y \in aside' PROVE y.by # a
    <3>1. PICK x \in aside : y = [x EXCEPT !.by = "nobody"] BY <2>1, Zenon
    <3>2. x \in Displaced BY DEF IInv, TypeOK, Displaced
    <3> QED BY <3>1, <3>2, SaveSnapshotAssumption DEF Displaced
  <2>3. ASSUME NEW a \in Actors PROVE Put(a)'
    <3>1. pc'[a] = "idle" BY <2>1
    <3>2. Left(a, "saves")' /\ Left(a, "states")' BY <2>2 DEF Left, MovedAside
    <3> QED BY <3>1, <3>2 DEF Put, At, Busy, Restoring
  <2> QED BY <2>3 DEF RestoreInv
<1> QED BY <1>1, <1>2, <1>3, <1>4, <1>5, <1>6, <1>7 DEF Next, CreateStep, PruneStep

\* A restore that succeeds has put in both trees, one that fails has put back both,
\* whichever rename fails; as long as the lock keeps operations apart, and games wait
\* for them.
THEOREM RestoreIsWhole ==
  ASSUME Alone, ~GamesAnyTime
  PROVE  Spec => []RestoreAllOrNothing
<1>1. Init => RestoreInv
  <2>1. ASSUME Init, NEW a \in Actors PROVE Put(a)
    <3>1. pc[a] = "idle" /\ aside = {} BY <2>1 DEF Init
    <3> QED BY <3>1 DEF Put, At, Busy, Restoring, Left, MovedAside
  <2> QED BY <2>1 DEF RestoreInv
<1>2. IInv /\ RestoreInv /\ [Next]_vars => RestoreInv' BY RestoreKept
<1>3. RestoreInv => RestoreAllOrNothing
  BY DEF RestoreInv, Put, RestoreAllOrNothing
<1> QED BY <1>1, <1>2, <1>3, Invariant, PTL DEF Spec

-----------------------------------------------------------------------------
(* The snapshot an update was recorded with                                *)

\* What is asked for by an update is the newest there is, until prune has passed it.
Asked(a) ==
  /\ At(a, "archive") => id[a] <= now /\ \A i \in Ids : i < id[a]
  /\ At(a, "prune") /\ update[a] =>
       /\ id[a] \in Ids
       /\ id[a] \in listed[a] => kept[a] = 0 /\ \A i \in listed[a] : i <= id[a]
  /\ At(a, "unlock") /\ update[a] => id[a] \in Ids
  /\ At(a, "record") => update[a] /\ id[a] \in Ids

RecordInv ==
  /\ \A i \in Ids : i <= now
  /\ \A a \in Actors : Asked(a)
  /\ UpdateSnapshotKept

LEMMA OtherwiseAsked ==
  ASSUME Alone, RecordInv, NEW a \in Actors, UNCHANGED <<snaps, ref, now>>,
         pc'[a] \notin {"archive", "prune", "unlock", "record"}
  PROVE  RecordInv'
BY DEF Alone, RecordInv, Asked, At, UpdateSnapshotKept, Ids

LEMMA SameAsked ==
  ASSUME IInv, RecordInv, UNCHANGED <<snaps, pc, id, listed, kept, update>>,
         now <= now', now' \in Nat, ref' \in {0, ref}
  PROVE  RecordInv'
<1>1. \A i \in Ids : i \in Nat /\ Ids' = Ids
  BY IdsTyped, SaveSnapshotAssumption DEF Ids
<1>2. now \in Nat /\ \A a \in Actors : id[a] \in Nat
  BY SaveSnapshotAssumption DEF IInv, TypeOK
<1>3. \A i \in Ids : i <= now' BY <1>1, <1>2 DEF RecordInv
<1>4. ASSUME NEW a \in Actors PROVE Asked(a)'
  <2>1. Asked(a) BY DEF RecordInv
  <2>2. At(a, "archive") => id[a] <= now' BY <1>2, <2>1 DEF Asked
  <2> QED BY <2>1, <2>2 DEF Asked, At, Ids
<1>5. UpdateSnapshotKept' BY DEF RecordInv, UpdateSnapshotKept, Ids
<1>6. Ids' = Ids BY DEF Ids
<1> QED BY <1>3, <1>4, <1>5, <1>6 DEF RecordInv

\* One step of the loop, in terms of what it leaves.
LEMMA PruneNextStep ==
  ASSUME NEW a \in Actors, PruneNext(a)
  PROVE  \E i \in listed[a] :
           /\ At(a, "prune") /\ Newest(i, listed[a])
           /\ UNCHANGED <<bad, ref, now, id, limit>>
           /\ listed' = [listed EXCEPT ![a] = listed[a] \ {i}]
           /\ \/ kept' = [kept EXCEPT ![a] = IF i # ref /\ kept[a] < limit[a] THEN kept[a] + 1 ELSE kept[a]]
                 /\ (i = ref \/ kept[a] < limit[a] \/ i \notin Good) /\ UNCHANGED snaps
              \/ i # ref /\ ~(kept[a] < limit[a]) /\ i \in Good
                 /\ snaps' = {s \in snaps : s.id # i} /\ kept' = [kept EXCEPT ![a] = kept[a]]
           /\ \/ UNCHANGED <<pc, update>>
              \/ Go(a, "unlock") /\ update' = [update EXCEPT ![a] = FALSE]
BY Zenon DEF PruneNext, Retain, PruneExits

LEMMA RecordKept ==
  ASSUME Alone, ~ClockRegresses, IInv, RecordInv, [Next]_vars
  PROVE  RecordInv'
<1>0. /\ pc \in [Actors -> Steps] /\ id \in [Actors -> 0..MaxTime] /\ now \in 1..MaxTime
      /\ update \in [Actors -> BOOLEAN] /\ listed \in [Actors -> SUBSET (1..MaxTime)]
      /\ kept \in [Actors -> Nat] /\ limit \in [Actors -> Nat \ {0}]
      /\ Ids \subseteq 1..MaxTime /\ MaxTime \in Nat
  <2>1. limit \in [Actors -> {Retention, Keep}] /\ {Retention, Keep} \subseteq Nat \ {0}
    BY SaveSnapshotAssumption DEF IInv, TypeOK
  <2>2. limit \in [Actors -> Nat \ {0}] BY <2>1
  <2>3. /\ pc \in [Actors -> Steps] /\ id \in [Actors -> 0..MaxTime] /\ now \in 1..MaxTime
        /\ update \in [Actors -> BOOLEAN] /\ listed \in [Actors -> SUBSET (1..MaxTime)]
        /\ kept \in [Actors -> Nat]
    BY Zenon DEF IInv, TypeOK
  <2> QED BY <2>2, <2>3, IdsTyped, SaveSnapshotAssumption
<1>1. ASSUME NEW a \in Actors, (\E u \in BOOLEAN : Create(a, u)) \/ (\E i \in Ids : Restore(a, i)) \/ RestoreStep(a)
      PROVE RecordInv'
  <2>1. UNCHANGED <<snaps, ref, now>>
    BY <1>1 DEF Create, Restore, RestoreStep, StageRestore, MoveSavesAside, MoveStatesAside,
      MoveAside, InstallSaves, InstallStates, Install, RestoreFails, RestoreEnds, Exit
  <2>2. \E p \in {"time", "restore", "idle", "failed", "restored"} \cup Restoring : Go(a, p)
    BY <1>1 DEF Create, Restore, RestoreStep, StageRestore, MoveSavesAside, MoveStatesAside,
      MoveAside, InstallSaves, InstallStates, Install, RestoreFails, RestoreEnds, Exit, Restoring
  <2>3. pc'[a] \notin {"archive", "prune", "unlock", "record"} BY <1>0, <2>2 DEF Go, Restoring
  <2> QED BY <2>1, <2>3, OtherwiseAsked
<1>2. ASSUME NEW a \in Actors, Prune(a) \/ TakeTime(a) \/ Record(a) \/ PruneEnds(a) \/ Unlock(a)
      PROVE RecordInv'
  <2>0. UNCHANGED <<snaps, now>> /\ Ids' = Ids
    BY <1>2 DEF Prune, TakeTime, Record, PruneEnds, Unlock, Ids
  <2> SUFFICES Asked(a)' /\ UpdateSnapshotKept'
    BY <2>0 DEF Alone, RecordInv
  <2> USE DEF Asked, At, Go
  <2>1. CASE Prune(a)
    <3>1. pc'[a] = "prune" /\ ~update'[a] /\ UNCHANGED ref BY <1>0, <2>1 DEF Prune
    <3> QED BY <2>0, <3>1 DEF RecordInv, UpdateSnapshotKept
  <2>2. CASE TakeTime(a)
    <3>1. pc'[a] = "archive" /\ id'[a] = now /\ now \notin Ids /\ UNCHANGED ref
      BY <1>0, <2>2 DEF TakeTime
    <3>2. \A i \in Ids : i \in Nat /\ i <= now /\ i # now /\ now \in Nat
      BY <1>0, <3>1 DEF RecordInv
    <3>3. \A i \in Ids : i < now BY <3>2
    <3> QED BY <1>0, <2>0, <3>1, <3>3 DEF RecordInv, UpdateSnapshotKept
  <2>3. CASE Record(a)
    <3>1. pc'[a] = "idle" /\ ref' = id[a] /\ id[a] \in Ids BY <1>0, <2>3 DEF Record, RecordInv
    <3> QED BY <2>0, <3>1 DEF UpdateSnapshotKept
  <2>4. CASE PruneEnds(a)
    <3>1. pc[a] = "prune" /\ pc'[a] = "unlock" /\ UNCHANGED <<ref, update, id>>
      BY <1>0, <2>4 DEF PruneEnds, PruneExits, pruneVars
    <3> QED BY <2>0, <3>1 DEF RecordInv, UpdateSnapshotKept
  <2>5. CASE Unlock(a)
    <3>1. /\ pc[a] = "unlock" /\ UNCHANGED <<ref, update, id>>
          /\ pc'[a] = IF update[a] THEN "record" ELSE "idle"
      BY <1>0, <2>5 DEF Unlock, pruneVars
    <3> QED BY <2>0, <3>1 DEF RecordInv, UpdateSnapshotKept
  <2> QED BY <1>2, <2>1, <2>2, <2>3, <2>4, <2>5
<1>3. ASSUME NEW a \in Actors, Publish(a) PROVE RecordInv'
  <2>1. At(a, "archive") /\ UNCHANGED <<bad, ref, now, id, update>> BY <1>3 DEF Publish
  <2>2. CASE id[a] \in Ids \/ \E t \in Trees : live[t] = 0
    <3>1. pc'[a] = "idle" /\ UNCHANGED snaps BY <1>0, <1>3, <2>2 DEF Publish, Go
    <3> QED BY <2>1, <3>1, OtherwiseAsked
  <2>3. CASE ~(id[a] \in Ids \/ \E t \in Trees : live[t] = 0)
    <3>1. /\ pc'[a] = "prune" /\ snaps' = snaps \cup {[id |-> id[a], trees |-> live]}
          /\ listed'[a] = {s.id : s \in snaps'} \ bad /\ kept'[a] = 0
      BY <1>0, <1>3, <2>3 DEF Publish, Inventory, Go
    <3> DEFINE new == [id |-> id[a], trees |-> live]
    <3>0. new.id = id[a] /\ snaps' = snaps \cup {new} BY <3>1
    <3> HIDE DEF new
    <3>2. Ids' = Ids \cup {id[a]} BY <3>0 DEF Ids
    <3>3. id[a] <= now /\ \A i \in Ids : i < id[a] BY <2>1 DEF RecordInv, Asked
    <3>4. id[a] \in Nat /\ \A i \in Ids : i \in Nat BY <1>0
    <3>5. \A i \in Ids' : i <= now /\ i <= id[a] BY <3>2, <3>3, <3>4 DEF RecordInv
    <3>6. listed'[a] \subseteq Ids' BY <3>1 DEF Ids
    <3>7. Asked(a)' BY <2>1, <3>1, <3>2, <3>5, <3>6 DEF Asked, At
    <3>8. UpdateSnapshotKept' BY <2>1, <3>2 DEF RecordInv, UpdateSnapshotKept
    <3> QED BY <2>1, <3>5, <3>7, <3>8 DEF RecordInv, Alone
  <2> QED BY <2>2, <2>3
<1>4. ASSUME NEW a \in Actors, PruneNext(a) PROVE RecordInv'
  <2>1. PICK i \in listed[a] :
          /\ At(a, "prune") /\ Newest(i, listed[a]) /\ UNCHANGED <<ref, now, id>>
          /\ listed' = [listed EXCEPT ![a] = listed[a] \ {i}]
          /\ UNCHANGED snaps \/ (i # ref /\ ~(kept[a] < limit[a]) /\ snaps' = {s \in snaps : s.id # i})
          /\ \/ UNCHANGED <<pc, update>>
             \/ Go(a, "unlock") /\ update' = [update EXCEPT ![a] = FALSE]
    BY <1>4, PruneNextStep
  <2>2. Ids' = Ids \/ (i # ref /\ ~(kept[a] < limit[a]) /\ Ids' = Ids \ {i}) BY <2>1 DEF Ids
  <2>3. (pc'[a] = "prune" /\ UNCHANGED update) \/ (pc'[a] = "unlock" /\ ~update'[a])
    BY <1>0, <2>1 DEF Go, At
  <2>4. UpdateSnapshotKept' BY <2>1, <2>2 DEF RecordInv, UpdateSnapshotKept
  <2>5. ASSUME update[a] PROVE id[a] \in Ids' /\ id[a] \notin listed'[a]
    <3>1. /\ id[a] \in Ids
          /\ id[a] \in listed[a] => kept[a] = 0 /\ \A j \in listed[a] : j <= id[a]
      BY <2>1, <2>5 DEF RecordInv, Asked
    <3>2. CASE id[a] \in listed[a]
      <4>1. id[a] <= i /\ i <= id[a] /\ i \in Nat /\ id[a] \in Nat
        BY <1>0, <2>1, <3>1, <3>2 DEF Newest
      <4>2. i = id[a] BY <4>1
      <4>3. kept[a] < limit[a] BY <1>0, <3>1, <3>2
      <4> QED BY <1>0, <2>1, <2>2, <3>1, <4>2, <4>3
    <3>3. CASE id[a] \notin listed[a] BY <1>0, <2>1, <2>2, <3>1, <3>3
    <3> QED BY <3>2, <3>3
  <2>6. Asked(a)' BY <2>1, <2>3, <2>5 DEF Asked, At
  <2> QED BY <2>1, <2>2, <2>4, <2>6 DEF RecordInv, Alone
<1>5. CASE PowerLoss
  <2>1. UNCHANGED <<snaps, ref, now>> /\ \A a \in Actors : pc'[a] = "idle" BY <1>5 DEF PowerLoss
  <2> QED BY <2>1 DEF RecordInv, Asked, At, UpdateSnapshotKept, Ids
<1>6. CASE \/ UpdateConfirmed \/ ClockMoves \/ GameStarts \/ GameEnds
           \/ (\E i \in Ids : Corrupt(i)) \/ (\E t \in Trees : GameWrites(t)) \/ UNCHANGED vars
  <2>1. UNCHANGED <<snaps, pc, id, listed, kept, update>> /\ ref' \in {0, ref} /\ now' \in {now, now + 1}
    BY <1>6 DEF UpdateConfirmed, ClockMoves, GameStarts, GameEnds, Corrupt, GameWrites, vars,
      actorVars, pruneVars
  <2>2. now <= now' /\ now' \in Nat BY <1>0, <2>1
  <2> QED BY <2>1, <2>2, SameAsked
<1> QED BY <1>1, <1>2, <1>3, <1>4, <1>5, <1>6 DEF Next, CreateStep, PruneStep

\* Retention never takes the snapshot an update has asked for, between its creation and
\* its record or later; as long as the clock is not set back and nobody else creates
\* snapshots meanwhile.
THEOREM UpdateCanGoBack ==
  ASSUME Alone, ~ClockRegresses
  PROVE  Spec => []UpdateSnapshotKept
<1>1. Init => RecordInv
  BY DEF Init, RecordInv, Asked, At, UpdateSnapshotKept, Ids
<1>2. IInv /\ RecordInv /\ [Next]_vars => RecordInv' BY RecordKept
<1>3. RecordInv => UpdateSnapshotKept BY DEF RecordInv
<1> QED BY <1>1, <1>2, <1>3, Invariant, PTL DEF Spec

-----------------------------------------------------------------------------
(* What retention removes                                                  *)

Above(i) == {j \in Good \ {ref} : j > i}

\* A prune has kept only snapshots newer than what it has not looked at.
Passed(a) ==
  At(a, "prune") =>
    listed[a] \subseteq Good /\ \A i \in listed[a] : kept[a] <= Cardinality(Above(i))

PassedInv == \A a \in Actors : Passed(a)

LEMMA MoreCounts ==
  ASSUME NEW S \in SUBSET (1..MaxTime), NEW T \in SUBSET S
  PROVE  /\ Cardinality(S) \in Nat /\ Cardinality(T) \in Nat
         /\ Cardinality(T) <= Cardinality(S)
         /\ \A x \in S \ T : Cardinality(T) + 1 <= Cardinality(S)
<1>0. MaxTime \in Int BY SaveSnapshotAssumption
<1>1. IsFiniteSet(1..MaxTime) BY <1>0, FS_Interval
<1>2. IsFiniteSet(S) BY <1>1, FS_Subset
<1>3. IsFiniteSet(T) /\ Cardinality(T) <= Cardinality(S) BY <1>2, FS_Subset
<1>4. Cardinality(S) \in Nat /\ Cardinality(T) \in Nat BY <1>2, <1>3, FS_CardinalityType
<1>5. ASSUME NEW x \in S \ T PROVE Cardinality(T) + 1 <= Cardinality(S)
  <2>1. T \cup {x} \in SUBSET S OBVIOUS
  <2>2. Cardinality(T \cup {x}) = Cardinality(T) + 1 BY <1>3, FS_AddElement
  <2>3. Cardinality(T \cup {x}) <= Cardinality(S) BY <1>2, <2>1, FS_Subset
  <2> QED BY <2>2, <2>3
<1> QED BY <1>3, <1>4, <1>5

LEMMA PassedKept ==
  ASSUME Alone, IInv, IInv', PassedInv, [Next]_vars
  PROVE  PassedInv'
<1>0. /\ pc \in [Actors -> Steps] /\ listed \in [Actors -> SUBSET (1..MaxTime)]
      /\ kept \in [Actors -> Nat]
  BY Zenon DEF IInv, TypeOK
<1>1. /\ Good \subseteq 1..MaxTime /\ Good' \subseteq 1..MaxTime
      /\ \A i : Above(i) \in SUBSET (1..MaxTime) /\ Above(i)' \in SUBSET (1..MaxTime)
  BY DEF IInv, TypeOK, Good, Ids, Above
<1>2. ASSUME NEW a \in Actors, pc'[a] # "prune" PROVE PassedInv'
  BY <1>2 DEF Alone, PassedInv, Passed, At
<1>3. ASSUME NEW a \in Actors, kept'[a] = 0, listed'[a] \subseteq Good' PROVE PassedInv'
  <2>1. \A i : Cardinality(Above(i))' \in Nat BY <1>1, MoreCounts
  <2>2. Passed(a)' BY <1>3, <2>1 DEF Passed, At
  <2> QED BY <2>2 DEF Alone, PassedInv
<1>4. ASSUME UNCHANGED <<snaps, bad, pc, listed, kept>>, ref' \in {0, ref} PROVE PassedInv'
  <2>1. Good' = Good BY <1>4 DEF Good, Ids
  <2>2. \A i : Above(i) \in SUBSET (Above(i)')
    BY <1>1, <1>4, <2>1, SaveSnapshotAssumption DEF Above
  <2>3. \A i : /\ Cardinality(Above(i)) \in Nat /\ Cardinality(Above(i)') \in Nat
               /\ Cardinality(Above(i)) <= Cardinality(Above(i)')
    BY <1>1, <2>2, MoreCounts
  <2>4. ASSUME NEW a \in Actors, pc[a] = "prune" PROVE Passed(a)'
    <3>1. listed[a] \subseteq Good /\ \A i \in listed[a] : kept[a] <= Cardinality(Above(i))
      BY <2>4 DEF PassedInv, Passed, At
    <3>2. kept[a] \in Nat BY <1>0
    <3>3. \A i \in listed[a] : kept[a] <= Cardinality(Above(i)')
      BY <2>3, <3>1, <3>2
    <3> QED BY <1>4, <2>1, <3>1, <3>3 DEF Passed
  <2> QED BY <1>4, <2>4 DEF PassedInv, Passed, At
<1>5. ASSUME NEW a \in Actors, (\E u \in BOOLEAN : Create(a, u)) \/ (\E i \in Ids : Restore(a, i))
               \/ RestoreStep(a) \/ TakeTime(a) \/ Record(a) \/ PruneEnds(a) \/ Unlock(a)
      PROVE PassedInv'
  <2>1. \E p \in Steps \ {"prune"} : Go(a, p)
    BY <1>5 DEF Create, Restore, RestoreStep, StageRestore, MoveSavesAside, MoveStatesAside,
      MoveAside, InstallSaves, InstallStates, Install, RestoreFails, RestoreEnds, Exit, TakeTime,
      Record, PruneEnds, PruneExits, Unlock, Steps
  <2>2. pc'[a] # "prune" BY <1>0, <2>1 DEF Go
  <2> QED BY <1>2, <2>2
<1>6. ASSUME NEW a \in Actors, Prune(a) PROVE PassedInv'
  <2>1. kept'[a] = 0 /\ listed'[a] = {s.id : s \in snaps'} \ bad /\ UNCHANGED bad
    BY <1>0, <1>6 DEF Prune, Inventory
  <2> QED BY <1>3, <2>1 DEF Good, Ids
<1>7. ASSUME NEW a \in Actors, Publish(a) PROVE PassedInv'
  <2>1. CASE id[a] \in Ids \/ \E t \in Trees : live[t] = 0
    <3>1. pc'[a] = "idle" BY <1>0, <1>7, <2>1 DEF Publish, Go
    <3> QED BY <1>2, <3>1
  <2>2. CASE ~(id[a] \in Ids \/ \E t \in Trees : live[t] = 0)
    <3>1. kept'[a] = 0 /\ listed'[a] = {s.id : s \in snaps'} \ bad /\ UNCHANGED bad
      BY <1>0, <1>7, <2>2 DEF Publish, Inventory
    <3> QED BY <1>3, <3>1 DEF Good, Ids
  <2> QED BY <2>1, <2>2
<1>8. ASSUME NEW a \in Actors, PruneNext(a) PROVE PassedInv'
  <2>1. PICK i \in listed[a] :
          /\ At(a, "prune") /\ Newest(i, listed[a]) /\ UNCHANGED <<bad, ref>>
          /\ listed' = [listed EXCEPT ![a] = listed[a] \ {i}]
          /\ \/ kept' = [kept EXCEPT ![a] = IF i # ref /\ kept[a] < limit[a] THEN kept[a] + 1 ELSE kept[a]]
                /\ (i = ref \/ kept[a] < limit[a] \/ i \notin Good) /\ UNCHANGED snaps
             \/ i # ref /\ ~(kept[a] < limit[a]) /\ i \in Good
                /\ snaps' = {s \in snaps : s.id # i} /\ kept' = [kept EXCEPT ![a] = kept[a]]
    BY <1>8, PruneNextStep
  <2>2. /\ listed[a] \subseteq Good /\ \A j \in listed[a] : kept[a] <= Cardinality(Above(j))
        /\ listed'[a] = listed[a] \ {i} /\ kept[a] \in Nat
    BY <1>0, <2>1 DEF PassedInv, Passed
  <2>3. \A j \in listed[a] \ {i} : j \in Nat /\ i \in Nat /\ j < i
    BY <1>0, <2>1 DEF Newest
  <2>4. CASE UNCHANGED snaps /\ kept'[a] = kept[a]
    <3>1. Good' = Good /\ \A j : Above(j)' = Above(j) BY <2>1, <2>4 DEF Good, Ids, Above
    <3>2. Passed(a)' BY <2>2, <2>4, <3>1 DEF Passed
    <3> QED BY <3>2 DEF Alone, PassedInv
  <2>5. CASE UNCHANGED snaps /\ i # ref /\ kept'[a] = kept[a] + 1
    <3>1. Good' = Good /\ \A j : Above(j)' = Above(j) BY <2>1, <2>5 DEF Good, Ids, Above
    <3>2. ASSUME NEW j \in listed[a] \ {i} PROVE kept[a] + 1 <= Cardinality(Above(j))
      <4>1. i \in Above(j) /\ i \notin Above(i) /\ Above(i) \in SUBSET Above(j)
        BY <1>1, <2>2, <2>3, <2>5, <3>2 DEF Above
      <4>2. /\ Cardinality(Above(i)) + 1 <= Cardinality(Above(j))
            /\ Cardinality(Above(i)) \in Nat /\ Cardinality(Above(j)) \in Nat
        BY <1>1, <4>1, MoreCounts
      <4> QED BY <2>2, <4>2
    <3>3. Passed(a)' BY <2>2, <2>5, <3>1, <3>2 DEF Passed
    <3> QED BY <3>3 DEF Alone, PassedInv
  <2>6. CASE snaps' = {s \in snaps : s.id # i} /\ kept'[a] = kept[a]
    <3>1. Good' = Good \ {i} BY <2>1, <2>6 DEF Good, Ids
    <3>2. ASSUME NEW j \in listed[a] \ {i} PROVE kept[a] <= Cardinality(Above(j)')
      <4>1. Above(i) \in SUBSET (Above(j)')
        BY <1>1, <2>1, <2>3, <3>1, <3>2 DEF Above
      <4>2. /\ Cardinality(Above(i)) <= Cardinality(Above(j)')
            /\ Cardinality(Above(i)) \in Nat /\ Cardinality(Above(j)') \in Nat
        BY <1>1, <4>1, MoreCounts
      <4> QED BY <2>1, <2>2, <4>2
    <3>3. Passed(a)' BY <2>2, <2>6, <3>1, <3>2 DEF Passed
    <3> QED BY <3>3 DEF Alone, PassedInv
  <2>7. \/ UNCHANGED snaps /\ kept'[a] = kept[a]
        \/ UNCHANGED snaps /\ i # ref /\ kept'[a] = kept[a] + 1
        \/ snaps' = {s \in snaps : s.id # i} /\ kept'[a] = kept[a]
    BY <1>0, <2>1
  <2> QED BY <2>4, <2>5, <2>6, <2>7
<1>9. ASSUME NEW i \in Ids, Corrupt(i) PROVE PassedInv'
  <2>1. \A a \in Actors : pc'[a] # "prune" BY <1>9 DEF Corrupt, At, actorVars
  <2> QED BY <2>1 DEF PassedInv, Passed, At
<1>10. CASE PowerLoss
  <2>1. \A a \in Actors : pc'[a] # "prune" BY <1>10 DEF PowerLoss
  <2> QED BY <2>1 DEF PassedInv, Passed, At
<1>11. CASE UpdateConfirmed \/ GameStarts \/ GameEnds \/ (\E t \in Trees : GameWrites(t)) \/ UNCHANGED vars
  BY <1>4, <1>11 DEF UpdateConfirmed, GameStarts, GameEnds, GameWrites, vars, actorVars, pruneVars
<1>12. CASE ClockMoves
  <2>1. UNCHANGED <<snaps, pc, listed, kept, ref>> BY <1>12 DEF ClockMoves, actorVars, pruneVars
  <2>2. UNCHANGED bad BY <1>12 DEF ClockMoves
  <2> QED BY <1>4, <2>1, <2>2
<1> QED BY <1>5, <1>6, <1>7, <1>8, <1>9, <1>10, <1>11, <1>12 DEF Next, CreateStep, PruneStep

\* What a step removes had enough newer ones counted before it.
LEMMA RemovesOld ==
  ASSUME IInv, PassedInv, [Next]_vars, NEW s \in snaps \ snaps'
  PROVE  /\ s.id \notin bad \cup {ref}
         /\ \E n \in {Retention, Keep} :
              Cardinality({i \in Good \ {ref} : i > s.id}) >= n
<1>1. PICK a \in Actors : PruneNext(a)
  BY DEF Next, CreateStep, PruneStep, RestoreStep, vars, Create, Prune, Restore, TakeTime, Publish,
    Record, PruneEnds, Unlock, StageRestore, MoveSavesAside, MoveStatesAside, MoveAside,
    InstallSaves, InstallStates, Install, RestoreFails, RestoreEnds, Exit, UpdateConfirmed,
    ClockMoves, GameStarts, GameEnds, GameWrites, Corrupt, PowerLoss
<1>2. PICK i \in listed[a] :
        At(a, "prune") /\ i # ref /\ ~(kept[a] < limit[a]) /\ i \in Good /\ snaps' = {r \in snaps : r.id # i}
  BY <1>1, PruneNextStep
<1>3. s.id = i BY <1>2
<1>4. kept[a] \in Nat /\ limit[a] \in {Retention, Keep} /\ Retention \in Nat /\ Keep \in Nat
  BY SaveSnapshotAssumption DEF IInv, TypeOK
<1>5. kept[a] >= limit[a] BY <1>2, <1>4
<1>6. kept[a] <= Cardinality(Above(i)) BY <1>2 DEF PassedInv, Passed
<1>7. Above(i) \in SUBSET (1..MaxTime) BY DEF IInv, TypeOK, Good, Ids, Above
<1>8. Cardinality(Above(i)) \in Nat BY <1>7, MoreCounts
<1>9. Cardinality(Above(i)) >= limit[a] BY <1>4, <1>5, <1>6, <1>8
<1> QED BY <1>2, <1>3, <1>4, <1>9 DEF Above, Good

\* Retention removes only snapshots that verify, never the update's, and only those that
\* its whole limit of newer ones has been kept for.
THEOREM RetentionHolds ==
  ASSUME Alone
  PROVE  Spec => RetentionKeepsNewest
<1>1. Init => PassedInv BY DEF Init, PassedInv, Passed, At
<1>2. IInv /\ IInv' /\ PassedInv /\ [Next]_vars => PassedInv' BY PassedKept
<1>3. IInv /\ PassedInv /\ [Next]_vars =>
        [\A s \in snaps \ snaps' :
           /\ s.id \notin bad \cup {ref}
           /\ \E n \in {Retention, Keep} :
                Cardinality({i \in Good \ {ref} : i > s.id}) >= n]_vars
  BY RemovesOld
<1> QED BY <1>1, <1>2, <1>3, Invariant, PTL DEF Spec, RetentionKeepsNewest
=============================================================================
