----------------------- MODULE SettingsAuthority_proofs ----------------------
(***************************************************************************)
(* Proofs about SettingsAuthority, for any clients and any bounds.         *)
(*                                                                         *)
(* Everything rests on two facts: who holds the lock has read what is      *)
(* canonical, and a generation is never used twice, so that an activation  *)
(* that finds the generation of its own cutover finds its own cutover.     *)
(***************************************************************************)
EXTENDS SettingsAuthority, TLAPS

\* The activation of j may still have to take its cutover back.
Claims(j) == j.at = "undo" \/ (j.at = "materialize" /\ j.mark # 0)

\* The holder of the lock is in a section and has read the canonical file.
HolderInv == \A p \in Procs : lock = p => job[p].at \in Sections /\ job[p].seen = canonical

\* A reset that is about to publish has saved what it read.
BackupInv == \A p \in Procs : lock = p /\ job[p].at = "reset" /\ job[p].left = {} => backup = job[p].seen

\* A cutover that may be taken back was committed, and is the last commit if
\* its generation is still the current one.
ClaimInv == \A p \in Procs : Claims(job[p]) =>
  /\ job[p].mark # 0 /\ job[p].mark <= canonical.generation
  /\ job[p].mark = canonical.generation => last = "cutover"

\* Only activations past their first section have a mark.
FreshInv == \A p \in Procs : job[p].at \in {"set", "reset", "status"} => job[p].mark = 0

\* Nothing runs while the power is off.
OffInv == power = "off" => \A p \in Procs : job[p].at = "idle"

IInv == TypeOK /\ HolderInv /\ BackupInv /\ ClaimInv /\ FreshInv /\ OffInv

-----------------------------------------------------------------------------
(* What a step may do to a process so that the invariant stays             *)

\* p has moved and nobody else.
Alone(p) == \A q \in Procs : q # p => job'[q] = job[q]

\* A step of p that publishes nothing keeps the invariant.
LEMMA NoCommit ==
  ASSUME IInv, TypeOK', NEW p \in Procs, Alone(p),
         canonical' = canonical, last' = last,
         backup' = backup \/ lock = p,
         lock' = lock \/ lock' = p \/ (lock = p /\ lock' = Nobody),
         lock' = p => job'[p].at \in Sections /\ job'[p].seen = canonical,
         lock' = p /\ job'[p].at = "reset" /\ job'[p].left = {} => backup' = job'[p].seen,
         Claims(job'[p]) => Claims(job[p]) /\ job'[p].mark = job[p].mark,
         job'[p].at \in {"set", "reset", "status"} => job'[p].mark = 0,
         power' # "off"
  PROVE  IInv'
<1>1. Nobody \notin Procs
  BY SettingsAssumption DEF Procs, Nobody
<1>2. HolderInv'
  BY <1>1 DEF HolderInv, IInv, Alone
<1>3. BackupInv'
  BY <1>1 DEF BackupInv, IInv, Alone
<1>4. ClaimInv'
  BY DEF ClaimInv, Claims, IInv, Alone
<1>5. FreshInv' /\ OffInv'
  BY DEF FreshInv, OffInv, IInv, Alone
<1> QED
  BY <1>2, <1>3, <1>4, <1>5 DEF IInv

\* A step of p that publishes the next generation and releases the lock
\* keeps the invariant.
LEMMA Committed ==
  ASSUME IInv, TypeOK', NEW p \in Procs, Alone(p), lock = p, lock' = Nobody,
         canonical'.generation = canonical.generation + 1,
         Claims(job'[p]) => job'[p].mark = canonical'.generation /\ last' = "cutover",
         job'[p].at \in {"set", "reset", "status"} => job'[p].mark = 0,
         power' = power
  PROVE  IInv'
<1>1. Nobody \notin Procs
  BY SettingsAssumption DEF Procs, Nobody
<1>2. canonical.generation \in Nat /\ \A q \in Procs : job[q].mark \in Nat
  BY DEF IInv, TypeOK, Settings, Jobs
<1>3. power # "off"
  BY DEF IInv, OffInv, HolderInv, Sections
<1>4. HolderInv' /\ BackupInv'
  BY <1>1 DEF HolderInv, BackupInv
<1>5. ClaimInv'
  <2> SUFFICES ASSUME NEW q \in Procs, Claims(job'[q])
               PROVE  /\ job'[q].mark # 0 /\ job'[q].mark <= canonical'.generation
                      /\ job'[q].mark = canonical'.generation => last' = "cutover"
    BY DEF ClaimInv, Claims
  <2>1. CASE q = p
    BY <2>1, <1>2
  <2>2. CASE q # p
    <3>1. job'[q] = job[q]
      BY <2>2 DEF Alone
    <3>2. job[q].mark # 0 /\ job[q].mark <= canonical.generation
      BY <3>1 DEF IInv, ClaimInv, Claims
    <3> QED
      BY <3>1, <3>2, <1>2
  <2> QED
    BY <2>1, <2>2
<1>6. FreshInv' /\ OffInv'
  BY <1>3 DEF FreshInv, OffInv, IInv, Alone
<1> QED
  BY <1>4, <1>5, <1>6 DEF IInv

-----------------------------------------------------------------------------
(* Types                                                                   *)

\* What one process does next is typed if its new job is.
LEMMA Moves ==
  ASSUME TypeOK, NEW p \in Procs, NEW j \in Jobs, job' = [job EXCEPT ![p] = j]
  PROVE  job' \in [Procs -> Jobs] /\ job'[p] = j /\ Alone(p)
<1>1. job \in [Procs -> Jobs]
  BY DEF TypeOK
<1> QED
  BY <1>1 DEF Alone

\* A job that is over, and the settings nobody has, are typed.
LEMMA IdleTyped ==
  /\ Missing \in Settings
  /\ \A told \in {"none", "done", "failed", "materialized"} : Idle(told) \in Jobs
<1>1. Missing \in Settings
  BY DEF Missing, Settings, Fields, Values, Default, Unset
<1> QED
  BY <1>1 DEF Idle, Jobs, Fields, Values, Default

\* A process that leaves a section or ends is typed.
LEMMA EndsTyped ==
  ASSUME TypeOK, NEW p \in Procs,
         \/ \E told \in {"none", "done", "failed", "materialized"} : Ends(p, told)
         \/ \E to \in Sections : Continues(p, to)
  PROVE  job' \in [Procs -> Jobs] /\ lock' = Nobody
<1>1. job[p] \in Jobs
  BY DEF TypeOK
<1>2. CASE \E told \in {"none", "done", "failed", "materialized"} : Ends(p, told)
  BY <1>2, IdleTyped, Moves DEF Ends
<1>3. CASE \E to \in Sections : Continues(p, to)
  <2> PICK to \in Sections : Continues(p, to)
    BY <1>3
  <2>1. [job[p] EXCEPT !.at = to, !.left = {}, !.seen = Missing] \in Jobs
    BY <1>1, IdleTyped DEF Jobs
  <2> QED
    BY <2>1, Moves DEF Continues
<1> QED
  BY <1>2, <1>3

\* Whatever makes a section give up, the process stays typed.
LEMMA GivesUpTyped ==
  ASSUME TypeOK, NEW p \in Procs, GivesUp(p)
  PROVE  job' \in [Procs -> Jobs] /\ lock' = Nobody
<1>1. "undo" \in Sections /\ "reconcile" \in Sections
  BY DEF Sections
<1>2. \/ Ends(p, "failed")
      \/ \E to \in Sections : Continues(p, to)
  BY <1>1 DEF GivesUp
<1> QED
  BY <1>2, EndsTyped

\* The settings that are published are those of a valid file.
CanonicalTyped ==
  canonical \in Settings
    /\ (canonical.authority = "missing" \/ canonical.generation = 0 => canonical = Missing)

\* Settings with an owner and a generation are valid.
LEMMA Valid ==
  ASSUME canonical' \in Settings, canonical'.authority # "missing", canonical'.generation # 0
  PROVE  CanonicalTyped'
  BY DEF CanonicalTyped

\* A complete file that a section makes is valid.
LEMMA NextSettings ==
  ASSUME NEW authority \in {"legacy", "bloom"}, NEW gen \in Nat \ {0},
         NEW values \in [Fields -> Values], NEW image \in Values \union {Unset},
         canonical' = [authority |-> authority, generation |-> gen, values |-> values, image |-> image]
  PROVE  CanonicalTyped'
<1>1. canonical' \in Settings /\ canonical'.authority # "missing" /\ canonical'.generation # 0
  BY DEF Settings
<1> QED
  BY <1>1 DEF CanonicalTyped

\* Settings are equal to the record of their fields.
LEMMA Fielded ==
  ASSUME NEW old \in Settings
  PROVE  /\ old = [authority |-> old.authority, generation |-> old.generation,
                   values |-> old.values, image |-> old.image]
         /\ old.authority \in {"missing", "legacy", "bloom"} /\ old.generation \in Nat
         /\ old.values \in [Fields -> Values] /\ old.image \in Values \union {Unset}
  BY DEF Settings

\* Who works in a section works on what is canonical, and was permitted to.
LEMMA Reads ==
  ASSUME IInv, NEW p \in Procs, NEW s, Working(p, s)
  PROVE  /\ lock = p /\ job[p].at = s /\ s \in Sections
         /\ job[p] \in Jobs /\ job[p].seen = canonical
         /\ canonical \in Settings /\ canonical.generation + 1 \in Nat \ {0}
         /\ s \notin {"import"} => canonical.authority # "missing" /\ canonical.generation # 0
<1>1. /\ lock = p /\ job[p].at = s /\ job[p].at \in Sections /\ job[p].seen = canonical /\ Permitted(job[p])
  BY DEF Working, IInv, HolderInv
<1>2. job[p] \in Jobs /\ canonical \in Settings /\ canonical.generation \in Nat
  BY DEF IInv, TypeOK, Settings
<1>3. canonical.authority = "missing" \/ canonical.generation = 0 => canonical = Missing
  BY DEF IInv, TypeOK
<1>4. Missing.authority = "missing"
  BY DEF Missing
<1>5. ASSUME s # "import" PROVE canonical # Missing
  <2>1. CASE s = "reconcile"
    BY <1>1, <2>1 DEF Permitted
  <2>2. CASE s # "reconcile"
    <3>1. canonical.authority \in {"legacy", "bloom"}
      BY <1>1, <1>5, <2>2 DEF Permitted
    <3> QED
      BY <3>1, <1>4
  <2> QED
    BY <2>1, <2>2
<1> QED
  BY <1>1, <1>2, <1>3, <1>5

\* TypeOK after a step that keeps Onion's files and what is canonical.
LEMMA StillTyped ==
  ASSUME TypeOK, job' \in [Procs -> Jobs], CanonicalTyped', backup' \in Settings,
         lock' \in Procs \union {Nobody}, UNCHANGED <<onion, profile, keymon, power>>
  PROVE  TypeOK'
  BY DEF TypeOK, CanonicalTyped

\* A step of a command keeps the types.
LEMMA CommandTyped ==
  ASSUME IInv, NEW p \in Procs, Command(p)
  PROVE  TypeOK'
<1>0. /\ TypeOK /\ CanonicalTyped /\ backup \in Settings /\ lock \in Procs \union {Nobody}
      /\ job[p] \in Jobs /\ job \in [Procs -> Jobs] /\ onion \in [Fields -> Values]
  BY DEF IInv, TypeOK, CanonicalTyped
<1>k. ASSUME UNCHANGED canonical PROVE CanonicalTyped'
  BY <1>0, <1>k DEF CanonicalTyped
<1>f. ASSUME NEW left PROVE NextFile(left) \in Fields
  BY DEF NextFile, Fields
<1>1. CASE Enter(p)
  <2>1. [job[p] EXCEPT !.seen = canonical, !.left = Fields] \in Jobs
    BY <1>0 DEF Jobs, CanonicalTyped
  <2>2. job' \in [Procs -> Jobs]
    BY <1>0, <1>1, <2>1, Moves DEF Enter
  <2> QED
    BY <1>0, <1>1, <1>k, <2>2, StillTyped DEF Enter, fileVars
<1>2. CASE Refused(p) \/ Fails(p)
  <2>1. GivesUp(p) /\ UNCHANGED <<fileVars, presses, keymon, power>>
    BY <1>2 DEF Refused, Fails, boundVars
  <2>2. job' \in [Procs -> Jobs] /\ lock' = Nobody
    BY <1>0, <2>1, GivesUpTyped
  <2> QED
    BY <1>0, <1>k, <2>1, <2>2, StillTyped DEF fileVars
<1>3. CASE ReadOnion(p)
  <2> DEFINE f == NextFile(job[p].left)
  <2>1. onion[f] \in Values /\ f \in Fields
    BY <1>0, <1>f
  <2> HIDE DEF f
  <2>2. job[p].found \in [Fields -> Values] /\ job[p].left \in SUBSET Fields
    BY <1>0 DEF Jobs
  <2>3. /\ [job[p].found EXCEPT ![f] = onion[f]] \in [Fields -> Values]
        /\ job[p].left \ {f} \in SUBSET Fields
    BY <2>1, <2>2
  <2>4. [job[p] EXCEPT !.found = [job[p].found EXCEPT ![f] = onion[f]], !.left = job[p].left \ {f}] \in Jobs
    BY <1>0, <2>3 DEF Jobs
  <2>5. job' = [job EXCEPT ![p] = [job[p] EXCEPT !.found = [job[p].found EXCEPT ![f] = onion[f]], !.left = job[p].left \ {f}]]
    BY <1>3 DEF ReadOnion, f
  <2>6. job' \in [Procs -> Jobs]
    BY <1>0, <2>4, <2>5, Moves
  <2> QED
    BY <1>0, <1>3, <1>k, <2>6, StillTyped DEF ReadOnion, fileVars
<1>4. CASE Import(p)
  <2>1. Working(p, "import")
    BY <1>4 DEF Import
  <2>2. job' \in [Procs -> Jobs] /\ lock' = Nobody
    BY <1>0, <1>4, EndsTyped DEF Import, Sections
  <2>3. CanonicalTyped'
    <3>1. CASE UNCHANGED canonical
      BY <3>1, <1>k
    <3>2. CASE ~UNCHANGED canonical
      <4>1. canonical' = [authority |-> "legacy", generation |-> 1,
                          values |-> job[p].found, image |-> job[p].found["system"]]
        BY <1>4, <3>2 DEF Import, Publish
      <4>2. job[p].found \in [Fields -> Values] /\ job[p].found["system"] \in Values
        BY <1>0 DEF Jobs, Fields
      <4> QED
        BY <4>1, <4>2, NextSettings, IdleTyped
    <3> QED
      BY <3>1, <3>2
  <2> QED
    BY <1>0, <1>4, <2>2, <2>3, StillTyped DEF Import
<1>5. CASE Adopt(p)
  <2> DEFINE old == job[p].seen
             same == old.values = job[p].found /\ old.image = job[p].found["system"]
             gen == IF same THEN old.generation ELSE old.generation + 1
  <2>1. PICK s \in {"reconcile", "sync"} : Working(p, s)
    BY <1>5 DEF Adopt
  <2>2. /\ old = canonical /\ old \in Settings /\ old.generation \in Nat /\ old.generation + 1 \in Nat \ {0}
        /\ old.authority \in {"legacy", "bloom"} /\ old.generation # 0
    BY <2>1, Reads, Fielded
  <2>3. job[p].found \in [Fields -> Values] /\ job[p].found["system"] \in Values
    BY <1>0 DEF Jobs, Fields
  <2>4. gen \in Nat
    BY <2>2
  <2>5. job' \in [Procs -> Jobs]
    <3>1. [Idle("none") EXCEPT !.cmd = "activate", !.at = "cutover", !.mark = gen] \in Jobs
      <4> HIDE DEF gen
      <4> QED
        BY <2>4, IdleTyped DEF Jobs, Commands, Sections
    <3>2. Idle("done") \in Jobs
      BY IdleTyped
    <3>3. \E j \in Jobs : job' = [job EXCEPT ![p] = j]
      BY <1>5, <3>1, <3>2 DEF Adopt
    <3> QED
      BY <1>0, <3>3, Moves
  <2>6. CanonicalTyped'
    <3>1. CASE same
      BY <1>5, <1>k, <3>1 DEF Adopt
    <3>2. CASE ~same
      <4>1. canonical' = [old EXCEPT !.generation = old.generation + 1, !.values = job[p].found,
                                      !.image = job[p].found["system"]]
        BY <1>5, <3>2 DEF Adopt, Publish
      <4> HIDE DEF old
      <4>2. canonical' \in Settings /\ canonical'.authority # "missing" /\ canonical'.generation # 0
        BY <4>1, <2>2, <2>3 DEF Settings
      <4> QED
        BY <4>2, Valid
    <3> QED
      BY <3>1, <3>2
  <2> QED
    BY <1>0, <1>5, <2>5, <2>6, StillTyped DEF Adopt
<1>6. CASE Cutover(p)
  <2>1. Working(p, "cutover")
    BY <1>6 DEF Cutover
  <2>2. /\ job[p].seen = canonical /\ canonical.generation + 1 \in Nat \ {0}
        /\ canonical.values \in [Fields -> Values] /\ canonical.image \in Values \union {Unset}
        /\ canonical \in Settings
    BY <2>1, Reads, Fielded
  <2>3. canonical' = [canonical EXCEPT !.authority = "bloom", !.generation = canonical.generation + 1]
    BY <1>6, <2>2 DEF Cutover, Publish
  <2>4. CanonicalTyped'
    <3>1. canonical' \in Settings /\ canonical'.authority = "bloom" /\ canonical'.generation # 0
      BY <2>2, <2>3 DEF Settings
    <3> QED
      BY <3>1, Valid
  <2>5. [job[p] EXCEPT !.at = "materialize", !.left = {}, !.mark = canonical.generation + 1] \in Jobs
    BY <1>0, <2>2 DEF Jobs, Sections
  <2>6. job' \in [Procs -> Jobs]
    BY <1>0, <1>6, <2>2, <2>5, Moves DEF Cutover
  <2> QED
    BY <1>0, <1>6, <2>4, <2>6, StillTyped DEF Cutover
<1>7. CASE Retract(p)
  <2>1. PICK s \in {"undo", "retract"} : Working(p, s)
    BY <1>7 DEF Retract
  <2>2. /\ job[p].seen = canonical /\ canonical.generation + 1 \in Nat \ {0}
        /\ canonical.values \in [Fields -> Values] /\ canonical.image \in Values \union {Unset}
        /\ canonical \in Settings
    BY <2>1, Reads, Fielded
  <2>3. canonical' = [canonical EXCEPT !.authority = "legacy", !.generation = canonical.generation + 1]
    BY <1>7, <2>2 DEF Retract, Publish
  <2>4. CanonicalTyped'
    <3>1. canonical' \in Settings /\ canonical'.authority = "legacy" /\ canonical'.generation # 0
      BY <2>2, <2>3 DEF Settings
    <3> QED
      BY <3>1, Valid
  <2>5. job' \in [Procs -> Jobs] /\ lock' = Nobody
    BY <1>0, <1>7, EndsTyped DEF Retract
  <2> QED
    BY <1>0, <1>7, <2>4, <2>5, StillTyped DEF Retract
<1>8. CASE SetSame(p) \/ Projected(p)
  <2>1. Ends(p, "materialized") /\ UNCHANGED <<fileVars, boundVars, keymon, power>>
    BY <1>8 DEF SetSame, Projected
  <2>2. job' \in [Procs -> Jobs] /\ lock' = Nobody
    BY <1>0, <2>1, EndsTyped
  <2> QED
    BY <1>0, <1>k, <2>1, <2>2, StillTyped DEF fileVars
<1>9. CASE Set(p)
  <2>1. Working(p, "set")
    BY <1>9 DEF Set
  <2>2. /\ job[p].seen = canonical /\ canonical.generation + 1 \in Nat \ {0}
        /\ canonical.values \in [Fields -> Values] /\ canonical.image \in Values \union {Unset}
        /\ canonical \in Settings /\ canonical.authority \in {"legacy", "bloom"}
    BY <2>1, Reads, Fielded
  <2>3. job[p].field \in Fields /\ job[p].value \in Values
    BY <1>0 DEF Jobs
  <2>4. [canonical.values EXCEPT ![job[p].field] = job[p].value] \in [Fields -> Values]
    BY <2>2, <2>3
  <2>5. canonical' = [canonical EXCEPT !.values = [canonical.values EXCEPT ![job[p].field] = job[p].value],
                                       !.generation = canonical.generation + 1]
    BY <1>9, <2>2 DEF Set, Publish
  <2>6. CanonicalTyped'
    <3>1. canonical' \in Settings /\ canonical'.authority # "missing" /\ canonical'.generation # 0
      BY <2>2, <2>4, <2>5 DEF Settings
    <3> QED
      BY <3>1, Valid
  <2>7. [job[p] EXCEPT !.at = "materialize", !.left = {}, !.found = canonical.values] \in Jobs
    BY <1>0, <2>2 DEF Jobs, Sections
  <2>8. job' \in [Procs -> Jobs]
    BY <1>0, <1>9, <2>2, <2>7, Moves DEF Set
  <2> QED
    BY <1>0, <1>9, <2>6, <2>8, StillTyped DEF Set
<1>10. CASE SaveBackup(p)
  <2>1. Working(p, "reset")
    BY <1>10 DEF SaveBackup
  <2>2. [job[p] EXCEPT !.left = {}] \in Jobs /\ job[p].seen \in Settings
    BY <1>0 DEF Jobs
  <2>3. job' \in [Procs -> Jobs]
    BY <1>0, <1>10, <2>2, Moves DEF SaveBackup
  <2> QED
    BY <1>0, <1>10, <1>k, <2>2, <2>3, StillTyped DEF SaveBackup
<1>11. CASE Reset(p)
  <2>1. Working(p, "reset")
    BY <1>11 DEF Reset
  <2>2. /\ job[p].seen = canonical /\ canonical.generation + 1 \in Nat \ {0}
    BY <2>1, Reads
  <2>3. CanonicalTyped'
    <3>1. [f \in Fields |-> Default] \in [Fields -> Values]
      BY DEF Default, Values
    <3>2. canonical' = [authority |-> "bloom", generation |-> canonical.generation + 1,
                        values |-> [f \in Fields |-> Default], image |-> Unset]
      BY <1>11, <2>2 DEF Reset, Publish
    <3> QED
      BY <2>2, <3>1, <3>2, NextSettings, IdleTyped
  <2>4. job' \in [Procs -> Jobs] /\ lock' = Nobody
    BY <1>0, <1>11, EndsTyped DEF Reset, Sections
  <2> QED
    BY <1>0, <1>11, <2>3, <2>4, StillTyped DEF Reset
<1>12. CASE Project(p)
  <2> DEFINE f == NextFile(job[p].left)
  <2>1. [job[p] EXCEPT !.left = job[p].left \ {f}] \in Jobs
    BY <1>0 DEF Jobs
  <2>2. job' \in [Procs -> Jobs]
    BY <1>0, <1>12, <2>1, Moves DEF Project
  <2>3. job[p].seen.values \in [Fields -> Values] /\ f \in Fields
    BY <1>0, <1>f, Fielded DEF Jobs
  <2>4. onion' \in [Fields -> Values]
    BY <1>0, <1>12, <2>3 DEF Project
  <2> QED
    BY <1>0, <1>12, <2>2, <2>4 DEF Project, TypeOK
<1>13. CASE Status(p)
  <2>1. \E j \in Jobs : job' = [job EXCEPT ![p] = j]
    <3>1. /\ [job[p] EXCEPT !.at = "materialize"] \in Jobs /\ [job[p] EXCEPT !.at = "sync"] \in Jobs
          /\ [job[p] EXCEPT !.at = "retract"] \in Jobs
      BY <1>0 DEF Jobs, Sections
    <3>2. Idle("done") \in Jobs
      BY IdleTyped
    <3> QED
      BY <1>13, <3>1, <3>2 DEF Status
  <2>2. job' \in [Procs -> Jobs]
    BY <1>0, <2>1, Moves
  <2> QED
    BY <1>0, <1>13, <1>k, <2>2, StillTyped DEF Status, fileVars
<1> QED
  BY <1>1, <1>2, <1>3, <1>4, <1>5, <1>6, <1>7, <1>8, <1>9, <1>10, <1>11, <1>12, <1>13 DEF Command

\* What keymon holds.
KeymonType == [memory : [Fields -> Values], loaded : [Fields -> Values], reload : BOOLEAN]

\* So do a request and the steps of Onion and of the power supply.
LEMMA OthersTyped ==
  ASSUME IInv,
         \/ \E p \in Clients, cmd \in Requests, f \in Fields, v \in Values : Request(p, cmd, f, v)
         \/ (\E forced \in Values \union {Unset} : LoadSettings(forced)) \/ BootEnds \/ KeymonSaves \/ SaveSettings \/ PowerLoss
         \/ \E f \in Fields, v \in Values : KeyPress(f, v)
  PROVE  TypeOK'
<1>0. /\ TypeOK /\ CanonicalTyped /\ backup \in Settings /\ lock \in Procs \union {Nobody}
      /\ job \in [Procs -> Jobs] /\ onion \in [Fields -> Values]
      /\ keymon \in KeymonType
      /\ profile \in Values \union {Unset}
  BY DEF IInv, TypeOK, CanonicalTyped, KeymonType
<1>r. "runtime" \in Procs /\ Clients \subseteq Procs
  BY DEF Procs
<1>i. Idle("none") \in Jobs
  BY IdleTyped
<1>f. "system" \in Fields /\ "config" \in Fields
  BY DEF Fields
<1>1. CASE \E p \in Clients, cmd \in Requests, f \in Fields, v \in Values : Request(p, cmd, f, v)
  <2>1. PICK p \in Clients, cmd \in Requests, f \in Fields, v \in Values : Request(p, cmd, f, v)
    BY <1>1
  <2> DEFINE at == IF cmd \in {"activate", "rollback"} THEN "status" ELSE cmd
  <2>2. cmd \in Commands /\ at \in Sections \union {"status"}
    BY SettingsAssumption DEF Commands, Sections
  <2> HIDE DEF at
  <2>3. [Idle("none") EXCEPT !.cmd = cmd, !.field = f, !.value = v, !.at = at] \in Jobs
    BY <1>i, <2>2 DEF Jobs
  <2>4. job' = [job EXCEPT ![p] = [Idle("none") EXCEPT !.cmd = cmd, !.field = f, !.value = v, !.at = at]]
    BY <2>1 DEF Request, at
  <2>5. job' \in [Procs -> Jobs]
    BY <1>0, <1>r, <2>3, <2>4, Moves
  <2> QED
    BY <1>0, <2>1, <2>5, StillTyped DEF Request, fileVars, CanonicalTyped
<1>2. ASSUME NEW forced \in Values \union {Unset}, LoadSettings(forced) PROVE TypeOK'
  <2>1. [Idle("none") EXCEPT !.cmd = "boot", !.at = "import"] \in Jobs
    BY <1>i DEF Jobs, Sections
  <2>2. job' \in [Procs -> Jobs]
    BY <1>0, <1>2, <1>r, <2>1, Moves DEF LoadSettings
  <2>3. onion' \in [Fields -> Values]
    BY <1>0, <1>2, <1>f DEF LoadSettings, Values, Unset
  <2> QED
    BY <1>0, <1>2, <2>2, <2>3 DEF LoadSettings, TypeOK
<1>3. CASE BootEnds
  <2>1. keymon' \in KeymonType
    BY <1>0, <1>3 DEF BootEnds, KeymonType
  <2> QED
    BY <1>0, <1>3, <2>1 DEF BootEnds, TypeOK, fileVars, KeymonType
<1>4. CASE \E f \in Fields, v \in Values : KeyPress(f, v)
  <2>1. PICK f \in Fields, v \in Values : KeyPress(f, v)
    BY <1>4
  <2>2. [Idle("none") EXCEPT !.cmd = "keymon", !.at = "save", !.left = Fields] \in Jobs
    BY <1>i DEF Jobs
  <2>3. job' \in [Procs -> Jobs]
    BY <1>0, <1>r, <2>1, <2>2, Moves DEF KeyPress
  <2> DEFINE base == IF keymon.reload THEN onion ELSE keymon.memory
  <2>4. base \in [Fields -> Values]
    BY <1>0 DEF KeymonType
  <2>5. [base EXCEPT ![f] = v] \in [Fields -> Values]
    BY <2>4
  <2>6. (IF keymon.reload THEN onion ELSE keymon.loaded) \in [Fields -> Values]
    BY <1>0 DEF KeymonType
  <2>7. keymon' \in KeymonType
    BY <2>1, <2>5, <2>6 DEF KeyPress, KeymonType
  <2> QED
    BY <1>0, <2>1, <2>3, <2>7 DEF KeyPress, TypeOK, fileVars, KeymonType
<1>5. CASE KeymonSaves
  <2>1. job["runtime"] \in Jobs
    BY <1>0, <1>r
  <2>2. /\ [job["runtime"] EXCEPT !.left = {"system"}] \in Jobs
        /\ [job["runtime"] EXCEPT !.at = "reconcile", !.left = {}] \in Jobs
    BY <2>1, <1>f DEF Jobs, Sections
  <2>3. \E j \in Jobs : job' = [job EXCEPT !["runtime"] = j]
    BY <1>5, <2>2 DEF KeymonSaves
  <2>4. job' \in [Procs -> Jobs]
    BY <1>0, <1>r, <2>3, Moves
  <2>5. onion' \in [Fields -> Values]
    BY <1>0, <1>5, <1>f DEF KeymonSaves, KeymonType
  <2>6. keymon' \in KeymonType
    BY <1>0, <1>5 DEF KeymonSaves, KeymonType
  <2> QED
    BY <1>0, <1>5, <2>4, <2>5, <2>6 DEF KeymonSaves, TypeOK, KeymonType
<1>6. CASE SaveSettings
  BY <1>0, <1>6, <1>f DEF SaveSettings, TypeOK
<1>7. CASE PowerLoss
  <2>1. job' \in [Procs -> Jobs]
    BY <1>7, IdleTyped DEF PowerLoss
  <2> QED
    BY <1>0, <1>7, <2>1 DEF PowerLoss, TypeOK, fileVars
<1> QED
  BY <1>1, <1>2, <1>3, <1>4, <1>5, <1>6, <1>7

-----------------------------------------------------------------------------
(* The invariant is inductive                                              *)

\* It holds at first: nobody runs and nothing is published.
LEMMA InitInv == Init => IInv
<1> SUFFICES ASSUME Init PROVE IInv
  OBVIOUS
<1>1. Nobody \notin Procs
  BY SettingsAssumption DEF Procs, Nobody
<1>2. TypeOK
  <2>1. job \in [Procs -> Jobs]
    BY IdleTyped DEF Init
  <2> QED
    BY <2>1, IdleTyped DEF Init, TypeOK
<1>3. \A p \in Procs : job[p].at = "idle"
  BY DEF Init, Idle
<1>4. HolderInv /\ BackupInv
  BY <1>1 DEF Init, HolderInv, BackupInv
<1>5. ClaimInv /\ FreshInv /\ OffInv
  BY <1>3 DEF ClaimInv, Claims, FreshInv, OffInv
<1> QED
  BY <1>2, <1>4, <1>5 DEF IInv

\* Who is idle, or has an unlocked step to make, does not hold the lock.
LEMMA Outside ==
  ASSUME IInv, NEW p \in Procs, job[p].at \in {"idle", "status", "save"}
  PROVE  lock # p
  BY DEF IInv, HolderInv, Sections

\* Who runs has power.
LEMMA Powered ==
  ASSUME IInv, NEW p \in Procs, lock = p \/ job[p].at # "idle"
  PROVE  power # "off"
  BY DEF IInv, OffInv, HolderInv, Sections

\* What is left of a job that ends.
LEMMA Ended ==
  ASSUME TypeOK, NEW p \in Procs, NEW told, Ends(p, told)
  PROVE  lock' = Nobody /\ lock' # p /\ Alone(p) /\ job'[p].at = "idle" /\ job'[p].mark = 0
<1>1. job' = [job EXCEPT ![p] = Idle(told)] /\ lock' = Nobody
  BY DEF Ends
<1>2. job \in [Procs -> Jobs]
  BY DEF TypeOK
<1> QED
  BY <1>1, <1>2, SettingsAssumption DEF Idle, Alone, Procs, Nobody

\* What changes in a job that goes on with another section.
LEMMA Continued ==
  ASSUME TypeOK, NEW p \in Procs, NEW to, Continues(p, to)
  PROVE  lock' = Nobody /\ lock' # p /\ Alone(p) /\ job'[p].at = to /\ job'[p].mark = job[p].mark
<1>1. /\ job' = [job EXCEPT ![p] = [job[p] EXCEPT !.at = to, !.left = {}, !.seen = Missing]]
      /\ lock' = Nobody
  BY DEF Continues
<1>2. job \in [Procs -> Jobs] /\ job[p] \in Jobs
  BY DEF TypeOK
<1>3. job'[p] = [job[p] EXCEPT !.at = to, !.left = {}, !.seen = Missing] /\ Alone(p)
  BY <1>1, <1>2 DEF Alone
<1>4. job'[p].at = to /\ job'[p].mark = job[p].mark
  BY <1>2, <1>3 DEF Jobs
<1> QED
  BY <1>1, <1>3, <1>4, SettingsAssumption DEF Procs, Nobody

\* A step of a command keeps the invariant: it publishes nothing, or it is the
\* holder's and publishes the next generation.
LEMMA CommandKeeps ==
  ASSUME IInv, NEW p \in Procs, Command(p)
  PROVE  IInv'
<1>0. TypeOK /\ TypeOK' /\ job[p] \in Jobs /\ job \in [Procs -> Jobs]
  BY CommandTyped DEF IInv, TypeOK
<1>1. CASE Enter(p)
  <2>1. job'[p] = [job[p] EXCEPT !.seen = canonical, !.left = Fields] /\ Alone(p)
    BY <1>0, <1>1 DEF Enter, Alone
  <2>2. job'[p].at = job[p].at /\ job'[p].mark = job[p].mark /\ job'[p].seen = canonical /\ job'[p].left = Fields
    BY <1>0, <2>1 DEF Jobs
  <2>3. power # "off" /\ Fields # {}
    BY <1>1, Powered DEF Enter, Sections, Fields
  <2>4. Claims(job'[p]) => Claims(job[p])
    BY <2>2 DEF Claims
  <2>5. job'[p].at \in {"set", "reset", "status"} => job'[p].mark = 0
    BY <2>2 DEF IInv, FreshInv
  <2> QED
    BY <1>0, <1>1, <2>1, <2>2, <2>3, <2>4, <2>5, NoCommit DEF Enter, fileVars
<1>2. CASE Refused(p) \/ Fails(p)
  <2>1. lock = p /\ GivesUp(p) /\ UNCHANGED <<fileVars, presses, keymon, power>>
    BY <1>2 DEF Refused, Fails, boundVars
  <2>2. lock' = Nobody /\ lock' # p /\ Alone(p)
    BY <1>0, <2>1, Ended, Continued DEF GivesUp
  <2>3. \/ job'[p].at = "idle" /\ job'[p].mark = 0
        \/ job'[p].at = "undo" /\ job[p].at = "materialize" /\ job[p].mark # 0 /\ job'[p].mark = job[p].mark
        \/ job'[p].at = "reconcile"
    BY <1>0, <2>1, Ended, Continued DEF GivesUp
  <2>4. Claims(job'[p]) => Claims(job[p]) /\ job'[p].mark = job[p].mark
    BY <2>3 DEF Claims
  <2>5. power # "off"
    BY <2>1, Powered
  <2> QED
    BY <1>0, <2>1, <2>2, <2>3, <2>4, <2>5, NoCommit DEF fileVars
<1>3. CASE ReadOnion(p) \/ SaveBackup(p) \/ Project(p)
  <2>1. PICK s : Working(p, s) /\ s \in {"import", "reconcile", "sync", "reset", "materialize"}
    BY <1>3 DEF ReadOnion, SaveBackup, Project
  <2>2. lock = p /\ job[p].at = s /\ job[p].seen = canonical /\ power # "off"
    BY <2>1, Reads, Powered
  <2>3. /\ job'[p].at = job[p].at /\ job'[p].mark = job[p].mark /\ job'[p].seen = job[p].seen
        /\ Alone(p)
    <3>1. CASE ReadOnion(p)
      BY <1>0, <3>1 DEF ReadOnion, Alone, Jobs
    <3>2. CASE SaveBackup(p)
      BY <1>0, <3>2 DEF SaveBackup, Alone, Jobs
    <3>3. CASE Project(p)
      BY <1>0, <3>3 DEF Project, Alone, Jobs
    <3> QED
      BY <1>3, <3>1, <3>2, <3>3
  <2>4. job'[p].at = "reset" => SaveBackup(p)
    BY <1>3, <2>2, <2>3 DEF ReadOnion, Project, Working
  <2>5. /\ SaveBackup(p) => backup' = canonical
        /\ canonical' = canonical /\ last' = last /\ power' = power /\ lock' = lock
    BY <1>3, <2>2 DEF ReadOnion, SaveBackup, Project, fileVars
  <2>6. Claims(job'[p]) => Claims(job[p])
    BY <2>3 DEF Claims
  <2>7. job'[p].at \in {"set", "reset", "status"} => job'[p].mark = 0
    BY <2>3 DEF IInv, FreshInv
  <2>8. job'[p].at \in Sections
    BY <2>1, <2>2, <2>3, Reads
  <2> QED
    BY <1>0, <2>2, <2>3, <2>4, <2>5, <2>6, <2>7, <2>8, NoCommit
<1>4. CASE Import(p)
  <2>1. lock = p /\ job[p].seen = canonical /\ job[p].at = "import" /\ power # "off"
    BY <1>4, Reads, Powered DEF Import
  <2>2. lock' = Nobody /\ lock' # p /\ Alone(p) /\ job'[p].at \in {"idle", "reconcile"}
    BY <1>0, <1>4, Ended, Continued DEF Import
  <2>3. ~Claims(job'[p]) /\ power' = power /\ backup' = backup
    BY <1>4, <2>2 DEF Claims, Import
  <2>4. CASE UNCHANGED <<canonical, last>>
    BY <1>0, <2>1, <2>2, <2>3, <2>4, NoCommit
  <2>5. CASE ~UNCHANGED <<canonical, last>>
    <3>1. canonical'.generation = canonical.generation + 1
      BY <1>4, <2>1, <2>5 DEF Import, Publish, Missing
    <3> QED
      BY <1>0, <2>1, <2>2, <2>3, <3>1, Committed
  <2> QED
    BY <2>4, <2>5
<1>5. CASE Adopt(p)
  <2>1. PICK s \in {"reconcile", "sync"} : Working(p, s)
    BY <1>5 DEF Adopt
  <2>2. lock = p /\ job[p].seen = canonical /\ canonical \in Settings /\ power # "off"
    BY <2>1, Reads, Powered
  <2>3. lock' = Nobody /\ Alone(p) /\ job'[p].at \in {"idle", "cutover"} /\ power' = power /\ backup' = backup
    <3>1. lock' = Nobody /\ power' = power /\ backup' = backup /\ Alone(p)
      BY <1>0, <1>5 DEF Adopt, Alone
    <3>2. job'[p].at \in {"idle", "cutover"}
      BY <1>0, <1>5 DEF Adopt, Idle
    <3> QED
      BY <3>1, <3>2
  <2>4. ~Claims(job'[p]) /\ lock' # p
    BY <2>3, SettingsAssumption DEF Claims, Procs, Nobody
  <2>5. CASE UNCHANGED <<canonical, last>>
    BY <1>0, <2>2, <2>3, <2>4, <2>5, NoCommit
  <2>6. CASE ~UNCHANGED <<canonical, last>>
    <3>1. canonical'.generation = canonical.generation + 1
      BY <1>5, <2>2, <2>6 DEF Adopt, Publish, Settings
    <3> QED
      BY <1>0, <2>2, <2>3, <2>4, <3>1, Committed
  <2> QED
    BY <2>5, <2>6
<1>6. CASE Cutover(p)
  <2>1. lock = p /\ job[p].seen = canonical /\ canonical \in Settings /\ job[p].at = "cutover"
    BY <1>6, Reads DEF Cutover
  <2>2. canonical'.generation = canonical.generation + 1 /\ last' = "cutover"
    BY <1>6, <2>1 DEF Cutover, Publish, Settings
  <2>3. /\ job'[p].mark = canonical.generation + 1 /\ job'[p].at = "materialize" /\ Alone(p)
    BY <1>0, <1>6, <2>1 DEF Cutover, Alone, Jobs
  <2> QED
    BY <1>0, <1>6, <2>1, <2>2, <2>3, Committed DEF Cutover
<1>7. CASE Retract(p)
  <2>1. PICK s \in {"undo", "retract"} : Working(p, s)
    BY <1>7 DEF Retract
  <2>2. lock = p /\ job[p].seen = canonical /\ canonical \in Settings
    BY <2>1, Reads
  <2>3. canonical'.generation = canonical.generation + 1
    BY <1>7, <2>2 DEF Retract, Publish, Settings
  <2>4. lock' = Nobody /\ Alone(p) /\ job'[p].at = "idle"
    BY <1>0, <1>7 DEF Retract, Ends, Alone, Idle
  <2> QED
    BY <1>0, <1>7, <2>2, <2>3, <2>4, Committed DEF Retract, Claims
<1>8. CASE SetSame(p) \/ Projected(p)
  <2>1. PICK s : Working(p, s)
    BY <1>8 DEF SetSame, Projected
  <2>2. lock = p /\ power # "off"
    BY <2>1, Powered DEF Working
  <2>3. Ends(p, "materialized") /\ UNCHANGED <<fileVars, boundVars, keymon, power>>
    BY <1>8 DEF SetSame, Projected
  <2>4. lock' = Nobody /\ Alone(p) /\ job'[p].at = "idle" /\ lock' # p
    BY <1>0, <2>3, SettingsAssumption DEF Ends, Alone, Idle, Procs, Nobody
  <2> QED
    BY <1>0, <2>2, <2>3, <2>4, NoCommit DEF fileVars, Claims
<1>9. CASE Set(p) \/ Reset(p)
  <2>1. PICK s \in {"set", "reset"} : Working(p, s)
    BY <1>9 DEF Set, Reset
  <2>2. lock = p /\ job[p].seen = canonical /\ canonical \in Settings /\ job[p].at = s
    BY <2>1, Reads
  <2>3. job[p].mark = 0 /\ power' = power
    BY <1>9, <2>2 DEF IInv, FreshInv, Set, Reset
  <2>4. canonical'.generation = canonical.generation + 1
    <3>1. CASE Set(p)
      BY <2>2, <3>1 DEF Set, Publish, Settings
    <3>2. CASE Reset(p)
      BY <2>2, <3>2 DEF Reset, Publish
    <3> QED
      BY <1>9, <3>1, <3>2
  <2>5. lock' = Nobody /\ Alone(p) /\ job'[p].at = "materialize" /\ job'[p].mark = job[p].mark
    <3>1. CASE Set(p)
      BY <1>0, <3>1 DEF Set, Alone, Jobs
    <3>2. CASE Reset(p)
      BY <1>0, <3>2, Continued DEF Reset
    <3> QED
      BY <1>9, <3>1, <3>2
  <2> QED
    BY <1>0, <2>2, <2>3, <2>4, <2>5, Committed DEF Claims
<1>10. CASE Status(p)
  <2>1. job[p].at = "status" /\ job[p].mark = 0 /\ lock # p /\ power # "off"
    BY <1>10, Outside, Powered DEF Status, IInv, FreshInv
  <2>2. Alone(p) /\ job'[p].mark = 0 /\ job'[p].at \in {"idle", "materialize", "sync", "retract"}
    BY <1>0, <1>10, <2>1 DEF Status, Alone, Jobs, Idle
  <2> QED
    BY <1>0, <1>10, <2>1, <2>2, NoCommit DEF Status, fileVars, Claims
<1> QED
  BY <1>1, <1>2, <1>3, <1>4, <1>5, <1>6, <1>7, <1>8, <1>9, <1>10 DEF Command

\* Nothing else publishes, and nothing else is done under the lock.
LEMMA OthersKeep ==
  ASSUME IInv,
         \/ \E p \in Clients, cmd \in Requests, f \in Fields, v \in Values : Request(p, cmd, f, v)
         \/ (\E forced \in Values \union {Unset} : LoadSettings(forced)) \/ BootEnds \/ KeymonSaves \/ SaveSettings \/ PowerLoss
         \/ \E f \in Fields, v \in Values : KeyPress(f, v)
  PROVE  IInv' /\ canonical' = canonical /\ last' = last
<1>0. TypeOK /\ TypeOK' /\ job \in [Procs -> Jobs]
  BY OthersTyped DEF IInv, TypeOK
<1>r. "runtime" \in Procs /\ Clients \subseteq Procs
  BY DEF Procs
<1>1. CASE \E p \in Clients, cmd \in Requests, f \in Fields, v \in Values : Request(p, cmd, f, v)
  <2>1. PICK p \in Clients, cmd \in Requests, f \in Fields, v \in Values : Request(p, cmd, f, v)
    BY <1>1
  <2>2. lock # p /\ power = "on" /\ p \in Procs
    BY <1>r, <2>1, Outside DEF Request
  <2>3. Alone(p) /\ job'[p].mark = 0 /\ job'[p].at \in {"status", cmd} /\ cmd \in Commands
    BY <1>0, <2>1, <2>2, SettingsAssumption DEF Request, Alone, Idle
  <2>4. cmd # "undo" /\ ~Claims(job'[p])
    BY <2>3 DEF Claims, Commands
  <2> QED
    BY <1>0, <2>1, <2>2, <2>3, <2>4, NoCommit DEF Request, fileVars
<1>2. ASSUME NEW forced \in Values \union {Unset}, LoadSettings(forced) PROVE IInv' /\ canonical' = canonical /\ last' = last
  <2>1. \A p \in Procs : job[p].at = "idle" /\ lock # p
    BY <1>2, Outside DEF LoadSettings, IInv, OffInv
  <2>2. Alone("runtime") /\ job'["runtime"].mark = 0 /\ job'["runtime"].at = "import"
    BY <1>0, <1>r, <1>2 DEF LoadSettings, Alone, Idle
  <2> QED
    BY <1>0, <1>r, <1>2, <2>1, <2>2, NoCommit DEF LoadSettings, Claims
<1>3. CASE BootEnds \/ SaveSettings
  <2>1. UNCHANGED <<job, lock, canonical, backup, last>> /\ power' = "on"
    BY <1>3 DEF BootEnds, SaveSettings, fileVars
  <2>2. Alone("runtime") /\ (lock = "runtime" => job["runtime"].at \in Sections /\ job["runtime"].seen = canonical)
    BY <1>r, <2>1 DEF Alone, IInv, HolderInv
  <2>3. lock = "runtime" /\ job["runtime"].at = "reset" /\ job["runtime"].left = {} => backup = job["runtime"].seen
    BY <1>r DEF IInv, BackupInv
  <2>4. job["runtime"].at \in {"set", "reset", "status"} => job["runtime"].mark = 0
    BY <1>r DEF IInv, FreshInv
  <2> QED
    BY <1>0, <1>r, <2>1, <2>2, <2>3, <2>4, NoCommit DEF Claims
<1>4. CASE \E f \in Fields, v \in Values : KeyPress(f, v)
  <2>1. PICK f \in Fields, v \in Values : KeyPress(f, v)
    BY <1>4
  <2>2. lock # "runtime" /\ power = "on"
    BY <1>r, <2>1, Outside DEF KeyPress
  <2>3. Alone("runtime") /\ job'["runtime"].mark = 0 /\ job'["runtime"].at = "save"
    BY <1>0, <1>r, <2>1 DEF KeyPress, Alone, Idle
  <2> QED
    BY <1>0, <1>r, <2>1, <2>2, <2>3, NoCommit DEF KeyPress, fileVars, Claims
<1>5. CASE KeymonSaves
  <2>1. lock # "runtime" /\ power # "off"
    BY <1>r, <1>5, Outside, Powered DEF KeymonSaves
  <2>2. job["runtime"] \in Jobs /\ job["runtime"].at = "save"
    BY <1>0, <1>r, <1>5 DEF KeymonSaves
  <2>3. /\ [job["runtime"] EXCEPT !.left = {"system"}].at = "save"
        /\ [job["runtime"] EXCEPT !.at = "reconcile", !.left = {}].at = "reconcile"
    BY <2>2 DEF Jobs
  <2>4. \E j : job' = [job EXCEPT !["runtime"] = j] /\ j.at \in {"save", "reconcile"}
    BY <1>5, <2>3 DEF KeymonSaves
  <2>5. Alone("runtime") /\ job'["runtime"].at \in {"save", "reconcile"}
    BY <1>0, <1>r, <2>4 DEF Alone
  <2> QED
    BY <1>0, <1>r, <1>5, <2>1, <2>5, NoCommit DEF KeymonSaves, Claims
<1>6. CASE PowerLoss
  <2>1. Nobody \notin Procs
    BY SettingsAssumption DEF Procs, Nobody
  <2>2. \A p \in Procs : job'[p].at = "idle"
    BY <1>6 DEF PowerLoss, Idle
  <2>3. HolderInv' /\ BackupInv'
    BY <1>6, <2>1 DEF PowerLoss, HolderInv, BackupInv
  <2>4. ClaimInv' /\ FreshInv' /\ OffInv'
    BY <2>2 DEF ClaimInv, Claims, FreshInv, OffInv
  <2>5. IInv'
    BY <1>0, <2>3, <2>4 DEF IInv
  <2> QED
    BY <1>6, <2>5 DEF PowerLoss, fileVars
<1>7. canonical' = canonical /\ last' = last
  BY <1>1, <1>2, <1>3, <1>4, <1>5, <1>6
     DEF Request, LoadSettings, BootEnds, KeyPress, KeymonSaves, SaveSettings, PowerLoss, fileVars
<1> QED
  BY <1>1, <1>2, <1>3, <1>4, <1>5, <1>6, <1>7

LEMMA StepKeeps == IInv /\ [Next]_vars => IInv'
<1> SUFFICES ASSUME IInv, [Next]_vars PROVE IInv'
  OBVIOUS
<1>1. CASE Next
  BY <1>1, CommandKeeps, OthersKeep DEF Next
<1>2. CASE UNCHANGED vars
  <2>1. TypeOK'
    BY <1>2 DEF vars, fileVars, boundVars, IInv, TypeOK
  <2>2. /\ HolderInv' /\ BackupInv' /\ ClaimInv' /\ FreshInv' /\ OffInv'
    BY <1>2 DEF vars, fileVars, boundVars, IInv, HolderInv, BackupInv, ClaimInv, Claims, FreshInv, OffInv
  <2> QED
    BY <2>1, <2>2 DEF IInv
<1> QED
  BY <1>1, <1>2

LEMMA Invariance == Spec => []IInv
  BY InitInv, StepKeeps, PTL DEF Spec

-----------------------------------------------------------------------------
(* What a commit is                                                        *)

\* A step that changes the canonical file is a section's: it read the file it
\* replaces, publishes the next generation, and a section that takes a cutover
\* back or resets was entitled to.
LEMMA CommitStep ==
  ASSUME IInv, [Next]_vars, canonical' # canonical
  PROVE  /\ canonical'.generation = canonical.generation + 1
         /\ last' = "undo" => last = "cutover"
         /\ last' = "reset" => backup = canonical
<1>1. PICK p \in Procs : Command(p)
  BY OthersKeep DEF Next, vars, fileVars
<1>2. Import(p) \/ Adopt(p) \/ Cutover(p) \/ Retract(p) \/ Set(p) \/ Reset(p)
  BY <1>1 DEF Command, Enter, Refused, Fails, ReadOnion, SetSame, SaveBackup, Project, Projected,
              Status, fileVars
<1>3. PICK s : Working(p, s) /\ s \in {"import", "reconcile", "sync", "cutover", "undo", "retract", "set", "reset"}
  BY <1>2 DEF Import, Adopt, Cutover, Retract, Set, Reset
<1>4. lock = p /\ job[p].at = s /\ job[p].seen = canonical /\ canonical \in Settings /\ Permitted(job[p])
  BY <1>3, Reads DEF Working
<1>5. last' = s
  BY <1>2, <1>4 DEF Import, Adopt, Cutover, Retract, Set, Reset, Publish
<1>6. canonical'.generation = canonical.generation + 1
  <2>1. CASE Import(p)
    BY <1>4, <2>1 DEF Import, Publish, Missing
  <2>2. CASE Adopt(p)
    BY <1>4, <2>2 DEF Adopt, Publish, Settings
  <2>3. CASE Cutover(p)
    BY <1>4, <2>3 DEF Cutover, Publish, Settings
  <2>4. CASE Retract(p)
    BY <1>4, <2>4 DEF Retract, Publish, Settings
  <2>5. CASE Set(p)
    BY <1>4, <2>5 DEF Set, Publish, Settings
  <2>6. CASE Reset(p)
    BY <1>4, <2>6 DEF Reset, Publish, Settings
  <2> QED
    BY <1>2, <2>1, <2>2, <2>3, <2>4, <2>5, <2>6
<1>7. ASSUME s = "undo" PROVE last = "cutover"
  BY <1>4, <1>7 DEF Permitted, IInv, ClaimInv, Claims
<1>8. ASSUME s = "reset" PROVE backup = canonical
  <2>1. Reset(p)
    BY <1>2, <1>4, <1>8 DEF Import, Adopt, Cutover, Retract, Set, Working
  <2> QED
    BY <1>4, <1>8, <2>1 DEF Reset, IInv, BackupInv
<1> QED
  BY <1>5, <1>6, <1>7, <1>8

-----------------------------------------------------------------------------
(* The theorems                                                            *)

\* Whatever is interrupted, refused or fails, the files always hold complete
\* and valid settings (write_atomic, validate_settings_root).
THEOREM Typed == Spec => []TypeOK
<1>1. IInv => TypeOK
  BY DEF IInv
<1> QED
  BY <1>1, Invariance, PTL

\* No commit of bloom-settings is lost, whoever runs beside it.
THEOREM CommitsNeverLost == Spec => CommitsInOrder
<1>1. IInv /\ [Next]_vars =>
        [canonical' # canonical => canonical'.generation = canonical.generation + 1]_canonical
  BY CommitStep
<1> QED
  BY <1>1, Invariance, PTL DEF Spec, CommitsInOrder

\* An activation that fails never takes back anything but its own cutover.
THEOREM RollbackIsOwn == Spec => RollbackSparesCommits
<1>1. IInv /\ [Next]_vars => [canonical' # canonical /\ last' = "undo" => last = "cutover"]_<<canonical, last>>
  BY CommitStep
<1> QED
  BY <1>1, Invariance, PTL DEF Spec, RollbackSparesCommits

\* A reset replaces only what its backup holds.
THEOREM ResetIsBackedUp == Spec => ResetKeepsBackup
<1>1. IInv /\ [Next]_vars => [canonical' # canonical /\ last' = "reset" => backup = canonical]_<<canonical, last>>
  BY CommitStep
<1> QED
  BY <1>1, Invariance, PTL DEF Spec, ResetKeepsBackup
-----------------------------------------------------------------------------
(* Projections                                                             *)

\* What p has written of its projection is in Onion's files.
Written(p) == \A f \in Fields \ job[p].left : onion[f] = job[p].seen.values[f]

\* A job that goes on has told nothing, and as long as no key was pressed nobody but a
\* projection under the lock writes Onion's files.
ProjectInv ==
  /\ presses \in Nat
  /\ \A p \in Procs : job[p].at # "idle" => job[p].told = "none"
  /\ job["runtime"].at = "save" => presses > 0
  /\ presses = 0 => \A p \in Procs : lock = p /\ job[p].at = "materialize" => Written(p)

\* What a step of a command says of its own job.
LEMMA CommandTells ==
  ASSUME IInv, ProjectInv, NEW p \in Procs, Command(p)
  PROVE  /\ Alone(p) /\ job'[p].at # "save" /\ presses' = presses
         /\ job'[p].at # "idle" => job'[p].told = "none"
         /\ job'[p].told = "materialized" => Projected(p) \/ SetSame(p)
         /\ lock' \in {p, lock, Nobody}
         /\ lock' = p /\ job'[p].at = "materialize" =>
              Project(p) \/ (job'[p].left = Fields /\ UNCHANGED onion)
         /\ onion' = onion \/ Project(p)
<1>0. /\ job[p] \in Jobs /\ job \in [Procs -> Jobs] /\ TypeOK /\ p # Nobody
  BY SettingsAssumption DEF IInv, TypeOK, Procs, Nobody
<1>1. CASE Enter(p)
  <2>1. job'[p] = [job[p] EXCEPT !.seen = canonical, !.left = Fields] /\ Alone(p)
    BY <1>0, <1>1 DEF Enter, Alone
  <2>2. /\ job'[p].at = job[p].at /\ job'[p].left = Fields /\ job'[p].told = job[p].told
        /\ job[p].at \in Sections
    BY <1>0, <1>1, <2>1 DEF Jobs, Enter
  <2>3. job[p].told = "none" /\ job[p].at # "save" BY <2>2 DEF ProjectInv, Sections
  <2> QED BY <1>1, <2>1, <2>2, <2>3 DEF Enter, fileVars, boundVars
<1>2. CASE Refused(p) \/ Fails(p)
  <2>1. /\ lock = p /\ GivesUp(p) /\ UNCHANGED <<onion, presses>>
    BY <1>2 DEF Refused, Fails, boundVars, fileVars
  <2>2. job[p].told = "none" BY <2>1 DEF ProjectInv, IInv, HolderInv, Sections
  <2>3. \/ Ends(p, "failed")
        \/ \E to \in {"undo", "reconcile"} : Continues(p, to)
    BY <2>1 DEF GivesUp
  <2>4. CASE Ends(p, "failed")
    <3>1. job'[p] = Idle("failed") /\ lock' = Nobody /\ Alone(p) BY <1>0, <2>4 DEF Ends, Alone
    <3> QED BY <1>0, <2>1, <3>1 DEF Idle
  <2>5. ASSUME NEW to \in {"undo", "reconcile"}, Continues(p, to)
        PROVE /\ lock' = Nobody /\ Alone(p) /\ job'[p].at = to /\ job'[p].told = "none"
    <3>1. job'[p] = [job[p] EXCEPT !.at = to, !.left = {}, !.seen = Missing] /\ lock' = Nobody /\ Alone(p)
      BY <1>0, <2>5 DEF Continues, Alone
    <3>2. job'[p].at = to /\ job'[p].told = job[p].told BY <1>0, <3>1 DEF Jobs
    <3> QED BY <2>2, <3>1, <3>2
  <2> QED BY <1>0, <2>1, <2>3, <2>4, <2>5
<1>3. CASE ReadOnion(p) \/ SaveBackup(p) \/ Project(p)
  <2>1. PICK s : Working(p, s) /\ s \in {"import", "reconcile", "sync", "reset", "materialize"}
                 /\ (s = "materialize" => Project(p))
    BY <1>3 DEF ReadOnion, SaveBackup, Project
  <2>2. lock = p /\ job[p].at = s BY <2>1, Reads
  <2>3. job'[p].at = job[p].at /\ job'[p].told = job[p].told /\ Alone(p)
    <3>1. CASE ReadOnion(p) BY <1>0, <3>1 DEF ReadOnion, Alone, Jobs
    <3>2. CASE SaveBackup(p) BY <1>0, <3>2 DEF SaveBackup, Alone, Jobs
    <3>3. CASE Project(p) BY <1>0, <3>3 DEF Project, Alone, Jobs
    <3> QED BY <1>3, <3>1, <3>2, <3>3
  <2>4. lock' = lock /\ presses' = presses /\ (onion' = onion \/ Project(p))
    BY <1>3 DEF ReadOnion, SaveBackup, Project, fileVars, boundVars
  <2>5. job[p].told = "none" BY <2>1, <2>2 DEF ProjectInv
  <2> QED BY <2>1, <2>2, <2>3, <2>4, <2>5
<1>4. CASE Import(p) \/ Cutover(p) \/ Retract(p) \/ Set(p) \/ Reset(p) \/ Adopt(p)
  <2>1. PICK s \in Sections : Working(p, s)
    BY <1>4, Reads DEF Import, Cutover, Retract, Set, Reset, Adopt
  <2>2. lock = p /\ job[p].at = s /\ s # "idle" BY <2>1, Reads DEF Sections
  <2>3. job[p].told = "none" BY <2>2 DEF ProjectInv
  <2>4. lock' = Nobody /\ UNCHANGED <<onion, presses>>
    BY <1>4 DEF Import, Cutover, Retract, Set, Reset, Adopt, Ends, Continues, boundVars
  <2>5. /\ Alone(p) /\ job'[p].at # "save"
        /\ job'[p].at # "idle" => job'[p].told = "none"
        /\ job'[p].told # "materialized"
    <3>1. CASE Import(p)
      <4>1. Continues(p, "reconcile") \/ Ends(p, "done") BY <3>1 DEF Import
      <4>2. CASE Continues(p, "reconcile")
        BY <1>0, <2>3, <4>2 DEF Continues, Alone, Jobs
      <4>3. CASE Ends(p, "done") BY <1>0, <4>3 DEF Ends, Alone, Idle
      <4> QED BY <4>1, <4>2, <4>3
    <3>2. CASE Cutover(p)
      BY <1>0, <2>3, <3>2 DEF Cutover, Alone, Jobs
    <3>3. CASE Retract(p)
      BY <1>0, <3>3 DEF Retract, Ends, Alone, Idle
    <3>4. CASE Set(p)
      BY <1>0, <2>3, <3>4 DEF Set, Alone, Jobs
    <3>5. CASE Reset(p)
      BY <1>0, <2>3, <3>5 DEF Reset, Continues, Alone, Jobs
    <3>6. CASE Adopt(p)
      BY <1>0, <3>6 DEF Adopt, Alone, Idle
    <3> QED BY <1>4, <3>1, <3>2, <3>3, <3>4, <3>5, <3>6
  <2> QED BY <1>0, <2>4, <2>5
<1>5. CASE SetSame(p) \/ Projected(p)
  <2>1. Ends(p, "materialized") /\ UNCHANGED <<onion, presses>>
    BY <1>5 DEF SetSame, Projected, fileVars, boundVars
  <2>2. job'[p] = Idle("materialized") /\ lock' = Nobody /\ Alone(p)
    BY <1>0, <2>1 DEF Ends, Alone
  <2> QED BY <1>0, <1>5, <2>1, <2>2 DEF Idle
<1>6. CASE Status(p)
  <2>1. lock # p /\ job[p].told = "none" /\ UNCHANGED <<onion, presses, lock>> /\ Alone(p)
    BY <1>0, <1>6, Outside DEF Status, ProjectInv, fileVars, boundVars, Alone
  <2>2. \/ job'[p] = Idle("done")
        \/ \E at \in {"materialize", "sync", "retract"} : job'[p] = [job[p] EXCEPT !.at = at]
    BY <1>0, <1>6 DEF Status
  <2>3. /\ job'[p].at # "save" /\ (job'[p].at # "idle" => job'[p].told = "none")
        /\ job'[p].told # "materialized"
    BY <1>0, <2>1, <2>2 DEF Idle, Jobs
  <2> QED BY <1>0, <2>1, <2>3
<1> QED BY <1>1, <1>2, <1>3, <1>4, <1>5, <1>6 DEF Command

\* A projection writes the file it takes from what is left.
LEMMA ProjectWrites ==
  ASSUME IInv, ProjectInv, presses = 0, NEW p \in Procs, Project(p)
  PROVE  Written(p)'
<1>0. /\ job[p] \in Jobs /\ job \in [Procs -> Jobs] /\ onion \in [Fields -> Values]
  BY DEF IInv, TypeOK
<1>1. lock = p /\ job[p].at = "materialize" /\ Written(p)
  BY Reads DEF Project, ProjectInv, Working
<1>2. DEFINE f == NextFile(job[p].left)
<1>3. /\ onion' = [onion EXCEPT ![f] = job[p].seen.values[f]]
      /\ job'[p] = [job[p] EXCEPT !.left = job[p].left \ {f}]
  BY <1>0 DEF Project
<1>4. job'[p].left = job[p].left \ {f} /\ job'[p].seen = job[p].seen BY <1>0, <1>3 DEF Jobs
<1> QED BY <1>0, <1>1, <1>3, <1>4 DEF Written

LEMMA ProjectKept ==
  ASSUME IInv, IInv', ProjectInv, [Next]_vars
  PROVE  ProjectInv'
<1>0. /\ job \in [Procs -> Jobs] /\ Nobody \notin Procs /\ "runtime" \in Procs /\ presses \in Nat
  BY SettingsAssumption DEF IInv, TypeOK, Procs, Nobody, ProjectInv
<1>1. ASSUME NEW p \in Procs, Command(p) PROVE ProjectInv'
  <2>1. /\ Alone(p) /\ job'[p].at # "save" /\ presses' = presses
        /\ job'[p].at # "idle" => job'[p].told = "none"
        /\ lock' \in {p, lock, Nobody}
        /\ lock' = p /\ job'[p].at = "materialize" =>
             Project(p) \/ (job'[p].left = Fields /\ UNCHANGED onion)
        /\ onion' = onion \/ Project(p)
    BY <1>1, CommandTells
  <2>2. ASSUME presses' = 0, NEW q \in Procs, lock' = q, job'[q].at = "materialize"
        PROVE Written(q)'
    <3>1. CASE q = p
      <4>1. CASE Project(p) BY <2>1, <2>2, <3>1, <4>1, ProjectWrites
      <4>2. CASE job'[p].left = Fields BY <3>1, <4>2 DEF Written
      <4> QED BY <2>1, <2>2, <3>1, <4>1, <4>2
    <3>2. CASE q # p
      <4>1. lock = q /\ job'[q] = job[q] BY <1>0, <2>1, <2>2, <3>2 DEF Alone
      <4>2. ~Project(p) BY <3>2, <4>1 DEF Project, Working
      <4>3. Written(q) BY <2>1, <2>2, <4>1 DEF ProjectInv
      <4> QED BY <2>1, <4>1, <4>2, <4>3 DEF Written
    <3> QED BY <3>1, <3>2
  <2>3. ASSUME NEW q \in Procs, job'[q].at # "idle" PROVE job'[q].told = "none"
    BY <2>1, <2>3 DEF ProjectInv, Alone
  <2>4. job'["runtime"].at = "save" => presses' > 0
    BY <1>0, <2>1 DEF ProjectInv, Alone
  <2>5. presses' \in Nat BY <1>0, <2>1
  <2> QED BY <2>2, <2>3, <2>4, <2>5 DEF ProjectInv
<1>2. ASSUME NEW p \in Clients, NEW cmd \in Requests, NEW f \in Fields, NEW v \in Values,
             Request(p, cmd, f, v)
      PROVE ProjectInv'
  <2>1. p \in Procs /\ p # "runtime" /\ Alone(p) /\ job'[p].told = "none"
    BY <1>0, <1>2, SettingsAssumption DEF Request, Procs, Alone, Idle
  <2>2. lock # p /\ UNCHANGED <<lock, onion, presses>>
    BY <1>2, <2>1, Outside DEF Request, fileVars, boundVars
  <2>3. ASSUME NEW q \in Procs, job'[q].at # "idle" PROVE job'[q].told = "none"
    BY <2>1, <2>3 DEF ProjectInv, Alone
  <2>4. job'["runtime"].at = "save" => presses' > 0
    BY <1>0, <2>1, <2>2 DEF ProjectInv, Alone
  <2>5. ASSUME presses' = 0, NEW q \in Procs, lock' = q, job'[q].at = "materialize"
        PROVE Written(q)'
    <3>1. job'[q] = job[q] /\ lock = q BY <2>1, <2>2, <2>5 DEF Alone
    <3>2. Written(q) BY <2>2, <2>5, <3>1 DEF ProjectInv
    <3> QED BY <2>2, <3>1, <3>2 DEF Written
  <2> QED BY <1>0, <2>2, <2>3, <2>4, <2>5 DEF ProjectInv
<1>3. ASSUME NEW forced \in Values \union {Unset}, LoadSettings(forced) PROVE ProjectInv'
  <2>1. \A p \in Procs : job[p].at = "idle" /\ lock # p
    BY <1>3, Outside DEF LoadSettings, IInv, OffInv
  <2>2. /\ job'["runtime"].at = "import" /\ job'["runtime"].told = "none"
        /\ \A p \in Procs : p # "runtime" => job'[p] = job[p]
    BY <1>0, <1>3 DEF LoadSettings, Idle
  <2>3. lock' = lock /\ presses' = presses BY <1>3 DEF LoadSettings, boundVars
  <2> QED BY <1>0, <2>1, <2>2, <2>3 DEF ProjectInv
<1>4. CASE BootEnds \/ SaveSettings
  BY <1>4 DEF BootEnds, SaveSettings, ProjectInv, Written, fileVars, boundVars
<1>5. ASSUME NEW f \in Fields, NEW v \in Values, KeyPress(f, v) PROVE ProjectInv'
  <2>1. presses' = presses + 1 BY <1>5 DEF KeyPress
  <2>2. /\ job'["runtime"].told = "none" /\ \A p \in Procs : p # "runtime" => job'[p] = job[p]
    BY <1>0, <1>5 DEF KeyPress, Idle
  <2>3. presses' > 0 /\ presses' # 0 /\ presses' \in Nat BY <1>0, <2>1
  <2> QED BY <2>2, <2>3 DEF ProjectInv
<1>6. CASE KeymonSaves
  <2>1. job["runtime"].at = "save" /\ presses > 0 /\ presses' = presses
    BY <1>6 DEF KeymonSaves, ProjectInv, boundVars
  <2>2. job["runtime"].told = "none" BY <1>0, <2>1 DEF ProjectInv
  <2>3. /\ job'["runtime"].told = job["runtime"].told
        /\ \A p \in Procs : p # "runtime" => job'[p] = job[p]
    BY <1>0, <1>6 DEF KeymonSaves, Jobs
  <2>4. presses' > 0 /\ presses' # 0 /\ presses' \in Nat BY <1>0, <2>1
  <2> QED BY <1>0, <2>2, <2>3, <2>4 DEF ProjectInv
<1>7. CASE PowerLoss
  <2>1. presses' = presses /\ \A p \in Procs : job'[p].at = "idle"
    BY <1>7 DEF PowerLoss, Idle, boundVars
  <2> QED BY <1>0, <2>1 DEF ProjectInv
<1>8. CASE UNCHANGED vars
  BY <1>8 DEF vars, fileVars, boundVars, ProjectInv, Written
<1> QED BY <1>1, <1>2, <1>3, <1>4, <1>5, <1>6, <1>7, <1>8 DEF Next

\* A projection that reports success has written what is canonical.
LEMMA ProjectionStep ==
  ASSUME IInv, ProjectInv, [Next]_vars, NEW p \in Clients, presses = 0, lock = p,
         job[p].at = "materialize", job'[p].told = "materialized"
  PROVE  onion = canonical.values
<1>0. /\ p \in Procs /\ p # "runtime" /\ job \in [Procs -> Jobs] /\ onion \in [Fields -> Values]
      /\ canonical.values \in [Fields -> Values]
      /\ job[p].seen = canonical /\ job[p].told = "none" /\ Written(p)
  BY SettingsAssumption DEF IInv, TypeOK, HolderInv, ProjectInv, Procs, Settings
<1>1. job'[p] # job[p] BY <1>0
<1>2. \A q \in Procs : Command(q) => Alone(q) /\ (q = p => Projected(p) \/ SetSame(p))
  BY CommandTells
<1>3. Command(p)
  <2>1. ASSUME NEW q \in Clients, NEW cmd \in Requests, NEW f \in Fields, NEW v \in Values,
               Request(q, cmd, f, v)
        PROVE FALSE
    BY <1>0, <1>1, <2>1 DEF Request, Procs
  <2>2. CASE PowerLoss BY <1>0, <2>2 DEF PowerLoss, Idle
  <2>3. \A forced \in Values \union {Unset} : ~LoadSettings(forced) BY <1>0, <1>1 DEF LoadSettings
  <2>4. ~BootEnds /\ ~SaveSettings /\ ~UNCHANGED vars BY <1>1 DEF BootEnds, SaveSettings, vars
  <2>5. \A f \in Fields, v \in Values : ~KeyPress(f, v) BY <1>0, <1>1 DEF KeyPress
  <2>6. ~KeymonSaves BY <1>0, <1>1 DEF KeymonSaves
  <2>7. \A q \in Procs : Command(q) => q = p BY <1>0, <1>1, <1>2 DEF Alone
  <2> QED BY <2>1, <2>2, <2>3, <2>4, <2>5, <2>6, <2>7 DEF Next
<1>4. ~SetSame(p) BY DEF SetSame, Working
<1>5. job[p].left = {} BY <1>0, <1>2, <1>3, <1>4 DEF Projected
<1>6. \A f \in Fields : onion[f] = canonical.values[f] BY <1>0, <1>5 DEF Written
<1> QED BY <1>0, <1>6

\* As long as nobody presses keys, a projection that says it is done leaves Onion's files
\* equal to the canonical settings, whoever committed or was cut off before.
THEOREM ProjectionIsCanonical == Spec => ProjectionConverges
<1>1. Init => ProjectInv
  <2>1. Init => \A p \in Procs : job[p] = Idle("none") BY DEF Init
  <2>2. Init => lock = Nobody /\ presses = 0 BY DEF Init
  <2>3. "runtime" \in Procs /\ Nobody \notin Procs BY SettingsAssumption DEF Procs, Nobody
  <2> QED BY <2>1, <2>2, <2>3 DEF ProjectInv, Idle
<1>2. IInv /\ IInv' /\ ProjectInv /\ [Next]_vars => ProjectInv' BY ProjectKept
<1>3. IInv /\ ProjectInv /\ [Next]_vars =>
        [\A p \in Clients :
           presses = 0 /\ lock = p /\ job[p].at = "materialize" /\ job'[p].told = "materialized"
             => onion = canonical.values]_job
  BY ProjectionStep
<1> QED BY <1>1, <1>2, <1>3, Invariance, PTL DEF Spec, ProjectionConverges
=============================================================================
