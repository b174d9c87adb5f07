--------------------------- MODULE UpdatePromise ----------------------------
(***************************************************************************)
(* What the updater promises, without records, files, installers or power: *)
(* there is at most one trial, of a release or of the way back.  A release *)
(* replaces the running one only in a trial, becomes the good one only by  *)
(* running in one, and a trial that is not settled within Limit boots ends *)
(* by itself: a release's in the way back, the way back's for good.        *)
(*                                                                         *)
(* All this rests on records.  Once a record has been lost (lapsed), three *)
(* exceptions are possible, and no others: the release that was to go on   *)
(* trial, or the good one that was to come back, is installed without a    *)
(* trial (Stray, StrayBack), and a trial is settled without its release    *)
(* becoming the good one.                                                  *)
(***************************************************************************)
EXTENDS Naturals

CONSTANTS Releases, Factory, None, Limit

VARIABLES
  running,   \* the release that runs
  good,      \* the release to go back to
  trial,     \* "none", of a "release", "expired", of the way "back", "failed"
  candidate, \* the release on trial
  boots,     \* boots counted in this trial
  lapsed     \* has a record been lost?

vars == <<running, good, trial, candidate, boots, lapsed>>

Init ==
  /\ running = Factory /\ good = None
  /\ trial = "none" /\ candidate = None /\ boots = 0
  /\ lapsed = FALSE

Open == trial \in {"release", "back"}

\* The first good release is the one that runs.
Adopt ==
  /\ trial = "none" /\ good = None
  /\ good' = running
  /\ UNCHANGED <<running, trial, candidate, boots, lapsed>>

Try(r) ==
  /\ trial = "none" /\ good # None /\ (running = good \/ lapsed)
  /\ trial' = "release" /\ candidate' = r /\ boots' = 0
  /\ UNCHANGED <<running, good, lapsed>>

Install ==
  /\ Open
  /\ running' = candidate
  /\ UNCHANGED <<good, trial, candidate, boots, lapsed>>

Boot ==
  /\ Open /\ boots + 1 < Limit
  /\ boots' = boots + 1
  /\ UNCHANGED <<running, good, trial, candidate, lapsed>>

LastBoot ==
  /\ Open /\ boots + 1 >= Limit
  /\ trial' = IF trial = "back" THEN "failed" ELSE "expired"
  /\ candidate' = None /\ boots' = 0
  /\ UNCHANGED <<running, good, lapsed>>

Keep ==
  /\ trial = "release" /\ boots > 0 /\ running = candidate
  /\ good' = candidate
  /\ UNCHANGED <<running, trial, candidate, boots, lapsed>>

GoBack ==
  /\ trial = "expired"
  /\ trial' = "back" /\ candidate' = good /\ boots' = 0
  /\ UNCHANGED <<running, good, lapsed>>

Settle ==
  /\ Open /\ boots > 0 /\ running = candidate
  /\ good = candidate \/ (lapsed /\ trial = "release")
  /\ trial' = "none" /\ candidate' = None /\ boots' = 0
  /\ UNCHANGED <<running, good, lapsed>>

Lapse ==
  /\ lapsed' = TRUE
  /\ UNCHANGED <<running, good, trial, candidate, boots>>

Stray(r) ==
  /\ lapsed /\ trial = "none" /\ good # None
  /\ running' = r
  /\ UNCHANGED <<good, trial, candidate, boots, lapsed>>

StrayBack ==
  /\ lapsed /\ trial = "expired"
  /\ running' = good
  /\ UNCHANGED <<good, trial, candidate, boots, lapsed>>

Next ==
  \/ Adopt \/ \E r \in Releases : Try(r) \/ Stray(r)
  \/ Install \/ Boot \/ LastBoot \/ Keep \/ GoBack \/ Settle
  \/ StrayBack \/ Lapse

Spec == Init /\ [][Next]_vars
=============================================================================
