----------------------- MODULE MCAchievementIndex --------------------------
(***************************************************************************)
(* AchievementIndex on a card of two files, a playlist and a cue sheet.    *)
(***************************************************************************)
EXTENDS AchievementIndex, TLC, FiniteSets

\* Contents and processes are alike.
Alike == Permutations(Images) \cup Permutations(Procs)

InPlay == {f \in Files : rows[f] # None \/ \E p \in Procs : do[p].file = f \/ f \in do[p].todo}
Busy   == {p \in Procs : ~At(p, "idle")}

\* Two commands at once share one file, and nothing else happens in a session;
\* after an entry has failed there is no session and no cancellation.
MCFew ==
  /\ Cardinality(InPlay) + Cardinality(Busy) <= 3
  /\ session => ~cancel /\ events = 0
  /\ session \/ cancel => \A p \in Procs : do[p].failed = {}
=============================================================================
