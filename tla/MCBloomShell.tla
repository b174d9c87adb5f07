----------------------------- MODULE MCBloomShell -----------------------------
(* Two systems with two games each and one with one game; the shell reads   *)
(* two systems and holds three games, and three of the four favorites and   *)
(* recent games; a window of two rows; a search that finds two games, one   *)
(* or none.                                                                 *)
EXTENDS BloomShell, FiniteSets, TLC

CONSTANTS g1, g2, g3, g4, g5

MCSystems == {"gb", "gg", "md"}
MCSystemOrder == <<"gb", "gg", "md">>
MCGames == {g1, g2, g3, g4, g5}
MCGameOrder == <<g1, g4, g5, g3, g2>>
MCSystemOf == (g1 :> "gb") @@ (g2 :> "gb") @@ (g3 :> "md") @@ (g4 :> "md")
              @@ (g5 :> "gg")
MCMatches == [g \in MCGames |-> IF g \in {g1, g2} THEN {<<>>, <<"a">>} ELSE {<<>>}]
MCSettings == <<"section", "own", "account", "section", "update", "none">>
MCInitialLists == {<<>>, <<g2, g3, g1, g4>>}

\* What lasts from one destination to another: explored as long as no more
\* than two of these are no longer as the shell started; that there is a third
\* system counts as one, and is explored with the lists empty.
MCDisplaced ==
  {l \in Lists \ {"search", "actions"} : focus[l].selected > (IF l = "settings" THEN 1 ELSE 0)}
  \cup (IF writes > 0 THEN {"writes"} ELSE {}) \cup (IF spent # {} THEN {"spent"} ELSE {})
  \cup (IF search.active THEN {"search"} ELSE {})
  \cup (IF account THEN {"account"} ELSE {}) \cup ((Games \ {g5}) \ throughout)
  \cup ((listed \cup throughout) \cap {g5})
  \cup (IF history \notin InitialLists THEN {"history"} ELSE {}) \cup (IF system > 1 THEN {"system"} ELSE {})
MCFew == /\ Cardinality(MCDisplaced) <= 2
         /\ g5 \in listed \cup throughout => stored = <<>> /\ history = <<>>
=============================================================================
