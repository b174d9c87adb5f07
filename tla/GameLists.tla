------------------------------ MODULE GameLists -------------------------------
(***************************************************************************)
(* What the favorites and the recent games promise to the surfaces that    *)
(* show them, without positions, tables or transactions: two ordered sets. *)
(***************************************************************************)
CONSTANT Games

VARIABLES
  favorites, favoriteOrder,  \* a set, and who comes before whom in it
  recents, recentOrder,
  replacing                  \* Onion's lists are being taken over

lists == <<favorites, favoriteOrder, recents, recentOrder, replacing>>

\* order is a strict total order of set.
Orders(order, set) ==
  /\ order \subseteq set \X set
  /\ \A a, b \in set : a # b => (<<a, b>> \in order) # (<<b, a>> \in order)
  /\ \A a \in set : <<a, a>> \notin order
  /\ \A a, b, c \in set : <<a, b>> \in order /\ <<b, c>> \in order => <<a, c>> \in order

Within(order, set) == order \cap (set \X set)

Init == favorites = {} /\ favoriteOrder = {} /\ recents = {} /\ recentOrder = {}
        /\ replacing = FALSE

\* A new favorite goes behind the others; the order of the others is kept.
Favor(g) ==
  /\ favorites' = favorites \cup {g}
  /\ favoriteOrder' = favoriteOrder \cup (favorites \X {g})
  /\ UNCHANGED <<recents, recentOrder, replacing>>

Unfavor(g) ==
  /\ favorites' = favorites \ {g}
  /\ favoriteOrder' = Within(favoriteOrder, favorites')
  /\ UNCHANGED <<recents, recentOrder, replacing>>

\* The game that was played comes first; only the oldest are forgotten.
Play(g) ==
  \E kept \in SUBSET (recents \ {g}) :
    /\ recents' = kept \cup {g}
    /\ \A a \in kept, b \in recents \ (kept \cup {g}) : <<a, b>> \in recentOrder
    /\ recentOrder' = Within(recentOrder, kept) \cup ({g} \X kept)
    /\ UNCHANGED <<favorites, favoriteOrder, replacing>>

Forget(g) ==
  /\ recents' = recents \ {g}
  /\ recentOrder' = Within(recentOrder, recents')
  /\ UNCHANGED <<favorites, favoriteOrder, replacing>>

\* Only then both may become anything, and at once.
Request == replacing' = TRUE /\ UNCHANGED <<favorites, favoriteOrder, recents, recentOrder>>

Replace ==
  /\ replacing /\ replacing' = FALSE
  /\ favorites' \subseteq Games /\ Orders(favoriteOrder', favorites')
  /\ recents' \subseteq Games /\ Orders(recentOrder', recents')

\* What a step that changes the lists may do.
Next ==
  /\ lists' # lists
  /\ \/ \E g \in Games : g \notin favorites /\ Favor(g)
     \/ \E g \in favorites : Unfavor(g)
     \/ \E g \in Games : Play(g)
     \/ \E g \in recents : Forget(g)
     \/ Request \/ Replace

Spec == Init /\ [][Next]_lists
=============================================================================
