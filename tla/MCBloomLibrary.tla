---------------------------- MODULE MCBloomLibrary ----------------------------
(* Two systems; the second game of the first is found by its second config  *)
(* only, which names another folder.                                        *)
EXTENDS BloomLibrary, TLC

CONSTANTS gb, md, app, g1, g2, g3, o1, o2, c1, c2

MCSystems == {gb, md}
MCGames == {g1, g2, g3}
MCSystemOf == (g1 :> gb) @@ (g2 :> gb) @@ (g3 :> md)
MCHomes == (g1 :> {1}) @@ (g2 :> {1, 2}) @@ (g3 :> {1, 2})
MCOnionLists == {<<>>, <<g2, g1>>}
MCSymmetry == Permutations({o1, o2}) \cup Permutations({c1, c2})

\* The card and the lists change once the database is open: before, no command reads
\* them.
MCFew == changes = 0 \/ (schema = Current /\ \A c \in Openers : opening[c] = Current)
=============================================================================
