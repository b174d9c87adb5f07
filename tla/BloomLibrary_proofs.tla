-------------------------- MODULE BloomLibrary_proofs --------------------------
(***************************************************************************)
(* The library keeps what it promises for any catalog, card, lists and     *)
(* number of processes.                                                    *)
(*                                                                         *)
(* Two invariants carry the lists: the positions of favorites fill 0..n-1  *)
(* (Packed), so MAX + 1 is n and a shift never meets a taken position; and *)
(* no two recent games share a position (Distinct), which is all that is   *)
(* left of it once a promotion has made a gap.  The catalog needs no more  *)
(* than that scans go by systems (ScanInv): whichever of several scans     *)
(* commits decides by the row there is whether it settles a system.        *)
(***************************************************************************)
EXTENDS BloomLibrary, TLAPS

Positions == [Games -> Nat \cup {NoRow}]

Distinct(list) == \A g, h \in Games : list[g] = list[h] /\ list[g] # NoRow => g = h

\* The positions taken are 0..n-1.
PackedTo(list, n) ==
  /\ \A g \in Games : list[g] < n
  /\ \A p \in 0..n - 1 : \E g \in Games : list[g] = p

Packed(list) == \E n \in Nat : PackedTo(list, n)

ScanInv ==
  /\ DOMAIN scanning = Scanners
  /\ \A c \in Scanners : scanning[c] # Idle => DOMAIN scanning[c] \subseteq Systems

AdoptInv ==
  adopting # Idle => adopting.favorites \in OnionLists /\ adopting.recents \in OnionLists

ListsInv == Distinct(favorite) /\ Packed(favorite) /\ Distinct(recent)

IInv == TypeOK /\ SettledAsOnCard /\ ScanInv /\ AdoptInv /\ ListsInv

-----------------------------------------------------------------------------
(* Operators                                                               *)

\* The next position of a packed list is its length.
LEMMA NextIsLength ==
  ASSUME NEW list \in Positions, NEW n \in Nat, PackedTo(list, n)
  PROVE  NextPosition(list) = n
<1> DEFINE Candidates == {0} \cup {list[g] + 1 : g \in Games}
<1>1. n \in Candidates
  <2>1. CASE n = 0
    BY <2>1
  <2>2. CASE n # 0
    <3>1. PICK g \in Games : list[g] = n - 1
      BY <2>2 DEF PackedTo
    <3>2. QED
      BY <3>1
  <2>3. QED
    BY <2>1, <2>2
<1>2. \A g \in Games : list[g] < n
  BY DEF PackedTo
<1>3. ASSUME NEW p \in Candidates, \A g \in Games : list[g] < p PROVE p = n
  <2>1. \A g \in Games : list[g] \in Int
    BY DEF Positions, NoRow
  <2>2. p \in Int /\ p <= n
    <3>1. CASE p = 0
      BY <3>1
    <3>2. ASSUME NEW g \in Games, p = list[g] + 1 PROVE p \in Int /\ p <= n
      BY <1>2, <2>1, <3>2
    <3>3. QED
      BY <3>1, <3>2
  <2>3. ~(p < n)
    <3>1. SUFFICES ASSUME p < n PROVE FALSE
      OBVIOUS
    <3>2. n - 1 \in 0..n - 1
      <4>1. 0 <= p
        BY <1>3, <2>1 DEF Positions, NoRow
      <4>2. QED
        BY <2>2, <3>1, <4>1
    <3>3. PICK g \in Games : list[g] = n - 1
      BY <3>2 DEF PackedTo
    <3>4. QED
      BY <1>3, <2>2, <3>1, <3>3
  <2>4. QED
    BY <2>2, <2>3
<1>4. QED
  BY <1>1, <1>2, <1>3 DEF NextPosition

\* Taking a position out keeps the others apart and in their order.
LEMMA WithoutKeeps ==
  ASSUME NEW list \in Positions, NEW g \in Games, Distinct(list), list[g] # NoRow
  PROVE  /\ Without(list, g) \in Positions
         /\ Distinct(Without(list, g))
         /\ Shown(Without(list, g)) = Shown(list) \ {g}
         /\ \A a, b \in Shown(list) \ {g} :
              Without(list, g)[a] < Without(list, g)[b] <=> list[a] < list[b]
<1> DEFINE new == Without(list, g)
<1>1. \A h \in Games : list[h] \in Int /\ (list[h] # NoRow => list[h] \in Nat)
  BY DEF Positions, NoRow
<1>2. list[g] \in Nat
  BY <1>1
<1>3. new \in [Games -> Int] /\ new[g] = NoRow
  BY <1>1 DEF Without, NoRow
<1>4. ASSUME NEW h \in Games, h # g
      PROVE  /\ list[h] > list[g] => new[h] = list[h] - 1
             /\ ~(list[h] > list[g]) => new[h] = list[h]
  BY <1>4 DEF Without
<1>5. ASSUME NEW h \in Games, h # g
      PROVE  /\ list[h] = NoRow <=> new[h] = NoRow
             /\ new[h] \in Nat \cup {NoRow}
  BY <1>1, <1>2, <1>4, <1>5 DEF NoRow
<1>6. ASSUME NEW a \in Games, NEW b \in Games, a # g, b # g, list[a] # NoRow, list[b] # NoRow
      PROVE  new[a] < new[b] <=> list[a] < list[b]
  <2>1. list[a] # list[g] /\ list[b] # list[g]
    BY <1>6 DEF Distinct
  <2>2. list[a] \in Nat /\ list[b] \in Nat
    BY <1>1, <1>6
  <2>3. QED
    BY <1>2, <1>4, <1>6, <2>1, <2>2
<1> HIDE DEF new
<1>7. new \in Positions
  <2>1. \A h \in Games : new[h] \in Nat \cup {NoRow}
    BY <1>3, <1>5
  <2>2. QED
    BY <1>3, <2>1 DEF Positions
<1>8. Distinct(new)
  <2> SUFFICES ASSUME NEW a \in Games, NEW b \in Games, new[a] = new[b], new[a] # NoRow
               PROVE  a = b
    BY DEF Distinct
  <2>1. a # g /\ b # g
    BY <1>3
  <2>2. list[a] # NoRow /\ list[b] # NoRow
    BY <1>5, <2>1
  <2>3. new[a] \in Int
    BY <1>3
  <2>4. ~(list[a] < list[b]) /\ ~(list[b] < list[a])
    BY <1>6, <2>1, <2>2, <2>3
  <2>5. list[a] = list[b]
    BY <1>1, <2>4
  <2>6. QED
    BY <2>2, <2>5 DEF Distinct
<1>9. Shown(new) = Shown(list) \ {g}
  BY <1>3, <1>5 DEF Shown
<1>10. \A a, b \in Shown(list) \ {g} : new[a] < new[b] <=> list[a] < list[b]
  BY <1>6 DEF Shown
<1>11. QED
  BY <1>7, <1>8, <1>9, <1>10 DEF new

\* ... and a packed list packed.
LEMMA WithoutPacks ==
  ASSUME NEW list \in Positions, NEW g \in Games, Distinct(list), Packed(list), list[g] # NoRow
  PROVE  Packed(Without(list, g))
<1> DEFINE new == Without(list, g)
<1>1. PICK n \in Nat : PackedTo(list, n)
  BY DEF Packed
<1>2. \A h \in Games : list[h] \in Int /\ (list[h] # NoRow => list[h] \in Nat)
  BY DEF Positions, NoRow
<1>3. list[g] \in Nat /\ list[g] < n
  BY <1>1, <1>2 DEF PackedTo
<1>4. ASSUME NEW h \in Games, h # g
      PROVE  /\ list[h] > list[g] => new[h] = list[h] - 1
             /\ ~(list[h] > list[g]) => new[h] = list[h]
  BY <1>4 DEF Without
<1>5. new[g] = NoRow
  BY DEF Without
<1> HIDE DEF new
<1>6. n - 1 \in Nat
  BY <1>3
<1>7. ASSUME NEW h \in Games PROVE new[h] < n - 1
  <2>1. list[h] < n
    BY <1>1 DEF PackedTo
  <2>2. CASE h = g
    BY <1>5, <1>6, <2>2 DEF NoRow
  <2>3. CASE h # g
    <3>1. list[h] # list[g]
      BY <2>3 DEF Distinct
    <3>2. QED
      BY <1>2, <1>3, <1>4, <2>1, <2>3, <3>1
  <2>4. QED
    BY <2>2, <2>3
<1>8. ASSUME NEW p \in 0..(n - 1) - 1 PROVE \E h \in Games : new[h] = p
  <2>1. CASE p < list[g]
    <3>1. PICK h \in Games : list[h] = p
      BY <1>1 DEF PackedTo
    <3>2. QED
      BY <1>2, <1>3, <1>4, <2>1, <3>1
  <2>2. CASE ~(p < list[g])
    <3>1. p + 1 \in 0..n - 1
      BY <1>3
    <3>2. PICK h \in Games : list[h] = p + 1
      BY <1>1, <3>1 DEF PackedTo
    <3>3. QED
      BY <1>2, <1>3, <1>4, <2>2, <3>2
  <2>3. QED
    BY <2>1, <2>2
<1>9. QED
  BY <1>6, <1>7, <1>8 DEF Packed, PackedTo, new

\* A promotion moves the others down in their order; only what is behind all
\* of those that stay is forgotten.
LEMMA PromotedKeeps ==
  ASSUME NEW list \in Positions, NEW g \in Games, Distinct(list), list[g] # 0
  PROVE  /\ Promoted(list, g) \in Positions
         /\ Distinct(Promoted(list, g))
         /\ Promoted(list, g)[g] = 0
         /\ \A h \in Games \ {g} :
              /\ Promoted(list, g)[h] # NoRow => list[h] # NoRow /\ Promoted(list, g)[h] = list[h] + 1
              /\ Promoted(list, g)[h] = NoRow /\ list[h] # NoRow => list[h] + 1 >= RecentLimit
              /\ Promoted(list, g)[h] # NoRow => list[h] + 1 < RecentLimit
<1> DEFINE new == Promoted(list, g)
<1>1. \A h \in Games : list[h] \in Int /\ (list[h] # NoRow => list[h] \in Nat)
  BY DEF Positions, NoRow
<1>2. new = [h \in Games |-> IF h = g THEN 0
                             ELSE IF list[h] = NoRow \/ list[h] + 1 >= RecentLimit THEN NoRow
                             ELSE list[h] + 1]
  BY DEF Promoted
<1> HIDE DEF new
<1>3. new[g] = 0
  BY <1>2
<1>4. ASSUME NEW h \in Games \ {g}
      PROVE  \/ /\ new[h] = NoRow
                /\ list[h] = NoRow \/ list[h] + 1 >= RecentLimit
             \/ /\ list[h] # NoRow /\ ~(list[h] + 1 >= RecentLimit)
                /\ new[h] = list[h] + 1
  BY <1>2
<1>5. RecentLimit \in Nat
  BY LibraryAssumption
<1>6. \A h \in Games \ {g} :
        /\ new[h] \in Nat \cup {NoRow}
        /\ new[h] # NoRow => list[h] # NoRow /\ new[h] = list[h] + 1
        /\ new[h] = NoRow /\ list[h] # NoRow => list[h] + 1 >= RecentLimit
        /\ new[h] # NoRow => list[h] + 1 < RecentLimit
  BY <1>1, <1>4, <1>5 DEF NoRow
<1>7. new \in Positions
  <2>1. \A h \in Games : new[h] \in Nat \cup {NoRow}
    BY <1>3, <1>6
  <2>2. QED
    BY <1>2, <2>1 DEF Positions
<1>8. Distinct(new)
  <2> SUFFICES ASSUME NEW a \in Games, NEW b \in Games, new[a] = new[b], new[a] # NoRow
               PROVE  a = b
    BY DEF Distinct
  <2>1. CASE a = g /\ b # g
    BY <1>1, <1>3, <1>6, <2>1
  <2>2. CASE a # g /\ b = g
    BY <1>1, <1>3, <1>6, <2>2
  <2>3. CASE a # g /\ b # g
    <3>1. list[a] # NoRow /\ list[b] # NoRow /\ list[a] + 1 = list[b] + 1
      BY <1>6, <2>3
    <3>2. list[a] = list[b]
      BY <1>1, <3>1
    <3>3. QED
      BY <3>1, <3>2 DEF Distinct
  <2>4. QED
    BY <2>1, <2>2, <2>3
<1>9. QED
  BY <1>3, <1>6, <1>7, <1>8 DEF new

\* A list of Onion's is taken over at 0, 1, 2, ...
LEMMA PublishedPacks ==
  ASSUME NEW list \in OnionLists
  PROVE  /\ Published(list) \in Positions
         /\ Distinct(Published(list)) /\ Packed(Published(list))
<1> DEFINE at(g) == CHOOSE i \in DOMAIN list : list[i] = g
           new == Published(list)
<1>1. list \in Seq(Games) /\ \A i, j \in DOMAIN list : list[i] = list[j] => i = j
  BY LibraryAssumption
<1>2. DOMAIN list = 1..Len(list) /\ Len(list) \in Nat
  BY <1>1
<1>3. ASSUME NEW g \in Games, g \in Range(list)
      PROVE  at(g) \in DOMAIN list /\ list[at(g)] = g
  BY <1>3 DEF Range
<1>4. ASSUME NEW g \in Games
      PROVE  /\ g \in Range(list) => new[g] = at(g) - 1 /\ new[g] \in 0..Len(list) - 1
             /\ g \notin Range(list) => new[g] = NoRow
  BY <1>2, <1>3 DEF Published
<1>5. new \in Positions
  <2>1. \A g \in Games : new[g] \in Nat \cup {NoRow}
    BY <1>2, <1>4
  <2>2. QED
    BY <2>1 DEF Positions, Published
<1>6. Distinct(new)
  <2> SUFFICES ASSUME NEW g \in Games, NEW h \in Games, new[g] = new[h], new[g] # NoRow
               PROVE  g = h
    BY DEF Distinct
  <2>1. g \in Range(list) /\ h \in Range(list)
    BY <1>4
  <2>2. at(g) \in Int /\ at(h) \in Int /\ new[g] = at(g) - 1 /\ new[h] = at(h) - 1
    BY <1>2, <1>3, <1>4, <2>1
  <2> HIDE DEF new, at
  <2>3. \A i, j \in Int : i - 1 = j - 1 => i = j
    OBVIOUS
  <2>4. at(g) - 1 = at(h) - 1
    BY <2>2
  <2>5. at(g) = at(h)
    BY <2>2, <2>3, <2>4, Zenon
  <2>6. QED
    BY <1>3, <2>1, <2>5
<1>7. PackedTo(new, Len(list))
  <2>1. ASSUME NEW g \in Games PROVE new[g] < Len(list)
    BY <1>2, <1>4 DEF NoRow
  <2>2. ASSUME NEW p \in 0..Len(list) - 1 PROVE \E g \in Games : new[g] = p
    <3>1. p + 1 \in DOMAIN list
      BY <1>2
    <3>2. list[p + 1] \in Games /\ list[p + 1] \in Range(list)
      BY <1>1, <3>1 DEF Range
    <3>3. at(list[p + 1]) = p + 1
      BY <1>1, <1>3, <3>1, <3>2
    <3>4. new[list[p + 1]] = at(list[p + 1]) - 1
      BY <1>4, <3>2
    <3> HIDE DEF at, new
    <3>5. new[list[p + 1]] = p
      BY <3>3, <3>4
    <3>6. QED
      BY <3>2, <3>5
  <2> HIDE DEF new
  <2>3. QED
    BY <2>1, <2>2 DEF PackedTo
<1>8. QED
  BY <1>2, <1>5, <1>6, <1>7 DEF Packed

-----------------------------------------------------------------------------
(* The invariant                                                           *)

LEMMA InitInv == Init => IInv
<1> SUFFICES ASSUME Init PROVE IInv
  OBVIOUS
<1> USE LibraryAssumption DEF Init
<1>1. TypeOK
  BY DEF TypeOK, Entries, Empty, NoRow, Current
<1>2. SettledAsOnCard
  <2>1. CASE settled = {}
    BY <2>1 DEF SettledAsOnCard
  <2>2. CASE /\ row = config /\ listed = {g \in Games : config[SystemOf[g]] \in Homes[g]}
             /\ game = [g \in Games |-> IF g \in listed THEN file[g] ELSE 0]
    BY <2>2 DEF SettledAsOnCard
  <2>3. QED
    BY <2>1, <2>2
<1>3. ScanInv /\ AdoptInv
  BY DEF ScanInv, AdoptInv
<1>4. Distinct(Empty) /\ PackedTo(Empty, 0)
  BY DEF Distinct, PackedTo, Empty, NoRow
<1>5. QED
  BY <1>1, <1>2, <1>3, <1>4 DEF IInv, ListsInv, Packed

\* Who changes what.
LEMMA Frames ==
  ASSUME [Next]_vars
  PROVE  /\ <<favorite, recent>>' # <<favorite, recent>> =>
              \/ \E g \in Games : FavoriteSet(g) \/ FavoriteUnset(g) \/ RecentRecord(g) \/ RecentRemove(g)
              \/ LegacyPublish
         /\ <<config, file, row, here, game, listed, generation, settled>>'
              # <<config, file, row, here, game, listed, generation, settled>> =>
              \/ Import \/ \E c \in Scanners : Scan(c)
              \/ \E g \in Games : FileChanges(g)
              \/ \E e \in Entries : ConfigChanges(e)
         /\ scanning' # scanning =>
              \E c \in Scanners :
                Scan(c) \/ ScanFails(c) \/ \E wanted \in SUBSET Systems : ScanLoad(c, wanted)
         /\ adopting' # adopting => LegacyLoad \/ LegacyPublish
         /\ schema' # schema \/ opening' # opening =>
              \E c \in Openers : OpenRead(c) \/ Migrate(c) \/ OpenKilled(c)
<1> USE DEF vars, cardVars, catalogVars, listVars, pendingVars, schemaVars
<1>1. CASE \E c \in Openers : OpenRead(c) \/ Migrate(c) \/ OpenKilled(c)
  BY <1>1 DEF OpenRead, Migrate, OpenKilled
<1>2. CASE Import
  BY <1>2 DEF Import
<1>3. ASSUME NEW c \in Scanners, NEW wanted \in {Systems} \cup {{s} : s \in Systems},
             ScanLoad(c, wanted)
      PROVE  /\ wanted \in SUBSET Systems
             /\ UNCHANGED <<cardVars, catalogVars, listVars, adopting, schemaVars, settled, changes>>
  BY <1>3 DEF ScanLoad
<1>4. CASE \E c \in Scanners : Scan(c)
  BY <1>4 DEF Scan
<1>5. CASE \E c \in Scanners : ScanFails(c)
  BY <1>5 DEF ScanFails
<1>6. CASE \E g \in Games :
             FavoriteSet(g) \/ FavoriteUnset(g) \/ RecentRecord(g) \/ RecentRemove(g)
  BY <1>6 DEF FavoriteSet, FavoriteUnset, RecentRecord, RecentRemove
<1>7. CASE LegacyLoad
  BY <1>7 DEF LegacyLoad
<1>8. CASE LegacyPublish
  BY <1>8 DEF LegacyPublish
<1>9. CASE \E g \in Games : FileChanges(g)
  BY <1>9 DEF FileChanges
<1>10. CASE \E e \in Entries : ConfigChanges(e)
  BY <1>10 DEF ConfigChanges
<1>11. CASE UNCHANGED vars
  BY <1>11
<1>12. QED
  BY <1>1, <1>2, <1>3, <1>4, <1>5, <1>6, <1>7, <1>8, <1>9, <1>10, <1>11 DEF Next

\* The positions of both lists keep their shape.
LEMMA ListsStep ==
  ASSUME TypeOK, AdoptInv, ListsInv, [Next]_vars
  PROVE  ListsInv' /\ favorite' \in Positions /\ recent' \in Positions
<1>1. favorite \in Positions /\ recent \in Positions
  BY DEF TypeOK, Positions
<1>2. ASSUME NEW g \in Games, FavoriteSet(g)
      PROVE  ListsInv' /\ favorite' \in Positions /\ recent' \in Positions
  <2>1. PICK n \in Nat : PackedTo(favorite, n)
    BY DEF ListsInv, Packed
  <2>2. favorite' = [favorite EXCEPT ![g] = n] /\ recent' = recent /\ favorite[g] = NoRow
    BY <1>1, <1>2, <2>1, NextIsLength DEF FavoriteSet
  <2>3. /\ favorite'[g] = n
        /\ \A h \in Games \ {g} : favorite'[h] = favorite[h]
        /\ favorite' \in Positions
    BY <1>1, <2>2 DEF Positions
  <2>4. \A h \in Games : favorite[h] \in Int /\ favorite[h] < n
    BY <1>1, <2>1 DEF Positions, NoRow, PackedTo
  <2>5. Distinct(favorite')
    BY <2>3, <2>4 DEF Distinct, ListsInv
  <2>6. PackedTo(favorite', n + 1)
    <3>1. \A h \in Games : favorite'[h] < n + 1
      BY <2>3, <2>4
    <3>2. ASSUME NEW p \in 0..(n + 1) - 1 PROVE \E h \in Games : favorite'[h] = p
      <4>1. CASE p = n
        BY <2>3, <4>1
      <4>2. CASE p # n
        <5>1. p \in 0..n - 1
          BY <4>2
        <5>2. PICK h \in Games : favorite[h] = p
          BY <2>1, <5>1 DEF PackedTo
        <5>3. h # g
          BY <2>2, <5>1, <5>2 DEF NoRow
        <5>4. QED
          BY <2>3, <5>2, <5>3
      <4>3. QED
        BY <4>1, <4>2
    <3>3. QED
      BY <3>1, <3>2 DEF PackedTo
  <2>7. Packed(favorite')
    <3>1. n + 1 \in Nat
      OBVIOUS
    <3>2. QED
      BY <2>6, <3>1 DEF Packed
  <2>8. Distinct(recent')
    BY <2>2 DEF ListsInv
  <2>9. QED
    BY <1>1, <2>2, <2>3, <2>5, <2>7, <2>8 DEF ListsInv
<1>3. ASSUME NEW g \in Games, FavoriteUnset(g)
      PROVE  ListsInv' /\ favorite' \in Positions /\ recent' \in Positions
  BY <1>1, <1>3, WithoutKeeps, WithoutPacks DEF FavoriteUnset, ListsInv
<1>4. ASSUME NEW g \in Games, RecentRecord(g)
      PROVE  ListsInv' /\ favorite' \in Positions /\ recent' \in Positions
  <2>1. CASE recent[g] = 0
    BY <1>1, <1>4, <2>1 DEF RecentRecord, Promoted, ListsInv
  <2>2. CASE recent[g] # 0
    BY <1>1, <1>4, <2>2, PromotedKeeps DEF RecentRecord, ListsInv
  <2>3. QED
    BY <2>1, <2>2
<1>5. ASSUME NEW g \in Games, RecentRemove(g)
      PROVE  ListsInv' /\ favorite' \in Positions /\ recent' \in Positions
  BY <1>1, <1>5, WithoutKeeps DEF RecentRemove, ListsInv
<1>6. CASE LegacyPublish
  <2>1. adopting.favorites \in OnionLists /\ adopting.recents \in OnionLists
    BY <1>6 DEF LegacyPublish, AdoptInv
  <2>2. QED
    BY <1>6, <2>1, PublishedPacks DEF LegacyPublish, ListsInv
<1>7. CASE UNCHANGED <<favorite, recent>>
  BY <1>1, <1>7 DEF ListsInv
<1>8. QED
  BY <1>2, <1>3, <1>4, <1>5, <1>6, <1>7, Frames

\* The catalog keeps its types, and follows the card where it is settled.
LEMMA CatalogStep ==
  ASSUME TypeOK, SettledAsOnCard, ScanInv, [Next]_vars
  PROVE  /\ config' \in [Entries -> Stamps \cup {0}] /\ file' \in [Games -> Stamps \cup {0}]
         /\ row' \in [Entries -> Stamps \cup {0}] /\ here' \subseteq Entries
         /\ game' \in [Games -> Stamps \cup {0}] /\ listed' \subseteq Games
         /\ generation' \in {0, 1} /\ settled' \subseteq Systems
         /\ SettledAsOnCard' /\ ScanInv'
<1> USE LibraryAssumption DEF TypeOK, Bump
<1> DEFINE Typed ==
      /\ config' \in [Entries -> Stamps \cup {0}] /\ file' \in [Games -> Stamps \cup {0}]
      /\ row' \in [Entries -> Stamps \cup {0}] /\ here' \subseteq Entries
      /\ game' \in [Games -> Stamps \cup {0}] /\ listed' \subseteq Games
      /\ generation' \in {0, 1} /\ settled' \subseteq Systems
<1>1. CASE Import
  <2> DEFINE seen == {e \in Entries : config[e] # 0}
             made == [e \in Entries |-> IF e \in seen THEN config[e] ELSE row[e]]
  <2>1. /\ row' = made /\ here' = seen /\ settled' = {s \in settled : made[s] = row[s]}
        /\ UNCHANGED <<config, file, game, listed, scanning>>
        /\ generation' \in {0, 1}
    BY <1>1 DEF Import, cardVars, pendingVars
  <2>2. Typed
    BY <2>1
  <2> HIDE DEF made, seen
  <2>3. SettledAsOnCard' /\ ScanInv'
    BY <2>1 DEF SettledAsOnCard, ScanInv
  <2>4. QED
    BY <2>2, <2>3
<1>2. ASSUME NEW c \in Scanners, Scan(c) PROVE Typed /\ SettledAsOnCard' /\ ScanInv'
  <2> DEFINE by == scanning[c]
             seen == SeenBy(by)
             made == [g \in Games |-> IF g \in seen THEN file[g] ELSE game[g]]
  <2>1. /\ by # Idle /\ scanning' = [scanning EXCEPT ![c] = Idle]
        /\ game' = made
        /\ listed' = seen \cup {g \in listed : SystemOf[g] \notin DOMAIN by}
        /\ UNCHANGED <<config, file, row, here>>
        /\ generation' \in {0, 1}
        /\ settled' = (settled \ DOMAIN by) \cup {s \in DOMAIN by : by[s] = row[s]}
    BY <1>2 DEF Scan, Settles, cardVars
  <2>2. DOMAIN by \subseteq Systems
    BY <2>1 DEF ScanInv
  <2>3. /\ seen \subseteq Games
        /\ \A g \in seen : file[g] \in Stamps \cup {0}
        /\ made \in [Games -> Stamps \cup {0}]
        /\ \A g \in seen : made[g] = file[g]
        /\ \A g \in Games \ seen : made[g] = game[g]
    BY DEF SeenBy
  <2>4. \A g \in Games : g \in seen <=>
           /\ SystemOf[g] \in DOMAIN by /\ file[g] \in Stamps
           /\ by[SystemOf[g]] \in Homes[g]
    BY DEF SeenBy
  <2> HIDE DEF made, seen
  <2>5. Typed
    BY <2>1, <2>2, <2>3
  <2>6. SettledAsOnCard'
    <3> SUFFICES ASSUME NEW s \in settled', NEW g \in Games, SystemOf[g] = s
                 PROVE  /\ g \in listed' <=> file'[g] \in Stamps /\ row'[s] \in Homes[g]
                        /\ g \in listed' => game'[g] = file'[g]
      BY DEF SettledAsOnCard
    <3> HIDE DEF by
    <3>1. CASE s \in DOMAIN by
      <4>1. by[s] = row[s]
        BY <2>1, <3>1
      <4>2. QED
        BY <2>1, <2>3, <2>4, <3>1, <4>1
    <3>2. CASE s \notin DOMAIN by
      <4>1. s \in settled /\ (g \in listed' <=> g \in listed) /\ game'[g] = game[g]
        BY <2>1, <2>3, <2>4, <3>2
      <4>2. QED
        BY <2>1, <4>1 DEF SettledAsOnCard
    <3>3. QED
      BY <3>1, <3>2
  <2>7. ScanInv'
    BY <2>1 DEF ScanInv
  <2>8. QED
    BY <2>5, <2>6, <2>7
<1>3. ASSUME NEW g \in Games, FileChanges(g) PROVE Typed /\ SettledAsOnCard' /\ ScanInv'
  <2>1. /\ UNCHANGED <<config, row, here, game, listed, generation, scanning>>
        /\ settled' = settled \ {SystemOf[g]}
    BY <1>3 DEF FileChanges, catalogVars, pendingVars
  <2>2. PICK f \in Stamps \cup {0} : file' = [file EXCEPT ![g] = f]
    BY <1>3 DEF FileChanges
  <2>3. Typed
    BY <2>1, <2>2
  <2>4. \A h \in Games : SystemOf[h] \in settled' => file'[h] = file[h]
    BY <2>1, <2>2
  <2>5. SettledAsOnCard'
    BY <2>1, <2>4 DEF SettledAsOnCard
  <2>6. ScanInv'
    BY <2>1 DEF ScanInv
  <2>7. QED
    BY <2>3, <2>5, <2>6
<1>4. ASSUME NEW e \in Entries, ConfigChanges(e) PROVE Typed /\ SettledAsOnCard' /\ ScanInv'
  <2>1. /\ UNCHANGED <<file, row, here, game, listed, generation, scanning, settled>>
        /\ \E f \in Stamps \cup {0} : config' = [config EXCEPT ![e] = f]
    BY <1>4 DEF ConfigChanges, catalogVars, pendingVars
  <2>2. Typed
    BY <2>1
  <2>3. SettledAsOnCard' /\ ScanInv'
    BY <2>1 DEF SettledAsOnCard, ScanInv
  <2>4. QED
    BY <2>2, <2>3
<1>5. CASE UNCHANGED <<config, file, row, here, game, listed, generation, settled>>
  <2>1. Typed /\ SettledAsOnCard'
    BY <1>5 DEF SettledAsOnCard
  <2>2. ASSUME NEW c \in Scanners, NEW wanted \in SUBSET Systems, ScanLoad(c, wanted)
        PROVE  ScanInv'
    <3> DEFINE found == here \cap wanted
               by == [s \in found |-> row[s]]
    <3>1. scanning' = [scanning EXCEPT ![c] = by]
      BY <2>2 DEF ScanLoad
    <3>2. DOMAIN by \subseteq Systems
      OBVIOUS
    <3> HIDE DEF by
    <3>3. QED
      BY <3>1, <3>2 DEF ScanInv
  <2>3. ASSUME NEW c \in Scanners, ScanFails(c) PROVE ScanInv'
    BY <2>3 DEF ScanFails, ScanInv
  <2>4. ASSUME NEW c \in Scanners, Scan(c) PROVE ScanInv'
    BY <2>4 DEF Scan, ScanInv
  <2>5. ASSUME scanning' = scanning PROVE ScanInv'
    BY <1>5, <2>5 DEF ScanInv
  <2>6. QED
    BY <2>1, <2>2, <2>3, <2>4, <2>5, Frames
<1>6. QED
  BY <1>1, <1>2, <1>3, <1>4, <1>5, Frames

\* Versions only go up, and an opener is never ahead of the version there is.
LEMMA SchemaStep ==
  ASSUME TypeOK, [Next]_vars
  PROVE  schema' \in 0..Current /\ opening' \in [Openers -> 0..Current] /\ schema' >= schema
<1> USE DEF TypeOK, Current
<1>1. ASSUME NEW c \in Openers, OpenRead(c) \/ OpenKilled(c)
      PROVE  schema' = schema /\ opening' \in [Openers -> 0..Current]
  BY <1>1 DEF OpenRead, OpenKilled
<1>2. ASSUME NEW c \in Openers, Migrate(c)
      PROVE  /\ schema' \in 0..Current /\ schema' >= schema
             /\ opening' \in [Openers -> 0..Current]
  <2>1. schema' = schema \/ (schema' = Migrated(schema) /\ schema < Current)
    BY <1>2 DEF Migrate
  <2>2. schema \in 0..4
    OBVIOUS
  <2>3. schema' \in 0..Current /\ schema' >= schema
    BY <2>1, <2>2 DEF Migrated
  <2> DEFINE v == IF schema = opening[c] THEN schema' ELSE Current
  <2>4. opening' = [opening EXCEPT ![c] = v]
    BY <1>2 DEF Migrate
  <2>5. v \in 0..Current
    BY <2>3
  <2>6. opening' \in [Openers -> 0..Current]
    <3> HIDE DEF v
    <3>1. QED
      BY <2>4, <2>5
  <2>7. QED
    BY <2>3, <2>6
<1>3. QED
  BY <1>1, <1>2, Frames

LEMMA StepInv == IInv /\ [Next]_vars => IInv'
<1> SUFFICES ASSUME IInv, [Next]_vars PROVE IInv'
  OBVIOUS
<1>1. TypeOK /\ SettledAsOnCard /\ ScanInv /\ AdoptInv /\ ListsInv
  BY DEF IInv
<1>2. changes' \in 0..MaxChanges
  <2>1. CASE Change
    BY <1>1, <2>1, LibraryAssumption DEF Change, TypeOK
  <2>2. CASE changes' = changes
    BY <1>1, <2>2 DEF TypeOK
  <2>3. QED
    BY <2>1, <2>2 DEF Next, vars, OpenRead, Migrate, OpenKilled, Import, ScanLoad, Scan, ScanFails,
         FavoriteSet, FavoriteUnset, RecentRecord, RecentRemove, LegacyLoad, LegacyPublish,
         FileChanges, ConfigChanges
<1>3. AdoptInv'
  <2>1. CASE LegacyLoad
    BY <2>1 DEF LegacyLoad, AdoptInv
  <2>2. CASE LegacyPublish
    BY <2>2 DEF LegacyPublish, AdoptInv
  <2>3. CASE adopting' = adopting
    BY <1>1, <2>3 DEF AdoptInv
  <2>4. QED
    BY <2>1, <2>2, <2>3, Frames
<1>4. TypeOK'
  BY <1>1, <1>2, ListsStep, CatalogStep, SchemaStep DEF TypeOK, Positions
<1>5. QED
  BY <1>1, <1>3, <1>4, ListsStep, CatalogStep DEF IInv

-----------------------------------------------------------------------------
(* Theorems                                                                *)

\* The inductive invariant: the lists are packed, what settled is on the card.
THEOREM Invariance == Spec => []IInv
  BY InitInv, StepInv, PTL DEF Spec

\* The database, the card and what commands have read keep their types.
THEOREM Typed == Spec => []TypeOK
<1>1. IInv => TypeOK
  BY DEF IInv
<1>2. QED
  BY <1>1, Invariance, PTL

\* For any number of overlapping scans, the readers' view of a system is the card's
\* while its files are those of the scan that committed last and its row is the one
\* that scan went by.
THEOREM SettledIsOnCard == Spec => []SettledAsOnCard
<1>1. IInv => SettledAsOnCard
  BY DEF IInv
<1>2. QED
  BY <1>1, Invariance, PTL

\* The positions of favorites are 0, 1, 2, ... at all times.
THEOREM FavoritesStayCompact == Spec => []FavoritesCompact
<1>1. IInv => FavoritesCompact
  <2> SUFFICES ASSUME IInv, NEW g \in Games, favorite[g] # NoRow
               PROVE  /\ \A h \in Games : favorite[h] = favorite[g] => h = g
                      /\ favorite[g] > 0 => \E h \in Games : favorite[h] = favorite[g] - 1
    BY DEF FavoritesCompact
  <2>1. PICK n \in Nat : PackedTo(favorite, n)
    BY DEF IInv, ListsInv, Packed
  <2>2. favorite[g] \in Nat
    BY DEF IInv, TypeOK
  <2>3. favorite[g] > 0 => favorite[g] - 1 \in 0..n - 1
    BY <2>1, <2>2 DEF PackedTo
  <2>4. QED
    BY <2>1, <2>3 DEF PackedTo, IInv, ListsInv, Distinct
<1>2. QED
  BY <1>1, Invariance, PTL

\* Processes that migrate together never take the schema back.
THEOREM SchemaAdvances == Spec => SchemaOnlyAdvances
<1>1. IInv /\ [Next]_vars => [schema' >= schema]_vars
  BY SchemaStep DEF IInv
<1>2. QED
  BY <1>1, Invariance, PTL DEF Spec, SchemaOnlyAdvances

\* The generation moves exactly when a row that readers see does.
THEOREM GenerationIsExact == Spec => GenerationTells
<1> DEFINE rows == <<row, here, game, listed>>
<1>1. IInv /\ [Next]_vars => [generation' # generation <=> rows' # rows]_vars
  <2> SUFFICES ASSUME IInv, [Next]_vars PROVE generation' # generation <=> rows' # rows
    OBVIOUS
  <2>1. generation \in {0, 1}
    BY DEF IInv, TypeOK
  <2>2. CASE Import
    BY <2>1, <2>2 DEF Import, Bump
  <2>3. CASE \E c \in Scanners : Scan(c)
    BY <2>1, <2>3 DEF Scan, Bump
  <2>4. ASSUME NEW g \in Games, FileChanges(g) PROVE generation' = generation /\ rows' = rows
    BY <2>4 DEF FileChanges, catalogVars
  <2>5. ASSUME NEW e \in Entries, ConfigChanges(e) PROVE generation' = generation /\ rows' = rows
    BY <2>5 DEF ConfigChanges, catalogVars
  <2>6. QED
    BY <2>2, <2>3, <2>4, <2>5, Frames
<1>2. QED
  BY <1>1, Invariance, PTL DEF Spec, GenerationTells

-----------------------------------------------------------------------------
(* Positions implement ordered sets.                                       *)

LEMMA SamePairs ==
  ASSUME NEW X, NEW Y, NEW S \in SUBSET (X \X Y), NEW T \in SUBSET (X \X Y),
         \A a \in X, b \in Y : <<a, b>> \in S <=> <<a, b>> \in T
  PROVE  S = T
  OBVIOUS

LEMMA InOrder ==
  ASSUME NEW list
  PROVE  /\ Shown(list) \subseteq Games
         /\ Order(list) \in SUBSET (Shown(list) \X Shown(list))
         /\ Order(list) \in SUBSET (Games \X Games)
         /\ \A a, b : <<a, b>> \in Order(list) <=>
              a \in Shown(list) /\ b \in Shown(list) /\ list[a] < list[b]
<1>1. Shown(list) \subseteq Games
  BY DEF Shown
<1> HIDE DEF Shown
<1>2. QED
  BY <1>1 DEF Order

\* Positions that differ make a strict total order.
LEMMA PositionsOrder ==
  ASSUME NEW list \in Positions, Distinct(list)
  PROVE  Lists!Orders(Order(list), Shown(list))
<1>1. \A a \in Shown(list) : a \in Games /\ list[a] \in Nat /\ list[a] # NoRow
  BY DEF Shown, Positions
<1>2. \A a, b \in Shown(list) : a # b => (<<a, b>> \in Order(list)) # (<<b, a>> \in Order(list))
  <2> SUFFICES ASSUME NEW a \in Shown(list), NEW b \in Shown(list), a # b
               PROVE  (<<a, b>> \in Order(list)) # (<<b, a>> \in Order(list))
    OBVIOUS
  <2>1. list[a] # list[b]
    BY <1>1 DEF Distinct
  <2>2. (list[a] < list[b]) # (list[b] < list[a])
    BY <1>1, <2>1
  <2>3. QED
    BY <2>2, InOrder
<1>3. \A a \in Shown(list) : <<a, a>> \notin Order(list)
  BY <1>1, InOrder
<1>4. \A a, b, c \in Shown(list) :
        <<a, b>> \in Order(list) /\ <<b, c>> \in Order(list) => <<a, c>> \in Order(list)
  BY <1>1, InOrder
<1>5. QED
  BY <1>2, <1>3, <1>4, InOrder DEF Lists!Orders

\* Taking a position out takes the game out of the set and of its order.
LEMMA WithoutOrder ==
  ASSUME NEW list \in Positions, NEW g \in Games, Distinct(list), list[g] # NoRow
  PROVE  Order(Without(list, g)) = Lists!Within(Order(list), Shown(list) \ {g})
<1> DEFINE new == Without(list, g)  rest == Shown(list) \ {g}
<1>1. Shown(new) = rest /\ \A a, b \in rest : new[a] < new[b] <=> list[a] < list[b]
  BY WithoutKeeps
<1> HIDE DEF new
<1>2. \A a, b : <<a, b>> \in Order(new) <=> a \in rest /\ b \in rest /\ list[a] < list[b]
  BY <1>1, InOrder
<1>3. \A a, b : <<a, b>> \in Lists!Within(Order(list), rest) <=>
                  a \in rest /\ b \in rest /\ list[a] < list[b]
  BY InOrder DEF Lists!Within
<1>4. /\ Order(new) \in SUBSET (Games \X Games)
      /\ Lists!Within(Order(list), rest) \in SUBSET (Games \X Games)
  BY InOrder DEF Lists!Within
<1> HIDE DEF rest
<1>5. Order(new) = Lists!Within(Order(list), rest)
  BY <1>2, <1>3, <1>4, SamePairs
<1>6. QED
  BY <1>5 DEF new, rest

\* A favorite goes behind the others.
LEMMA AppendedOrder ==
  ASSUME NEW list \in Positions, NEW n \in Nat, PackedTo(list, n),
         NEW g \in Games, list[g] = NoRow,
         NEW new, new[g] = n, \A h \in Games \ {g} : new[h] = list[h]
  PROVE  /\ Shown(new) = Shown(list) \cup {g}
         /\ Order(new) = Order(list) \cup (Shown(list) \X {g})
<1>1. new[g] = n /\ \A h \in Games \ {g} : new[h] = list[h]
  OBVIOUS
<1>2. Shown(new) = Shown(list) \cup {g} /\ g \notin Shown(list)
  BY <1>1 DEF Shown, NoRow
<1>3. \A h \in Shown(list) : h \in Games \ {g} /\ new[h] = list[h] /\ list[h] \in Nat /\ list[h] < n
  BY <1>1, <1>2 DEF Shown, Positions, PackedTo
<1>4. ASSUME NEW a \in Games, NEW b \in Games
      PROVE  <<a, b>> \in Order(new) <=> <<a, b>> \in Order(list) \cup (Shown(list) \X {g})
  <2>1. CASE a \in Shown(list) /\ b \in Shown(list)
    BY <1>2, <1>3, <2>1, InOrder
  <2>2. CASE a \in Shown(list) /\ b = g
    BY <1>1, <1>2, <1>3, <2>2, InOrder
  <2>3. CASE a = g
    <3>1. ~(n < n) /\ \A h \in Shown(list) : ~(n < list[h])
      BY <1>3
    <3>2. <<a, b>> \notin Order(new)
      BY <1>1, <1>2, <1>3, <2>3, <3>1, InOrder
    <3>3. QED
      BY <1>2, <2>3, <3>2, InOrder
  <2>4. CASE a \notin Shown(list) \cup {g} \/ b \notin Shown(list) \cup {g}
    BY <1>2, <2>4, InOrder
  <2>5. QED
    BY <2>1, <2>2, <2>3, <2>4
<1>5. Order(list) \cup (Shown(list) \X {g}) \in SUBSET (Games \X Games)
  BY InOrder
<1>6. Order(new) \in SUBSET (Games \X Games)
  BY InOrder
<1>7. Order(new) = Order(list) \cup (Shown(list) \X {g})
  BY <1>4, <1>5, <1>6, SamePairs
<1>8. QED
  BY <1>2, <1>7

\* The game that was played comes first, those that stay follow as they were.
LEMMA PromotedOrder ==
  ASSUME NEW list \in Positions, NEW g \in Games, Distinct(list), list[g] # 0
  PROVE  LET new == Promoted(list, g)  kept == Shown(new) \ {g} IN
         /\ kept \in SUBSET (Shown(list) \ {g})
         /\ Shown(new) = kept \cup {g}
         /\ \A a \in kept, b \in Shown(list) \ (kept \cup {g}) : <<a, b>> \in Order(list)
         /\ Order(new) = Lists!Within(Order(list), kept) \cup ({g} \X kept)
<1> DEFINE new == Promoted(list, g)  kept == Shown(new) \ {g}
<1>1. /\ new \in Positions /\ new[g] = 0
      /\ \A h \in Games \ {g} :
           /\ new[h] # NoRow => list[h] # NoRow /\ new[h] = list[h] + 1
           /\ new[h] = NoRow /\ list[h] # NoRow => list[h] + 1 >= RecentLimit
           /\ new[h] # NoRow => list[h] + 1 < RecentLimit
  BY PromotedKeeps
<1>2. RecentLimit \in Nat
  BY LibraryAssumption
<1>3. \A h \in Games : list[h] # NoRow => list[h] \in Nat
  BY DEF Positions
<1> HIDE DEF new
<1>4. Shown(new) = kept \cup {g} /\ g \in Games /\ g \notin kept
  BY <1>1 DEF Shown, NoRow
<1>5. \A h \in kept : /\ h \in Games \ {g} /\ h \in Shown(list)
                      /\ list[h] \in Nat /\ new[h] = list[h] + 1 /\ list[h] + 1 < RecentLimit
  BY <1>1, <1>3 DEF Shown
<1> HIDE DEF kept
<1>6. ASSUME NEW a \in kept, NEW b \in Shown(list) \ (kept \cup {g}) PROVE <<a, b>> \in Order(list)
  <2>1. b \in Games \ {g} /\ list[b] # NoRow /\ list[b] \in Nat
    BY <1>3 DEF Shown
  <2>2. new[b] = NoRow
    BY <1>4, <2>1 DEF Shown
  <2>3. list[a] < list[b]
    BY <1>1, <1>2, <1>5, <2>1, <2>2
  <2>4. QED
    BY <1>5, <2>3, InOrder
<1>7. ASSUME NEW a \in Games, NEW b \in Games
      PROVE  <<a, b>> \in Order(new) <=>
               <<a, b>> \in Lists!Within(Order(list), kept) \cup ({g} \X kept)
  <2>1. <<a, b>> \in Lists!Within(Order(list), kept) <=>
          a \in kept /\ b \in kept /\ list[a] < list[b]
    BY <1>5, InOrder DEF Lists!Within
  <2>2. CASE a \in kept /\ b \in kept
    BY <1>4, <1>5, <2>1, <2>2, InOrder
  <2>3. CASE a = g /\ b \in kept
    BY <1>1, <1>4, <1>5, <2>1, <2>3, InOrder
  <2>4. CASE b = g
    <3>1. \A h \in kept : ~(new[h] < 0)
      BY <1>5
    <3>2. <<a, b>> \notin Order(new)
      BY <1>1, <1>4, <2>4, <3>1, InOrder
    <3>3. QED
      BY <1>4, <2>1, <2>4, <3>2
  <2>5. CASE a \notin kept \cup {g} \/ b \notin kept \cup {g}
    BY <1>4, <2>1, <2>5, InOrder
  <2>6. QED
    BY <2>2, <2>3, <2>4, <2>5
<1>8. /\ Order(new) \in SUBSET (Games \X Games)
      /\ Lists!Within(Order(list), kept) \cup ({g} \X kept) \in SUBSET (Games \X Games)
  BY <1>5, InOrder DEF Lists!Within
<1>9. Order(new) = Lists!Within(Order(list), kept) \cup ({g} \X kept)
  BY <1>7, <1>8, SamePairs
<1>10. QED
  BY <1>4, <1>5, <1>6, <1>9 DEF new, kept

\* The tables and their transactions implement the ordered sets that the
\* surfaces show, and nothing else happens to these.
THEOREM ListsImplemented == Spec => ListsKept
<1> DEFINE lists == <<Shown(favorite), Order(favorite), Shown(recent), Order(recent), adopting # Idle>>
<1>1. Init => Lists!Init
  BY DEF Init, Lists!Init, Shown, Order, Empty
<1>2. IInv /\ [Next]_vars => [Lists!Next]_lists
  <2> SUFFICES ASSUME IInv, [Next]_vars, lists' # lists PROVE Lists!Next
    OBVIOUS
  <2>1. /\ favorite \in Positions /\ recent \in Positions /\ AdoptInv
        /\ Distinct(favorite) /\ Packed(favorite) /\ Distinct(recent)
    BY DEF IInv, ListsInv, TypeOK, Positions
  <2>2. Lists!lists' # Lists!lists
    BY DEF Lists!lists
  <2>3. ASSUME NEW g \in Games, FavoriteSet(g)
        PROVE  g \notin Shown(favorite) /\ Lists!Favor(g)
    <3>1. PICK n \in Nat : PackedTo(favorite, n)
      BY <2>1 DEF Packed
    <3>2. favorite' = [favorite EXCEPT ![g] = n] /\ favorite[g] = NoRow
          /\ recent' = recent /\ adopting' = adopting
      BY <2>1, <2>3, <3>1, NextIsLength DEF FavoriteSet, pendingVars
    <3>3. /\ Shown(favorite') = Shown(favorite) \cup {g}
          /\ Order(favorite') = Order(favorite) \cup (Shown(favorite) \X {g})
      <4>1. favorite'[g] = n /\ \A h \in Games \ {g} : favorite'[h] = favorite[h]
        BY <2>1, <3>2 DEF Positions
      <4>2. favorite \in Positions /\ PackedTo(favorite, n) /\ favorite[g] = NoRow
        BY <2>1, <3>1, <3>2
      <4>3. PICK new : new = favorite'
        OBVIOUS
      <4>4. new[g] = n /\ \A h \in Games \ {g} : new[h] = favorite[h]
        BY <4>1, <4>3
      <4>5. Shown(new) = Shown(favorite) \cup {g}
        BY ONLY <4>2, <4>4, n \in Nat, g \in Games, AppendedOrder
      <4>6. Order(new) = Order(favorite) \cup (Shown(favorite) \X {g})
        BY ONLY <4>2, <4>4, n \in Nat, g \in Games, AppendedOrder
      <4>. QED
        BY <4>3, <4>5, <4>6
    <3>4. QED
      BY <3>2, <3>3 DEF Lists!Favor, Shown
  <2>4. ASSUME NEW g \in Games, FavoriteUnset(g)
        PROVE  g \in Shown(favorite) /\ Lists!Unfavor(g)
    <3>1. favorite' = Without(favorite, g) /\ favorite[g] # NoRow
          /\ recent' = recent /\ adopting' = adopting
      BY <2>4 DEF FavoriteUnset, pendingVars
    <3>2. /\ Shown(favorite') = Shown(favorite) \ {g}
          /\ Order(favorite') = Lists!Within(Order(favorite), Shown(favorite) \ {g})
      BY <2>1, <3>1, WithoutKeeps, WithoutOrder
    <3>3. g \in Shown(favorite)
      BY <3>1 DEF Shown
    <3>4. QED
      BY <3>1, <3>2, <3>3 DEF Lists!Unfavor
  <2>5. ASSUME NEW g \in Games, RecentRecord(g)
        PROVE  Lists!Play(g)
    <3>1. recent' = Promoted(recent, g) /\ favorite' = favorite /\ adopting' = adopting
      BY <2>5 DEF RecentRecord, pendingVars
    <3>2. recent[g] # 0
      BY <3>1 DEF Promoted
    <3> DEFINE kept == Shown(recent') \ {g}
    <3>3. /\ kept \in SUBSET (Shown(recent) \ {g})
          /\ Shown(recent') = kept \cup {g}
          /\ \A a \in kept, b \in Shown(recent) \ (kept \cup {g}) : <<a, b>> \in Order(recent)
          /\ Order(recent') = Lists!Within(Order(recent), kept) \cup ({g} \X kept)
      BY <2>1, <3>1, <3>2, PromotedOrder
    <3>4. QED
      BY <3>1, <3>3 DEF Lists!Play
  <2>6. ASSUME NEW g \in Games, RecentRemove(g)
        PROVE  g \in Shown(recent) /\ Lists!Forget(g)
    <3>1. recent' = Without(recent, g) /\ recent[g] # NoRow
          /\ favorite' = favorite /\ adopting' = adopting
      BY <2>6 DEF RecentRemove, pendingVars
    <3>2. /\ Shown(recent') = Shown(recent) \ {g}
          /\ Order(recent') = Lists!Within(Order(recent), Shown(recent) \ {g})
      BY <2>1, <3>1, WithoutKeeps, WithoutOrder
    <3>3. g \in Shown(recent)
      BY <3>1 DEF Shown
    <3>4. QED
      BY <3>1, <3>2, <3>3 DEF Lists!Forget
  <2>7. ASSUME LegacyLoad PROVE Lists!Request
    <3>1. favorite' = favorite /\ recent' = recent /\ adopting = Idle
      BY <2>7 DEF LegacyLoad, listVars
    <3>2. adopting' # Idle
      BY <3>1
    <3>3. QED
      BY <3>1, <3>2 DEF Lists!Request
  <2>8. ASSUME LegacyPublish PROVE Lists!Replace
    <3>1. /\ adopting # Idle /\ adopting' = Idle
          /\ adopting.favorites \in OnionLists /\ adopting.recents \in OnionLists
          /\ favorite' = Published(adopting.favorites) /\ recent' = Published(adopting.recents)
      BY <2>1, <2>8 DEF LegacyPublish, AdoptInv
    <3>2. /\ favorite' \in Positions /\ Distinct(favorite')
          /\ recent' \in Positions /\ Distinct(recent')
      BY <3>1, PublishedPacks
    <3>3. Lists!Orders(Order(favorite'), Shown(favorite')) /\ Lists!Orders(Order(recent'), Shown(recent'))
      BY <3>2, PositionsOrder
    <3>4. Shown(favorite') \subseteq Games /\ Shown(recent') \subseteq Games
      BY InOrder
    <3>5. QED
      BY <3>1, <3>3, <3>4 DEF Lists!Replace
  <2>9. <<favorite, recent>>' # <<favorite, recent>> \/ adopting' # adopting
    OBVIOUS
  <2>10. \/ LegacyLoad \/ LegacyPublish
         \/ \E g \in Games : FavoriteSet(g) \/ FavoriteUnset(g) \/ RecentRecord(g) \/ RecentRemove(g)
    BY <2>9, Frames
  <2>11. QED
    BY <2>2, <2>3, <2>4, <2>5, <2>6, <2>7, <2>8, <2>10 DEF Lists!Next
<1>3. QED
  BY <1>1, <1>2, Invariance, PTL DEF Spec, ListsKept, Lists!Spec, Lists!lists
=============================================================================
